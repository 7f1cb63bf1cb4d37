------------------------------ MODULE Migration ------------------------------
(***************************************************************************)
(* How one board chooses and leaves its home beacon (espRaw80211.ino).     *)
(*                                                                         *)
(* The board persists its home, one pending proposal to leave it and the   *)
(* credibility of the home.  At the end of every appointment of its plan   *)
(* it may decide: a scout appointment, or a visitor heard at home, can     *)
(* move a singleton at once and start, refresh or commit the proposal of   *)
(* a board that has company; a healthy, full home appointment can commit   *)
(* or cancel the proposal.  What it knows of group sizes are the fresh     *)
(* association records.  The receive callback changes them at any time     *)
(* while the board listens, between the readings of one decision too; its  *)
(* own is only rewritten when it next reports.                             *)
(*                                                                         *)
(* Simplifications.                                                        *)
(*  - Of the fresh association records only their numbers are kept: fresh  *)
(*    says how many other boards' records name each beacon (and NoBssid,   *)
(*    of how many there is none), own which beacon the board's own record  *)
(*    names (NoBssid when there is none, or it is too old to be counted).  *)
(*    Gossip models where records come from.                               *)
(*  - A decision counts the home before the target; records may arrive     *)
(*    between the two (Received).  That records arrive before the home is  *)
(*    counted, or after the decision, are steps of their own, those        *)
(*    between the commit check and the visitors of one appointment         *)
(*    included.  visitorInvitation() counts its candidates at the moment   *)
(*    at which the home is counted.                                        *)
(*  - A plan is its home and the scouts it has still to visit; the times   *)
(*    of appointments are left out.  Appointments that lie close together  *)
(*    are executed as one interval, so that a scout may finish after       *)
(*    another one has changed the home, and the plan is only dropped at    *)
(*    the end of an interval.                                              *)
(*  - An interval begins with a report, seconds before any appointment of  *)
(*    it ends: making a plan and the first report are one step.            *)
(*  - A home without credibility is not remembered: it has none anyway.    *)
(*  - Which one beacon a board with company scouts is left open.           *)
(*  - Of the panics between two writes those are modelled that interrupt   *)
(*    a new proposal, and those that interrupt a move after its first      *)
(*    write.                                                               *)
(*                                                                         *)
(* A definition marked "Wrong:" is a deliberately broken variant of the    *)
(* one that follows it and is used by no action.                           *)
(***************************************************************************)
EXTENDS DecisionSnapshot, FiniteSets

CONSTANTS
  Bssid,        \* the beacons a board can see
  Peers,        \* how many other boards there are
  Burst,        \* bound on the change of one count at a time
  BlindSleeps,  \* timingRecoveryBlindSleeps: 2
  Perils        \* which of "expiry", "recovery", "reset", "panic" may happen

ASSUME BssidAssumption == Bssid \subseteq Nat \ {NoBssid}
ASSUME PeersAssumption == Peers \in Nat
ASSUME BurstAssumption == Burst \in Nat
ASSUME BlindSleepsAssumption == BlindSleeps \in Nat

Beacon == Bssid \cup {NoBssid}

\* The persisted variables spiffsBeacon, spiffsProposal*, spiffs*Credibility*
\* and spiffsTimingRecovery.
Proposal == [beacon : Beacon, home : Beacon, actRound : 0 .. WakeMax,
             members : 0 .. Peers + 1]
Persisted == [beacon : Beacon, proposal : Proposal, credibilityHome : Beacon,
              homeCredibility : 0 .. credibilityCap, timingRecovery : 0 .. BlindSleeps + 1]
Plan == [home : Beacon, scouts : SUBSET Bssid]

NoProposal == [beacon |-> NoBssid, home |-> NoBssid, actRound |-> 0, members |-> 0]
NoPlan == [home |-> NoBssid, scouts |-> {}]
Cleared == [beacon |-> NoBssid, proposal |-> NoProposal, credibilityHome |-> NoBssid,
            homeCredibility |-> 0, timingRecovery |-> 0]

\* What the fresh records of the other boards can add up to.
CountsOf(who) == [b \in Beacon |-> Cardinality({p \in 1 .. Peers : who[p] = b})]
Tables == {CountsOf(who) : who \in [1 .. Peers -> Beacon]}
NothingKnown == CountsOf([p \in 1 .. Peers |-> NoBssid])
Reachable == [f \in Tables |->
                {g \in Tables : \A b \in Beacon : g[b] - f[b] \in -Burst .. Burst}]

VARIABLES
  spiffs,    \* the persisted variables
  wake,      \* wakeGeneration, the board's count of logical rounds
  fresh,     \* how many other boards' fresh records name each beacon, or none
  own,       \* the beacon that the board's own fresh record names
  plan,      \* the plan being executed, or NoPlan
  visitors,  \* a home appointment has ended, and its visitors are not answered
  \* History:
  waited,    \* counts of wake since the pending proposal was started, if not torn
  torn       \* a panic has left the proposal without the round computed for it

vars == <<spiffs, wake, fresh, own, plan, visitors, waited, torn>>
history == <<waited, torn>>

-----------------------------------------------------------------------------
(* Decisions.  s is a Persisted record, h the home that the appointment's   *)
(* plan was made for, t the group met there; homeMembers and targetMembers  *)
(* are what listenerCount() returned for them.                              *)

\* Counted(f, b) is the count of b while the records are f.
Counted(f, bssid) == f[bssid] + (IF own = bssid THEN 1 ELSE 0)
listenerCount(bssid) == Counted(fresh, bssid)

\* captureDecisionSnapshot()
Captured(kind, s, h, homeMembers, t, targetMembers) ==
  [kind |-> kind, complete |-> TRUE, wakeGeneration |-> wake,
   homeBssid |-> h, homeMembers |-> homeMembers,
   targetBssid |-> t, targetMembers |-> IF t = NoBssid THEN 0 ELSE targetMembers,
   pendingBssid |-> s.proposal.beacon, pendingHome |-> s.proposal.home,
   pendingMembers |-> s.proposal.members, pendingActRound |-> s.proposal.actRound]

CredibilityOf(s, h) == IF s.credibilityHome = h THEN s.homeCredibility ELSE 0

Credited(s, h, credibility) ==
  [s EXCEPT !.homeCredibility = credibility,
            !.credibilityHome = IF credibility = 0 THEN NoBssid ELSE h]

updateHomeCredibility(s, h, qualified, heardPeer) ==
  LET old == CredibilityOf(s, h)
  IN  Credited(s, h, IF qualified THEN reinforce(old, heardPeer) ELSE decay(old))

\* commitHome()
CommitHome(s, t) ==
  IF t \in {NoBssid, s.beacon} THEN s
  ELSE Credited([s EXCEPT !.beacon = t, !.proposal = NoProposal], t, 0)

Pending(s, h, t) == s.proposal.beacon = t /\ s.proposal.home = h
OutranksPending(s, t, targetMembers) ==
  s.proposal.beacon # NoBssid =>
    groupPreferred(targetMembers, t, s.proposal.members, s.proposal.beacon)

\* The branch that observeGroupForMigration() takes ...
ObservedAction(s, h, homeMembers, t, targetMembers) ==
  IF mayCoalesce(homeMembers, targetMembers, h, t) THEN "CoalesceSingletons"
  ELSE IF mayAdopt(homeMembers, targetMembers) THEN "JoinLargerGroup"
  ELSE IF ~mayPropose(homeMembers, h, targetMembers, t)
       THEN IF s.proposal.beacon = t THEN "CancelNotPreferred" ELSE "RejectNotPreferred"
  ELSE IF Pending(s, h, t)
       THEN IF Reached(wake, s.proposal.actRound) THEN "CommitProposal"
            ELSE "RefreshProposal"
  ELSE IF OutranksPending(s, t, targetMembers) THEN "StartProposal"
  ELSE "RejectWeakerThanPending"

\* Wrong: the activation round that was stored before is kept.
StartedKeepingRound(s, h, t, targetMembers) ==
  [beacon |-> t, home |-> h, actRound |-> s.proposal.actRound, members |-> targetMembers]

Started(s, h, t, targetMembers) ==
  [beacon |-> t, home |-> h, members |-> targetMembers,
   actRound |-> Plus(wake, proposalDelay(CredibilityOf(s, h)))]

Moving == {"CoalesceSingletons", "JoinLargerGroup", "CommitProposal"}

\* A confirmed proposal takes over the present size of its target, ...
Confirmed(s, action, targetMembers) ==
  IF action \in {"RefreshProposal", "CommitProposal"}
  THEN [s EXCEPT !.proposal.members = targetMembers] ELSE s

\* ... and this is what an observation leaves behind.
AfterObserving(s, h, homeMembers, t, targetMembers) ==
  LET action == ObservedAction(s, h, homeMembers, t, targetMembers)
  IN  IF action \in Moving THEN CommitHome(Confirmed(s, action, targetMembers), t)
      ELSE IF action = "CancelNotPreferred" THEN [s EXCEPT !.proposal = NoProposal]
      ELSE IF action = "StartProposal"
           THEN [s EXCEPT !.proposal = Started(s, h, t, targetMembers)]
      ELSE Confirmed(s, action, targetMembers)

\* Wrong: the proposal may date from another home.
CheckedActionAnyHome(s, h, homeMembers) ==
  IF ~groupPreferred(s.proposal.members, s.proposal.beacon, homeMembers, h)
  THEN "CancelHomeCaughtUp"
  ELSE IF ~Reached(wake, s.proposal.actRound) THEN "AwaitActivation"
  ELSE "CommitProposal"

\* The branch that maybeCommitMigration() takes when a proposal is pending ...
CheckedAction(s, h, homeMembers) ==
  IF s.proposal.home # h THEN "CancelHomeChanged"
  ELSE IF ~groupPreferred(s.proposal.members, s.proposal.beacon, homeMembers, h)
       THEN "CancelHomeCaughtUp"
  ELSE IF ~Reached(wake, s.proposal.actRound) THEN "AwaitActivation"
  ELSE "CommitProposal"

\* ... and what it leaves behind.
AfterChecking(s, h, homeMembers) ==
  IF s.proposal.beacon = NoBssid THEN s
  ELSE LET action == CheckedAction(s, h, homeMembers)
       IN  IF action \in {"CancelHomeChanged", "CancelHomeCaughtUp"}
           THEN [s EXCEPT !.proposal = NoProposal]
           ELSE IF action = "CommitProposal" THEN CommitHome(s, s.proposal.beacon)
           ELSE s

\* visitorInvitation(): of the homes that visitors named, the best group.
Invitation(named, h) ==
  LET targets == {t \in named : t # h /\ listenerCount(t) >= 1}
  IN  IF targets = {} THEN NoBssid
      ELSE CHOOSE t \in targets : \A u \in targets \ {t} :
             groupPreferred(listenerCount(t), t, listenerCount(u), u)

\* A completed home appointment of the present home, before its visitors.
AfterHome(s, h, qualified, heardPeer) ==
  LET judged == updateHomeCredibility(s, h, qualified, heardPeer)
  IN  IF qualified THEN AfterChecking(judged, h, listenerCount(h)) ELSE judged

-----------------------------------------------------------------------------
(* Actions *)

Init ==
  /\ spiffs = Cleared
  /\ wake = 1
  /\ fresh = NothingKnown /\ own = NoBssid
  /\ plan = NoPlan /\ visitors = FALSE
  /\ waited = 0 /\ torn = FALSE

\* The history of a proposal starts anew with every one that is not the one
\* that was pending; timed says that its round has been written.
Written(s, timed) ==
  /\ spiffs' = s
  /\ LET same == /\ spiffs'.proposal.beacon = spiffs.proposal.beacon
                 /\ spiffs'.proposal.home = spiffs.proposal.home
     IN  /\ waited' = IF same THEN waited ELSE 0
         /\ torn' = IF same THEN torn ELSE ~timed
Persist(s) == Written(s, TRUE)

\* A packet comes in, with records of one peer or of several, or some records
\* grow too old, or nothing happens.
Received == Reachable[fresh]

Evidence ==
  /\ fresh' \in Received
  /\ UNCHANGED <<spiffs, wake, own, plan, visitors, history>>

\* publishReport() rewrites the board's own record.
Publish ==
  /\ plan # NoPlan /\ ~visitors /\ spiffs.beacon # NoBssid
  /\ own' = spiffs.beacon
  /\ UNCHANGED <<spiffs, wake, fresh, plan, visitors, history>>

\* The board has executed no plan, and so not reported, for more than six rounds.
OwnRecordExpires ==
  /\ "expiry" \in Perils
  /\ plan = NoPlan
  /\ own' = NoBssid
  /\ UNCHANGED <<spiffs, wake, fresh, plan, visitors, history>>

\* advanceRoundClock(): at its largest value the counter restarts at 1 with a
\* new incarnation, which discards the board's own record.
Round ==
  /\ ~visitors
  /\ wake' = IF wake = WakeMax THEN 1 ELSE wake + 1
  /\ own' = IF wake = WakeMax THEN NoBssid ELSE own
  /\ waited' = LET counts == waited + IF wake = WakeMax THEN 2 ELSE 1
               IN  IF spiffs.proposal.beacon = NoBssid \/ torn THEN 0
                   ELSE IF counts > proposalDelayCap THEN proposalDelayCap ELSE counts
  /\ UNCHANGED <<spiffs, fresh, plan, visitors, torn>>

\* makeExecutionPlan() succeeds, and the board sends the first report of the
\* plan's first interval; h is the home, or the one chosen for want of one.
\* Singletons scout any of the other beacons, once each, others one.
MakePlan(h) ==
  /\ plan = NoPlan
  /\ spiffs.beacon \in {NoBssid, h}
  /\ \E scouts \in SUBSET (Bssid \ {h}) :
       /\ listenerCount(h) # 1 => Cardinality(scouts) <= 1
       /\ plan' = [home |-> h, scouts |-> scouts]
  /\ Persist([spiffs EXCEPT !.beacon = h, !.timingRecovery = 0])
  /\ own' = h
  /\ UNCHANGED <<wake, fresh, visitors>>

Recovered(s) ==
  IF s.timingRecovery >= BlindSleeps
  THEN [s EXCEPT !.timingRecovery = BlindSleeps + 1, !.beacon = NoBssid]
  ELSE [s EXCEPT !.timingRecovery = @ + 1]

\* recoverMissingHomeTiming(): no beacon of the home (or of any) was seen.
RecoverMissingHomeTiming ==
  /\ "recovery" \in Perils
  /\ plan = NoPlan
  /\ Persist(Recovered(spiffs))
  /\ UNCHANGED <<wake, fresh, own, plan, visitors>>

\* A home appointment of the plan ends while the home is still the plan's.
FinishHome(qualified, heardPeer) ==
  /\ plan # NoPlan /\ ~visitors /\ spiffs.beacon = plan.home
  /\ Persist(AfterHome(spiffs, plan.home, qualified, heardPeer))
  /\ visitors' = (spiffs'.beacon = plan.home)
  /\ UNCHANGED <<wake, fresh, own, plan>>

\* It goes on with the homes that visitors named, if it has not moved.
AnswerVisitors(named) ==
  /\ visitors /\ visitors' = FALSE
  /\ LET t == Invitation(named, plan.home)
     IN  \/ /\ t = NoBssid
            /\ UNCHANGED <<spiffs, fresh, history>>
         \/ /\ t # NoBssid
            /\ fresh' \in Received
            /\ Persist(AfterObserving(spiffs, plan.home, listenerCount(plan.home),
                                      t, Counted(fresh', t)))
  /\ UNCHANGED <<wake, own, plan>>

\* A scout appointment at t ends with some packet of a sender that selected t
\* (positive) or without.  Whatever the home is by now, t is compared with the
\* home of the plan.
FinishScout(t, positivePackets) ==
  /\ t \in plan.scouts /\ ~visitors
  /\ plan' = [plan EXCEPT !.scouts = @ \ {t}]
  /\ \/ /\ ~mayEvaluateScout(positivePackets)
        /\ UNCHANGED <<spiffs, fresh, history>>
     \/ /\ mayEvaluateScout(positivePackets)
        /\ fresh' \in Received
        /\ Persist(AfterObserving(spiffs, plan.home, listenerCount(plan.home),
                                  t, Counted(fresh', t)))
  /\ UNCHANGED <<wake, own, visitors>>

\* The plan is exhausted, or an interval ends with the home changed, or the
\* board goes to sleep or restarts: the next plan is made afresh.
DropPlan ==
  /\ plan # NoPlan /\ plan' = NoPlan /\ visitors' = FALSE
  /\ UNCHANGED <<spiffs, wake, fresh, own, history>>

\* A panic while StartProposal or commitHome() writes its variables, each a
\* file of its own: the first n of a proposal have been written, or the first
\* of a move.
PanicWhileWriting(t) ==
  /\ "panic" \in Perils
  /\ t \in IF visitors THEN Bssid \ {plan.home} ELSE plan.scouts
  /\ fresh' \in Received
  /\ LET targetMembers == Counted(fresh', t)
         action == ObservedAction(spiffs, plan.home, listenerCount(plan.home), t, targetMembers)
         start == Started(spiffs, plan.home, t, targetMembers)
     IN  \/ /\ action = "StartProposal"
            /\ \E n \in 1 .. 3 :
                 Written([spiffs EXCEPT !.proposal.beacon = t,
                                        !.proposal.home = IF n >= 2 THEN start.home ELSE @,
                                        !.proposal.actRound = IF n = 3 THEN start.actRound ELSE @],
                         n = 3)
         \/ /\ action \in Moving /\ t # spiffs.beacon
            /\ Persist([Confirmed(spiffs, action, targetMembers) EXCEPT !.beacon = t])
  /\ plan' = NoPlan /\ visitors' = FALSE
  /\ UNCHANGED <<wake, own>>

\* A test reset or a cold one clears everything, and the board restarts.
TestReset ==
  /\ "reset" \in Perils
  /\ Persist(Cleared)
  /\ wake' = 1
  /\ fresh' = NothingKnown /\ own' = NoBssid
  /\ plan' = NoPlan /\ visitors' = FALSE

Next ==
  \/ Evidence \/ Publish \/ OwnRecordExpires \/ Round
  \/ \E h \in Bssid : MakePlan(h)
  \/ RecoverMissingHomeTiming
  \/ \E qualified \in BOOLEAN :
       \E heardPeer \in {FALSE, qualified} : FinishHome(qualified, heardPeer)
  \/ \E named \in SUBSET (Bssid \ {plan.home}) : AnswerVisitors(named)
  \/ \E t \in Bssid, positivePackets \in 0 .. 1 : FinishScout(t, positivePackets)
  \/ DropPlan
  \/ \E t \in Bssid : PanicWhileWriting(t)
  \/ TestReset

Spec == Init /\ [][Next]_vars

-----------------------------------------------------------------------------
(* Properties *)

TypeOK ==
  /\ spiffs \in Persisted
  /\ wake \in 1 .. WakeMax
  /\ fresh \in Tables /\ own \in Beacon
  /\ plan \in Plan /\ visitors \in BOOLEAN
  /\ waited \in 0 .. proposalDelayCap /\ torn \in BOOLEAN

\* The farm's analysis replays a logged snapshot with a second copy of the
\* decision's rules.  Whatever decision the board may have to take next and
\* whatever it counts, the copies take the same branch, provided that the
\* decision counts what its snapshot counted.  (Both count for themselves: when
\* a record that matters arrives in between, the snapshot need not replay.)
DecisionsReplay ==
  LET h == plan.home
      homeMembers == listenerCount(h)
  IN  h # NoBssid =>
        /\ \A t \in Bssid \ {h}, targetMembers \in 0 .. Peers + 1 :
             ObservedAction(spiffs, h, homeMembers, t, targetMembers) =
               Replay(Captured("ObserveCandidate", spiffs, h, homeMembers, t, targetMembers))
        /\ spiffs.proposal.beacon # NoBssid =>
             CheckedAction(spiffs, h, homeMembers) =
               Replay(Captured("CommitCheck", spiffs, h, homeMembers, NoBssid, 0))

Moves == spiffs.beacon # NoBssid /\ spiffs'.beacon \notin {NoBssid, spiffs.beacon}

\* A board that counts company at home moves only to the target of a proposal
\* that was made at the plan's home and has been pending for the shortest delay
\* at least, refreshed or not, whatever records arrive while it decides.  (At
\* the counter's wrap one count passes without a round.)  The delay is not
\* promised for a proposal that a panic left without its round: the next
\* confirmation may carry it out at once.
PatientMoves ==
  [][(Moves /\ listenerCount(plan.home) # 1) =>
       /\ spiffs'.beacon = spiffs.proposal.beacon
       /\ spiffs.proposal.home = plan.home
       /\ waited >= proposalDelay(0) \/ torn]_vars

\* When the evidence stops changing and no recovery or reset takes the home
\* away, the board sooner or later stays where it is, whatever proposals are
\* pending, whatever it scouts and whenever it reports.
Calm ==
  /\ fresh' = fresh
  /\ spiffs'.beacon # NoBssid
  /\ plan' # NoPlan \/ plan = NoPlan \/ spiffs' = spiffs  \* no panic while writing
Settles == <>[][Calm]_vars => <>[][spiffs'.beacon = spiffs.beacon]_vars

\* MIGRATION_PROTOCOL.md: a member of an established group moves only to a
\* group that outranks its current one.
ImprovesOnCurrentHome ==
  [][(Moves /\ listenerCount(spiffs.beacon) >= 2) =>
       LET t == spiffs'.beacon
           seen == IF t = spiffs.proposal.beacon THEN {spiffs.proposal.members} ELSE {}
       IN  \E m \in {listenerCount(t)} \cup seen :
             groupPreferred(m, t, listenerCount(spiffs.beacon), spiffs.beacon)]_vars
=============================================================================
