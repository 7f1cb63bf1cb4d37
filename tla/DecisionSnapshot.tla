-------------------------- MODULE DecisionSnapshot --------------------------
(***************************************************************************)
(* appointmentDecisionSnapshot.h: what a board logs of a migration         *)
(* decision, and the decision that the snapshot alone lets anybody         *)
(* reconstruct.  The association table's version, row counts and           *)
(* fingerprint are abstracted to "complete": all rows were captured.       *)
(***************************************************************************)
EXTENDS JoinPolicy

CONSTANT WakeMax    \* largest wakeGeneration: UINT32_MAX

ASSUME WakeAssumption == WakeMax \in Nat \ {0} /\ WakeMax >= 2 * proposalDelayCap

\* Unsigned addition and int32_t(later - earlier) >= 0 in the counter's width.
Plus(wake, rounds) == (wake + rounds) % (WakeMax + 1)
Reached(wake, actRound) ==
  (wake - actRound) % (WakeMax + 1) < (WakeMax + 1) \div 2

Actions ==
  {"CoalesceSingletons", "JoinLargerGroup", "RejectNotPreferred",
   "CancelNotPreferred", "RefreshProposal", "RejectWeakerThanPending",
   "StartProposal", "CancelHomeChanged", "CancelHomeCaughtUp",
   "AwaitActivation", "CommitProposal"}

Valid(s) ==
  /\ s.homeBssid # NoBssid /\ s.complete
  /\ \/ /\ s.kind = "ObserveCandidate"
        /\ s.targetBssid # NoBssid /\ s.targetBssid # s.homeBssid
     \/ s.kind = "CommitCheck" /\ s.pendingBssid # NoBssid

ReplayCommitCheck(s) ==
  IF s.pendingHome # s.homeBssid THEN "CancelHomeChanged"
  ELSE IF ~groupPreferred(s.pendingMembers, s.pendingBssid, s.homeMembers, s.homeBssid)
       THEN "CancelHomeCaughtUp"
  ELSE IF Reached(s.wakeGeneration, s.pendingActRound) THEN "CommitProposal"
  ELSE "AwaitActivation"

ReplayObserveCandidate(s) ==
  IF mayCoalesce(s.homeMembers, s.targetMembers, s.homeBssid, s.targetBssid)
  THEN "CoalesceSingletons"
  ELSE IF mayAdopt(s.homeMembers, s.targetMembers) THEN "JoinLargerGroup"
  ELSE IF ~mayPropose(s.homeMembers, s.homeBssid, s.targetMembers, s.targetBssid)
       THEN IF s.pendingBssid = s.targetBssid THEN "CancelNotPreferred"
            ELSE "RejectNotPreferred"
  ELSE IF s.pendingBssid = s.targetBssid /\ s.pendingHome = s.homeBssid
       THEN IF Reached(s.wakeGeneration, s.pendingActRound) THEN "CommitProposal"
            ELSE "RefreshProposal"
  ELSE IF /\ s.pendingBssid # NoBssid
          /\ ~groupPreferred(s.targetMembers, s.targetBssid,
                             s.pendingMembers, s.pendingBssid)
       THEN "RejectWeakerThanPending"
  ELSE "StartProposal"

Replay(s) ==
  IF ~Valid(s) THEN "InvalidSnapshot"
  ELSE IF s.kind = "CommitCheck" THEN ReplayCommitCheck(s)
  ELSE ReplayObserveCandidate(s)
=============================================================================
