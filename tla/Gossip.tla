------------------------------- MODULE Gossip -------------------------------
(***************************************************************************)
(* Association gossip between the boards (espRaw80211.ino, originEpoch.h). *)
(*                                                                         *)
(* Every board keeps, in RAM, a registry of the incarnation it accepts for *)
(* each origin (originEpochs) and at most one association record per       *)
(* origin (associations): which home the origin had selected, in which of  *)
(* its logical rounds, and how many rounds old that knowledge is.  A       *)
(* report carries the sender's own state in its header and relays other    *)
(* origins' records.  Before deep sleep the two tables are written to      *)
(* SPIFFS in separate writes; setup() reloads them.                        *)
(*                                                                         *)
(* Simplifications.                                                        *)
(*  - A report relays at most one record.  publishReport() rotates up to   *)
(*    three through a packet: such a packet is as many packets of one.     *)
(*  - A broadcast is heard at once by any set of running boards, or by     *)
(*    nobody: the radio does not store or repeat packets, so old news      *)
(*    travels in relayed records only.                                     *)
(*  - A random incarnation is the least one that no board remembers:       *)
(*    incarnations are only ever compared for equality.                    *)
(*  - The home that a record names is left out: it is carried along and    *)
(*    decides nothing here (Migration models what it is used for).         *)
(*                                                                         *)
(* A definition marked "Wrong:" is a deliberately broken variant of the    *)
(* one that follows it and is used by no action.                           *)
(***************************************************************************)
EXTENDS Integers, FiniteSets

CONSTANTS
  Board,        \* the boards (device MACs)
  Resettable,   \* boards that may be cold-reset or complete a test epoch
  Crashable,    \* boards that may panic or be reset by the watchdog
  Sleepers,     \* bound: boards that go to deep sleep (all of them do)
  Mortal,       \* boards that may lose power for good
  Epochs,       \* incarnations the random source can return
  Slots,        \* entries of each of the two tables: 32
  Fresh,        \* associationFreshnessCycles: 6
  AgeMax,       \* saturation of ageCycles: UINT32_MAX
  GenMax,       \* largest wakeGeneration before it wraps: UINT32_MAX
  MaxElapsed    \* most logical rounds one advanceRoundClock() may see

NoEpoch == 0

ASSUME EpochsAssumption == Epochs \subseteq Nat \ {NoEpoch}
ASSUME BoundsAssumption ==
  /\ Slots \in Nat \ {0} /\ Fresh \in Nat /\ AgeMax \in Nat /\ Fresh < AgeMax
  /\ GenMax \in Nat \ {0} /\ MaxElapsed \in Nat \ {0}

Origin == [origin : Board, epoch : Epochs]
Association == [origin : Board, epoch : Epochs, gen : 1 .. GenMax,
                age : 0 .. AgeMax]
Tables == [incarnation : Epochs \cup {NoEpoch}, wakeGeneration : 0 .. GenMax,
           originEpochs : SUBSET Origin, associations : SUBSET Association]

Blank == [incarnation |-> NoEpoch, wakeGeneration |-> 0,
          originEpochs |-> {}, associations |-> {}]

VARIABLES
  mode,     \* "asleep", "awake", "saving" (between the two writes), "off"
  ram,      \* the tables in memory, Blank while the board is not running
  flash     \* the same values in SPIFFS

vars == <<mode, ram, flash>>

Running(b) == mode[b] \in {"awake", "saving"}

-----------------------------------------------------------------------------
(* The registry and the association table.  s is a Tables record of board b *)

Remembers(s, o) == \E r \in s.originEpochs : r.origin = o
Same(s, o, e) == [origin |-> o, epoch |-> e] \in s.originEpochs

\* Wrong: a relay may replace an established incarnation, even the board's own.
AcceptsFromAnyone(b, s, o, e, direct) ==
  Remembers(s, o) \/ Cardinality(s.originEpochs) < Slots

\* acceptOrigin() returns true
Accepts(b, s, o, e, direct) ==
  /\ o = b => direct /\ e = s.incarnation
  /\ \/ Same(s, o, e)
     \/ direct /\ Remembers(s, o)
     \/ ~Remembers(s, o) /\ Cardinality(s.originEpochs) < Slots

\* Wrong: the records of the incarnation before are kept.
AcceptKeepingRecords(s, o, e) ==
  [s EXCEPT !.originEpochs = {r \in @ : r.origin # o} \cup {[origin |-> o, epoch |-> e]}]

\* ... and what it leaves in the tables when it does
Accept(s, o, e) ==
  IF Same(s, o, e) THEN s
  ELSE [s EXCEPT
         !.originEpochs = {r \in @ : r.origin # o} \cup {[origin |-> o, epoch |-> e]},
         !.associations = {a \in @ : a.origin = o => a.epoch = e}]

AcceptOrigin(b, s, o, e, direct) ==
  IF Accepts(b, s, o, e, direct) THEN Accept(s, o, e) ELSE s

\* Wrong: a relayed record counts as old as it was for the relay.
SameAge(age) == age

OlderByOne(age) == IF age = AgeMax THEN AgeMax ELSE age + 1

\* Wrong: the fresher copy wins, whatever its round.
MergesFresher(s, a, direct) ==
  /\ \A old \in s.associations : old.origin = a.origin => direct \/ a.age < old.age
  /\ \/ \E old \in s.associations : old.origin = a.origin
     \/ Cardinality(s.associations) < Slots

\* mergeAssociation() stores the record
Merges(s, a, direct) ==
  /\ \A old \in s.associations : old.origin = a.origin =>
       /\ a.gen >= old.gen
       /\ a.gen = old.gen => direct \/ a.age < old.age
  /\ \/ \E old \in s.associations : old.origin = a.origin
     \/ Cardinality(s.associations) < Slots

\* Wrong: the record is added without looking for the origin's old one.
AddAssociation(s, a, direct) ==
  [s EXCEPT !.associations = @ \cup {[a EXCEPT !.age = IF direct THEN 0 ELSE OlderByOne(a.age)]}]

MergeAssociation(s, a, direct) ==
  IF Merges(s, a, direct)
  THEN [s EXCEPT !.associations =
         {old \in @ : old.origin # a.origin} \cup
         {[a EXCEPT !.age = IF direct THEN 0 ELSE OlderByOne(a.age)]}]
  ELSE s

Record(o, e, g, age) == [origin |-> o, epoch |-> e, gen |-> g, age |-> age]

\* The record onReport() builds from a report's header.
HeaderRecord(m) ==
  Record(m.sender, m.incarnation, m.wakeGeneration, 0)

\* One relayed entry: never direct, whoever sent it.
OnEntry(b, s, a) ==
  IF Accepts(b, s, a.origin, a.epoch, FALSE)
  THEN MergeAssociation(Accept(s, a.origin, a.epoch), a, FALSE)
  ELSE s

OnReport(b, s, m) ==
  IF m.sender = b \/ ~Accepts(b, s, m.sender, m.incarnation, TRUE) THEN s
  ELSE LET heard == MergeAssociation(Accept(s, m.sender, m.incarnation),
                                     HeaderRecord(m), TRUE)
       IN  IF m.relayed = {} THEN heard
           ELSE OnEntry(b, heard, CHOOSE a \in m.relayed : TRUE)

IsFresh(a) == a.age <= Fresh

-----------------------------------------------------------------------------
(* Incarnations still remembered somewhere; a random one is none of these.  *)

EpochsOfTables(o, s) ==
  {r.epoch : r \in {x \in s.originEpochs : x.origin = o}} \cup
  {a.epoch : a \in {x \in s.associations : x.origin = o}}

EpochsOf(o) ==
  UNION {EpochsOfTables(o, ram[b]) \cup EpochsOfTables(o, flash[b]) : b \in Board}
  \cup {ram[o].incarnation, flash[o].incarnation}

\* Wrong: the random source is not seeded.
ConstantIncarnation(o) == {1} \cap Epochs

RandomIncarnation(o) ==
  LET unused == Epochs \ EpochsOf(o)
  IN  {e \in unused : \A f \in unused : e <= f}

-----------------------------------------------------------------------------
(* Actions *)

\* A farm of boards flashed and switched on: nothing persisted.
Init ==
  /\ mode = [b \in Board |-> "asleep"]
  /\ ram = [b \in Board |-> Blank]
  /\ flash = [b \in Board |-> Blank]

\* Wrong: ages do not survive the sleep.
ReloadedAsNew(f) ==
  [f EXCEPT !.associations =
    {[a EXCEPT !.age = 0] : a \in {x \in @ : Same(f, x.origin, x.epoch)}}]

\* loadOrigins() and loadAssociations(): records whose incarnation is not the
\* registered one are discarded.
Reloaded(f) ==
  [f EXCEPT !.associations = {a \in @ : Same(f, a.origin, a.epoch)}]

\* Wrong: the round number restarts at every boot.
AlwaysFirstRound(f) == 1

FirstRound(f) == IF f.wakeGeneration = 0 THEN 1 ELSE f.wakeGeneration

\* setup() after deep sleep, a panic, or the sleep that follows a reset.
Boot(b) ==
  /\ mode[b] = "asleep"
  /\ \E e \in IF flash[b].incarnation = NoEpoch THEN RandomIncarnation(b)
              ELSE {flash[b].incarnation} :
       LET gen == FirstRound(flash[b])
           started == [Reloaded(flash[b]) EXCEPT !.incarnation = e,
                                                 !.wakeGeneration = gen]
       IN  /\ ram' = [ram EXCEPT ![b] = AcceptOrigin(b, started, b, e, TRUE)]
           /\ flash' = [flash EXCEPT ![b].incarnation = e, ![b].wakeGeneration = gen]
  /\ mode' = [mode EXCEPT ![b] = "awake"]

\* publishReport() in an exchange: refresh the own record, then broadcast the
\* header and one of the fresh records.  Each hearer runs onReport(), also
\* between the two writes of a checkpoint or after a test reset.
Publish(b) ==
  /\ mode[b] = "awake" /\ flash[b].incarnation # NoEpoch
  /\ LET own == Record(b, ram[b].incarnation, ram[b].wakeGeneration, 0)
         s == MergeAssociation(ram[b], own, TRUE)
     IN  \E relayed \in {{}} \cup {{a} : a \in {x \in s.associations : IsFresh(x)}},
            hearers \in SUBSET {h \in Board \ {b} : Running(h)} :
           LET m == [sender |-> b, incarnation |-> s.incarnation,
                     wakeGeneration |-> s.wakeGeneration,
                     relayed |-> relayed]
           IN  ram' = [h \in Board |-> IF h = b THEN s
                                      ELSE IF h \in hearers THEN OnReport(h, ram[h], m)
                                      ELSE ram[h]]
  /\ UNCHANGED <<mode, flash>>

\* Wrong: no saturation.
AgedUnbounded(age, k) == age + k

Aged(age, k) == IF k > AgeMax - age THEN AgeMax ELSE age + k

\* advanceRoundClock() sees k elapsed rounds, some of them slept through.
AdvanceRound(b, k) ==
  /\ mode[b] = "awake" /\ flash[b].incarnation # NoEpoch
  /\ LET aged == [ram[b] EXCEPT !.associations =
                    {[a EXCEPT !.age = Aged(a.age, k)] : a \in @}]
     IN  IF k > GenMax - aged.wakeGeneration
         THEN \E e \in RandomIncarnation(b) :
                LET wrapped == [aged EXCEPT !.incarnation = e, !.wakeGeneration = 1]
                IN  /\ ram' = [ram EXCEPT ![b] = AcceptOrigin(b, wrapped, b, e, TRUE)]
                    /\ flash' = [flash EXCEPT ![b].incarnation = e,
                                              ![b].wakeGeneration = 1]
         ELSE LET gen == aged.wakeGeneration + k
              IN  /\ ram' = [ram EXCEPT ![b] = [aged EXCEPT !.wakeGeneration = gen]]
                  /\ flash' = [flash EXCEPT ![b].wakeGeneration = gen]
  /\ UNCHANGED mode

\* advanceRoundClock() reaches executeTestReset(): both copies of the tables
\* and the persisted identity are cleared, the identity in RAM is not.
TestReset(b) ==
  /\ b \in Resettable
  /\ mode[b] = "awake" /\ flash[b].incarnation # NoEpoch
  /\ ram' = [ram EXCEPT ![b].originEpochs = {}, ![b].associations = {}]
  /\ flash' = [flash EXCEPT ![b] = Blank]
  /\ UNCHANGED mode

\* saveAssociations(), the first of the two writes of a checkpoint ...
SaveAssociations(b) ==
  /\ b \in Sleepers /\ mode[b] = "awake"
  /\ flash' = [flash EXCEPT ![b].associations = ram[b].associations]
  /\ mode' = [mode EXCEPT ![b] = "saving"]
  /\ UNCHANGED ram

\* ... and saveOrigins(), after which sleepForExecutor() may still find that
\* the next window is too close to sleep.
SaveOriginsStayAwake(b) ==
  /\ mode[b] = "saving" /\ flash[b].incarnation # NoEpoch
  /\ flash' = [flash EXCEPT ![b].originEpochs = ram[b].originEpochs]
  /\ mode' = [mode EXCEPT ![b] = "awake"]
  /\ UNCHANGED ram

\* Deep sleep.  After a test reset maximumAwakeSleep() and
\* sleepForTimingRecovery() write the old round number back, the reset's own
\* sleep does not.
SaveOriginsAndSleep(b) ==
  /\ mode[b] = "saving"
  /\ \E gen \in {ram[b].wakeGeneration} \cup
                IF flash[b].incarnation = NoEpoch THEN {0} ELSE {} :
       flash' = [flash EXCEPT ![b].originEpochs = ram[b].originEpochs,
                              ![b].wakeGeneration = gen]
  /\ mode' = [mode EXCEPT ![b] = "asleep"]
  /\ ram' = [ram EXCEPT ![b] = Blank]

\* A panic or watchdog reset: RAM is lost, the next boot is not a cold one.
Crash(b) ==
  /\ b \in Crashable /\ Running(b)
  /\ mode' = [mode EXCEPT ![b] = "asleep"]
  /\ ram' = [ram EXCEPT ![b] = Blank]
  /\ UNCHANGED flash

\* EN pin or power-on: beginColdResetTestEpoch() clears everything and sleeps.
ColdReset(b) ==
  /\ b \in Resettable /\ mode[b] # "off"
  /\ mode' = [mode EXCEPT ![b] = "asleep"]
  /\ ram' = [ram EXCEPT ![b] = Blank]
  /\ flash' = [flash EXCEPT ![b] = Blank]

\* The board is taken out of the farm.
PowerOff(b) ==
  /\ b \in Mortal /\ mode[b] # "off"
  /\ mode' = [mode EXCEPT ![b] = "off"]
  /\ ram' = [ram EXCEPT ![b] = Blank]
  /\ UNCHANGED flash

Step(b) ==
  \/ Boot(b)
  \/ Publish(b)
  \/ \E k \in 1 .. MaxElapsed : AdvanceRound(b, k)
  \/ TestReset(b)
  \/ SaveAssociations(b)
  \/ SaveOriginsStayAwake(b)
  \/ SaveOriginsAndSleep(b)
  \/ Crash(b)
  \/ ColdReset(b)
  \/ PowerOff(b)

Next == \E b \in Board : Step(b)

Spec == Init /\ [][Next]_vars

-----------------------------------------------------------------------------
(* Invariants *)

TypeOK ==
  /\ mode \in [Board -> {"asleep", "awake", "saving", "off"}]
  /\ ram \in [Board -> Tables]
  /\ flash \in [Board -> Tables]

\* A board's records and its registry never disagree: a record about another
\* board is always one of the incarnation the registry holds for it, although
\* both tables change under the callback and are saved by separate writes.
EpochConsistent ==
  \A b \in Board : \A a \in ram[b].associations :
    a.origin # b => Same(ram[b], a.origin, a.epoch)

\* An origin is registered once and has one record (otherwise listenerCount()
\* would count a board twice and a group would look larger than it is).
OnePerOrigin(S) == \A x, y \in S : x.origin = y.origin => x = y

UniqueOrigins ==
  \A b \in Board :
    /\ OnePerOrigin(ram[b].originEpochs) /\ OnePerOrigin(ram[b].associations)
    /\ OnePerOrigin(flash[b].originEpochs) /\ OnePerOrigin(flash[b].associations)

KnownRecords ==
  UNION {ram[b].associations \cup flash[b].associations : b \in Board}

\* Nobody holds a record of a board's present incarnation from a round that
\* the board has yet to reach.  If a restart took the round counter back,
\* mergeAssociation() would reject the board's own direct reports as older
\* until the counter had caught up.
NoFutureGeneration ==
  \A a \in KnownRecords :
    a.epoch = flash[a.origin].incarnation => a.gen <= flash[a.origin].wakeGeneration

\* The age of a board's own record is the number of rounds since it was last
\* published: nothing relayed by others ever refreshes or replaces it, and no
\* round is missed or counted twice across sleep.
OwnAgeExact ==
  \A b \in Board : \A a \in ram[b].associations :
    (a.origin = b /\ flash[b].incarnation # NoEpoch) =>
      /\ a.epoch = ram[b].incarnation
      /\ a.age = Aged(0, ram[b].wakeGeneration - a.gen)

-----------------------------------------------------------------------------
(* Action properties *)

StaysUp(b) == Running(b) /\ Running(b)'

\* A running board changes the incarnation it has registered for an origin
\* only to the one the origin has now: old or forged relays cannot roll an
\* origin back (originEpoch.h).
RegistryFollowsOrigin ==
  [][\A b \in Board : \A r \in ram[b].originEpochs, s \in ram'[b].originEpochs :
       (StaysUp(b) /\ r.origin = s.origin /\ r.epoch # s.epoch) =>
          s.epoch = flash'[s.origin].incarnation]_vars

\* A late, duplicated or relayed record of an older round never replaces one
\* of a newer round of the same incarnation (mergeAssociation()).
GenerationsAdvance ==
  [][\A b \in Board : \A r \in ram[b].associations, s \in ram'[b].associations :
       (StaysUp(b) /\ r.origin = s.origin /\ r.epoch = s.epoch) => s.gen >= r.gen]_vars

\* No immortal rumours: a record that appears anywhere, in RAM or in SPIFFS,
\* is either its origin's own broadcast of this very round or at least as old
\* as some copy of the same round was before.  A record that is gone
\* everywhere cannot come back, whatever resets and relays do.
RumoursOnlyAge ==
  [][\A s \in KnownRecords' \ KnownRecords :
       \/ /\ mode[s.origin] = "awake" /\ s.age = 0
          /\ s.epoch = ram[s.origin].incarnation /\ s.gen = ram[s.origin].wakeGeneration
       \/ \E r \in KnownRecords :
            /\ r.origin = s.origin /\ r.epoch = s.epoch /\ r.gen = s.gen
            /\ r.age <= s.age]_vars

-----------------------------------------------------------------------------
(* News of o as Rumours sees it.  What b may still use is its RAM while it    *)
(* runs, and what it has already written while it sleeps or is about to.      *)

Usable(b, o) ==
  {a.age : a \in {x \in (IF Running(b) THEN ram[b].associations ELSE {}) \cup
                       (IF mode[b] \in {"saving", "asleep"} THEN flash[b].associations
                        ELSE {}) : x.origin = o}}

NewsAge(b, o) ==
  IF Usable(b, o) = {} THEN -1
  ELSE CHOOSE n \in Usable(b, o) : \A k \in Usable(b, o) : n <= k
=============================================================================
