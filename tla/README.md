# A verification project for espRaw80211

The firmware (`espRaw80211.ino` and its headers) makes battery-powered boards
meet without a server: every board selects a Wi-Fi beacon as its *home*, wakes
in the exchange windows that the beacon's clock defines, gossips over ESP-NOW
about who selected which beacon, and moves to the beacon where the larger group
is. A farm of such boards is reset again and again to measure how they converge.
Scripts log the boards' serial output, ask for the resets, deploy new firmware
and analyse what the logs say.

This directory holds TLA+ models of both halves, the TLC runs that check them
and the proofs that TLAPS checks. `PROJECT.json` maps every definition to the
lines it models, and lists the runs, the hazards and the known disagreements
between the code and its documentation.

## 1. Inventory

| Component | State | Operations | Hard about it |
| --- | --- | --- | --- |
| Origin registry and association gossip (`originEpoch.h`, `acceptOrigin` .. `listenerCount`, `onReport`, `publishReport`) | registry origin -> incarnation, one association record per origin, in RAM and in SPIFFS; identity and round number | broadcast, receive, relay, age, checkpoint, reload, test reset, cold reset | relayed and duplicated news, callbacks between two writes, panics, resets of a board whose news still circulates |
| Home selection and migration (`singletonJoinPolicy.h`, `commitHome` .. `maybeCommitMigration`, `visitorInvitation`) | home, pending proposal, credibility of the home | decisions at the end of home and scout appointments | stale plan, stale counts, records that arrive in the middle of a decision, panics between writes, oscillation |
| Decision snapshots and their replay (`appointmentDecisionSnapshot.h`, `scripts/decision_snapshots.py`) | the trace of one exchange | capture, print, parse, replay | two copies of the rules that must agree, lines that are lost |
| Logical round clock (`rendezvousExecutor.h`, `advanceRoundClock`) | remainder, time of the last advance, carried elapsed time | advance, carry over the kinds of sleep | time that is lost or counted twice, panics |
| Unattended reset experiment (`maybeResetAfterStableReunion`) | streak, misses, commit, delay, health of the round | one evaluation per elapsed round | several rounds at once, boundaries, irrevocable commit |
| Planner and executor (`rendezvousPlanner.h`, `makeExecutionPlan`, `sleepForExecutor`, `intervalExecutorLoop`) | the plan: appointments, intervals | plan, execute, sleep | half-open windows modulo a period, merging, sleeping too long |
| Wake cycle (`handleStutterWake`, `recoverMissingHomeTiming`, `maximumAwakeSleep`) | stutter target, count of blind sleeps | sleeps outside the plan | timeouts, a beacon that is gone |
| Beacon survey and visibility claims | packet log, claims | scan, merge, vote | full tables |
| Farm supervisor (`scripts/test_farm_supervisor.py`) | candidate home, time of the reset, observation floors; all in memory | poll, arm, request, acknowledge, give up | partial acknowledgment, its own restart, stale observations |
| Serial loggers (`scripts/timestamp_serial.py`) | port, session, request file | read, cut, reconnect, serve a reset request | a request that comes while another is served, lines cut by a disconnection |
| Deployment (`scripts/deploy_usb_screens.py`) | sessions, workers, failures | stop loggers, flash, start loggers | one step of several failing, the port shared by two processes |
| Evidence from the logs (`scripts/rendezvous_evidence.py`) | identity, exchange that is open | read records, select a tail | lost, cut and joined lines, sessions |
| Analysis of the logs (`scripts/analyze_rendezvous.py`) | loop variables over the logs of all boards | convergences, recoveries, clean epochs, topologies, foreign coverage | views of different ages, late and repeated markers, boundaries of intervals |
| Simulator models, build files | - | - | pure tables |

Interactions. The executor drives everything on a board from `loop()`; the only
concurrent code is the ESP-NOW receive callback (`onReport`), which changes the
gossip tables at any time while the radio is on. Gossip feeds migration through
`listenerCount()`. The planner's plan decides which appointment ends when;
migration decides at the ends of appointments. The round clock ages records,
ripens proposals and drives the reset experiment. What survives deep sleep is in
SPIFFS, one file per variable or table: nothing is atomic beyond one file.
On the host, one logger per board appends to the board's log and looks for the
file by which the supervisor asks for a reset; the supervisor sees boards only
through these logs; a deployment kills and starts loggers next to both. The
analysis reads the same logs, whole or from a tail.

What makes each correct: the gossip never counts a board twice, never mixes
incarnations, never rejuvenates news, and forgets who is gone; migration never
moves a board with company before its proposal has ripened and comes to rest;
the two copies of its rules agree; the clock neither loses nor repeats rounds; a
streak and only a streak commits a reset, which then takes place; a plan serves
the beacons' windows and no sleep covers one of the home's. The supervisor
resets the farm only on what was seen since the reset before, one reset at a
time, and never waits for ever; a deployment keeps the port to itself and
reports what it has broken; what the readers put together belongs together; and
the figures that are reported are of one epoch, of views that are fresh, and of
every instant once.

## 2. Plan

| Order | Modules | State |
| --- | --- | --- |
| 1 | `Gossip`, abstract `Rumours`, the refinement `GossipAges`, `MCGossip`, proofs `GossipProofs` | done |
| 2 | `JoinPolicy`, `DecisionSnapshot`, `Migration`, proofs `MigrationProofs` | done |
| 3 | `RoundClock`, `TestEpoch`, proofs `RoundClockProofs`, `TestEpochProofs` | done |
| 4 | `Planner`, with stutter wakes; proofs `PlannerProofs` | done |
| 5 | `Loggers`, `Deploy`, and their composition with the supervisor, `Farm`; proofs `FarmProofs` | done |
| 6 | `Capture`: a board's lines through the logger into the readers; proofs `CaptureProofs` | done |
| 7 | `Timeline`: the reports over all logs; proofs `TimelineProofs` | done |
| 8 | the wake cycle: recovery sleeps in Planner, bound on the time awake, order of the writes of a reset | to do |
| 9 | visibility claims; the bounded decision trace on the board | to do |

## 3. The modules

### Gossip, Rumours

`Gossip` has all boards. `mode` says whether a board sleeps, runs, is between
the two writes of a checkpoint, or is off; `ram` and `flash` are its identity,
round number, registry and associations in memory and in SPIFFS. The actions are
`Boot` (setup), `Publish` (publishReport with the onReport of all hearers),
`AdvanceRound`, `TestReset`, `SaveAssociations`, `SaveOriginsStayAwake`,
`SaveOriginsAndSleep`, and the environment's `Crash`, `ColdReset` and
`PowerOff`. The home that a record names is carried along and decides nothing
here, so it is left out, as are signal strengths, the wire format and the
claims; a relayed claim registers the incarnation that it names as a relayed
association does (line 1696), and is no step of its own here. A report carries
one relayed record; a packet with three has the effect of three packets. A board
may hear a report in any mode in which it runs, also between the two writes and
between a test reset and the sleep after it, as the callback may. What a board
hears then is written back by the checkpoint before that sleep: a reset board
may start its new epoch with records of others.

`Rumours` says, for a single origin, what the gossip promises: only the origin
makes news younger, everything else makes it older or drops it, and after the
origin's end nobody has younger news than the youngest there was. `GossipAges`
states that Gossip implements it for the origin `Tracked`, with the age of the
record a board holds as the refinement mapping (`AgesLikeRumours`).

### JoinPolicy, DecisionSnapshot, Migration

`JoinPolicy` is `singletonJoinPolicy.h`, function by function;
`DecisionSnapshot` is `valid()` and `replay()`. `Migration` has one board: what
it persists (`spiffs`), its round number, its plan (home and scouts still to
visit), and of the evidence how many other boards' fresh records name each
beacon (`fresh`, which counts the others under `NoBssid`). The evidence about
peers changes at will (`Evidence`): Gossip says how. The board's own record is
rewritten only by a report (`Publish`, and `MakePlan`, which includes the first
report of the plan), so it may be stale when the board counts.

`FinishHome` (with the commit check), `AnswerVisitors` and `FinishScout` are the
ends of appointments with all that they call. A decision counts the home first
and the target later, and the receive callback runs in between: `AnswerVisitors`
and `FinishScout` count the target in records that may have changed since
(`Received`), and more changes are possible between the commit check and the
visitors. The snapshot that is logged of a decision counts for itself, earlier
still (lines 941 and 943), and need not replay when a record has come in since;
the analysis expects that and leaves such snapshots out. What can be asked of the
two copies of the rules is that they agree on the same counts, and
`DecisionsReplay` asks it of every state and every count.

`PanicWhileWriting` interrupts the writes of a proposal or of a move. If it leaves
a new target with the round of an older proposal, or with none (lines 1465-1467),
`torn` remembers it: the code carries such a proposal out at the next
confirmation, without any delay, and `PatientMoves` excepts it. The plan survives
a change of home, because merged appointments belong to one interval.

Integers: rounds are counted modulo `WakeMax + 1` and compared as the code's
`int32_t` difference does. After the wrap the counter restarts at 1, so that a
proposal may ripen one round early there; `waited` counts that step as two.

### RoundClock, TestEpoch, Planner

`Tick` is `RoundClock::tick()` with its division and carry. The sleeps carry
over what they do in the code: `sleepForExecutor` and the stutter sleep include
the time that saving took, `sleepForTimingRecovery` and `maximumAwakeSleep` do
not. `drift` and `panicked` are history: elapsed time less counted time, and
whether the board has restarted without having slept.

A test reset happens inside an advance of the clock and clears what is saved, but
the board runs on until its loop finds the state cleared (`SleepAfterReset`). If
the advance was that of `sleepForTimingRecovery`, or if the limit of the time
awake is found exceeded first, the remainder of the clock is saved again over
what was cleared (lines 2264 and 2297): the first round of the new epoch is
shorter by the part of a round that had passed before. `inherited` is that part,
and `NeverAhead` allows for it and for no more.

`TestEpoch` has the persisted counters of the reset experiment and one
evaluation per elapsed round. Whether enough listeners were counted is an input.
`outcomes` is history: which rounds qualified.

In `Planner`, `NextAppointment`, `Intervals` (with `MergeNext`), `AwakeTime`,
`AddScout` and `SleepUntilNext` are the functions of `rendezvousPlanner.h`;
their loops are recursive functions of the number of turns. The insertion sort
and the merging after it are one loop here: each turn merges the `Earliest` of
the appointments that are left. A board alone tries any of the other beacons as
scouts, in any order (`Plans`): the code takes those that it heard well enough
in the order of its log. The actions are planning, passing time, sleeping
between intervals, the two outcomes of a stutter wake and exhausting the plan.
Only the target survives the first part of a long sleep (`stutter`, with the
home it was set under as history); the second part is reckoned from the target's
own clock. `NeverSleepsThroughHome` covers both: if the interval ahead has an
appointment of the home, the home must be the target, since a scout merged into
the interval may begin after the home's window has. A scout merged with the
home, or with a later scout, may well be lost by such a sleep; the property says
so by leaving it out. `AppointmentsAreWindows` compares `NextAppointment` with a
definition of a window that uses no arithmetic modulo the period. With the
firmware's constants (windows and budget of 5 s and 7 s, gaps of at most 1 s) no
single scout exceeds its budget; the run uses a smaller one, so that refusals
occur.

### Loggers, Deploy, Farm

Three modules, each of which extends the one before. `Loggers` has one logger
per board: where it is in `reconnect_log()` (`screen`), the request file
(`flag`), how far the board has come since its cold start (`device`) and what
the supervisor can find in the log (`log`: the latest home, its age, whether it
is later than the latest marker, whether a marker is later than the latest
request). The pulse and the removal of the file are two steps: a request that is
written between them is removed unserved.

`Deploy` is `deploy_usb_screens.py`, from the search for sessions to the
collected failures, in its three modes; every command may fail, and a logger
that was told to quit may be in any step of its loop until it has exited.

`Farm` adds the supervisor: `Candidate`, `Arm`, `IssueRequest`, `Complete`,
`GiveUp` and `NotConverged` are the branches of an iteration of `main()`; an
unreadable log and a restart of the script are mishaps, as are a disconnected
port, a lost marker and a deployment. `forgot` is history: whether a request, or
the marker that answers it, may be left of a supervisor that is gone. What the
code guarantees it does not guarantee over such a restart, and the properties
say so.

A marker acknowledges a request if it is not more than two seconds older (line
165). So `Arm` lets any of the boards that have announced a cold start and done
nothing since (`JustMarked`) have acknowledged already, and a board that is
booting at that moment acknowledges by a start that began before the request.
`restarted` begins empty at the request; `starting` are the boards with the
benefit of the slack. `EpochIsClean` asks for a cold start since the request of
every board, and accepts one from before only where a deployment had flashed the
board or the supervisor had forgotten a request of its own: other boards have
been heard in an exchange when a reset is asked for, and are not starting.

### Capture

One board prints its exchanges, or their decision traces; a line arrives, is
lost, or loses its end, so that two records arrive as one; the board restarts in
the middle of an exchange; the logger reconnects, which begins a new session;
and a tail of the log begins anywhere. Each reader (`parse_evidence()`, over the
whole log and over the tail, `parse()` and `parse_lines()`) is a function of its
loop variables and the next line, and its loop variables are state: what it
returns can be looked at after every line.

### Timeline

The loops of `analyze_rendezvous.py` over all boards' logs in the order of host
time, one iteration a step; the logs are chosen as they are read. The run chooses
one of three reports: clean epochs (all markers first, then the observations for
one of the waves), recoveries and convergences, or foreign coverage. The
convergences and the topology snapshots, which need no more than the latest
observations, are made along with the first two.

## 4. What the runs show

The runs of Gossip, Migration, RoundClock, TestEpoch and Farm also check `TypeOK`.

| Run | Instance | Checked |
| --- | --- | --- |
| `gossip_pair` | 2 boards, one reset, the other sleeping and panicking, 2 incarnations, round numbers up to 2 and their wrap, up to 2 rounds at once | `EpochConsistent`, `UniqueOrigins`, `NoFutureGeneration`, `RumoursOnlyAge`, `RegistryFollowsOrigin` |
| `gossip_rumours` | 3 boards, one leaves, round numbers up to 2 | `GenerationsAdvance`, `AgesLikeRumours` |
| `gossip_sleep` | a board that sleeps, one that leaves, up to 2 rounds at once | `OwnAgeExact` |
| `migration` | 3 peers, 3 beacons, counter up to 3 with its wrap, delay of 1, records within a decision, expiry, recovery sleeps, resets, panics | `DecisionsReplay`, `PatientMoves`, `Settles` |
| `round_clock` | period of 4 units, sleeps up to 9, awake up to 6, panics, resets | `NeverAhead`, `NothingLeft` |
| `test_epoch` | 3 cycles, 3 misses, delay of 3, up to 2 rounds at once | `CommitsOnStreak`, `ResetIsAnnounced`, `CommitLeadsToNewEpoch` |
| `planner` | 3 beacons, period 11, window 2, all clock differences | `AppointmentsAreWindows`, `IntervalsServeAppointments`, `ScoutsWithinBudget`, `NeverSleepsThroughHome` |
| `farm` | 2 boards, 2 homes, all 3 modes of deployment, one mishap at any moment | `RequestsNeverOverlap`, `EpochIsClean`, `ObservedSinceReset`, `SupervisorProgress`, `PortIsExclusive`, `LossIsReported` |
| `capture` | 3 exchanges, 4 faults | `NeverAcrossSessions`, `MixedOnlyIfUnheard`, `ReadersAgree`, `TraceWholeOrAbsent` |
| `analysis` | 3 boards, 3 homes, logs of 5 instants, skews and freshness of 2 | `WavesAreResets`, `EpochsEndConverged`, `SnapshotsAgree`, `RecoveriesAreClean`, `CoverageIsUnion` |

Two more runs end in a counterexample, each to a sentence of the repository:

- `migration_plans`: the second scout of a merged interval is judged against the
  former home; an established member can move to a group that its present home
  outranks (`MIGRATION_PROTOCOL.md` lines 22-23).
- `round_clock_panics`: a panic makes the clock count the same sleep again
  (comment at line 6 of `rendezvousExecutor.h`).

Other disagreements were met while the models were written and have no run:

- `RENDEZVOUS_DESIGN.md` line 98 calls the association record last-writer-wins.
  Between two choices of one round the younger age wins, so a relayed copy of
  the earlier choice can replace the later one.
- `proposalDelayCap` is 2 in the firmware: `singletonJoinPolicy.h` line 8 speaks
  of three, and `MIGRATION_PROTOCOL.md` lines 283-288 of a delay that grows with
  credibility, which the cap makes constant.
- A scout's or a visitor's confirmation commits a ripe proposal without a
  healthy, full home appointment (`MIGRATION_PROTOCOL.md` line 306).
- The cycles that commit a reset need not be consecutive: `TESTING_FARM.md`
  describes the tolerated misses, `README.md` line 27 does not.
- `HARDWARE_TEST_SUPERVISOR.md` line 35 has the supervisor not arm again until
  every log has a new marker; after the timeout it does
  (`test_farm_supervisor.py` lines 296-308). `ObservedSinceReset` shows what
  holds instead: every board has been heard since its last reset.
- `reset_recovery_events()` promises a latency from the end of the plateau of
  the minimum (`analyze_rendezvous.py` lines 324-327) and reports it from the
  start (line 373). Its arguments `max_skew` and `required` are not used.
- With fewer than five logs a unanimous view is itself a group smaller than
  five, and each repeated agreement is reported as a recovery, which the comment
  at line 385 excludes. `Timeline` assumes at least `Small` boards.
- A marker that comes within the skew before a wave joins it, and the wave can
  be cut in two and lost (lines 420-436); `WavesAreResets` therefore asks that no
  marker come within the skew before it. Incomplete waves do not bound an epoch.
- `parse_evidence()` keeps an identity after the exchange that it was for
  (`rendezvous_evidence.py` lines 106-123): if the next identity is lost, its
  exchange has the former one. `MixedOnlyIfUnheard` says that this is the only way.

### Bounds

Gossip: two boards give a callback against a checkpoint; three are the fewest
with a relay between two others. Full tables (32 entries) have no run: what is
claimed of them is proved for tables of every size. Nor has `gossip_pair` a
third party that relays an old incarnation, or `gossip_sleep` a second
incarnation to wrap into: there `RegistryNeverRollsBack` and
`OwnRecordsAreExact` go beyond the runs. Two incarnations are one before and one
after a reset: with no third, a second reset finds no fresh incarnation and the
board stays down, which only shortens behaviours. `Fresh` = 0 or 1 is below
`AgeMax`, so that fresh, stale and saturated ages all occur. Not all boards
sleep, panic or are reset in every run (`Sleepers`, `Crashable`, `Resettable`,
`Mortal`): a run has the perils that its properties are about. `OwnAgeExact`
holds of tables with room for every board: a board that finds its table full has
no record of itself.

Migration: three peers and the board make a group of two against another of two
and a singleton against any of them: the fewest that give a tie between two
groups, and a board that the size of one group and the BSSID of another could
send to and fro for ever. Three beacons let a scout's target, the pending target
and the home differ. `WakeMax` = 3 leaves a delay of one round less than
half of the counter's range, so the wrap is never far away; `migration_plans`
has the firmware's delay of two and `WakeMax` = 5. Credibility influences delays
only, which the cap makes equal; both runs have `credibilityCap` = 0, so that
the counter stays at its lower bound. `Burst` = 1: within one decision any
number of records change, but no beacon gains or loses more than one. With any
change (`Burst` = 3) TLC finds no violation either, in nearly twice the time.
The proofs are for every delay, counter, credibility and `Burst`.

RoundClock: sleeps longer than two periods and stays longer than one are
included, in units a quarter of a period. TestEpoch: streak, misses and delay have
three steps each, so that each has an inner value; the firmware's 10 only makes
the streak longer. A sleep is shorter than two periods (the plan reaches two
windows ahead), and less than one period is left over before: at most two rounds
elapse in one advance, hence `MaxElapsed` = 2. Planner: windows that overlap,
touch, nearly touch and lie apart all occur among the differences of clocks. The
period of 11 leaves room for an interval that only has a scout and is far enough
off for a stutter sleep; `StutterLead` is small enough that a frame late in the
sampling leaves no second part.

Farm: two boards are the fewest with a partial acknowledgment; a third adds
another board that does what one of the two does. `AckTimeout` = `Freshness` = 2
is the boundary of the assumption `Freshness <= AckTimeout`, which the default
values of the options satisfy and without which the model finds
`ObservedSinceReset` violated. One mishap (`Perils`) at any moment, in a farm
that goes on for ever after it; the proofs are for any number.

Capture: three exchanges are the fewest with one between the beginning that a
mixed exchange has and its end; four faults are enough to lose the two lines of
each of two exchanges by which a mixture would be noticed. Of the decision
trace, a table with two rows and one with one, and one trace that overflowed.

Timeline: three boards and homes, of which all, two or none agree; five instants
with skews of two leave room for a wave, a wave cut by the skew, and an epoch
after it. Larger instances were explored without a violation: six instants
(1.5 million states) and, with two homes, seven (2.9 million).

### Fairness

`Rumours` and its refinement are about safety and assume none. `TestEpoch`
assumes that rounds elapse and that a reset board boots: the sleep timer and the
task watchdog guarantee both. `Farm` assumes that the supervisor polls, that
time passes, and that a logger with an open port goes on through its loop (`WF`
of `Supervise`, `Tick` and each board's `Serve`): each is the body of an endless
loop with a timeout in it. It assumes neither that a board reports or
acknowledges, nor that a port can be opened, nor that a deployment ends.
`Settles` needs no fairness: it says that in every behaviour in which the
evidence is eventually constant the home is too. No run assumes that a message
arrives.

## 5. What is proved

Every theorem below is proved for all values of the constants that satisfy the
named assumptions of its module. Those say what the code takes for granted:
sizes and durations are numbers; a BSSID is not 0 and a home is not "no home";
the round counter is wide enough for the delays that are compared in it
(`WakeAssumption`); the options satisfy `Freshness <= AckTimeout`
(`DurationsAssumption`); ports are numbered (`PortsAssumption`); a deployment has
a mode (`ModesAssumption`); a farm has boards (`BoardsAssumption`). What else a
theorem needs is in its `ASSUME` and said here.

### Gossip

`GossipProofs`, for every set of boards, size of the tables, number of
incarnations and rounds:

- `TypeCorrect`: `Spec => []TypeOK`;
- `RecordsMatchRegistry`: `Spec => []EpochConsistent`;
- `OneRecordPerOrigin`: `Spec => []UniqueOrigins`;
- `RegistryNeverRollsBack`: `Spec => RegistryFollowsOrigin`;
- `NoImmortalRumours`: `Spec => RumoursOnlyAge`;
- `NobodyAhead`: `Spec => []NoFutureGeneration`;
- `RoundsNeverGoBack`: `Spec => GenerationsAdvance`;
- `OwnRecordsAreExact`: `Spec => []OwnAgeExact`, and
- `GossipImplementsRumours`: `Spec => AgesLikeRumours`, the refinement of
  `Rumours`, both if nothing panics (`Crashable = {}`) and if a table has an entry
  for every board.

The inductive invariant `IInv` has four parts. `EpochConsistent` alone is not
inductive: a reload takes records and registry from SPIFFS, and a board's own
record may belong to an earlier incarnation. So the proof adds that what SPIFFS
holds has one registration and one record per origin (`reload` filters the
records by the registry it finds, whatever was written last), and that a running
board has an identity. Each of acceptOrigin, mergeAssociation and onReport has a
lemma that says what it preserves; the step proof has one case per action.

The other theorems extend it. `NobodyAhead` needs `Numbered` (the round number in
memory and the one in SPIFFS agree once there is an identity) and that an identity
that is drawn is in nobody's records. `RumoursOnlyAge` and `GenerationsAdvance`
rest on lemmas about where each record of a table comes from after a merge, a
relay, a report (`ReportRecords`). `OwnInv` relates the ages of a board's own
record in memory, in SPIFFS and between the two writes of a checkpoint; a panic
brings older ages back, and a full table has no room for the own record, hence
the two hypotheses. The simulation adds that no record is dropped except with its
board (`ReportKeepsPresence`, again for want of room) and maps a step to `Speak`,
`Repeat`, `Round`, `Forget`, `Silence` or a stutter.

The refinement is put to use: `NewsNeverYounger` proves of the abstract gossip that
once an origin is silent the youngest news of it only grows older, and
`SilentOriginsFade` carries that over to the farm, under the same two hypotheses.

### Migration

`MigrationProofs`, for every set of peers and beacons, every delay and counter
width:

- `RulesAgree`: `Spec => []DecisionsReplay`; it needs no invariant, only that
  a BSSID is not 0. Its lemmas also say that `groupPreferred` is asymmetric and,
  among different beacons, transitive and total, which is why two boards that
  believe in the same sizes never swap homes;
- `TypeCorrectness`: `Spec => []TypeOK`;
- `ProposalsRipen`: `Spec => PatientMoves`.

`TypeOK` says of `fresh` that it is the count of some function from the other
boards to beacons (`Tables`), without which a count could exceed the number of
boards. The inductive invariant adds `Ripening`: as long as the pending proposal
has waited for less than the shortest delay, the round in which it may act is
ahead of the counter by what is left of that delay, or more, unless a panic has
left it without its round. It survives refreshed evidence, because a renewed
proposal counts anew, and the wrap of the counter, because `waited` counts the
round that is skipped.

### RoundClock, TestEpoch

`RoundClockProofs`, for any period and any bounds on sleeps:

- `TickIsExact`: rounds and remainder of `tick()` are what has elapsed, whatever
  was left over; no property of a run says so by itself;
- `TypeCorrectness`: `Spec => []TypeOK`; `NoEarlyRounds`: `Spec => []NeverAhead`;
  `NoRoundLeft`: `Spec => NothingLeft`.

`IInv` is `TypeOK`, `NeverAhead` and `NothingSaved`: a board that has been reset
and is still awake has nothing saved, so that what it goes on with is either
nothing or the remainder that `inherited` stands for. "Never ahead" is meant with
that allowance, and since the last reset.

`TestEpochProofs`, for any lengths of the streak, its misses and the delay:

- `TypeCorrectness`: `Spec => []TypeOK`;
- `AnnouncedResets`: `Spec => ResetIsAnnounced`, if no more rounds elapse in one
  advance than a reset is delayed (at most two elapse, and the delay is three);
- `StreaksCommit`: `Spec => CommitsOnStreak`, if `Window`, the part of the history
  that the model keeps, is long enough to hold a whole streak
  ((CyclesToCommit - 1) * MissesToReset + MaxElapsed; TLC shows that one less
  is not enough).

The counters forget the rounds, the property is about them. `IInv` therefore says
that the counters of an uncommitted board are those of the history (`Follows`),
round by round. `AfterRounds` is a recursive function; that it is what its
equations say, and what it does to the counters, is proved by induction over the
number of rounds. The library's induction theorems take an operator and cannot be
used, so `Induction` is derived from the least element of a set of numbers.

### Planner

`PlannerProofs`, for any beacons and differences between their clocks, any period,
phase, length of window, gap, budget, leads and bound on the time that satisfy
`WindowAssumption` (a window is no longer than a period; the sampling is no longer
than the lead with which a board wakes, and that no longer than the leads of a
stutter wake, as the firmware's constants are):

- `PlannedWindows`: `Spec => []AppointmentsAreWindows`;
- `PlannedIntervals`: `Spec => []IntervalsServeAppointments`;
- `ScoutKeepsToBudget`: `Spec => ScoutsWithinBudget`;
- `HomeIsMet`: `Spec => NeverSleepsThroughHome`;
- `RebuildServes`: what `rebuild()` returns for any non-empty appointments, in any
  order, whether or not a board would plan them.

`Leaves` says without remainders which window `nextAppointment()` finds: the k-th
of a beacon, all earlier ones being over. `rebuild()` is proved by induction over
the appointments that are left (`Merging`): the intervals so far serve what has
been merged, bridge no long gap, are apart, and nothing that is left begins before
the last of them does. The budget is held against a difference of sums: since
intervals are apart, `awakeUsec()` is the number of instants in them
(`AwakeTimeIs`), and since each home lies in an interval of the longer plan and
gaps bridged between the homes are bridged there too (`AwakeGrows`), the
difference is that of sets.

`IInv` says more than the properties, which are about single states of a plan: the
plan was `Made` at some time up to now, for what was then to come (without that a
window of the home could open that is in no plan); and a board that waits for a
beacon in the middle of a sleep will be awake and sampling until, at the latest,
the window `Awaits` speaks of, before which the home has none. `TargetAwaits`
shows that `sleepForExecutor()` chooses such a target: a scout only if the home
has no appointment in the interval. TLC has checked `IInv` on the instance of the
run `planner` before.

### Loggers, Deploy, Farm

`FarmProofs`, for every set of boards and homes, any durations, and any number of
mishaps and deployments:

- `TypeCorrectness`: `Spec => []TypeOK`;
- `NoOverlap`: `Spec => RequestsNeverOverlap`;
- `CleanEpochs`: `Spec => EpochIsClean`;
- `LaterObservations`: `Spec => ObservedSinceReset`;
- `FlashingHasThePort`: `Spec => []PortIsExclusive`;
- `NoSilentLoss`: `Spec => []LossIsReported`.

For the supervisor the inductive invariant is a conjunction over the boards. It
is needed because `Arm` looks at no request file: that none is left follows from
what the logs say. While the supervisor waits, the observation of a board with a
pending request is as old as the request, since a logger that finds the file
serves it before it reads on (`PendingAwaited`). When the wait ends, either that
observation is no longer fresh, which is what `Freshness <= AckTimeout` is for,
or the board has acknowledged and the observation is below its floor
(`PendingLeft`). `Served` says the same of boards that have started cold and
have not been heard since. For `CleanEpochs` it says that an acknowledged board
has started cold since the request or was `starting` then (`Cold`); and of a
board that was starting when the reset was asked for, though it must have had a
usable observation to agree with the others, that only a deployment or a
forgotten request explains it. Each action has a lemma that says what it
preserves.

For the deployment it is `Discipline`: which boards have no logger is known at
each point of the loops that stop loggers, flash and start them again; a logger
that was told to quit may still be anywhere in its loop until it has been seen to
exit, and no board is flashed before.

### Capture, Timeline

`CaptureProofs`, for any number of exchanges, faults, sessions and restarts:
`OneSessionEach` (`NeverAcrossSessions`), `MixesUnheardOnly`
(`MixedOnlyIfUnheard`), `ReadersShowTheSame` (`ReadersAgree`) and `TraceIsWhole`
(`TraceWholeOrAbsent`). The invariant `IInv` says which lines of which exchange the
loop variables of each reader are made of, how those of the reader of a tail
relate to those of the whole log, and what of a trace has been passed on.
`OneSessionEach` is about sessions only: within one session a restarted board's
exchange can be put together with the one before if its identity and beginning
are both lost, and `MixesUnheardOnly` says that this is what it takes.
`ReadersShowTheSame` compares dashboard and evidence only while no lines are
joined and no beginning is lost, since one reader needs less of a line than the
other; tail and whole log it compares always.

`TimelineProofs`, for any number of boards and homes, any skews and freshness, and
any log:

- `WavesAreFound`: `Spec => []WavesAreResets`;
- `EpochsEndTogether`: `Spec => EpochsEndConverged`;
- `ReportsAgreeOnAllTogether`: `Spec => SnapshotsAgree`;
- `RecoveriesAreUndisturbed`: `Spec => RecoveriesAreClean`;
- `EvidenceCountsOnce`: `Spec => []CoverageIsUnion`.

Each needs a relation of its own between the loop variables and the log.
`AllFound`, for the waves: every marker without others within the skew before it
begins the open cluster, or a closed one, or misses a board. It needs that no marker
is later than the skew allows for the open cluster (`Clustered`) and that closed
clusters lie before it (`Passed`). `Covered`: `merged_end` is the latest end of
evidence that counts, so that from now on an instant is covered already exactly
if it lies before it. `Plateaus`: a minimum that outlived an observation begins
after the latest reset; the loop looks for a reset only at the next observation,
and a minimum with a reset since is therefore excepted until then. `Snapshots`: a
snapshot with the present time is of a view that still is together. `Epochs`: what
the measured wave has observed is the latest view, restricted to what came after
each board's marker.

### Only model-checked

- Liveness: `Settles`, `CommitLeadsToNewEpoch` and `SupervisorProgress`, which are
  beyond the prover. All other properties of the passing runs are theorems.

## 6. What is not modelled

- The wire format, signal strengths and channel; visibility claims, which do not
  influence migration.
- The choice of a scout and of the first home (left open in Migration, an input
  in Planner); coverage of an appointment and transport health (an input).
- Recovery sleeps and the bound on the time awake in Planner: what each sleep
  carries over is in RoundClock, the home that blind sleeps keep or give up in
  Migration. That a beacon is found again depends on what the radio hears.
- The order of the writes in clearRendezvousTestState(), and how a board fills
  the bounded decision trace.
- Of the scripts: the discovery of ports and tools, dry runs, status lines, the
  attribution of merges, link statistics, counterfactuals and the printed
  reports. Each of the last is a table over what the modelled functions return.
- The simulator's radio model and its data; the build files.
