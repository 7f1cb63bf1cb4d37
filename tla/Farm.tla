-------------------------------- MODULE Farm --------------------------------
(***************************************************************************)
(* The hardware test farm: the supervisor (scripts/test_farm_supervisor.py) *)
(* that asks for a coordinated cold reset when all boards have reported     *)
(* the same home for long enough, with the loggers that serve the requests  *)
(* and the deployments that replace boards' loggers and firmware.           *)
(*                                                                          *)
(*  - Durations are in units of a minute or more; the supervisor polls the  *)
(*    logs any number of times in one, and a round of requests is written   *)
(*    within one.  A logger that has its port open looks for a request      *)
(*    every second.  The slack for the age of an observation is left out;   *)
(*    of the one for markers, two seconds before the request, any marker    *)
(*    may have the benefit whose board has not gone on since (JustMarked).  *)
(*  - Where the supervisor is wrong only because it was restarted in the    *)
(*    middle of a reset, "forgot" says so.                                  *)
(***************************************************************************)
EXTENDS Deploy

CONSTANTS
  Freshness,    \* --freshness-seconds
  Sustain,      \* --sustain-seconds
  AckTimeout,   \* --ack-timeout-seconds
  Perils        \* bound on the number of mishaps and deployments

ASSUME DurationsAssumption ==
  /\ Freshness \in Nat /\ Sustain \in Nat /\ AckTimeout \in Nat
  /\ Freshness <= AckTimeout /\ AgeMax \in Nat /\ AgeMax > AckTimeout
  /\ NoHome \notin Home /\ Perils \in Nat

VARIABLES
  sup,       \* the supervisor's main(), see Supervisor
  floored,   \* boards whose observation floor the latest observation is below
  forgot,    \* history: a request of a supervisor that is gone may be pending,
             \* or the marker that answers it
  restarted, \* history: boards that have started cold since the last arming
  starting,  \* history: boards that were starting, or had just started, then
  flashed,   \* history: those of them that a deployment has flashed
  perils     \* mishaps and deployments so far

supVars == <<sup, floored, forgot>>
history == <<restarted, starting, flashed>>
vars == <<loggerVars, deployVars, supVars, history, perils>>

\* todo: boards that issue_reset_requests() has not come to.  resetAge: now -
\* reset_time.
Supervisor == [pc : {"monitor", "issuing", "waiting"}, home : Home \cup {NoHome},
               since : 0 .. Sustain, todo : SUBSET Board, resetAge : 0 .. AckTimeout + 1]

Started0 == [pc |-> "monitor", home |-> NoHome, since |-> 0, todo |-> {}, resetAge |-> 0]

TypeOK ==
  /\ LoggerTypeOK /\ DeployTypeOK
  /\ sup \in Supervisor /\ floored \subseteq Board /\ forgot \in BOOLEAN
  /\ restarted \subseteq Board /\ starting \subseteq Board
  /\ flashed \subseteq restarted \cup starting
  /\ perils \in 0 .. Perils

Init ==
  /\ LoggerInit /\ DeployInit
  /\ sup = Started0 /\ floored = {} /\ forgot = FALSE
  /\ restarted = {} /\ starting = {} /\ flashed = {}
  /\ perils = 0

-----------------------------------------------------------------------------
(* convergence_state() of the logs that could be read *)

\* Wrong: the floors are not passed on.
UsableBelowFloor(b) == log[b].age <= Freshness

Usable(b) == b \notin floored /\ log[b].age <= Freshness

Unanimous(h) == \A b \in Board : Usable(b) /\ log[b].home = h

-----------------------------------------------------------------------------
(* One iteration of main() *)

Resume == sup' = Started0

\* No unanimous home.
NotConverged ==
  /\ sup.pc = "monitor" /\ ~\E h \in Home : Unanimous(h)
  /\ Resume
  /\ UNCHANGED <<loggerVars, deployVars, floored, forgot, history>>

Candidate(h) ==
  /\ sup.pc = "monitor" /\ Unanimous(h) /\ h # sup.home
  /\ sup' = [sup EXCEPT !.home = h, !.since = 0]
  /\ UNCHANGED <<loggerVars, deployVars, floored, forgot, history>>

\* Boards whose marker may be less than two seconds old.
JustMarked == {b \in Board : device[b] = "asleep" /\ ~log[b].sinceMarker}

\* Wrong: a marker of any time acknowledges.
AnyAcknowledged(early) == log

\* The markers that epoch_acknowledgments() sees are later than reset_time, or
\* up to two seconds earlier.
NoneAcknowledged(early) ==
  [b \in Board |-> [home |-> log[b].home, age |-> log[b].age,
                   sinceMarker |-> log[b].sinceMarker, acknowledged |-> b \in early]]

\* requesting coordinated cold reset
Arm(h) ==
  /\ sup.pc = "monitor" /\ Unanimous(h) /\ h = sup.home
  /\ sup.since >= Sustain
  /\ sup' = [sup EXCEPT !.pc = "issuing", !.todo = Board, !.resetAge = 0]
  /\ \E early \in SUBSET JustMarked :
       /\ log' = NoneAcknowledged(early)
       /\ starting' = {b \in Board : device[b] = "booting"} \cup early
  /\ forgot' = (forgot /\ (starting' # {} \/ \E b \in Board : flag[b]))
  /\ restarted' = {}
  /\ flashed' = flashed \cap starting'
  /\ UNCHANGED <<screen, flag, device, deployVars, floored>>

\* issue_reset_requests(): local() and remote() run side by side.
IssueRequest(b) ==
  /\ sup.pc = "issuing" /\ b \in sup.todo
  /\ sup' = [sup EXCEPT !.todo = @ \ {b},
                        !.pc = IF sup.todo = {b} THEN "waiting" ELSE @]
  /\ flag' = [flag EXCEPT ![b] = TRUE]
  /\ UNCHANGED <<screen, device, log, deployVars, floored, forgot, history>>

\* Wrong: a marker of any board will do.
AcknowledgedBySome == \E b \in Board : log[b].acknowledged

Acknowledged == \A b \in Board : log[b].acknowledged

\* epoch_acknowledgments() has every board: their markers are the floors.
Complete ==
  /\ sup.pc = "waiting" /\ Acknowledged
  /\ Resume
  /\ floored' = {b \in Board : ~log[b].sinceMarker}
  /\ UNCHANGED <<loggerVars, deployVars, forgot, history>>

\* Wrong: the wait ends while the observations of before it are still fresh.
OverdueEarly == sup.resetAge > 0

\* Wrong: nobody gives up.
NeverOverdue == FALSE

Overdue == sup.resetAge > AckTimeout

\* epoch-invalid
GiveUp ==
  /\ sup.pc = "waiting" /\ ~Acknowledged /\ Overdue
  /\ Resume /\ floored' = {}
  /\ UNCHANGED <<loggerVars, deployVars, forgot, history>>

Supervise ==
  \/ NotConverged \/ Complete \/ GiveUp
  \/ \E h \in Home : Candidate(h) \/ Arm(h)
  \/ \E b \in Board : IssueRequest(b)

\* A log cannot be read: its board counts as silent in this iteration.
Unreadable ==
  /\ \/ sup.pc = "monitor" /\ UNCHANGED floored
     \/ sup.pc = "waiting" /\ Overdue /\ floored' = {}
  /\ Resume
  /\ UNCHANGED <<loggerVars, deployVars, forgot, history>>

\* The script is started again: nothing of its state is kept.
Restart ==
  /\ Resume /\ floored' = {} /\ forgot' = TRUE
  /\ UNCHANGED <<loggerVars, deployVars, history>>

-----------------------------------------------------------------------------
(* Loggers and deployments, next to the supervisor *)

\* Boards that this step has reset.
Starting == {b \in Board : device'[b] = "booting" /\ device[b] # "booting"}

LogStep(b) ==
  /\ Serve(b) \/ Open(b) \/ ReadMarker(b)
  /\ restarted' = restarted \cup Starting
  /\ UNCHANGED <<deployVars, supVars, starting, flashed>>

\* An exchange is later than the floor.
Observe(b, h) ==
  /\ ReadExchange(b, h) /\ floored' = floored \ {b}
  /\ UNCHANGED <<deployVars, sup, forgot, history>>

DeployStep ==
  /\ Deploying
  /\ restarted' = restarted \cup Starting /\ flashed' = flashed \cup Starting
  /\ UNCHANGED <<supVars, starting>>

\* No request is left unserved for a minute by a logger that has its port open.
Tick ==
  /\ sup.pc # "issuing" /\ \A b \in Board : PortOpen(b) => ~flag[b]
  /\ Minute
  /\ sup' = [sup EXCEPT
       !.since = IF @ < Sustain /\ sup.home # NoHome THEN @ + 1 ELSE @,
       !.resetAge = IF sup.pc = "waiting" /\ @ <= AckTimeout THEN @ + 1 ELSE @]
  /\ UNCHANGED <<deployVars, floored, forgot, history>>

Mishap ==
  /\ perils < Perils /\ perils' = perils + 1
  /\ \/ Unreadable
     \/ Restart
     \/ \E mode \in Modes : Begin(mode) /\ UNCHANGED <<supVars, history>>
     \/ \E b \in Board : /\ Disconnect(b) \/ LoseMarker(b)
                         /\ UNCHANGED <<deployVars, supVars, history>>

Next ==
  \/ /\ \/ Supervise \/ DeployStep \/ Tick
        \/ \E b \in Board : LogStep(b) \/ \E h \in Home : Observe(b, h)
     /\ UNCHANGED perils
  \/ Mishap

\* The supervisor polls, requests are served, time passes, deployments go on.
Spec ==
  /\ Init /\ [][Next]_vars
  /\ WF_vars(Supervise /\ UNCHANGED perils) /\ WF_vars(Tick /\ UNCHANGED perils)
  /\ \A b \in Board : WF_vars(LogStep(b) /\ Serve(b) /\ UNCHANGED perils)

-----------------------------------------------------------------------------
\* A supervisor that has not forgotten one asks for a coordinated reset only
\* when every board has served the request of the one before, which may have
\* been given up: a logger never unlinks a request that it has not served
\* (main(), requested_reset()).
RequestsNeverOverlap ==
  [][\A h \in Home : Arm(h) /\ ~forgot => \A b \in Board : ~flag[b]]_vars

\* An epoch that counts as clean began with a cold start of every board since
\* the request (epoch_acknowledgments(), partial acknowledgments).  A start that
\* was under way then, or was announced within the two seconds before, may
\* count instead, but only of a board that a deployment had flashed, or when
\* the supervisor has forgotten a request of its own.
EpochIsClean ==
  [][Complete =>
       \A b \in Board :
         \/ b \in restarted
         \/ b \in starting /\ (forgot \/ b \in flashed)]_vars

\* The home that a reset is requested for is where the boards went after the
\* reset before it: nobody is reset who has not been heard since, unless a
\* deployment has flashed it meanwhile (observation_floors).
ObservedSinceReset ==
  [][\A h \in Home : Arm(h) /\ ~forgot =>
       \A b \in Board \ flashed : device[b] = "observed"]_vars

\* The supervisor does not wait for ever for boards that do not acknowledge, and
\* a farm does not stay converged for ever without being reset.
SupervisorProgress ==
  /\ []<>(sup.pc = "monitor")
  /\ []<>(sup.pc # "monitor" \/ ~\E h \in Home : Unanimous(h))
=============================================================================
