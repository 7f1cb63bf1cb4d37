----------------------------- MODULE FarmProofs -----------------------------
(***************************************************************************)
(* Proofs about Farm: the supervisor's resets do not overlap, complete only *)
(* when every board has started cold since, but for the exceptions named in *)
(* EpochIsClean, and are based on observations that are later than the      *)
(* reset before; a deployment flashes boards whose loggers have left the    *)
(* port, and reports the boards it leaves without.                          *)
(*                                                                          *)
(* The argument: while the supervisor waits, the observation of a board     *)
(* with a pending request is as old as the request, because a logger that   *)
(* finds the request serves it before it reads.  When the wait ends, either *)
(* that observation is stale or the board has acknowledged, and then the    *)
(* observation is below its floor.  So a board with a pending request is    *)
(* not usable, and the supervisor needs all boards to arm again.            *)
(*                                                                          *)
(* A deployment's own invariant (Discipline) follows the boards through its *)
(* loops: those without a logger are the ones that it has come past, while  *)
(* it stops loggers, and the ones that it is not done with afterwards.      *)
(***************************************************************************)
EXTENDS Farm, TLAPS, WellFoundedInduction

\* What the proofs need of the variables' types.
Types ==
  /\ screen \in [Board -> {"none", "retrying", "reading", "serving", "pulsed"}]
  /\ flag \in [Board -> BOOLEAN]
  /\ device \in [Board -> {"booting", "asleep", "cold", "observed"}]
  /\ log \in [Board -> Summary]
  /\ sup \in Supervisor
  /\ sup.pc = "issuing" => sup.resetAge = 0
  /\ sup.pc \in {"monitor", "waiting"} => sup.todo = {}

Down(b) == device[b] \in {"booting", "asleep"}

\* A board that has acknowledged within the unit of the request sleeps.
SleepsAfter(b) ==
  sup.pc # "monitor" /\ sup.resetAge = 0 /\ log[b].acknowledged =>
    ~log[b].sinceMarker /\ Down(b)

\* A request that is pending while the supervisor waits for it, ...
PendingAwaited(b) ==
  sup.pc = "waiting" /\ flag[b] =>
    /\ log[b].age >= sup.resetAge
    /\ screen[b] = "reading" => sup.resetAge = 0
    /\ log[b].acknowledged => ~log[b].sinceMarker

\* ... and one that the supervisor no longer waits for.
PendingLeft(b) ==
  sup.pc = "monitor" /\ flag[b] =>
    /\ ~Usable(b)
    /\ screen[b] = "reading" => Down(b)

Pending(b) ==
  /\ SleepsAfter(b)
  /\ ~forgot => PendingAwaited(b) /\ PendingLeft(b)
  /\ screen[b] \in {"serving", "pulsed"} => flag[b]

\* Acknowledgments, and markers to come, are of cold starts since the arming, or
\* of those at that time, which have their reasons.
Cold(b) ==
  sup.pc # "monitor" =>
    /\ log[b].acknowledged \/ device[b] = "booting" => b \in restarted \cup starting
    /\ b \in starting => forgot \/ b \in flashed

\* A board that has started cold, unless a deployment flashed it: ...
Served(b) ==
  /\ sup.pc # "monitor" /\ flag[b] /\ screen[b] = "reading" => device[b] # "booting"
  /\ sup.pc = "monitor" /\ device[b] # "observed" => ~Usable(b)
  /\ b \in sup.todo => device[b] # "booting" /\ ~flag[b]
  /\ sup.pc # "monitor" => /\ flag[b] \/ b \in sup.todo => ~log[b].acknowledged
                           /\ device[b] # "observed" =>
                                /\ log[b].age >= sup.resetAge
                                /\ log[b].acknowledged => ~log[b].sinceMarker

Observed(b) == ~forgot /\ b \notin flashed => Served(b)

IInv == Types /\ \A b \in Board : Pending(b) /\ Cold(b) /\ Observed(b)

-----------------------------------------------------------------------------
(* What each action does to one board *)

USE DurationsAssumption

\* A deployment stops and starts loggers and resets boards; it touches neither
\* requests nor logs.
LEMMA DeployEffect ==
  ASSUME Types, Deploying
  PROVE  /\ flag' = flag /\ log' = log
         /\ screen' \in [Board -> {"none", "retrying", "reading", "serving", "pulsed"}]
         /\ device' \in [Board -> {"booting", "asleep", "cold", "observed"}]
         /\ \A c \in Board : screen'[c] = screen[c] \/ screen'[c] \in {"none", "retrying"}
         /\ \A c \in Board : device'[c] = device[c] \/ device'[c] = "booting"
<1> USE DEF Types, loggerVars
<1>1. CASE Build \/ Quit \/ AfterGone \/ StillThere \/ LoopDone \/ Template \/ AllDone
  BY <1>1 DEF Build, Quit, AfterGone, StillThere, LoopDone, Template, AllDone
<1>2. CASE Killed
  BY <1>2 DEF Killed
<1>3. CASE RestartLogger
  BY <1>3 DEF RestartLogger, Started
<1>4. ASSUME NEW b \in Board, Flash(b) \/ Deployed(b)
      PROVE  /\ flag' = flag /\ log' = log
             /\ screen' \in [Board -> {"none", "retrying", "reading", "serving", "pulsed"}]
             /\ device' \in [Board -> {"booting", "asleep", "cold", "observed"}]
             /\ \A c \in Board : screen'[c] = screen[c] \/ screen'[c] \in {"none", "retrying"}
             /\ \A c \in Board : device'[c] = device[c] \/ device'[c] = "booting"
  BY <1>4 DEF Flash, Deployed, Started
<1>5. ASSUME NEW b \in Board, NEW wrote \in BOOLEAN, NotDeployed(b, wrote)
      PROVE  /\ flag' = flag /\ log' = log /\ screen' = screen
             /\ device' \in [Board -> {"booting", "asleep", "cold", "observed"}]
             /\ \A c \in Board : device'[c] = device[c] \/ device'[c] = "booting"
  BY <1>5 DEF NotDeployed
<1> QED BY <1>1, <1>2, <1>3, <1>4, <1>5 DEF Deploying

\* The invariant holds initially: nothing has been observed or requested.
LEMMA InitIInv == Init => IInv
<1> SUFFICES ASSUME Init PROVE IInv
  OBVIOUS
<1>1. Types
  BY DEF Init, LoggerInit, Types, Summary, Started0, Supervisor
<1>2. ASSUME NEW b \in Board PROVE Pending(b) /\ Cold(b) /\ Observed(b)
  BY DEF Init, LoggerInit, Started0, Pending, SleepsAfter, PendingAwaited, PendingLeft,
         Cold, Observed, Served, Usable
<1> QED BY <1>1, <1>2 DEF IInv

-----------------------------------------------------------------------------
(* The supervisor's steps *)

\* The supervisor finds no unanimous home.
LEMMA NotConvergedIInv ==
  ASSUME IInv, NotConverged
  PROVE  IInv'
<1> USE DEF IInv, loggerVars, supVars, history
<1>1. Types'
  BY DEF Types, NotConverged, Resume, Started0, Summary, Supervisor
<1>2. ASSUME NEW c \in Board PROVE Pending(c)' /\ Cold(c)' /\ Observed(c)'
  <2>1. Pending(c) /\ Cold(c) /\ Observed(c)
    OBVIOUS
  <2>2. Pending(c)'
    BY <2>1 DEF Types, Pending, SleepsAfter, PendingAwaited, PendingLeft, Usable, Down,
                Observed, Served, Summary, Supervisor, NotConverged, Resume, Started0
  <2>3. Cold(c)'
    BY <2>1 DEF Types, Cold, Supervisor, NotConverged, Resume, Started0
  <2>4. Observed(c)'
    BY <2>1 DEF Types, Pending, SleepsAfter, PendingAwaited, PendingLeft, Usable, Down,
                Observed, Served, Summary, Supervisor, NotConverged, Resume, Started0
  <2> QED BY <2>2, <2>3, <2>4
<1> QED BY <1>1, <1>2

\* The supervisor finds a home.
LEMMA CandidateIInv ==
  ASSUME IInv, NEW h \in Home, Candidate(h)
  PROVE  IInv'
<1> USE DEF IInv, loggerVars, supVars, history
<1>0. sup' = [pc |-> "monitor", home |-> h, since |-> 0, todo |-> {}, resetAge |-> sup.resetAge]
  BY DEF Types, Supervisor, Candidate
<1>1. Types'
  BY <1>0 DEF Types, Candidate, Summary, Supervisor
<1>2. ASSUME NEW c \in Board PROVE Pending(c)' /\ Cold(c)' /\ Observed(c)'
  <2>1. Pending(c) /\ Cold(c) /\ Observed(c)
    OBVIOUS
  <2>2. Pending(c)'
    BY <2>1, <1>0 DEF Types, Pending, SleepsAfter, PendingAwaited, PendingLeft, Usable, Down,
                Observed, Served, Summary, Supervisor, Candidate
  <2>3. Cold(c)'
    BY <2>1, <1>0 DEF Types, Cold, Supervisor, Candidate
  <2>4. Observed(c)'
    BY <2>1, <1>0 DEF Types, Pending, SleepsAfter, PendingAwaited, PendingLeft, Usable, Down,
                Observed, Served, Summary, Supervisor, Candidate
  <2> QED BY <2>2, <2>3, <2>4
<1> QED BY <1>1, <1>2

\* Arming: a usable board is observed, unless it has been flashed or a request
\* has been forgotten.
LEMMA ArmIInv ==
  ASSUME IInv, NEW h \in Home, Arm(h)
  PROVE  IInv'
<1> USE DEF IInv, loggerVars, supVars, history
<1>0. PICK early \in SUBSET JustMarked :
        log' = NoneAcknowledged(early) /\ starting' = {b \in Board : device[b] = "booting"} \cup early
  BY DEF Arm
<1>a. /\ sup' = [pc |-> "issuing", home |-> sup.home, since |-> sup.since,
                 todo |-> Board, resetAge |-> 0]
      /\ \A b \in Board : log'[b] = [home |-> log[b].home, age |-> log[b].age,
             sinceMarker |-> log[b].sinceMarker, acknowledged |-> b \in early]
      /\ log' \in [Board -> Summary]
  <2>1. sup' = [pc |-> "issuing", home |-> sup.home, since |-> sup.since,
                todo |-> Board, resetAge |-> 0]
    BY DEF Types, Supervisor, Arm
  <2>2. \A b \in Board :
          /\ log[b].home \in Home \cup {NoHome} /\ log[b].age \in 0 .. AgeMax
          /\ log[b].sinceMarker \in BOOLEAN
    BY DEF Types, Summary
  <2>3. ASSUME NEW b \in Board PROVE (b \in early) \in BOOLEAN
    OBVIOUS
  <2>4. log' \in [Board -> Summary]
    BY <1>0, <2>2, <2>3 DEF NoneAcknowledged, Summary
  <2>5. \A b \in Board : log'[b] = [home |-> log[b].home, age |-> log[b].age,
          sinceMarker |-> log[b].sinceMarker, acknowledged |-> b \in early]
    BY <1>0 DEF NoneAcknowledged
  <2> QED BY <2>1, <2>4, <2>5
<1>b. /\ device' = device /\ flag' = flag /\ screen' = screen
      /\ forgot' = (forgot /\ (starting' # {} \/ \E b \in Board : flag[b]))
      /\ flashed' = flashed \cap starting' /\ sup.pc = "monitor"
      /\ \A b \in Board : Usable(b)
  BY DEF Arm, Unanimous
<1>1. Types'
  BY <1>a, <1>b DEF Types, Supervisor
<1>2. ASSUME NEW c \in Board PROVE Pending(c)' /\ Cold(c)' /\ Observed(c)'
  <2>1. Pending(c) /\ Cold(c) /\ Observed(c) /\ Usable(c)
    BY <1>b
  <2>2. /\ log'[c].age = log[c].age /\ log'[c].sinceMarker = log[c].sinceMarker
        /\ log'[c].acknowledged = (c \in early) /\ log[c].age \in Nat
        /\ c \in early => device[c] = "asleep" /\ ~log[c].sinceMarker
    BY <1>0, <1>a DEF JustMarked, Types, Summary
  <2>3. /\ sup'.pc = "issuing" /\ sup'.todo = Board /\ sup'.resetAge = 0
    BY <1>a
  <2>4. /\ ~forgot => ~flag[c]
        /\ ~forgot /\ c \notin flashed => device[c] = "observed"
    BY <1>b, <2>1 DEF Pending, PendingLeft, Observed, Served
  <2>5. c \in starting' => device[c] # "observed"
    BY <1>0, <2>2
  <2>6. Pending(c)'
    BY <1>b, <2>1, <2>2, <2>3 DEF Pending, SleepsAfter, PendingAwaited, PendingLeft, Down
  <2>7. Cold(c)'
    BY <1>0, <1>b, <2>2, <2>4, <2>5 DEF Cold
  <2>8. Observed(c)'
    <3> SUFFICES ASSUME ~forgot', c \notin flashed' PROVE Served(c)'
      BY DEF Observed
    <3>1. c \notin starting' /\ ~flag[c]
      BY <1>b, <2>4, <2>5
    <3>2. device[c] # "booting" /\ c \notin early
      BY <1>0, <3>1
    <3>3. ~log'[c].acknowledged
      BY <2>2, <3>2, Zenon
    <3>4. log'[c].age >= sup'.resetAge
      BY <2>2, <2>3
    <3> QED BY <1>b, <2>3, <3>1, <3>2, <3>3, <3>4 DEF Served
  <2> QED BY <2>6, <2>7, <2>8
<1> QED BY <1>1, <1>2

\* A request is written.
LEMMA IssueIInv ==
  ASSUME IInv, NEW b \in Board, IssueRequest(b)
  PROVE  IInv'
<1> USE DEF IInv, loggerVars, supVars, history
<1>1. Types'
  BY DEF Types, IssueRequest, Summary, Supervisor
<1>2. ASSUME NEW c \in Board PROVE Pending(c)' /\ Cold(c)' /\ Observed(c)'
  <2>1. Pending(c) /\ Cold(c) /\ Observed(c)
    OBVIOUS
  <2>2. Pending(c)'
    BY <2>1 DEF Types, Pending, SleepsAfter, PendingAwaited, PendingLeft, Usable, Down,
                Observed, Served, Summary, Supervisor, IssueRequest
  <2>3. Cold(c)'
    BY <2>1 DEF Types, Cold, Supervisor, IssueRequest
  <2>4. Observed(c)'
    BY <2>1 DEF Types, Pending, SleepsAfter, PendingAwaited, PendingLeft, Usable, Down,
                Observed, Served, Summary, Supervisor, IssueRequest
  <2> QED BY <2>2, <2>3, <2>4
<1> QED BY <1>1, <1>2

\* The floors make up for requests that are still pending.
LEMMA CompleteIInv ==
  ASSUME IInv, Complete
  PROVE  IInv'
<1> USE DEF IInv, loggerVars, supVars, history
<1>1. Types'
  BY DEF Types, Complete, Acknowledged, Resume, Started0, Summary, Supervisor
<1>2. ASSUME NEW c \in Board PROVE Pending(c)' /\ Cold(c)' /\ Observed(c)'
  <2>1. Pending(c) /\ Cold(c) /\ Observed(c)
    OBVIOUS
  <2>2. Pending(c)'
    BY <2>1 DEF Types, Pending, SleepsAfter, PendingAwaited, PendingLeft, Usable, Down,
                Observed, Served, Summary, Supervisor, Complete, Acknowledged, Resume, Started0
  <2>3. Cold(c)'
    BY <2>1 DEF Types, Cold, Supervisor, Complete, Acknowledged, Resume, Started0
  <2>4. Observed(c)'
    BY <2>1 DEF Types, Pending, SleepsAfter, PendingAwaited, PendingLeft, Usable, Down,
                Observed, Served, Summary, Supervisor, Complete, Acknowledged, Resume, Started0
  <2> QED BY <2>2, <2>3, <2>4
<1> QED BY <1>1, <1>2

\* When the wait is given up, the observations of before it are stale.
LEMMA GiveUpIInv ==
  ASSUME IInv, GiveUp \/ Unreadable
  PROVE  IInv'
<1> USE DEF IInv, loggerVars, supVars, history
<1>1. Types'
  BY DEF Types, GiveUp, Unreadable, Overdue, Resume, Started0, Summary, Supervisor
<1>2. ASSUME NEW c \in Board PROVE Pending(c)' /\ Cold(c)' /\ Observed(c)'
  <2>1. Pending(c) /\ Cold(c) /\ Observed(c)
    OBVIOUS
  <2>2. Pending(c)'
    BY <2>1 DEF Types, Pending, SleepsAfter, PendingAwaited, PendingLeft, Usable, Down,
                Observed, Served, Summary, Supervisor, GiveUp, Unreadable, Overdue, Resume, Started0
  <2>3. Cold(c)'
    BY <2>1 DEF Types, Cold, Supervisor, GiveUp, Unreadable, Overdue, Resume, Started0
  <2>4. Observed(c)'
    BY <2>1 DEF Types, Pending, SleepsAfter, PendingAwaited, PendingLeft, Usable, Down,
                Observed, Served, Summary, Supervisor, GiveUp, Unreadable, Overdue, Resume, Started0
  <2> QED BY <2>2, <2>3, <2>4
<1> QED BY <1>1, <1>2

\* A new supervisor promises nothing.
LEMMA RestartIInv ==
  ASSUME IInv, Restart
  PROVE  IInv'
<1> USE DEF IInv, loggerVars, supVars, history
<1>1. Types'
  BY DEF Types, Restart, Resume, Started0, Summary, Supervisor
<1>2. ASSUME NEW c \in Board PROVE Pending(c)' /\ Cold(c)' /\ Observed(c)'
  <2>1. Pending(c) /\ Cold(c) /\ Observed(c)
    OBVIOUS
  <2>2. Pending(c)'
    BY <2>1 DEF Types, Pending, SleepsAfter, PendingAwaited, PendingLeft, Usable, Down,
                Observed, Served, Summary, Supervisor, Restart, Resume, Started0
  <2>3. Cold(c)'
    BY <2>1 DEF Types, Cold, Supervisor, Restart, Resume, Started0
  <2>4. Observed(c)'
    BY <2>1 DEF Types, Pending, SleepsAfter, PendingAwaited, PendingLeft, Usable, Down,
                Observed, Served, Summary, Supervisor, Restart, Resume, Started0
  <2> QED BY <2>2, <2>3, <2>4
<1> QED BY <1>1, <1>2

-----------------------------------------------------------------------------
(* The loggers' steps *)

\* A look at the request file.
LEMMA OpenIInv ==
  ASSUME IInv, NEW b \in Board, Open(b) \/ ReadNothing(b), restarted' = restarted \cup Starting, UNCHANGED <<supVars, starting, flashed>>
  PROVE  IInv'
<1> USE DEF IInv, loggerVars, supVars, history
<1>1. Types'
  BY DEF Types, Open, ReadNothing, Look, Goto, Starting, Summary, Supervisor
<1>2. ASSUME NEW c \in Board PROVE Pending(c)' /\ Cold(c)' /\ Observed(c)'
  <2>1. Pending(c) /\ Cold(c) /\ Observed(c)
    OBVIOUS
  <2>2. Pending(c)'
    BY <2>1 DEF Types, Pending, SleepsAfter, PendingAwaited, PendingLeft, Usable, Down,
                Observed, Served, Summary, Supervisor, Open, ReadNothing, Look, Goto, Starting
  <2>3. Cold(c)'
    BY <2>1 DEF Types, Cold, Supervisor, Open, ReadNothing, Look, Goto, Starting
  <2>4. Observed(c)'
    BY <2>1 DEF Types, Pending, SleepsAfter, PendingAwaited, PendingLeft, Usable, Down,
                Observed, Served, Summary, Supervisor, Open, ReadNothing, Look, Goto, Starting
  <2> QED BY <2>2, <2>3, <2>4
<1> QED BY <1>1, <1>2

\* A request is served.
LEMMA PulseIInv ==
  ASSUME IInv, NEW b \in Board, Pulse(b) \/ Unlink(b), restarted' = restarted \cup Starting, UNCHANGED <<supVars, starting, flashed>>
  PROVE  IInv'
<1> USE DEF IInv, loggerVars, supVars, history
<1>1. Types'
  BY DEF Types, Pulse, Unlink, Goto, Starting, Summary, Supervisor
<1>2. ASSUME NEW c \in Board PROVE Pending(c)' /\ Cold(c)' /\ Observed(c)'
  <2>1. Pending(c) /\ Cold(c) /\ Observed(c)
    OBVIOUS
  <2>2. Pending(c)'
    BY <2>1 DEF Types, Pending, SleepsAfter, PendingAwaited, PendingLeft, Usable, Down,
                Observed, Served, Summary, Supervisor, Pulse, Unlink, Goto, Starting
  <2>3. Cold(c)'
    BY <2>1 DEF Types, Cold, Supervisor, Pulse, Unlink, Goto, Starting
  <2>4. Observed(c)'
    BY <2>1 DEF Types, Pending, SleepsAfter, PendingAwaited, PendingLeft, Usable, Down,
                Observed, Served, Summary, Supervisor, Pulse, Unlink, Goto, Starting
  <2> QED BY <2>2, <2>3, <2>4
<1> QED BY <1>1, <1>2

\* A marker is read.
LEMMA MarkerIInv ==
  ASSUME IInv, NEW b \in Board, ReadMarker(b), restarted' = restarted \cup Starting, UNCHANGED <<supVars, starting, flashed>>
  PROVE  IInv'
<1> USE DEF IInv, loggerVars, supVars, history
<1>1. Types'
  BY DEF Types, ReadMarker, Marked, Look, Goto, Starting, Summary, Supervisor
<1>2. ASSUME NEW c \in Board PROVE Pending(c)' /\ Cold(c)' /\ Observed(c)'
  <2>1. Pending(c) /\ Cold(c) /\ Observed(c)
    OBVIOUS
  <2>2. Pending(c)'
    BY <2>1 DEF Types, Pending, SleepsAfter, PendingAwaited, PendingLeft, Usable, Down,
                Observed, Served, Summary, Supervisor, ReadMarker, Marked, Look, Goto, Starting
  <2>3. Cold(c)'
    BY <2>1 DEF Types, Cold, Supervisor, ReadMarker, Marked, Look, Goto, Starting
  <2>4. Observed(c)'
    BY <2>1 DEF Types, Pending, SleepsAfter, PendingAwaited, PendingLeft, Usable, Down,
                Observed, Served, Summary, Supervisor, ReadMarker, Marked, Look, Goto, Starting
  <2> QED BY <2>2, <2>3, <2>4
<1> QED BY <1>1, <1>2

\* An exchange is read.
LEMMA ObserveIInv ==
  ASSUME IInv, NEW b \in Board, NEW h \in Home, Observe(b, h)
  PROVE  IInv'
<1> USE DEF IInv, loggerVars, supVars, history
<1>1. Types'
  BY DEF Types, Observe, ReadExchange, Reports, Look, Goto, Summary, Supervisor
<1>2. ASSUME NEW c \in Board PROVE Pending(c)' /\ Cold(c)' /\ Observed(c)'
  <2>1. Pending(c) /\ Cold(c) /\ Observed(c)
    OBVIOUS
  <2>2. Pending(c)'
    BY <2>1 DEF Types, Pending, SleepsAfter, PendingAwaited, PendingLeft, Usable, Down,
                Observed, Served, Summary, Supervisor, Observe, ReadExchange, Reports, Look, Goto
  <2>3. Cold(c)'
    BY <2>1 DEF Types, Cold, Supervisor, Observe, ReadExchange, Reports, Look, Goto
  <2>4. Observed(c)'
    BY <2>1 DEF Types, Pending, SleepsAfter, PendingAwaited, PendingLeft, Usable, Down,
                Observed, Served, Summary, Supervisor, Observe, ReadExchange, Reports, Look, Goto
  <2> QED BY <2>2, <2>3, <2>4
<1> QED BY <1>1, <1>2

\* The port is lost, or a marker.
LEMMA LossIInv ==
  ASSUME IInv, NEW b \in Board, Disconnect(b) \/ LoseMarker(b), UNCHANGED <<supVars, history>>
  PROVE  IInv'
<1> USE DEF IInv, loggerVars, supVars, history
<1>1. Types'
  BY DEF Types, Disconnect, LoseMarker, Goto, Summary, Supervisor
<1>2. ASSUME NEW c \in Board PROVE Pending(c)' /\ Cold(c)' /\ Observed(c)'
  <2>1. Pending(c) /\ Cold(c) /\ Observed(c)
    OBVIOUS
  <2>2. Pending(c)'
    BY <2>1 DEF Types, Pending, SleepsAfter, PendingAwaited, PendingLeft, Usable, Down,
                Observed, Served, Summary, Supervisor, Disconnect, LoseMarker, Goto
  <2>3. Cold(c)'
    BY <2>1 DEF Types, Cold, Supervisor, Disconnect, LoseMarker, Goto
  <2>4. Observed(c)'
    BY <2>1 DEF Types, Pending, SleepsAfter, PendingAwaited, PendingLeft, Usable, Down,
                Observed, Served, Summary, Supervisor, Disconnect, LoseMarker, Goto
  <2> QED BY <2>2, <2>3, <2>4
<1> QED BY <1>1, <1>2

\* Time passes: a logger that has its port open has no request left.
LEMMA TickIInv ==
  ASSUME IInv, Tick
  PROVE  IInv'
<1> USE DEF IInv, loggerVars, supVars, history
<1>0. log' = [b \in Board |-> Aged(log[b])] /\ \A b \in Board : log[b] \in Summary
  BY DEF Types, Tick, Minute
<1>c. \A l \in Summary : Aged(l) \in Summary
  BY DEF Summary, Aged, Older
<1>d. log' \in [Board -> Summary]
  BY <1>0, <1>c
<1>a. sup' = [pc |-> sup.pc, home |-> sup.home, todo |-> sup.todo,
        since |-> IF sup.since < Sustain /\ sup.home # NoHome THEN sup.since + 1 ELSE sup.since,
        resetAge |-> IF sup.pc = "waiting" /\ sup.resetAge <= AckTimeout
                     THEN sup.resetAge + 1 ELSE sup.resetAge]
  BY DEF Types, Tick, Supervisor
<1>b. /\ device' = [b \in Board |-> IF device[b] = "asleep" THEN "cold" ELSE device[b]]
      /\ UNCHANGED <<screen, flag>>
  BY DEF Tick, Minute
<1>1. Types'
  BY <1>a, <1>b, <1>d DEF Types, Supervisor
<1>2. ASSUME NEW c \in Board PROVE Pending(c)' /\ Cold(c)' /\ Observed(c)'
  <2>1. Pending(c) /\ Cold(c) /\ Observed(c)
    OBVIOUS
  <2>2. Pending(c)'
    BY <2>1, <1>0, <1>a, <1>b DEF Aged, Older, Types, Pending, SleepsAfter, PendingAwaited, PendingLeft, Usable, Down,
                Observed, Served, Summary, Supervisor, Tick, PortOpen
  <2>3. Cold(c)'
    BY <2>1, <1>0, <1>a, <1>b DEF Aged, Older, Types, Cold, Supervisor, Tick, PortOpen
  <2>4. Observed(c)'
    BY <2>1, <1>0, <1>a, <1>b DEF Aged, Older, Types, Pending, SleepsAfter, PendingAwaited, PendingLeft, Usable, Down,
                Observed, Served, Summary, Supervisor, Tick, PortOpen
  <2> QED BY <2>2, <2>3, <2>4
<1> QED BY <1>1, <1>2

\* A deployment: what it resets counts as flashed, and its new loggers look for
\* a request before they read.
LEMMA DeployIInv ==
  ASSUME IInv, DeployStep
  PROVE  IInv'
<1> USE DEF IInv, supVars
<1>1. /\ flag' = flag /\ log' = log
      /\ screen' \in [Board -> {"none", "retrying", "reading", "serving", "pulsed"}]
      /\ device' \in [Board -> {"booting", "asleep", "cold", "observed"}]
      /\ \A c \in Board : screen'[c] = screen[c] \/ screen'[c] \in {"none", "retrying"}
      /\ \A c \in Board : device'[c] = device[c] \/ device'[c] = "booting"
  BY DeployEffect DEF DeployStep
<1>2. Types'
  BY <1>1 DEF Types, DeployStep
<1>3. ASSUME NEW c \in Board PROVE Pending(c)' /\ Cold(c)' /\ Observed(c)'
  <2>1. Pending(c) /\ Cold(c) /\ Observed(c)
    OBVIOUS
  <2>2. /\ sup' = sup /\ floored' = floored /\ forgot' = forgot
        /\ restarted' = restarted \cup Starting /\ flashed' = flashed \cup Starting
        /\ starting' = starting
    BY DEF DeployStep
  <2>3. Pending(c)'
    BY <1>1, <2>1, <2>2 DEF Pending, SleepsAfter, PendingAwaited, PendingLeft, Usable, Down
  <2>4. Cold(c)'
    BY <1>1, <2>1, <2>2 DEF Types, Cold, Starting
  <2>5. Observed(c)'
    BY <1>1, <2>1, <2>2 DEF Observed, Served, Usable, Starting
  <2> QED BY <2>3, <2>4, <2>5
<1> QED BY <1>2, <1>3

\* Steps that change nothing that the invariant is about.
LEMMA StutterIInv ==
  ASSUME IInv, UNCHANGED <<loggerVars, supVars, history>>
  PROVE  IInv'
BY DEF IInv, loggerVars, supVars, history, Types, Pending, SleepsAfter, PendingAwaited,
       PendingLeft, Usable, Down, Cold, Observed, Served

-----------------------------------------------------------------------------
(* The theorems *)

THEOREM Invariance == Spec => []IInv
<1>1. ASSUME IInv, [Next]_vars PROVE IInv'
  <2>1. CASE Supervise
    BY <1>1, <2>1, NotConvergedIInv, CandidateIInv, ArmIInv, IssueIInv, CompleteIInv,
       GiveUpIInv DEF Supervise
  <2>2. CASE DeployStep
    BY <1>1, <2>2, DeployIInv
  <2>3. CASE Tick
    BY <1>1, <2>3, TickIInv
  <2>4. ASSUME NEW b \in Board, LogStep(b) PROVE IInv'
    BY <1>1, <2>4, OpenIInv, PulseIInv, MarkerIInv DEF LogStep, Serve
  <2>5. ASSUME NEW b \in Board, NEW h \in Home, Observe(b, h) PROVE IInv'
    BY <1>1, <2>5, ObserveIInv
  <2>6. CASE Mishap
    <3>1. CASE Unreadable \/ Restart
      BY <1>1, <3>1, GiveUpIInv, RestartIInv
    <3>2. ASSUME NEW mode \in Modes, Begin(mode), UNCHANGED <<supVars, history>>
          PROVE  IInv'
      BY <1>1, <3>2, StutterIInv DEF Begin
    <3>3. ASSUME NEW b \in Board, Disconnect(b) \/ LoseMarker(b),
                 UNCHANGED <<supVars, history>>
          PROVE  IInv'
      BY <1>1, <3>3, LossIInv
    <3> QED BY <2>6, <3>1, <3>2, <3>3 DEF Mishap
  <2>7. CASE UNCHANGED vars
    BY <1>1, <2>7, StutterIInv DEF vars
  <2> QED BY <1>1, <2>1, <2>2, <2>3, <2>4, <2>5, <2>6, <2>7 DEF Next
<1> QED BY InitIInv, <1>1, PTL DEF Spec

\* A supervisor that remembers arms only when no request is pending: a board
\* with one is not usable (main(), requested_reset()).
THEOREM NoOverlap == Spec => RequestsNeverOverlap
<1>1. ASSUME IInv, NEW h \in Home, Arm(h), ~forgot, NEW b \in Board
      PROVE  ~flag[b]
  <2>1. Usable(b) /\ sup.pc = "monitor"
    BY <1>1 DEF Arm, Unanimous
  <2> QED BY <1>1, <2>1 DEF IInv, Pending, PendingLeft
<1>2. IInv => [\A h \in Home : Arm(h) /\ ~forgot => \A b \in Board : ~flag[b]]_vars
  BY <1>1
<1> QED BY Invariance, <1>2, PTL DEF RequestsNeverOverlap

\* Acknowledgments are markers of cold starts since the arming, or of those
\* that were under way or just announced then, of a flashed board or under a
\* supervisor that forgot (epoch_acknowledgments()).
THEOREM CleanEpochs == Spec => EpochIsClean
<1> DEFINE Clean == \A b \in Board : \/ b \in restarted
                                     \/ b \in starting /\ (forgot \/ b \in flashed)
<1>1. ASSUME IInv, Complete PROVE Clean
  <2>1. \A b \in Board : log[b].acknowledged /\ sup.pc = "waiting"
    BY <1>1 DEF Complete, Acknowledged
  <2> QED BY <1>1, <2>1 DEF IInv, Cold
<1>2. IInv => [Complete => Clean]_vars
  BY <1>1
<1> QED BY Invariance, <1>2, PTL DEF EpochIsClean

\* A reset is based on observations that are later than the reset before
\* (observation_floors).
THEOREM LaterObservations == Spec => ObservedSinceReset
<1>1. ASSUME IInv, NEW h \in Home, Arm(h), ~forgot, NEW b \in Board \ flashed
      PROVE  device[b] = "observed"
  <2>1. Usable(b) /\ sup.pc = "monitor"
    BY <1>1 DEF Arm, Unanimous
  <2> QED BY <1>1, <2>1 DEF IInv, Observed, Served
<1>2. IInv => [\A h \in Home : Arm(h) /\ ~forgot =>
                 \A b \in Board \ flashed : device[b] = "observed"]_vars
  BY <1>1
<1> QED BY Invariance, <1>2, PTL DEF ObservedSinceReset

-----------------------------------------------------------------------------
(* Deployments: what a deployment has stopped, and what it has yet to do *)

\* While loggers are stopped: those of the boards that had their turn, unless
\* the loggers are started again at once.
Stopping ==
  deploy.pc \in {"build", "quit", "gone"} =>
    /\ deploy.flashing = {} /\ deploy.failed = {}
    /\ deploy.pc = "build" => deploy.todo = Board /\ deploy.mode # "log-only"
    /\ deploy.pc = "gone" => deploy.todo # {}
    /\ stopped = IF deploy.mode = "log-only" THEN {} ELSE Board \ deploy.todo
    /\ \A b \in stopped : screen[b] = "none"

\* While boards are flashed: those that wait for it, are at it, or failed.
Flashing ==
  deploy.pc \in {"template", "work"} =>
    /\ deploy.mode # "log-only"
    /\ deploy.pc = "template" => deploy.todo = Board /\ deploy.flashing = {} /\ deploy.failed = {}
    /\ deploy.todo \cap deploy.flashing = {}
    /\ deploy.failed \cap (deploy.todo \cup deploy.flashing) = {}
    /\ stopped = deploy.todo \cup deploy.flashing \cup deploy.failed
    /\ \A b \in deploy.todo \cup deploy.flashing : screen[b] = "none"

\* Afterwards.
Over ==
  deploy.pc = "idle" =>
    /\ deploy.flashing = {} /\ deploy.todo = {}
    /\ ended = "ok" => stopped = {}
    /\ ended = "failed for" => stopped = deploy.failed

Discipline ==
  /\ screen \in [Board -> {"none", "retrying", "reading", "serving", "pulsed"}]
  /\ DeployTypeOK /\ Stopping /\ Flashing /\ Over

\* Ports are numbers, so a set of boards that is not empty has a first one.
LEMMA LeastPort ==
  ASSUME NEW S \in SUBSET Board, S # {}
  PROVE  \E b \in S : \A c \in S : b <= c
<1> DEFINE R == OpToRel(<, Nat)
<1>0. S \in SUBSET Nat
  BY PortsAssumption
<1>1. IsWellFoundedOn(R, Nat)
  BY NatLessThanWellFounded
<1> HIDE DEF R
<1>2. PICK b \in S : \A c \in S : ~(<<c, b>> \in R)
  BY <1>0, <1>1, WFMin
<1>3. ASSUME NEW c \in S, c < b PROVE FALSE
  <2>1. <<c, b>> \in R
    BY <1>0, <1>3 DEF R, OpToRel
  <2> QED BY <1>2, <2>1
<1> QED BY <1>0, <1>3

\* The loop over the boards comes to one that it has yet to do.
LEMMA CurrentIsToDo ==
  ASSUME DeployTypeOK, deploy.todo # {}
  PROVE  Current \in deploy.todo /\ Current \in Board
<1>1. deploy.todo \in SUBSET Board
  BY DEF DeployTypeOK, Script
<1>2. \E b \in deploy.todo : \A c \in deploy.todo : b <= c
  BY <1>1, LeastPort
<1> QED BY <1>1, <1>2 DEF Current

LEMMA IdleScript == Idle \in Script
<1>1. (CHOOSE m \in Modes : TRUE) \in Modes
  BY ModesAssumption
<1> QED BY <1>1 DEF Idle, Script

\* A script that an exception ends leaves nothing to be done.
LEMMA EndsDiscipline ==
  ASSUME Discipline, Ends("exception"), stopped' \in SUBSET Board,
         screen' \in [Board -> {"none", "retrying", "reading", "serving", "pulsed"}]
  PROVE  Discipline'
<1>1. deploy' = Idle /\ ended' = "exception"
  BY DEF Ends
<1>2. Idle.pc = "idle" /\ Idle.todo = {} /\ Idle.flashing = {}
  BY DEF Idle
<1> QED BY <1>1, <1>2, IdleScript DEF Discipline, DeployTypeOK, Stopping, Flashing, Over

\* It begins.
LEMMA BeginDiscipline ==
  ASSUME Discipline, NEW mode \in Modes, Begin(mode)
  PROVE  Discipline'
<1>1. deploy' = [pc |-> IF mode = "log-only" THEN "quit" ELSE "build", mode |-> mode,
                 existing |-> Sessions, todo |-> Board, flashing |-> {}, failed |-> {}]
  BY DEF Begin, Idle
<1>2. stopped' = {} /\ UNCHANGED <<screen, ended>>
  BY DEF Begin, loggerVars
<1>3. Sessions \in SUBSET Board
  BY DEF Sessions
<1>4. DeployTypeOK'
  BY <1>1, <1>2, <1>3 DEF Discipline, DeployTypeOK, Script
<1>5. Stopping' /\ Flashing' /\ Over'
  BY <1>1, <1>2 DEF Stopping, Flashing, Over
<1> QED BY <1>2, <1>4, <1>5 DEF Discipline

\* It builds the firmware.
LEMMA BuildDiscipline ==
  ASSUME Discipline, Build
  PROVE  Discipline'
<1>1. UNCHANGED <<screen, stopped>> /\ deploy.pc = "build"
  BY DEF Build, loggerVars
<1>2. CASE deploy' = [deploy EXCEPT !.pc = "quit"] /\ UNCHANGED ended
  BY <1>1, <1>2 DEF Discipline, DeployTypeOK, Script, Stopping, Flashing, Over
<1>3. CASE Ends("exception")
  BY <1>1, <1>3, EndsDiscipline DEF Discipline, DeployTypeOK
<1> QED BY <1>2, <1>3 DEF Build

\* It tells a logger to quit, and waits for it.
LEMMA QuitDiscipline ==
  ASSUME Discipline, Quit \/ Killed \/ StillThere
  PROVE  Discipline'
<1>1. CASE Quit /\ deploy' = [deploy EXCEPT !.pc = "gone"]
  <2>1. UNCHANGED <<screen, stopped, ended>> /\ deploy.pc = "quit" /\ deploy.todo # {}
    BY <1>1 DEF Quit, Ends, Idle, loggerVars, Discipline, DeployTypeOK, Script
  <2> QED BY <1>1, <2>1 DEF Discipline, DeployTypeOK, Script, Stopping, Flashing, Over
<1>2. CASE Ends("exception") /\ UNCHANGED <<screen, stopped>>
  BY <1>2, EndsDiscipline DEF Discipline, DeployTypeOK
<1>3. CASE Killed
  <2>1. /\ screen' = [screen EXCEPT ![Current] = "none"] /\ deploy.pc = "gone"
        /\ UNCHANGED <<deploy, stopped, ended>>
    BY <1>3 DEF Killed, deployVars
  <2> QED BY <2>1 DEF Discipline, DeployTypeOK, Script, Stopping, Flashing, Over
<1> QED BY <1>1, <1>2, <1>3 DEF Quit, StillThere, loggerVars

\* The logger is gone: it is counted as stopped.
LEMMA AfterGoneDiscipline ==
  ASSUME Discipline, AfterGone
  PROVE  Discipline'
<1>1. /\ deploy.pc = "gone" /\ screen[Current] = "none" /\ deploy.mode # "log-only"
      /\ deploy' = [deploy EXCEPT !.pc = "quit", !.todo = @ \ {Current}]
      /\ stopped' = stopped \cup {Current}
      /\ UNCHANGED <<screen, ended>>
  BY DEF AfterGone, Gone, loggerVars
<1>2. Current \in deploy.todo /\ Current \in Board
  BY <1>1, CurrentIsToDo DEF Discipline, Stopping
<1> DEFINE c == Current
<1> HIDE DEF c
<1>3. /\ c \in deploy.todo /\ c \in Board /\ screen[c] = "none"
      /\ deploy' = [deploy EXCEPT !.pc = "quit", !.todo = @ \ {c}]
      /\ stopped' = stopped \cup {c}
  BY <1>1, <1>2 DEF c
<1>4. /\ deploy'.pc = "quit" /\ deploy'.todo = deploy.todo \ {c} /\ deploy' \in Script
      /\ deploy'.mode = deploy.mode /\ deploy'.flashing = {} /\ deploy'.failed = {}
  <2>1. deploy \in Script /\ deploy.flashing = {} /\ deploy.failed = {}
    BY <1>1 DEF Discipline, DeployTypeOK, Stopping
  <2>2. deploy' = [pc |-> "quit", mode |-> deploy.mode, existing |-> deploy.existing,
                   todo |-> deploy.todo \ {c}, flashing |-> {}, failed |-> {}]
    BY <1>3, <2>1 DEF Script
  <2> QED BY <2>1, <2>2 DEF Script
<1>5. /\ stopped = Board \ deploy.todo /\ \A b \in stopped : screen[b] = "none"
  BY <1>1 DEF Discipline, Stopping
<1>6. stopped' = Board \ deploy'.todo
  BY <1>3, <1>4, <1>5
<1>7. Stopping'
  BY <1>1, <1>3, <1>4, <1>5, <1>6 DEF Stopping
<1>8. DeployTypeOK' /\ Flashing' /\ Over'
  BY <1>1, <1>4, <1>6 DEF Discipline, DeployTypeOK, Flashing, Over
<1> QED BY <1>1, <1>7, <1>8 DEF Discipline

\* The logger is started again, or not.
LEMMA RestartLoggerDiscipline ==
  ASSUME Discipline, RestartLogger
  PROVE  Discipline'
<1>1. deploy.pc = "gone" /\ deploy.mode = "log-only"
  BY DEF RestartLogger, Gone
<1>2. Current \in deploy.todo /\ Current \in Board
  BY <1>1, CurrentIsToDo DEF Discipline, Stopping
<1> DEFINE c == Current
<1> HIDE DEF c
<1>3. CASE /\ screen' = [screen EXCEPT ![c] = "retrying"]
           /\ deploy' = [deploy EXCEPT !.pc = "quit", !.todo = @ \ {c}]
           /\ UNCHANGED <<stopped, ended>>
  BY <1>1, <1>3 DEF Discipline, DeployTypeOK, Script, Stopping, Flashing, Over
<1>4. CASE Ends("exception") /\ stopped' = stopped \cup {c} /\ UNCHANGED screen
  <2>1. stopped' \in SUBSET Board
    BY <1>2, <1>4 DEF c, Discipline, DeployTypeOK
  <2> QED BY <1>4, <2>1, EndsDiscipline DEF Discipline
<1> QED BY <1>3, <1>4 DEF c, RestartLogger, Started

\* The loop is done.
LEMMA LoopDoneDiscipline ==
  ASSUME Discipline, LoopDone
  PROVE  Discipline'
<1>1. deploy.pc = "quit" /\ deploy.todo = {} /\ UNCHANGED <<screen, stopped>>
  BY DEF LoopDone, loggerVars
<1>2. CASE deploy.mode = "log-only"
  <2>1. deploy' = Idle /\ ended' = "ok" /\ stopped = {}
    BY <1>1, <1>2 DEF LoopDone, Ends, Discipline, Stopping
  <2>2. Idle.pc = "idle" /\ Idle.todo = {} /\ Idle.flashing = {}
    BY DEF Idle
  <2> QED BY <1>1, <2>1, <2>2, IdleScript
        DEF Discipline, DeployTypeOK, Stopping, Flashing, Over
<1>3. CASE deploy.mode # "log-only"
  <2>1. /\ deploy' = [deploy EXCEPT !.todo = Board,
                        !.pc = IF deploy.mode = "parallel" THEN "template" ELSE "work"]
        /\ UNCHANGED ended
    BY <1>3 DEF LoopDone
  <2>2. stopped = Board /\ deploy.flashing = {} /\ deploy.failed = {}
    BY <1>1, <1>3 DEF Discipline, Stopping
  <2> QED BY <1>1, <1>3, <2>1, <2>2 DEF Discipline, DeployTypeOK, Script, Stopping, Flashing, Over
<1> QED BY <1>2, <1>3

\* It looks for the upload command.
LEMMA TemplateDiscipline ==
  ASSUME Discipline, Template
  PROVE  Discipline'
<1>1. UNCHANGED <<screen, stopped>> /\ deploy.pc = "template"
  BY DEF Template, loggerVars
<1>2. CASE deploy' = [deploy EXCEPT !.pc = "work"] /\ UNCHANGED ended
  BY <1>1, <1>2 DEF Discipline, DeployTypeOK, Script, Stopping, Flashing, Over
<1>3. CASE Ends("exception")
  BY <1>1, <1>3, EndsDiscipline DEF Discipline, DeployTypeOK
<1> QED BY <1>2, <1>3 DEF Template

\* A board is flashed.
LEMMA FlashDiscipline ==
  ASSUME Discipline, NEW b \in Board, Flash(b)
  PROVE  Discipline'
<1>1. /\ deploy.pc = "work" /\ b \in deploy.todo
      /\ deploy' = [deploy EXCEPT !.todo = @ \ {b}, !.flashing = @ \cup {b}]
      /\ UNCHANGED <<screen, stopped, ended>>
  BY DEF Flash, loggerVars
<1>2. /\ deploy' \in Script /\ deploy'.pc = "work" /\ deploy'.mode = deploy.mode
      /\ deploy'.todo = deploy.todo \ {b} /\ deploy'.flashing = deploy.flashing \cup {b}
      /\ deploy'.failed = deploy.failed
  BY <1>1 DEF Discipline, DeployTypeOK, Script
<1>3. deploy'.todo \cup deploy'.flashing = deploy.todo \cup deploy.flashing
  BY <1>1, <1>2
<1>4. Flashing'
  BY <1>1, <1>2, <1>3 DEF Discipline, Flashing
<1>5. DeployTypeOK' /\ Stopping' /\ Over'
  BY <1>1, <1>2 DEF Discipline, DeployTypeOK, Stopping, Over
<1> QED BY <1>1, <1>4, <1>5 DEF Discipline

\* Boards are flashed in the loop that is for it.
LEMMA FlashingIsWork ==
  ASSUME Discipline, deploy.flashing # {}
  PROVE  deploy.pc = "work"
BY DEF Discipline, DeployTypeOK, Script, Stopping, Flashing, Over

\* It has a logger again.
LEMMA DeployedDiscipline ==
  ASSUME Discipline, NEW b \in Board, Deployed(b)
  PROVE  Discipline'
<1>1. /\ b \in deploy.flashing
      /\ screen' = [screen EXCEPT ![b] = "retrying"]
      /\ deploy' = [deploy EXCEPT !.flashing = @ \ {b}]
      /\ stopped' = stopped \ {b} /\ UNCHANGED ended
  BY DEF Deployed, Started
<1>2. deploy.pc = "work"
  BY <1>1, FlashingIsWork
<1>3. /\ deploy' \in Script /\ deploy'.pc = "work" /\ deploy'.mode = deploy.mode
      /\ deploy'.todo = deploy.todo /\ deploy'.flashing = deploy.flashing \ {b}
      /\ deploy'.failed = deploy.failed
  BY <1>1, <1>2 DEF Discipline, DeployTypeOK, Script
<1>4. Flashing'
  BY <1>1, <1>2, <1>3 DEF Discipline, Flashing
<1>5. DeployTypeOK' /\ Stopping' /\ Over'
  BY <1>1, <1>3 DEF Discipline, DeployTypeOK, Stopping, Over
<1> QED BY <1>1, <1>4, <1>5 DEF Discipline

\* It has none.
LEMMA NotDeployedDiscipline ==
  ASSUME Discipline, NEW b \in Board, NEW wrote \in BOOLEAN, NotDeployed(b, wrote)
  PROVE  Discipline'
<1>1. b \in deploy.flashing /\ UNCHANGED <<screen, stopped>>
  BY DEF NotDeployed
<1>2. deploy.pc = "work"
  BY <1>1, FlashingIsWork
<1>3. CASE Ends("exception")
  BY <1>1, <1>3, EndsDiscipline DEF Discipline, DeployTypeOK
<1>4. CASE /\ deploy' = [deploy EXCEPT !.flashing = @ \ {b}, !.failed = @ \cup {b}]
           /\ UNCHANGED ended
  <2>1. /\ deploy' \in Script /\ deploy'.pc = "work" /\ deploy'.mode = deploy.mode
        /\ deploy'.todo = deploy.todo /\ deploy'.flashing = deploy.flashing \ {b}
        /\ deploy'.failed = deploy.failed \cup {b}
    BY <1>1, <1>2, <1>4 DEF Discipline, DeployTypeOK, Script
  <2>2. deploy.todo \cup deploy.flashing \cup deploy.failed
          = deploy'.todo \cup deploy'.flashing \cup deploy'.failed
    BY <1>1, <2>1
  <2>3. Flashing'
    BY <1>1, <1>2, <2>1, <2>2 DEF Discipline, Flashing
  <2>4. DeployTypeOK' /\ Stopping' /\ Over'
    BY <1>1, <1>4, <2>1 DEF Discipline, DeployTypeOK, Stopping, Over
  <2> QED BY <1>1, <2>3, <2>4 DEF Discipline
<1> QED BY <1>3, <1>4 DEF NotDeployed, Reported

\* The failures are raised.
LEMMA AllDoneDiscipline ==
  ASSUME Discipline, AllDone
  PROVE  Discipline'
<1>1. /\ deploy.pc = "work" /\ deploy.todo = {} /\ deploy.flashing = {}
      /\ ended' = (IF deploy.failed = {} THEN "ok" ELSE "failed for")
      /\ deploy' = [Idle EXCEPT !.failed = deploy.failed]
      /\ UNCHANGED <<screen, stopped>>
  BY DEF AllDone, loggerVars
<1>2. /\ deploy'.pc = "idle" /\ deploy'.todo = {} /\ deploy'.flashing = {}
      /\ deploy'.failed = deploy.failed
  BY <1>1 DEF Idle
<1>3. deploy' \in Script
  BY <1>1, IdleScript DEF Script, Discipline, DeployTypeOK
<1>4. stopped = deploy.failed
  BY <1>1 DEF Discipline, Flashing
<1> QED BY <1>1, <1>2, <1>3, <1>4 DEF Discipline, DeployTypeOK, Stopping, Flashing, Over

\* A deployment goes on.
LEMMA DeployingDiscipline ==
  ASSUME Discipline, Deploying
  PROVE  Discipline'
BY BuildDiscipline, QuitDiscipline, AfterGoneDiscipline, RestartLoggerDiscipline,
   LoopDoneDiscipline, TemplateDiscipline, FlashDiscipline, DeployedDiscipline,
   NotDeployedDiscipline, AllDoneDiscipline DEF Deploying

\* A logger that has been stopped does nothing: the loggers' steps start none.
LEMMA LoggersDiscipline ==
  ASSUME Discipline, UNCHANGED deployVars,
         screen' \in [Board -> {"none", "retrying", "reading", "serving", "pulsed"}],
         \A b \in Board : screen[b] = "none" => screen'[b] = "none"
  PROVE  Discipline'
BY DEF Discipline, deployVars, DeployTypeOK, Script, Stopping, Flashing, Over

\* So does no other process.
LEMMA OthersDiscipline ==
  ASSUME Discipline, UNCHANGED <<screen, deployVars>>
  PROVE  Discipline'
BY DEF Discipline, deployVars, DeployTypeOK, Script, Stopping, Flashing, Over

LEMMA DisciplineInvariant == Spec => []Discipline
<1>1. Init => Discipline
  <2> SUFFICES ASSUME Init PROVE Discipline
    OBVIOUS
  <2>1. screen \in [Board -> {"none", "retrying", "reading", "serving", "pulsed"}]
    BY DEF Init, LoggerInit
  <2>2. deploy = Idle /\ stopped = {} /\ ended = "ok"
    BY DEF Init, DeployInit
  <2>3. Idle.pc = "idle" /\ Idle.todo = {} /\ Idle.flashing = {}
    BY DEF Idle
  <2> QED BY <2>1, <2>2, <2>3, IdleScript
        DEF Discipline, DeployTypeOK, Stopping, Flashing, Over
<1>2. ASSUME Discipline, [Next]_vars PROVE Discipline'
  <2>0. screen \in [Board -> {"none", "retrying", "reading", "serving", "pulsed"}]
    BY <1>2 DEF Discipline
  <2>1. CASE Supervise
    <3>1. UNCHANGED <<screen, deployVars>>
      BY <2>1 DEF Supervise, NotConverged, Candidate, Arm, IssueRequest, Complete, GiveUp,
                  loggerVars
    <3> QED BY <1>2, <3>1, OthersDiscipline
  <2>2. CASE DeployStep
    BY <1>2, <2>2, DeployingDiscipline DEF DeployStep
  <2>3. CASE Tick
    BY <1>2, <2>3, OthersDiscipline DEF Tick, Minute
  <2>4. ASSUME NEW b \in Board, LogStep(b) PROVE Discipline'
    BY <1>2, <2>0, <2>4, LoggersDiscipline
       DEF LogStep, Serve, ReadNothing, Pulse, Unlink, Open, ReadMarker, Look, Goto
  <2>5. ASSUME NEW b \in Board, NEW h \in Home, Observe(b, h) PROVE Discipline'
    BY <1>2, <2>0, <2>5, LoggersDiscipline DEF Observe, ReadExchange, Look, Goto
  <2>6. CASE Mishap
    <3>1. CASE Unreadable \/ Restart
      BY <1>2, <3>1, OthersDiscipline DEF Unreadable, Restart, loggerVars
    <3>2. ASSUME NEW mode \in Modes, Begin(mode) PROVE Discipline'
      BY <1>2, <3>2, BeginDiscipline
    <3>3. ASSUME NEW b \in Board, Disconnect(b) \/ LoseMarker(b), UNCHANGED deployVars
          PROVE  Discipline'
      BY <1>2, <2>0, <3>3, LoggersDiscipline DEF Disconnect, LoseMarker, PortOpen, Goto
    <3> QED BY <2>6, <3>1, <3>2, <3>3 DEF Mishap
  <2>7. CASE UNCHANGED vars
    BY <1>2, <2>7, OthersDiscipline DEF vars, loggerVars
  <2> QED BY <1>2, <2>1, <2>2, <2>3, <2>4, <2>5, <2>6, <2>7 DEF Next
<1> QED BY <1>1, <1>2, PTL DEF Spec

\* A worker flashes boards whose loggers have been stopped and not yet started
\* again (deploy_parallel(), screen_quit()).
THEOREM FlashingHasThePort == Spec => []PortIsExclusive
<1>1. Discipline => PortIsExclusive
  BY FlashingIsWork DEF Discipline, Flashing, PortIsExclusive
<1> QED BY <1>1, DisciplineInvariant, PTL

\* A deployment that was not cut short names every board that it has left
\* without a logger (deploy_parallel()'s failures).
THEOREM NoSilentLoss == Spec => []LossIsReported
<1>1. Discipline => LossIsReported
  BY DEF Discipline, DeployTypeOK, Over, LossIsReported
<1> QED BY <1>1, DisciplineInvariant, PTL

-----------------------------------------------------------------------------
(* Types *)

\* What the histories may be.
Histories ==
  /\ floored \subseteq Board /\ forgot \in BOOLEAN
  /\ restarted \subseteq Board /\ starting \subseteq Board
  /\ flashed \subseteq restarted \cup starting
  /\ perils \in 0 .. Perils

\* Every variable has its type, and whatever a deployment has flashed counts as
\* restarted, or as starting at the last arming.
THEOREM TypeCorrectness == Spec => []TypeOK
<1>0. Perils \in Nat /\ 0 \in 0 .. Perils
  BY DurationsAssumption
<1>1. Init => Histories
  <2> SUFFICES ASSUME Init PROVE Histories
    OBVIOUS
  <2>1. /\ floored = {} /\ forgot = FALSE /\ perils = 0
        /\ restarted = {} /\ starting = {} /\ flashed = {}
    BY DEF Init
  <2> QED BY <1>0, <2>1 DEF Histories
<1>2. ASSUME Histories, [Next]_vars PROVE Histories'
  <2> USE DEF Histories, supVars, history
  <2>0. Starting \subseteq Board
    BY DEF Starting
  <2>1. CASE Supervise /\ UNCHANGED perils
    <3>1. ASSUME NEW h \in Home, Arm(h) PROVE Histories'
      <4>1. starting' \subseteq Board
        BY <3>1 DEF Arm, JustMarked
      <4> QED BY <1>2, <2>1, <3>1, <4>1 DEF Arm
    <3> QED BY <1>2, <2>1, <3>1
           DEF Supervise, NotConverged, Candidate, IssueRequest, Complete, GiveUp
  <2>2. CASE DeployStep /\ UNCHANGED perils
    BY <1>2, <2>0, <2>2 DEF DeployStep
  <2>3. CASE Tick /\ UNCHANGED perils
    BY <1>2, <2>3 DEF Tick
  <2>4. ASSUME NEW b \in Board, LogStep(b), UNCHANGED perils PROVE Histories'
    BY <1>2, <2>0, <2>4 DEF LogStep
  <2>5. ASSUME NEW b \in Board, NEW h \in Home, Observe(b, h), UNCHANGED perils
        PROVE  Histories'
    BY <1>2, <2>5 DEF Observe
  <2>6. CASE Mishap
    <3>1. perils' \in 0 .. Perils
      BY <1>2, <2>6 DEF Mishap
    <3> QED BY <1>2, <2>6, <3>1 DEF Mishap, Unreadable, Restart
  <2>7. CASE UNCHANGED vars
    BY <1>2, <2>7 DEF vars
  <2> QED BY <1>2, <2>1, <2>2, <2>3, <2>4, <2>5, <2>6, <2>7 DEF Next
<1>3. IInv /\ Discipline /\ Histories => TypeOK
  BY DEF IInv, Types, Discipline, Histories, TypeOK, LoggerTypeOK
<1> QED BY <1>1, <1>2, <1>3, Invariance, DisciplineInvariant, PTL DEF Spec
=============================================================================
