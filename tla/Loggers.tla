------------------------------ MODULE Loggers ------------------------------
(***************************************************************************)
(* The serial loggers of the farm: scripts/timestamp_serial.py, one process *)
(* in a screen of its own per board, and what they leave in the boards'     *)
(* logs (reconnect_log(), with the flag file by which it is asked to reset  *)
(* its board).                                                              *)
(*                                                                          *)
(*  - Of a log only what the supervisor looks for is kept: the home that    *)
(*    the latest completed exchange reported, how long ago it began, and    *)
(*    the marker that a board prints after a cold start.  Capture models    *)
(*    the lines and what becomes of them.                                   *)
(*  - The request's token is left out: the logger only copies it.           *)
(*  - A line that is printed while nobody has the port open is lost.  An    *)
(*    exchange that a reset interrupts completes in no log; one whose last  *)
(*    line waits in the port's buffer during the pulse is dated by its      *)
(*    first, which was read before.                                         *)
(***************************************************************************)
EXTENDS Integers

CONSTANTS
  Board,        \* numbered as their USB ports are
  Home,         \* the beacons that boards may report as their home
  NoHome,       \* an exchange has not been captured yet
  AgeMax        \* ages saturate here

ASSUME PortsAssumption == Board \subseteq Nat

VARIABLES
  screen,   \* "none", or where its logger is in reconnect_log()
  flag,     \* the reset request file exists
  device,   \* how far the board has come since its cold start
  log       \* what the log says, see Summary

loggerVars == <<screen, flag, device, log>>

\* sinceMarker: the observation is later than the latest epoch marker.
\* acknowledged: there is a marker from after the supervisor's last request.
Summary == [home : Home \cup {NoHome}, age : 0 .. AgeMax,
            sinceMarker : BOOLEAN, acknowledged : BOOLEAN]

LoggerTypeOK ==
  /\ screen \in [Board -> {"none", "retrying", "reading", "serving", "pulsed"}]
  /\ flag \in [Board -> BOOLEAN]
  /\ device \in [Board -> {"booting", "asleep", "cold", "observed"}]
  /\ log \in [Board -> Summary]

LoggerInit ==
  /\ screen \in [Board -> {"none", "retrying"}]
  /\ flag = [b \in Board |-> FALSE]
  /\ device = [b \in Board |-> "booting"]
  /\ log = [b \in Board |-> [home |-> NoHome, age |-> AgeMax,
                             sinceMarker |-> FALSE, acknowledged |-> FALSE]]

\* Wrong: ages do not saturate.
EverOlder(age) == age + 1

Older(age) == IF age = AgeMax THEN AgeMax ELSE age + 1

\* What an exchange at home h, a marker and time make of a log.
Reports(l, h) == [home |-> h, age |-> 0, sinceMarker |-> TRUE, acknowledged |-> l.acknowledged]
Marked(l) == [home |-> l.home, age |-> l.age, sinceMarker |-> FALSE, acknowledged |-> TRUE]
Aged(l) == [home |-> l.home, age |-> Older(l.age), sinceMarker |-> l.sinceMarker,
            acknowledged |-> l.acknowledged]

-----------------------------------------------------------------------------
(* reconnect_log() *)

PortOpen(b) == screen[b] \in {"reading", "serving", "pulsed"}
Goto(b, step) == screen' = [screen EXCEPT ![b] = step]

\* Wrong: the file is looked at only after the first lines of a session.
LookLater(b) == Goto(b, IF flag[b] /\ screen[b] # "retrying" THEN "serving" ELSE "reading")

\* requested_reset(): the look at the file ends the step before it.  A request
\* that comes between the two waits for the next look, as one that comes right
\* after it does.
Look(b) == Goto(b, IF flag[b] THEN "serving" ELSE "reading")

\* source.open(), and a new session in the log.
Open(b) == screen[b] = "retrying" /\ Look(b) /\ UNCHANGED <<flag, device, log>>

\* SerialException or OSError, of the port or of the log file, anywhere in the
\* loop: the port is closed and will be opened again.
Disconnect(b) ==
  PortOpen(b) /\ Goto(b, "retrying") /\ UNCHANGED <<flag, device, log>>

\* pulse_hard_reset()
Pulse(b) ==
  /\ screen[b] = "serving" /\ Goto(b, "pulsed")
  /\ device' = [device EXCEPT ![b] = "booting"]
  /\ UNCHANGED <<flag, log>>

\* Only then is the file removed, whatever it may contain by now.
Unlink(b) ==
  /\ screen[b] = "pulsed" /\ Goto(b, "reading")
  /\ flag' = [flag EXCEPT ![b] = FALSE]
  /\ UNCHANGED <<device, log>>

\* source.read() times out, or brings nothing that matters here, ...
ReadNothing(b) ==
  screen[b] = "reading" /\ flag[b] /\ Look(b) /\ UNCHANGED <<flag, device, log>>

\* ... or the end of an exchange at home h, ...
ReadExchange(b, h) ==
  /\ screen[b] = "reading" /\ Look(b)
  /\ device[b] \in {"cold", "observed"}
  /\ device' = [device EXCEPT ![b] = "observed"]
  /\ log' = [log EXCEPT ![b] = Reports(log[b], h)]
  /\ UNCHANGED flag

\* ... or TEST EPOCH RESET, after which the board sleeps.
ReadMarker(b) ==
  /\ screen[b] = "reading" /\ Look(b)
  /\ device[b] = "booting"
  /\ device' = [device EXCEPT ![b] = "asleep"]
  /\ log' = [log EXCEPT ![b] = Marked(log[b])]
  /\ UNCHANGED flag

\* The marker is printed while nobody listens, or arrives damaged.
LoseMarker(b) ==
  /\ device[b] = "booting"
  /\ device' = [device EXCEPT ![b] = "asleep"]
  /\ UNCHANGED <<screen, flag, log>>

Serve(b) == ReadNothing(b) \/ Pulse(b) \/ Unlink(b)

\* A unit of time, of a minute or more: a board that announced its cold start
\* before it has slept for sixty seconds and works.
Minute ==
  /\ device' = [b \in Board |-> IF device[b] = "asleep" THEN "cold" ELSE device[b]]
  /\ log' = [b \in Board |-> Aged(log[b])]
  /\ UNCHANGED <<screen, flag>>
=============================================================================
