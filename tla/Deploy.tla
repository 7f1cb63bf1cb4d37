------------------------------- MODULE Deploy -------------------------------
(***************************************************************************)
(* scripts/deploy_usb_screens.py: one deployment at a time stops the        *)
(* loggers of all boards, flashes the boards and starts new loggers.        *)
(*                                                                          *)
(*  - The boards are those that are attached, in the order of their ports.  *)
(*  - A command that fails raises an exception that ends the script, except *)
(*    in the workers of deploy_parallel(), which report it at the end.      *)
(*  - Flashing ends with a cold start of the board.                         *)
(***************************************************************************)
EXTENDS Loggers, FiniteSets

CONSTANT Modes    \* how it is called: "parallel", "jobs=1" or "log-only"

ASSUME ModesAssumption == Modes # {}

VARIABLES
  deploy,   \* the script, see Script
  stopped,  \* history: loggers that it has stopped and not started again
  ended     \* how the last one ended: "ok", "failed for" or "exception"

deployVars == <<deploy, stopped, ended>>

\* existing: find_sessions() at the start.  todo: the boards that the loop at
\* hand has not finished.  flashing: the workers.  failed: their failures.
Script == [pc : {"idle", "build", "quit", "gone", "template", "work"},
           mode : Modes, existing : SUBSET Board, todo : SUBSET Board,
           flashing : SUBSET Board, failed : SUBSET Board]

Idle == [pc |-> "idle", mode |-> CHOOSE m \in Modes : TRUE, existing |-> {},
         todo |-> {}, flashing |-> {}, failed |-> {}]

DeployTypeOK ==
  /\ deploy \in Script /\ stopped \subseteq Board
  /\ ended \in {"ok", "failed for", "exception"}

DeployInit == deploy = Idle /\ stopped = {} /\ ended = "ok"

Sessions == {b \in Board : screen[b] # "none"}
Current == CHOOSE b \in deploy.todo : \A c \in deploy.todo : b <= c

Ends(how) == deploy' = Idle /\ ended' = how

-----------------------------------------------------------------------------
(* main(), up to the uploads *)

Begin(mode) ==
  /\ deploy.pc = "idle"
  /\ deploy' = [Idle EXCEPT !.pc = IF mode = "log-only" THEN "quit" ELSE "build",
                            !.mode = mode, !.existing = Sessions, !.todo = Board]
  /\ stopped' = {}
  /\ UNCHANGED <<loggerVars, ended>>

\* build_firmware(), before any logger is touched.
Build ==
  /\ deploy.pc = "build"
  /\ \/ deploy' = [deploy EXCEPT !.pc = "quit"] /\ UNCHANGED ended
     \/ Ends("exception")
  /\ UNCHANGED <<loggerVars, stopped>>

\* screen_quit() of the board's session, if it was there at the start: an
\* exception if it has exited since.
Quit ==
  /\ deploy.pc = "quit" /\ deploy.todo # {}
  /\ IF Current \in deploy.existing /\ screen[Current] = "none"
     THEN Ends("exception")
     ELSE deploy' = [deploy EXCEPT !.pc = "gone"] /\ UNCHANGED ended
  /\ UNCHANGED <<loggerVars, stopped>>

\* The logger that was told to quit is killed, wherever it is in its loop.
Killed ==
  /\ deploy.pc = "gone" /\ Current \in deploy.existing
  /\ screen[Current] # "none"
  /\ screen' = [screen EXCEPT ![Current] = "none"]
  /\ UNCHANGED <<flag, device, log, deployVars>>

\* Wrong: screen_quit() returns before the logger has closed the port.
GoneAtOnce == deploy.pc = "gone"

Gone == deploy.pc = "gone" /\ screen[Current] = "none"

\* find_sessions() no longer shows the session.
AfterGone ==
  /\ Gone /\ deploy.mode # "log-only"
  /\ deploy' = [deploy EXCEPT !.pc = "quit", !.todo = @ \ {Current}]
  /\ stopped' = stopped \cup {Current}
  /\ UNCHANGED <<loggerVars, ended>>

\* start_screen() and the look, half a second later, whether it is alive.
Started(b) == screen' = [screen EXCEPT ![b] = "retrying"]

RestartLogger ==
  /\ Gone /\ deploy.mode = "log-only"
  /\ \/ /\ Started(Current)
        /\ deploy' = [deploy EXCEPT !.pc = "quit", !.todo = @ \ {Current}]
        /\ UNCHANGED <<stopped, ended>>
     \/ /\ Ends("exception") /\ stopped' = stopped \cup {Current}
        /\ UNCHANGED screen
  /\ UNCHANGED <<flag, device, log>>

\* The session is still there after five seconds.
StillThere ==
  /\ deploy.pc = "gone" /\ screen[Current] # "none"
  /\ Ends("exception")
  /\ UNCHANGED <<loggerVars, stopped>>

LoopDone ==
  /\ deploy.pc = "quit" /\ deploy.todo = {}
  /\ IF deploy.mode = "log-only" THEN Ends("ok")
     ELSE /\ deploy' = [deploy EXCEPT !.todo = Board,
                          !.pc = IF deploy.mode = "parallel" THEN "template" ELSE "work"]
          /\ UNCHANGED ended
  /\ UNCHANGED <<loggerVars, stopped>>

-----------------------------------------------------------------------------
(* deploy_parallel() *)

\* upload_command_template()
Template ==
  /\ deploy.pc = "template"
  /\ \/ deploy' = [deploy EXCEPT !.pc = "work"] /\ UNCHANGED ended
     \/ Ends("exception")
  /\ UNCHANGED <<loggerVars, stopped>>

\* The commands of deploy(): all boards at a time, or one after the other.
Flash(b) ==
  /\ deploy.pc = "work" /\ b \in deploy.todo
  /\ deploy.mode = "jobs=1" => b = Current /\ deploy.flashing = {}
  /\ deploy' = [deploy EXCEPT !.todo = @ \ {b}, !.flashing = @ \cup {b}]
  /\ UNCHANGED <<loggerVars, stopped, ended>>

\* ... and start_logger().
Deployed(b) ==
  /\ b \in deploy.flashing
  /\ Started(b)
  /\ device' = [device EXCEPT ![b] = "booting"]
  /\ deploy' = [deploy EXCEPT !.flashing = @ \ {b}]
  /\ stopped' = stopped \ {b}
  /\ UNCHANGED <<flag, log, ended>>

\* Wrong: what a worker raises is dropped with its future.
NotReported(b) == deploy' = [deploy EXCEPT !.flashing = @ \ {b}] /\ UNCHANGED ended

\* What becomes of an exception in deploy().
Reported(b) ==
  IF deploy.mode = "jobs=1" THEN Ends("exception")
  ELSE /\ deploy' = [deploy EXCEPT !.flashing = @ \ {b}, !.failed = @ \cup {b}]
       /\ UNCHANGED ended

\* A command failed, or, when flashed, only the new logger has exited.
NotDeployed(b, flashed) ==
  /\ b \in deploy.flashing
  /\ Reported(b)
  /\ device' = [device EXCEPT ![b] = IF flashed THEN "booting" ELSE @]
  /\ UNCHANGED <<screen, flag, log, stopped>>

\* The failures are raised together.
AllDone ==
  /\ deploy.pc = "work" /\ deploy.todo = {} /\ deploy.flashing = {}
  /\ ended' = IF deploy.failed = {} THEN "ok" ELSE "failed for"
  /\ deploy' = [Idle EXCEPT !.failed = deploy.failed]
  /\ UNCHANGED <<loggerVars, stopped>>

\* What it does once it has begun.
Deploying ==
  \/ Build \/ Quit \/ Killed \/ AfterGone \/ RestartLogger \/ StillThere
  \/ LoopDone \/ Template \/ AllDone
  \/ \E b \in Board : Flash(b) \/ Deployed(b)
  \/ \E b \in Board, flashed \in BOOLEAN : NotDeployed(b, flashed)

-----------------------------------------------------------------------------
\* A board is never flashed while its logger has the port or tries to open it.
PortIsExclusive == \A b \in deploy.flashing : screen[b] = "none"

\* A board that a deployment leaves without a logger is named in its error,
\* unless an exception has ended it before all boards had their turn.
LossIsReported ==
  deploy.pc = "idle" /\ ended # "exception" =>
    stopped = IF ended = "ok" THEN {} ELSE deploy.failed
=============================================================================
