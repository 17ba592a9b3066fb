----------------------------- MODULE BenchPower -----------------------------
(***************************************************************************)
(* The host side of the hardware test bench: the session runner, which     *)
(* holds the serial port, and the power worker, a process of its own,      *)
(* which cuts the power of the target under it (src/testbench/host:        *)
(* session_runner.py and power_fault.py, configured as in test_config*.json:*)
(* power is ensured at start and on exit, a worker that fails aborts the   *)
(* session).                                                               *)
(*                                                                         *)
(* The worker's standard output reaches the runner through a reader thread *)
(* and a queue; the runner writes STOP and POWER_OFF to its standard input,*)
(* where they set two events.  Waits and timeouts may end at any time.     *)
(***************************************************************************)
EXTENDS Integers, Sequences

CONSTANTS Target,      \* max_cycles
          Attempts,    \* recovery_attempts
          MaxFailures  \* bound: power commands that fail

ASSUME PowerAssumption ==
  {Target, Attempts} \subseteq Nat \ {0} /\ MaxFailures \in Nat

VARIABLES
  worker,   \* run() of power_fault.py
  event,    \* StopController: stop and power_off
  power,    \* does the target have power?
  stdout,   \* lines the worker has printed and the reader thread has not read
  queue,    \* power_events
  runner,   \* run_session()
  over,     \* the deadline has passed, or SIGINT has arrived
  failures  \* ghost: failed commands so far, for the bound

vars == <<worker, event, power, stdout, queue, runner, over, failures>>

Events == {"power_off_requested", "power_off", "power_off_failed", "cycle_complete",
           "cycle_limit_reached", "fatal", "cleanup_failed"}

Init ==
  /\ worker = [pc |-> "starting", cycle |-> 0, tries |-> 0, may_be_off |-> FALSE,
               code |-> 0, killed |-> FALSE, gave_up |-> FALSE]
  /\ event = [stop |-> FALSE, power_off |-> FALSE]
  /\ power \in BOOLEAN
  /\ stdout = <<>> /\ queue = <<>>
  /\ runner = [pc |-> "top", connected |-> FALSE, close |-> FALSE, pending |-> FALSE,
               started |-> 0, completed |-> 0, failed |-> FALSE,
               exit_seen |-> FALSE, stop |-> FALSE]
  /\ over = FALSE /\ failures = 0

-----------------------------------------------------------------------------
\* The worker.  Only the lines the runner acts on are printed.
emit(e) == stdout' = Append(stdout, e)
Silent == UNCHANGED stdout
Goto(next) == worker' = [worker EXCEPT !.pc = next, !.tries = 0]
Exit(code) == worker' = [worker EXCEPT !.pc = "cleanup", !.tries = 0, !.code = code]
OnlyWorker == UNCHANGED <<event, power, queue, runner, over, failures>>

\* A command that exits with an error or times out may have worked.
CommandFails(effect) ==
  /\ failures < MaxFailures /\ failures' = failures + 1
  /\ power' \in {power, effect}

\* One attempt of restore_power: Succeeds after it worked, Fatal after the
\* last one that did not.
restore_power(pc, Succeeds, Fatal) ==
  /\ worker.pc = pc
  /\ \/ power' = TRUE /\ Succeeds /\ UNCHANGED failures
     \/ /\ CommandFails(TRUE)
        /\ IF worker.tries + 1 = Attempts THEN Fatal
           ELSE worker' = [worker EXCEPT !.tries = @ + 1] /\ Silent
  /\ UNCHANGED <<event, queue, runner, over>>

Starting == restore_power("starting", Goto("delay") /\ Silent, Exit(3) /\ emit("fatal"))

StartupDelay ==
  /\ worker.pc = "delay"
  /\ IF event.stop THEN Exit(0) ELSE Goto("loop")
  /\ Silent /\ OnlyWorker

\* Mutant: the limit is noticed one cycle late.
NextCycleLate ==
  /\ worker.pc = "loop"
  /\ \/ event.stop /\ Exit(0) /\ Silent
     \/ ~event.stop /\ worker.cycle > Target /\ Exit(0) /\ emit("cycle_limit_reached")
     \/ ~event.stop /\ worker.cycle <= Target /\ Goto("interval") /\ Silent
  /\ OnlyWorker

\* The head of the loop, and the end of it at the configured limit.
NextCycle ==
  /\ worker.pc = "loop"
  /\ \/ event.stop /\ Exit(0) /\ Silent
     \/ ~event.stop /\ worker.cycle >= Target /\ Exit(0) /\ emit("cycle_limit_reached")
     \/ ~event.stop /\ worker.cycle < Target /\ Goto("interval") /\ Silent
  /\ OnlyWorker

Interval ==
  /\ worker.pc = "interval"
  /\ IF event.stop THEN Exit(0) /\ Silent
     ELSE /\ worker' = [worker EXCEPT !.pc = "ack", !.cycle = @ + 1]
          /\ emit("power_off_requested")
  /\ OnlyWorker

\* wait_power_off: the event is never cleared, so that only the first wait of
\* the worker's life blocks.
Acknowledged == worker.pc = "ack" /\ event.power_off /\ Goto("cut") /\ Silent /\ OnlyWorker

AckTimesOut ==
  /\ worker.pc = "ack" /\ ~event.power_off
  /\ Goto("loop") /\ emit("power_off_failed") /\ OnlyWorker

CutPower ==
  /\ worker.pc = "cut"
  /\ \/ /\ power' = FALSE /\ UNCHANGED failures
        /\ worker' = [worker EXCEPT !.pc = "hold", !.may_be_off = TRUE]
        /\ emit("power_off")
     \/ CommandFails(FALSE) /\ Goto("loop") /\ emit("power_off_failed")
  /\ UNCHANGED <<event, queue, runner, over>>

Hold == worker.pc = "hold" /\ Goto("restore") /\ Silent /\ OnlyWorker

Restore ==
  restore_power("restore",
    /\ worker' = [worker EXCEPT !.pc = "loop", !.tries = 0, !.may_be_off = FALSE]
    /\ emit("cycle_complete"),
    Exit(4) /\ emit("fatal"))

\* Mutant: power is restored on exit only if the worker knows it cut it.
CleanupIfCut ==
  \/ /\ worker.pc = "cleanup" /\ ~worker.may_be_off /\ Goto("exited") /\ Silent /\ OnlyWorker
  \/ /\ worker.may_be_off
     /\ restore_power("cleanup", Goto("exited") /\ Silent,
          /\ worker' = [worker EXCEPT !.pc = "exited", !.gave_up = TRUE]
          /\ emit("cleanup_failed"))

\* The finally clause of run(), on every way out.
Cleanup ==
  restore_power("cleanup", Goto("exited") /\ Silent,
    /\ worker' = [worker EXCEPT !.pc = "exited", !.gave_up = TRUE]
    /\ emit("cleanup_failed"))

Worker ==
  \/ Starting \/ StartupDelay \/ NextCycle \/ Interval \/ Acknowledged \/ AckTimesOut
  \/ CutPower \/ Hold \/ Restore \/ Cleanup

-----------------------------------------------------------------------------
\* The runner.
OnlyRunner == UNCHANGED <<worker, event, power, stdout, queue, over, failures>>

\* The reader thread.
ReadOutput ==
  /\ stdout # <<>> /\ queue' = Append(queue, Head(stdout)) /\ stdout' = Tail(stdout)
  /\ UNCHANGED <<worker, event, power, runner, over, failures>>

\* Mutant: the deadline is not looked at.
TopNoDeadline ==
  /\ runner.pc = "top"
  /\ runner' = IF runner.stop THEN [runner EXCEPT !.pc = "finally", !.connected = FALSE]
               ELSE [runner EXCEPT !.pc = "drain", !.close = FALSE]
  /\ OnlyRunner

\* The head of the loop, and the closing of the port after it.
Top ==
  /\ runner.pc = "top"
  /\ runner' = IF runner.stop \/ over
               THEN [runner EXCEPT !.pc = "finally", !.connected = FALSE]
               ELSE [runner EXCEPT !.pc = "drain", !.close = FALSE]
  /\ OnlyRunner

\* Mutants: a cut that was only announced counts as completed; the failure of
\* the worker's cleanup is only logged; an acknowledged cut is over at once.
CompletesEarly(e) == e \in {"power_off", "cycle_complete"}
ReportsFailureLenient(e) == e = "fatal"
SettlesEarly(e) == TRUE

\* What the events of the worker say.
Completes(e) == e = "cycle_complete"
ReportsFailure(e) == e \in {"fatal", "cleanup_failed"}
Settles(e) == e \in {"power_off", "power_off_failed", "cycle_complete"}

\* What one event from the queue changes, in the loop and after it.
handle_power_event(e) ==
  LET requested == e = "power_off_requested"
  IN  [runner EXCEPT
        !.started   = IF requested THEN @ + 1 ELSE @,
        !.completed = IF Completes(e) THEN @ + 1 ELSE @,
        !.failed    = @ \/ ReportsFailure(e),
        !.close     = @ \/ requested,
        !.pending   = (@ \/ requested) /\ ~Settles(e)]

Drain ==
  /\ runner.pc \in {"drain", "last"} /\ queue # <<>>
  /\ runner' = handle_power_event(Head(queue)) /\ queue' = Tail(queue)
  /\ UNCHANGED <<worker, event, power, stdout, over, failures>>

\* The queue is empty: the port is closed if a cut has been asked for, and the
\* worker, if it still runs, is to be told.
ClosePort ==
  /\ runner.pc = "drain" /\ queue = <<>>
  /\ runner' = [runner EXCEPT
       !.pc = IF runner.close /\ worker.pc # "exited" THEN "telling" ELSE "poll",
       !.connected = @ /\ ~runner.close]
  /\ OnlyRunner

\* POWER_OFF is written.  To a worker that has exited since it was polled, the
\* write raises BrokenPipeError, which leaves the loop.
signal_power_off ==
  /\ runner.pc = "telling"
  /\ IF worker.pc = "exited"
     THEN runner' = [runner EXCEPT !.pc = "finally"] /\ UNCHANGED event
     ELSE /\ runner' = [runner EXCEPT !.pc = "poll"]
          /\ event' = [event EXCEPT !.power_off = TRUE]
  /\ UNCHANGED <<worker, power, stdout, queue, over, failures>>

\* The exit of the worker is looked at once.
PollWorker ==
  /\ runner.pc = "poll"
  /\ IF worker.pc # "exited" \/ runner.exit_seen
     THEN runner' = [runner EXCEPT !.pc = "connect"]
     ELSE LET stop == worker.code # 0 \/ runner.completed >= Target
          IN  runner' = [runner EXCEPT !.exit_seen = TRUE, !.stop = stop,
                                       !.failed = @ \/ worker.code # 0,
                                       !.pc = IF stop THEN "top" ELSE "connect"]
  /\ OnlyRunner

\* The port is found while the target has power, once it has enumerated and
\* the reconnect interval is over.
Connect ==
  /\ runner.pc = "connect"
  /\ \/ runner' = [runner EXCEPT !.pc = "read"]
     \/ /\ ~runner.connected /\ ~runner.pending /\ power
        /\ runner' = [runner EXCEPT !.pc = "settle", !.connected = TRUE]
  /\ OnlyRunner

\* After the settling time the commands are sent, or the port is gone.
Settle ==
  /\ runner.pc = "settle"
  /\ runner' = [runner EXCEPT !.pc = "read", !.connected = power]
  /\ OnlyRunner

Read ==
  /\ runner.pc = "read"
  /\ runner' = [runner EXCEPT !.pc = "top", !.connected = @ /\ power]
  /\ OnlyRunner

\* PowerWorker.stop: the worker is polled, and STOP is to be written to one that
\* still runs.
StopWorker ==
  /\ runner.pc = "finally"
  /\ runner' = IF worker.pc = "exited"
               THEN [runner EXCEPT !.pc = "last", !.failed = @ \/ worker.code # 0]
               ELSE [runner EXCEPT !.pc = "stopping"]
  /\ OnlyRunner

\* If the worker has exited in between, the write raises BrokenPipeError out of
\* the finally clause, and the session ends without a summary.
WriteStop ==
  /\ runner.pc = "stopping"
  /\ IF worker.pc = "exited"
     THEN runner' = [runner EXCEPT !.pc = "raised"] /\ UNCHANGED event
     ELSE /\ runner' = [runner EXCEPT !.pc = "waiting"]
          /\ event' = [event EXCEPT !.stop = TRUE]
  /\ UNCHANGED <<worker, power, stdout, queue, over, failures>>

WorkerStopped ==
  /\ runner.pc = "waiting" /\ worker.pc = "exited"
  /\ runner' = [runner EXCEPT !.pc = "last", !.failed = @ \/ worker.code # 0]
  /\ OnlyRunner

\* The worker did not stop in time: it is terminated where it stands, without
\* its cleanup.
KillWorker ==
  /\ runner.pc = "waiting" /\ worker.pc # "exited"
  /\ worker' = [worker EXCEPT !.pc = "exited", !.killed = TRUE, !.code = -15]
  /\ runner' = [runner EXCEPT !.pc = "last", !.failed = TRUE]
  /\ UNCHANGED <<event, power, stdout, queue, over, failures>>

\* The summary is written; the reader thread is not waited for.
WriteSummary ==
  /\ runner.pc = "last" /\ queue = <<>>
  /\ runner' = [runner EXCEPT !.pc = "done"]
  /\ OnlyRunner

Runner ==
  \/ Top \/ Drain \/ ClosePort \/ signal_power_off \/ PollWorker \/ Connect \/ Settle \/ Read
  \/ StopWorker \/ WriteStop \/ WorkerStopped \/ KillWorker \/ WriteSummary

DeadlinePasses ==
  /\ ~over /\ over' = TRUE
  /\ UNCHANGED <<worker, event, power, stdout, queue, runner, failures>>

Next == Worker \/ ReadOutput \/ Runner \/ DeadlinePasses

\* Two processes and a thread that the operating system keeps running; every
\* wait of theirs has a timeout.  The session has a finite duration.
Spec ==
  /\ Init /\ [][Next]_vars
  /\ WF_vars(Worker) /\ WF_vars(ReadOutput) /\ WF_vars(Runner) /\ WF_vars(DeadlinePasses)

-----------------------------------------------------------------------------
TypeOK ==
  /\ worker.cycle \in 0 .. Target /\ worker.tries \in 0 .. Attempts - 1
  /\ {power, over} \subseteq BOOLEAN
  /\ \A i \in DOMAIN stdout : stdout[i] \in Events
  /\ \A i \in DOMAIN queue : queue[i] \in Events
  /\ worker.pc = "exited" \/ worker.code = 0 \/ worker.pc = "cleanup"

\* Power is cut with the port closed, if the runner has dealt with the request
\* for that cut; if it has not, the worker went ahead on the acknowledgement
\* of an earlier cycle.
PortClosedAtCut ==
  [][power /\ ~power' =>
       \/ ~runner.connected
       \/ runner.started < worker.cycle \/ runner.pc = "drain"]_vars

\* The counters of the summary: no cycle completes that was not asked for,
\* and none is counted twice, however late the runner reads about it.
SummaryNeverOvercounts ==
  runner.completed <= runner.started /\ runner.started <= worker.cycle

\* A worker that comes to its end by itself leaves the target powered, or has
\* tried to as often as it may.
TargetLeftPowered ==
  worker.pc = "exited" /\ ~power => worker.gave_up \/ worker.killed

\* The summary reports a failure if the worker failed or was killed, and if
\* the target was left without power, unless the line that says so had not
\* come through when it was written.
SummaryShowsFailure ==
  runner.pc = "done" /\ (worker.code # 0 \/ ~power) =>
    \/ runner.failed
    \/ \E i \in DOMAIN (stdout \o queue) : (stdout \o queue)[i] = "cleanup_failed"

\* The session comes to an end, and the worker with it, whether the summary is
\* written or an exception ends the runner.
SessionFinishes == <>(runner.pc \in {"done", "raised"} /\ worker.pc = "exited")

\* It ends with a summary.
SummaryWritten == <>(runner.pc = "done")
=============================================================================
