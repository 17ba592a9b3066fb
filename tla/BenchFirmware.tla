---------------------------- MODULE BenchFirmware ----------------------------
(***************************************************************************)
(* The firmware of the hardware test bench: thirteen scenarios run one     *)
(* after the other on a board that loses power, with their progress in an  *)
(* NVS blob (src/testbench/firmware/HWTestBench: project_adapter.cpp and   *)
(* the loop of HWTestBench.ino).                                           *)
(*                                                                         *)
(* A scenario is the sequence of its operations on the log.  They run one  *)
(* per step, so that power can go between any two of them; what an         *)
(* operation does to the log is what the modules of the library establish. *)
(* Of the persisted state only what decides the next step is kept.         *)
(***************************************************************************)
EXTENDS Integers, Sequences, FiniteSets

CONSTANTS PsramReady, SdReady, \* what bench_hal_begin found
          RestartDelay, \* kRestartDelayMs, in ticks
          HostModes,    \* the values of faults=enabled the host may send
          LogRecords,   \* how many records the log in flash holds
          Burst,        \* bound: appends in a row (up to 32 in the code)
          MaxUptime,    \* bound: ticks of uptime at which a restart is asked for
          MaxFaults,    \* bound: operations that fail
          MaxCuts       \* bound: power losses and REBOOT commands

ASSUME FirmwareAssumption ==
  /\ {PsramReady, SdReady} \subseteq BOOLEAN
  /\ HostModes \subseteq BOOLEAN /\ HostModes # {}
  /\ {LogRecords, Burst} \subseteq Nat \ {0}
  /\ {RestartDelay, MaxUptime, MaxFaults, MaxCuts} \subseteq Nat

VARIABLES
  nv,      \* the blob under kStateKey
  ram,     \* g_app.state
  app,     \* the fields of g_app that a boot sets: on, ready, session_done
  log,     \* the log in the flash partition
  scratch, \* records in the log in PSRAM
  todo,    \* what is left of the running scenario; <<>> between two of them
  now,     \* millis()
  said,    \* ghost: the verdicts the host has been told
  used     \* ghost: faults and cuts so far, for the bounds

vars == <<nv, ram, app, log, scratch, todo, now, said, used>>

kScenarioCount == 13
Scenarios == 0 .. kScenarioCount - 1

\* Scenarios that restart the board half-way and keep a phase.
MultiPhase == {2, 6, 7}

\* fail stands for fail_count # 0.
PersistedState ==
  [scn : 0 .. kScenarioCount, phase : 0 .. 2, last : {"PENDING", "PASS", "FAIL", "SKIP"},
   pass : Nat, skip : Nat, fail : BOOLEAN, mode : BOOLEAN, faults : BOOLEAN,
   pending : BOOLEAN, restart_at : Nat]

\* What load_state leaves when the blob is missing or of another version.
Defaults ==
  [scn |-> 0, phase |-> 0, last |-> "PENDING", pass |-> 0, skip |-> 0, fail |-> FALSE,
   mode |-> FALSE, faults |-> FALSE, pending |-> FALSE, restart_at |-> 0]

\* A region without superblocks, one with the remains of a failed append in it,
\* or one without; its records are named by scenario and salt; the context is
\* mounted on it, or not.
Log(state, recs) == [state |-> state, recs |-> recs, mounted |-> TRUE]
Unmounted(l) == [state |-> l.state, recs |-> l.recs, mounted |-> FALSE]
Blank == Unmounted(Log("blank", <<>>))

-----------------------------------------------------------------------------
\* The operations scenarios are made of.
Op(do, s, n) == [do |-> do, s |-> s, n |-> n]

Reset        == Op("reset", 0, 0)
AppendSalt(s, salt) == Op("append", s, salt)
Verify(s, n) == Op("verify", s, n)
Restart(p)   == Op("restart", 0, p)
Return(last) == Op("return", last, 0)
Scratch(do, n) == Op(do, 0, n)

AtMost(bound, n) == IF n > bound THEN bound ELSE n
AtMostBurst(n) == AtMost(Burst, n)
Appends(s, n) == [i \in 1 .. n |-> AppendSalt(s, i - 1)]
ScratchLog(n) == <<Scratch("scratch_format", 0)>> \o [i \in 1 .. n |-> Scratch("scratch_append", 1)]

scenario_empty == <<Reset, Verify(0, 0), Return("PASS")>>

\* Mutant: the log is not reset first.
scenario_single_append_on_top == <<AppendSalt(1, 0), Verify(1, 1), Return("PASS")>>

\* Mutant: the scenario forgets to set last_result.
scenario_single_append_mute == <<Reset, AppendSalt(1, 0), Verify(1, 1), Return("NONE")>>

scenario_single_append == <<Reset, AppendSalt(1, 0), Verify(1, 1), Return("PASS")>>

scenario_reboot_recovery(phase) ==
  IF phase = 0
  THEN <<Reset, AppendSalt(2, 0), Restart(1), Return("NONE")>>
  ELSE <<Verify(2, 1), AppendSalt(2, 1), Verify(2, 2), Return("PASS")>>

scenario_ordering ==
  LET n == AtMostBurst(3) IN <<Reset>> \o Appends(3, n) \o <<Verify(3, n), Return("PASS")>>

scenario_payload_sizes ==
  LET n == AtMostBurst(7) IN <<Reset>> \o Appends(4, n) \o <<Verify(4, n), Return("PASS")>>

\* The first append that fails ends the loop; it is a failure if it is the
\* first append of all.
scenario_capacity_boundary ==
  <<Reset>> \o [i \in 1 .. AtMost(LogRecords + 1, 32) |-> Op("fill", 5, i - 1)] \o <<Return("PASS")>>

scenario_interrupted_append(phase, faults) ==
  IF ~faults THEN <<Return("SKIP")>>
  ELSE IF phase = 0 THEN <<Reset, Restart(1), Return("NONE")>>
  ELSE <<AppendSalt(6, 0), Verify(6, 1), Return("PASS")>>

scenario_repeated_reboot(phase) ==
  CASE phase = 0 -> <<Reset, AppendSalt(7, 0), Restart(1), Return("NONE")>>
    [] phase = 1 -> <<Verify(7, 1), AppendSalt(7, 1), Restart(2), Return("NONE")>>
    [] OTHER     -> <<Verify(7, 2), Return("PASS")>>

scenario_disconnect_stress(faults) ==
  IF ~faults THEN <<Return("SKIP")>> ELSE <<Reset>> \o Appends(8, AtMostBurst(4)) \o <<Return("PASS")>>

\* Ring logs in PSRAM, each abandoned in the middle of an append by a longjmp
\* out of the library and mounted again: the interrupted record is there only
\* once the first superblock copy names it.
\* The check after the first failpoint passes without a mount, too.
failpoint(name) == Scratch("failpoint", IF name = "superblock_publish" THEN 1 ELSE 0)

scenario_corruption_detection(faults) ==
  IF ~faults \/ ~PsramReady THEN <<Return("SKIP")>>
  ELSE <<Scratch("scratch_alloc", 0)>>
       \o ScratchLog(AtMostBurst(7))
       \o <<failpoint("wrap"), Scratch("wrap_verify", AtMostBurst(7))>>
       \o ScratchLog(1) \o <<failpoint("data_commit"), Scratch("scratch_verify", 1)>>
       \o ScratchLog(1) \o <<failpoint("superblock_publish"), Scratch("scratch_verify", 2)>>
       \o <<Return("PASS")>>

scenario_psram_api_smoke ==
  IF ~PsramReady THEN <<Return("SKIP")>>
  ELSE <<Scratch("scratch_alloc", 0)>>
       \o ScratchLog(AtMostBurst(7)) \o <<Scratch("scratch_verify", AtMostBurst(7))>>
       \o ScratchLog(AtMostBurst(9)) \o <<Scratch("scratch_verify", AtMostBurst(9)), Return("PASS")>>

scenario_sd_api_smoke ==
  IF ~SdReady THEN <<Return("SKIP")>>
  ELSE <<Scratch("sd_test", 0), Scratch("sd_append", 0), Scratch("sd_read", 0), Return("PASS")>>

scenario_endurance == <<Reset>> \o Appends(9, AtMostBurst(8)) \o <<Return("PASS")>>

run_current_scenario ==
  CASE ram.scn = 0  -> scenario_empty
    [] ram.scn = 1  -> scenario_single_append
    [] ram.scn = 2  -> scenario_reboot_recovery(ram.phase)
    [] ram.scn = 3  -> scenario_ordering
    [] ram.scn = 4  -> scenario_payload_sizes
    [] ram.scn = 5  -> scenario_capacity_boundary
    [] ram.scn = 6  -> scenario_interrupted_append(ram.phase, ram.faults)
    [] ram.scn = 7  -> scenario_repeated_reboot(ram.phase)
    [] ram.scn = 8  -> scenario_disconnect_stress(ram.faults)
    [] ram.scn = 9  -> scenario_corruption_detection(ram.faults)
    [] ram.scn = 10 -> scenario_psram_api_smoke
    [] ram.scn = 11 -> scenario_sd_api_smoke
    [] ram.scn = 12 -> scenario_endurance
    [] OTHER        -> <<Return("NONE")>>

-----------------------------------------------------------------------------
Init ==
  /\ nv = Defaults /\ ram = Defaults /\ log = Blank /\ scratch = 0
  /\ app = [on |-> FALSE, ready |-> FALSE, done |-> FALSE]
  /\ todo = <<>> /\ now = 0
  /\ said = [reported |-> {}, failed |-> FALSE, lost |-> FALSE, verdict |-> "NONE"]
  /\ used = [faults |-> 0, cuts |-> 0]

Idle == app.on /\ todo = <<>>
At(do) == app.on /\ todo # <<>> /\ Head(todo).do = do

Faulty == used.faults < MaxFaults /\ used' = [used EXCEPT !.faults = @ + 1]
\* Mutant: state_dirty is not set.
save_state_clean == UNCHANGED nv

save_state == nv' = ram'

\* The running operation succeeds.
Proceeds == todo' = Tail(todo) /\ UNCHANGED <<ram, said>>

\* The running operation fails, and its scenario with it.  Nothing is saved.
Fails ==
  /\ todo' = <<>>
  /\ ram' = [ram EXCEPT !.fail = TRUE, !.last = "FAIL"]
  /\ said' = [said EXCEPT !.failed = TRUE]

\* A format leaves no context mounted that it, or the mount after it, fails in:
\* before its first erase, before its superblocks, or behind them.
HalfReset == {Unmounted(log), Blank, Unmounted(Log("clean", <<>>))}

ResetLog ==
  /\ At("reset")
  /\ \/ log' = Log("clean", <<>>) /\ Proceeds /\ UNCHANGED used
     \/ log' \in HalfReset /\ Faulty /\ Fails
  /\ UNCHANGED <<nv, app, scratch, now>>

Record == <<Head(todo).s, Head(todo).n>>
WithRecord == Log(log.state, Append(log.recs, Record))
HasRoom == log.mounted /\ Len(log.recs) < LogRecords

\* nvlog_append succeeds behind the remains of a failed one, once a mount has
\* stepped over them.  It also does on top of them, since the partition refuses
\* no write, and what it leaves is then no record unless it is the same again.
AppendSucceeds ==
  /\ HasRoom
  /\ log' \in {WithRecord} \cup (IF log.state = "dirty" THEN {log} ELSE {})
  /\ Proceeds /\ UNCHANGED used

\* nvlog_append fails when the log is not mounted or full (the remains of a
\* failed one take room, too), or because a write or a commit fails.
AppendFails ==
  \/ (~HasRoom \/ log.state = "dirty") /\ UNCHANGED <<log, used>>
  \/ HasRoom /\ Faulty /\ log' \in {log, Log("dirty", log.recs)}

AppendRecord ==
  /\ At("append")
  /\ AppendSucceeds \/ (AppendFails /\ Fails)
  /\ UNCHANGED <<nv, app, scratch, now>>

FillLog ==
  /\ At("fill")
  /\ \/ AppendSucceeds
     \/ AppendFails /\ Head(todo).n = 0 /\ Fails
     \/ AppendFails /\ Head(todo).n > 0
        /\ todo' = <<todo[Len(todo)]>> /\ UNCHANGED <<ram, said>>
  /\ UNCHANGED <<nv, app, scratch, now>>

\* The records, all of them and no others; what lies between or behind them
\* when the log is dirty may or may not be taken for the end.
VerifyRecords ==
  LET matches == log.mounted /\ log.recs = [i \in 1 .. Head(todo).n |-> <<Head(todo).s, i - 1>>]
  IN  /\ At("verify")
      /\ \/ matches /\ Proceeds /\ UNCHANGED used
         \/ (~matches \/ log.state = "dirty") /\ Fails /\ UNCHANGED used
         \/ Faulty /\ Fails
      /\ UNCHANGED <<nv, app, log, scratch, now>>

\* An operation on the PSRAM log or the SD card.
ScratchStep ==
  /\ \E do \in {"scratch_alloc", "scratch_format", "scratch_append", "failpoint", "wrap_verify",
                "scratch_verify", "sd_test", "sd_append", "sd_read"} : At(do)
  /\ LET op     == Head(todo)
         checks == op.do \in {"scratch_verify", "wrap_verify"}
     IN  \/ /\ checks => scratch = op.n
            /\ scratch' = CASE op.do \in {"scratch_alloc", "scratch_format"} -> 0
                            [] op.do \in {"scratch_append", "failpoint"} -> scratch + op.n
                            [] OTHER -> scratch
            /\ Proceeds /\ UNCHANGED used
         \/ checks /\ scratch # op.n /\ Fails /\ scratch' = 0 /\ UNCHANGED used
         \/ Faulty /\ Fails /\ scratch' = 0
         \/ op.do = "wrap_verify" /\ Faulty /\ Proceeds /\ UNCHANGED scratch
  /\ UNCHANGED <<nv, app, log, now>>

\* The next phase and the time of the restart, in milliseconds since this
\* boot, are saved together.
ScheduleRestart ==
  /\ At("restart")
  /\ \E uptime \in {now} \cup now .. MaxUptime :
       /\ now' = uptime
       /\ ram' = [ram EXCEPT !.phase = Head(todo).n, !.pending = TRUE,
                             !.restart_at = uptime + RestartDelay]
  /\ save_state /\ todo' = Tail(todo)
  /\ UNCHANGED <<app, log, scratch, said, used>>

\* Mutant: a skipped scenario counts as passed as well.
TalliedTwice(last) ==
  CASE last = "PASS" -> [ram EXCEPT !.pass = @ + 1, !.last = last, !.phase = 0]
    [] last = "SKIP" -> [ram EXCEPT !.pass = @ + 1, !.skip = @ + 1, !.last = last]
    [] OTHER         -> ram

\* Mutant: a scenario that passes in the end clears the failures before it.
TalliedForgiving(last) ==
  CASE last = "PASS" -> [ram EXCEPT !.pass = @ + 1, !.last = last, !.phase = 0, !.fail = FALSE]
    [] last = "SKIP" -> [ram EXCEPT !.skip = @ + 1, !.last = last]
    [] OTHER         -> ram

\* The persisted state after a scenario returned true with this result.
Tallied(last) ==
  CASE last = "PASS" -> [ram EXCEPT !.pass = @ + 1, !.last = last, !.phase = 0]
    [] last = "SKIP" -> [ram EXCEPT !.skip = @ + 1, !.last = last]
    [] OTHER         -> ram

\* Mutant: the index moves past the last scenario.
AdvancesUnbounded(r) == r.last \in {"PASS", "SKIP"}

\* The scenario returned true: the session moves on if last_result says so,
\* whichever scenario left it there.
Advances(r) == r.scn < kScenarioCount /\ r.last \in {"PASS", "SKIP"}

maybe_finish(reported) ==
  IF ram'.scn < kScenarioCount
  THEN said' = [said EXCEPT !.reported = reported] /\ UNCHANGED app
  ELSE /\ app' = [app EXCEPT !.done = TRUE]
       /\ said' = [said EXCEPT !.reported = reported,
                               !.verdict = IF ram'.fail THEN "FAIL" ELSE "PASS"]

ScenarioReturns ==
  LET last == Head(todo).s
      r    == Tallied(last)
  IN  /\ At("return")
      /\ IF Advances(r)
         THEN ram' = [r EXCEPT !.scn = @ + 1, !.phase = 0] /\ save_state
         ELSE ram' = r /\ UNCHANGED nv
      /\ maybe_finish(IF last = "NONE" THEN said.reported ELSE said.reported \cup {ram.scn})
      /\ todo' = <<>> /\ scratch' = 0
      /\ UNCHANGED <<log, now, used>>

-----------------------------------------------------------------------------
CanRun == Idle /\ app.ready /\ ~app.done /\ ram.mode

Runs ==
  /\ todo' = run_current_scenario
  /\ UNCHANGED <<nv, ram, app, log, scratch, now, said, used>>

\* project_test_tick, and the PROJECT_TEST command, which does not look at
\* pending_restart.
Tick == CanRun /\ ~ram.pending /\ Runs
ProjectTest == CanRun /\ Runs

Waiting == Idle /\ app.ready /\ ram.pending

TimePasses ==
  /\ Waiting /\ now < ram.restart_at /\ now' = now + 1
  /\ UNCHANGED <<nv, ram, app, log, scratch, todo, said, used>>

Off == app' = [on |-> FALSE, ready |-> FALSE, done |-> FALSE]

\* Mutant: the board restarts before the flag is saved as cleared.
MaybeRestartUnsaved ==
  /\ Waiting /\ now >= ram.restart_at
  /\ ram' = [ram EXCEPT !.pending = FALSE] /\ Off
  /\ UNCHANGED <<nv, log, scratch, todo, now, said, used>>

MaybeRestart ==
  /\ Waiting /\ now >= ram.restart_at
  /\ ram' = [ram EXCEPT !.pending = FALSE] /\ save_state /\ Off
  /\ UNCHANGED <<log, scratch, todo, now, said, used>>

\* project_test_setup with format_or_mount: a log that does not mount, for
\* whatever reason, is formatted.  A board whose log cannot be formatted
\* stays up and runs nothing.
Boot ==
  /\ ~app.on
  /\ ram' = nv /\ now' = 0
  /\ \E ready \in BOOLEAN :
       /\ app' = [on |-> TRUE, ready |-> ready, done |-> FALSE]
       /\ \/ /\ ready /\ log.state # "blank"
             /\ log' = Log(log.state, log.recs) /\ UNCHANGED used
          \/ ready /\ log.state # "clean" /\ log' = Log("clean", <<>>) /\ UNCHANGED used
          \/ ready /\ log.state = "clean" /\ log' = Log("clean", <<>>) /\ Faulty
          \/ ~ready /\ log' \in HalfReset /\ Faulty
  /\ UNCHANGED <<nv, scratch, todo, said>>

\* SESSION_MODE and SESSION_PROGRESS: both save everything.
SessionMode(faults) ==
  /\ Idle /\ ram' = [ram EXCEPT !.mode = TRUE, !.faults = faults] /\ save_state
  /\ UNCHANGED <<app, log, scratch, todo, now, said, used>>

SessionProgress ==
  /\ Idle /\ UNCHANGED ram /\ save_state
  /\ UNCHANGED <<app, log, scratch, todo, now, said, used>>

\* What the loss of power in the middle of the running operation leaves; what
\* was mounted does not matter to the boot that follows.
Interrupted ==
  CASE At("reset") -> HalfReset
    [] (At("append") \/ At("fill")) /\ HasRoom ->
         {log, WithRecord, Log("dirty", log.recs)}
    [] OTHER -> {log}

\* Power loss; between two scenarios also the commands REBOOT and BOOTLOADER.
PowerLoss ==
  /\ app.on /\ used.cuts < MaxCuts /\ used' = [used EXCEPT !.cuts = @ + 1]
  /\ log' \in Interrupted /\ Off
  /\ todo' = <<>> /\ scratch' = 0
  /\ said' = [said EXCEPT !.lost = @ \/ ram.fail # nv.fail]
  /\ UNCHANGED <<nv, ram, now>>

Firmware ==
  \/ Boot \/ Tick \/ TimePasses \/ MaybeRestart
  \/ ResetLog \/ AppendRecord \/ FillLog \/ VerifyRecords \/ ScratchStep
  \/ ScheduleRestart \/ ScenarioReturns

Next ==
  \/ Firmware
  \/ ProjectTest \/ SessionProgress
  \/ \E faults \in HostModes : SessionMode(faults)
  \/ PowerLoss

\* The loop of the firmware never blocks, and the host repeats SESSION_MODE
\* on every connection.
HostSendsMode == ~ram.mode /\ \E faults \in HostModes : SessionMode(faults)

Spec == Init /\ [][Next]_vars /\ WF_vars(Firmware) /\ WF_vars(HostSendsMode)

-----------------------------------------------------------------------------
TypeOK ==
  /\ nv \in PersistedState /\ ram \in PersistedState
  /\ app \in [on : BOOLEAN, ready : BOOLEAN, done : BOOLEAN]
  /\ log.state \in {"blank", "clean", "dirty"}
  /\ todo # <<>> => app.on /\ todo[Len(todo)].do = "return"
  /\ said.verdict \in {"NONE", "PASS", "FAIL"}

\* The session never passes over a scenario that runs in one go without having
\* told the host that it passed or was skipped, wherever power is cut.
NoneSkippedSilently == \A s \in Scenarios \ MultiPhase : s < ram.scn => s \in said.reported

\* A scenario that is run again after a power loss is counted once: the saved
\* tallies are those of the scenarios that the session has moved past and
\* that reported an outcome.
TalliesExact ==
  nv.pass + nv.skip = Cardinality({s \in said.reported : s < nv.scn})

\* SESSION_PASS comes after a failed scenario only if a power loss took the
\* failure away before any save.
FailureIsReported == said.verdict = "PASS" /\ said.failed => said.lost

\* One power loss alone makes no scenario fail, wherever it strikes: every
\* scenario can be run again from the state in which it was interrupted.
OneCutNeverFails == said.failed => used.faults > 0 \/ used.cuts > 1

\* The verdict, once told, is the same at every later boot.
VerdictStands == [][said.verdict # "NONE" => said'.verdict = said.verdict]_vars

\* With at most one fault or power loss the session comes to a verdict, unless
\* that fault left the board without a log.
SessionEnds ==
  <>(\/ said.verdict # "NONE"
     \/ app.on /\ ~app.ready
     \/ used.faults + used.cuts > 1)

\* SESSION_PASS means that every scenario has reported its outcome.
SessionPassMeansAllRan == said.verdict = "PASS" => Scenarios \subseteq said.reported
=============================================================================
