# nvlog: a verification project

nvlog is a C library that keeps an append-only log, linear or circular, on
small non-volatile memories (FRAM, EEPROM, NOR and internal flash, files)
through a HAL of a few callbacks (`read`, `write`, `erase`). It has no threads
and no background work: what makes it hard is that each call is a sequence of
HAL writes, that the device can lose power or the HAL can fail between any two
of them and inside each, and that the next mount must make sense of the
remains. Around it stands a hardware test bench: firmware that runs scenarios
on the log across restarts, and a host that talks to it and cuts its power.

This directory holds TLA+ specifications of both, the TLC runs that check them
on small instances, and TLAPS proofs about the publication protocol, ring mode,
linear mode, the staleness of iterators and both sides of the test bench.

## Inventory

| Part | State | Operations | Interacts with | Hard behaviour |
|---|---|---|---|---|
| Superblocks (`src/src/nvlog.c` 149-255, 355-506) | two copies on the media: generation, metadata_seq, window | `format_impl`, `ring_publish_superblocks`, `load_current_superblock` | record area, through the window they describe | A is written before B; a stop between or inside the writes; counters that wrap |
| Record format (273-353, 667-917) | record area | `write_record_wire`, `verify_record` | all modes | commit byte last; remains of older records under a new one; torn writes |
| Linear mode (938-1037, 1129-1210) | context: write_ptr, next_seq, record_count | format, mount (scan), append | superblocks only at format | recovery by scanning, retries over remains |
| Ring mode (383-403, 513-639, 1053-1128, 1446-1523) | context: write_ptr, tail_ptr, counters | format, mount, append, retire | superblocks at every append | overwriting of the oldest records, padding, WRAP records, RAM state ahead of the media |
| Flash (`src/src/nvlog_hal_flash.c`, the erase-before-write branches of nvlog.c) | erased sectors, program units | flash format, append by program units, mount | linear mode | partial erase, dirty tails, bits that cannot be set, an identity that restarts |
| Iterators, descriptors, statistics (1268-1440) | cursor, snapshot counters | `nvlog_iter_init/next`, `nvlog_read_payload`, `nvlog_stats` | context | a log that changes under them |
| Backends (`src/backends`) | page and bus state, file, simulated flash | read, write, erase | HAL contract | page splits, busy polling, injected failures |
| Bench firmware (`src/testbench/firmware/HWTestBench`) | session progress in NVS and in RAM, a log in flash, one in PSRAM | thirteen scenarios, restart, boot, serial commands | library, host | restarts in the middle of a scenario, power loss between an effect and the save of it |
| Bench host (`src/testbench/host`) | session loop, power worker (a process), event queue | connect, acknowledge, cut, restore, stop | firmware, through the port and the power | two processes, late acknowledgements, kill without cleanup |

What each part must guarantee: recovery finds a state some caller published,
the newest durable one (superblocks); only whole records, of this generation,
with their own payload, are delivered (record format); acknowledged appends
survive, interrupted ones are there whole or not at all, and the region mounts
again (all modes); the newest records are kept (ring); iterations deliver the
log exactly, and an iterator or descriptor does not outlive a change of its log
(iterators); a session resumes where it was, counts every scenario once and
tells a true verdict (firmware); power is cut with the port closed, comes back,
and the summary says what happened (host).

## Modules

| Module | Models | Lines |
|---|---|---|
| `NvlogSuperblock` | the order of the two copies, as pure operators over counters of width `U32` | nvlog.c 200-255, 355-381 |
| `NvlogPublish` | publication through the two copies by format, append and mount, with torn copies, HAL errors, power loss | nvlog.c 405-506, 1117-1127, 1475-1514 |
| `NvlogPublish_proofs` | proofs about it | |
| `NvlogRecord` | the wire record: its HAL writes and `verify_record` | nvlog.c 278-353, 667-917 |
| `NvlogRecord_proofs` | lemmas about it | |
| `NvlogRing` | ring mode, one HAL write per step | nvlog.c 405-639, 1041-1128, 1300-1333, 1446-1515 |
| `NvlogRing_proofs` | proofs about it | |
| `NvlogRingLog` | abstract: a log of the newest records | |
| `MCRingUniform` | ring mode with records of one size, refining `NvlogRingLog` | |
| `NvlogLinear` | linear mode, one HAL write per step, refining `NvlogAppendLog` | nvlog.c 405-478, 938-1037, 1129-1210, 1335-1382 |
| `NvlogLinear_proofs` | proofs about it | |
| `NvlogFlash` | linear mode on erase-before-write media, one erase or program unit per step, refining `NvlogAppendLog` | nvlog_hal_flash.c 24-58; nvlog.c 257-271, 717-768, 938-1037, 1129-1210, 1335-1382; nvlog_flash_sim.c 14-96 |
| `NvlogAppendLog` | abstract: an append-only log with at most one record in doubt | |
| `NvlogAppendLog_proofs` | what follows for that log | |
| `NvlogSnapshot` | which iterators and descriptors a context accepts, against every call that changes it | nvlog.c 200-215, 405-478, 1268-1299, 1387-1416 and the counters of mount and append |
| `NvlogSnapshot_proofs` | proofs about it | |
| `BenchFirmware` | the scenario engine of the board: persisted progress, scenarios, boots, restarts, commands, power loss | project_adapter.cpp, HWTestBench.ino |
| `BenchFirmware_proofs` | proofs about it | |
| `BenchPower` | session runner, reader thread and power worker | session_runner.py, power_fault.py |
| `BenchPower_proofs` | proofs about it | |

How state and actions correspond to the code of the library:

- `ctx` is `nvlog_ctx_t` without the fields no property tells apart
  (region_size, media class and geometry are constant for a region;
  used_bytes, padding_bytes and ring_full are functions of the window).
- `sbA`, `sbB` (`copyA`, `copyB`, `sb`) are the superblocks; a copy whose CRC
  fails is `BadSb` (`Bad`).
- `media` is the record area in cells. A cell stands for the bytes that mean
  something together: `HdrCells` cells of header, one per unit of payload, one
  for the CRC, one for the commit byte. A cell keeps what was written to it, so
  a CRC matches exactly the header and payload it was computed from. Cell 0 is
  offset `NVLOG_REGION_HEADER_SIZE`.
- A call is an action up to its first HAL write (`Format`, `AppendRecord`),
  one action per HAL write (`WriteCells`, `PublishA`, `PublishB`, `WriteA`,
  `WriteB`, `EraseSector`, `ProgramUnitWrite`), and one for what follows the
  writes of a record (`WrapWritten`, `DataWritten`); `pc` and `todo` say where
  the call stands. Mounts and iterations only read: a mount is one action, an
  iteration an operator. The zero payload of a WRAP record, written in chunks
  of 16 bytes, is one write, which may tear.
- `IoError` is a HAL write that fails: some or none of it is on the media and
  the call returns with the context as it is at that line, which in ring mode
  includes a moved `write_ptr`, a retired tail, and after line 1117 the whole
  new record. `PowerLoss` forgets the context instead. Every one of them may
  leave a prefix of the write (`Interrupted`), and an unreadable copy where the
  write was a superblock (`Torn`).
- `log` of `NvlogRing` is a ghost: every record ever appended, with its
  generation number. `old` is another: what context and media held as the call
  began, whether the call stays outside both windows (`apart`), and whether copy
  B was as good as copy A then (`backed`).
- Record sequence numbers wrap at `SeqRange`, superblock counters at `U32`, in
  place of 2^32.
- `nvlog_iter_next` in linear mode steps over a record that does not verify by
  the length its header holds, whether or not that header's CRC is right
  (`raw_len`, `steps_over`); on flash a header that is a mixture of two may hold
  any length (`mixture`).
- `NvlogFlash`: programming clears bits only, as the flash simulator has it. A
  cell that holds something else than the new contents stops a unit there
  (`ProgramRefused`) and may be left a mixture of both (`Spoiled`); payloads
  and the part of the headers that two records at one place share may need no
  bit set and pass. `slot` is `hdr` of `nvlog_mount`, which `verify_record`
  fills for valid records only and which line 1016 reads all the same: what it
  holds at first and whether it survives from one turn of the loop to the next
  is chosen once per behaviour, as one build would have it.
- `NvlogSnapshot` keeps of a call what it does to generation, session and
  mutation, how far it gets, and whether it reaches the media. An iterator and
  a descriptor carry the same three numbers. `since` is a ghost: what has
  happened since the snapshot.

and of the test bench:

- `BenchFirmware`: `nv` is the blob in NVS, `ram` is `g_app.state`; only
  `save_state` copies one to the other. A scenario is the sequence of its
  operations (`todo`), one per step, so that power can go between any two.
  What an operation does to the log is what the library's modules establish:
  an append that fails or is interrupted leaves the log as it was, with the
  record, or with a dirty tail. Behind a dirty tail a later append may fail,
  may succeed, since the boot's mount steps over it, or may report success for
  a record that no mount finds (`Flash_dirty_tail` below). A reset that fails
  may leave a formatted log without a context (`HalfReset`, `Unmounted`), on
  which appends and verifications fail. `Boot` is `project_test_setup`: any
  mount failure formats; the mount failure that scenario_corruption_detection
  tolerates (project_adapter.cpp 1161) is the operation `wrap_verify`.
  `restart_at` is uptime, kept across boots as the code keeps
  it. `BENCH_RUN_PROJECT_TEST_ON_BOOT` is 0 (`bench_config.h:43`).
- `BenchPower`: `worker` is `run()` of power_fault.py with its `finally`,
  `runner` the loop of session_runner.py, `stdout` and `queue` the worker's
  output before and after the reader thread, `event` the two
  `threading.Event`s behind STOP and POWER_OFF. The event behind POWER_OFF is
  never cleared (power_fault.py 48), so from the second cycle on the worker
  may cut before the runner has closed the port: `PortClosedAtCut` says exactly
  when. A command that fails may have worked. A worker killed at the end of
  the runner's patience skips its cleanup. Between the poll of the worker and
  the write to its standard input the worker may exit (`signal_power_off`,
  `WriteStop`): the `BrokenPipeError` leaves the loop for the `finally` clause,
  or that clause itself, and then no summary is written (`raised`).

## Runs

Deadlock checking is off everywhere: bounds on calls stop the library's models,
and a bench session ends. The runs of the library are safety only and assume no
fairness: every call runs to its end unless interrupted, nothing is scheduled.

| Run | Checks | Bounds and why they are enough |
|---|---|---|
| `Publish_tear` | recovery finds the last completed copy A (`OldOrNew`), never a stale copy B (`StaleCopyNeverWins`), and moves only at copy A (`RecoveryMovesOnlyAtA`); the inductive invariant `IInv` | `U32` = 24 with unbounded behaviours: the counters wrap many times; two publications may be unfinished in a row (`MaxLag`); the theorems cover every width and lag |
| `Ring_faults` | `AckedIsDurable`, `NoInvention`, `InAppendOrder`, `OldOrNew`, `IterationInOrder` | 10 cells: two records fill the ring, three wrap and overwrite; WRAP records; a size that is refused; headers of two cells; three formats over old records and two faults, each possibly inside a write of a record or of a superblock copy, so that a copy A is torn over a copy B that an earlier stop left stale, and an older log comes back |
| `Ring_uniform` | `HealthyRing`, `KeepsNewest`, and the refinement of `NvlogRingLog` | three records leave a gap too small for a WRAP record in 14 cells; 18 calls go round more than five times, past the wrap of the sequence numbers; power is lost between calls only |
| `Linear_faults` | `AlwaysMounts`, `ContextAgrees`, `IterationIsExact`, and the refinement of `NvlogAppendLog` | two sizes, a region that fills up, two formats, two faults anywhere, inside writes too, with retries and remounts |
| `Flash_faults` | `ContextAgrees`, `IterationInOrder`, and the refinement of `NvlogAppendLog` | two sectors, so that an erase stops half-way and a record crosses the boundary; program units of two cells, so that a unit tears and a record ends in padding (1, 4, 8 and 32 bytes in the code); 18 cells hold the records of three appends; two formats and two faults; two lengths with one allocation, and a third length, or none, left in `hdr` by older calls |
| `Snapshot_calls` | `StaleRejected`, `NeverAcrossFormat` | six calls in any order from every state of the region, with counters of width 10 that start anywhere and so wrap inside the six; the theorems cover every width |
| `Bench_session` | `NoneSkippedSilently`, `TalliesExact`, `FailureIsReported`, `OneCutNeverFails`, `VerdictStands`, and `SessionEnds` under fairness | all thirteen scenarios, one failing operation and two power losses anywhere; bursts of two appends instead of up to 32, a log of three records so that the filling scenario reaches its end; one tick of uptime separates a restart time of this boot from one of an earlier boot |
| `Bench_power` | `SummaryNeverOvercounts`, `TargetLeftPowered`, `SummaryShowsFailure`, `PortClosedAtCut`, and `SessionFinishes` under fairness | two cycles, the second with an event that is already set; two attempts and three failing commands, so that a restore can fail for good in a cycle and in the cleanup |

Runs that expect a violation show where the code departs from its documentation:

| Run | Property | What TLC finds |
|---|---|---|
| `Ring_mixed_sizes` | `HealthyRing` | appends of different sizes corrupt the ring, no fault needed: the WRAP record or the wrapped write pointer is taken before the tail makes room |
| `Flash_dirty_tail` | `CommittedStay` | an append torn after its header is stepped over by another record's length; the next acknowledged append falls inside it, and no mount succeeds any more |
| `Snapshot_flash_format` | `StaleRejected` | a flash format starts all counters again, so an iterator from before it is accepted |
| `Bench_skipped_phases` | `SessionPassMeansAllRan` | the first phase of a restarting scenario leaves `last_result` of the scenario before in place; the session moves on, and SESSION_PASS follows though later phases never ran |

### Fairness

`BenchFirmware` assumes `WF_vars(Firmware)`: the Arduino loop calls
`project_test_tick` and `maybe_restart` without ever blocking, operations
return, and a board without power is powered again. It also assumes
`WF_vars(HostSendsMode)`: the host sends SESSION_MODE at every connection
(`session_runner.py` 447). The other commands, faults and power losses are not
fair: they need not happen. `SessionEnds` is stated for at most one fault or
power loss, as two losses can leave a scenario in its second phase on a log
that a boot has formatted, which then fails for ever, and for boards whose log
could be formatted at boot, as the others run nothing.

`BenchPower` assumes weak fairness of each of the worker, the reader thread and
the runner, which are a process, a thread and a process that the operating
system keeps running and whose every wait has a timeout, and of the deadline:
a session has a finite duration. `max_cycles` is finite, as in
`test_config.hw100.json`.

### What the passing runs assume

`OldOrNew` of the ring speaks of the appends that write outside the live and
durable windows (`old.apart`), and of a call that tears copy A only if copy B was
as good when the call began (`old.backed`): where an earlier publication stopped
before copy B, the torn copy A was the only image of the newest state.
`NoInvention` is about each generation number: it holds what a mount finds against
the log of the number on the superblock it trusts, copy A's while copy A is
readable, and an older log that comes back under its own number after copy A was
torn is that log (`FoundStays` below).

`Ring_uniform` has one record size, which never leaves room for a WRAP record at the end; `IterationInOrder` of the ring speaks
of contexts that agree with the media (a failed WRAP record leaves one that
does not). `Linear_faults` formats an unused region (`ReformatUsed`), retries
an interrupted record with its length (`RetryOther`) and does not tear headers
(`HdrCells` = 1). In `Flash_faults` the lengths share one allocation, without
which the step of `Flash_dirty_tail` goes wrong; the application drops a
context whose format failed (`GoesOn`); and `hdr` holds the same at every mount
of a behaviour. `StaleRejected` excludes contexts that were cleared or left by
a failed format.

Departures of the code outside those assumptions, each to be seen by checking
the property named with the constants given (all properties are in the
modules):

| Property | Constants | What happens |
|---|---|---|
| `FoundStays` of `NvlogPublish` | those of `Publish_tear` | copy B is stale after an interrupted publication, no mount repairs it (nvlog.c 502), and a later torn copy A brings the older log back |
| `StillMounts` of `NvlogRing` | `U32` 32, `HdrCells` 1, `Cap` 8, `Reserve` 9, `Lens` {0, 3, 6}, `SeqRange` 16, `MaxCalls` 5, `MaxFaults` 1, `MaxFormats` 1, no torn writes | the oldest record is overwritten (1101) while both superblocks still start at it; stopped there by a power loss or an error, the ring does not mount |
| `IterationIsComplete` of `NvlogRing` | the same with `Cap` 10, `Lens` {1}, `MaxFaults` 0 | the iterator looks for end padding before `region_size` (1303), the append leaves it before the data limit |
| `IterationEnds` of `NvlogRing` | the same with `Cap` 8, `Lens` {1, 6}, `MaxCalls` 4 | after an append whose WRAP record reached the medium with an error reported, the iterator goes round the ring for ever (1301) |
| `AlwaysMounts` of `NvlogLinear` | `U32` 16, `HdrCells` 1, `Cap` 18, `Lens` {2}, `ReformatUsed`, `MaxAppends` 4, `MaxFormats` 2, `MaxFaults` 0, no torn writes | a format leaves records of the old generation where the scan meets them (473, 1028), and the region does not mount |
| `AlwaysMounts` of `NvlogLinear` | the same with `Lens` {0, 2}, `RetryOther` instead of `ReformatUsed`, `MaxFormats` 1, `MaxFaults` 1 | a shorter record over the remains of a longer one leaves bytes the scan takes for corruption |
| `CommittedStay` of `NvlogFlash` | those of `Flash_faults` with `GoesOn`, `Lens` {1} and `MaxFaults` 1 | a context stays mounted after a failed erase, and an append to it is acknowledged on a region without superblocks (nvlog_hal_flash.c 49) |
| `SummaryWritten` of `BenchPower` | those of `Bench_power` | the worker exits between the poll and the write of STOP (session_runner.py 102, 107), and the exception leaves the `finally` clause before the summary is written |

`StillMounts`, both properties of the iteration and the first `AlwaysMounts` were also
seen to fail in the compiled library, on a RAM backend. Three more departures were
seen while modelling: a power loss inside a linear record's header leaves a region that does not mount (`HdrCells` 2 with torn writes); a
ring append that exceeds the data area but not the reserve retires records
before it returns `NVLOG_ERR_FULL` (1062, 1096); a WRAP record may be written
over the oldest live records (`KeepsNewest` with one size of 4 cells, `Cap` 15).
And `nvlog_ctx_init` followed by a mount repeats session and mutation, so a
stale iterator is accepted; so is one from before a format that failed on the
superblocks.

## Proofs

`NvlogPublish_proofs` proves, for every even counter width of at least four,
every set of states and every `MaxLag` with `4 * MaxLag + 2 < Half`:

- `TypeCorrect`: `Spec => []TypeOK`, in particular that no counter becomes 0;
- `Inductive`: `Spec => []IInv`;
- `RecoveryIsOldOrNew`, `StaleCopyLoses`, `RecoveryMoves`: the properties that
  `Publish_tear` checks.

`OldOrNew` is not inductive: which copy recovery takes depends on a signed
difference of counters that wrap, so the invariant must bound how far they
drift. A call increments a counter at most twice, an increment that skips 0
moves it by up to two, and `lag` counts the publications begun since copy B was
last written; `IInv` says that the context and copy A are ahead of copy B by at
most `4 * lag` (`4 * lag + 2` after a mount) in the counter that decides.
`AheadIsNewer` turns that into `superblock_is_newer`, `CurrentIs` into which
copy recovery takes, and the step proofs have one step per action. The
assumption on `MaxLag` is the code's own: the comparison of `u32_is_newer`
fails after about 2^29 publications that all stop before copy B.

`NvlogSnapshot_proofs` proves, for every even counter width of at least four
and every bound on the calls below it (`MaxCalls < U32 - 1`: with 2^32 calls
the counters come round and a snapshot would be accepted again):

- `TypeCorrect`: `Spec => []TypeOK`, for every kind of region;
- `FormatEndsSnapshots`: on byte-writable media `NeverAcrossFormat`;
- `CallsEndSnapshots`: on byte-writable media `StaleRejected`.

Neither is inductive: that the numbers differ now says nothing of the next
increment. `IInv` adds that a mounted context is of the generation on the media
(`MountedIsCurrent`), that the generation on the media has moved on from the
snapshot's by at most as many formats as there were calls and by one at least
after a format (`GenerationMoved`, over the distance `formats`, which knows the
skipped zero), and the same for the mutation counter of a context that was
neither cleared nor formatted (`MutationMoved`), where a wrap adds one. That a
distance is at least one and less than the range is what makes the comparison
fail. Flash is excluded by `kind # "flash"`; `Snapshot_flash_format` shows that
the theorems are false there.

`NvlogAppendLog_proofs` proves of the abstract log that at most the newest
record is in doubt and that acknowledged records stay until a format;
`Flash_faults` checks that linear mode implements that log on erase-before-write
media, and `NvlogLinear_proofs` proves it on byte-writable ones.

### Ring mode

`NvlogRing_proofs` proves, for every area and reserve, all payload lengths,
header widths and ranges of sequence numbers, and any number of failed writes
and power losses, torn ones included:

- `RingAckedIsDurable`: `Spec => []AckedIsDurable`;
- `RingIterationInOrder`: `Spec => []IterationInOrder`;
- `RingTypeOK`: `Spec => []TypeOK`; `RingInvariant`: `Spec => []IInv`;
- `RingNoInvention`: `Spec => []NoInvention`, under `Distinguishable`;
- `RingOldOrNew`: `Spec => []OldOrNew`, under `Distinguishable` and `Orderable`;
- under `Uniform`, for records of one size: `RingHealthy`: `Spec =>
  []HealthyRing`; `RingKeepsNewest`: `Spec => [](calls.faults = 0 =>
  KeepsNewest)`; and, if `MaxFaults` = 0, `RingIsRingLog`: `Spec =>
  ImplementsRingLog`, the refinement of `NvlogRingLog`.

The first four rest on nothing but the assumptions that the modules state of
their constants. The next two are about what `load_current_superblock` finds,
whose signed comparison orders counters up to a distance of 2^31 only:
`Distinguishable` says that there are fewer formats than that (`MaxFormats <
Half`), and `Orderable` that there are fewer than about 2^30 calls in all
(`2 * MaxCalls + 1 < Half`), as a call advances the metadata sequence number at
most twice. Neither bound is claimed to be needed as it stands: what the comparison
needs is a bound on how far the two copies drift apart, as in `NvlogPublish_proofs`,
and without any such bound it takes copy B for the newer one after 2^31 formats that
all stop before copy B.

Both hold for any number of faults, each of which may tear the write it stops.
`OldOrNew` exempts one kind of call, that tears copy A over a copy B left stale or
torn by an earlier fault, and with it the code does bring an older log back or
none. `NoInvention` covers those calls too, as a statement about each generation
number; a number is given to a second log only once the newest superblock was
lost that way, and the records of both are then in the log under it.

The loops of `ring_validate_window`, `ring_retire_tail_to_free` and
`nvlog_iter_next` are recursive functions in the model (`walk_from`,
`retire_from`, `iter_from`). Their equations are proved (`WalkUnfolds`,
`RetireUnfolds`, `IterUnfolds`), from the existence of a function that satisfies
them, by induction over the cells still occupied, the rounds still possible, or
the records left to deliver. On these rest the lemmas about a window:

- a walk depends on no cell outside its window (`WalkSees`);
- with a record written at the write pointer it delivers one record more
  (`WalkGrows`, `DataDone`), and behind a WRAP record or padding it continues
  at the start of the area;
- dropping the record at the tail leaves a window that validates, with one
  record less (`Retiring`), so retiring only fails where validating does;
- an iteration follows the walk, record for record, and skips no more WRAP records
  and gaps than there are cells ahead, so that its loop ends (`IterFollows`).

`AckedIsDurable` is not inductive: when a call publishes, it has to be known
that the window in RAM validates and ends with the new record, and when a record
is complete, that it lies behind a window that still validates, though
`ring_retire_tail_to_free` has just moved its tail and the new record covers the
cells of the records retired. `IInv` says so: `Placed` follows the HAL writes
of the record under way (`Progress`) and states that it lies in free cells
(`Room`); there is one exception, an empty ring whose pointers differ
(`Overlap`), where the record covers the tail and the validation that follows
fails. After failed writes the window of the context may not validate at all;
`Sound` says what is left then: wherever it does validate, the next sequence
number follows its newest record, also for the part before and the part after
the end of the area, since a wrapped write pointer moves from one to the other.

`NoInvention` is about windows that no context describes any more: a superblock
may point at cells that later calls have written over. So its invariant, `GInv`,
speaks of every CRC on the media instead of the windows (`AllKnown`): the record
of each is in the log under the generation in its own header. The log is a set of
generation, sequence number and payload that no call empties. A write adds only
the CRC of the record under way, which the call logged when it began (`Logged`,
`WritesKnown`), stopped or torn wherever it is; and a walk delivers no record
whose CRC it did not read, nor one of another generation than its superblock's
(`WalkReads`). That copy A is trusted while it is readable is `Generations`: no
generation is beyond the number of formats, copy B's is at most copy A's and at
most that of a context about to write copy A, and a mounted context is of copy
A's unless that is torn.

`OldOrNew` follows a call through its writes (`Aside`): until it publishes, the
window of the trusted copy holds the old records, since the writes of the record
lie in cells outside it (`Clear`, `ClearKept`); the window of the context, moved to
the start of the area behind padding or a WRAP record if need be (`MovedRecs`),
holds the live records, and with the record complete, the new one behind them
(`DataGrew`); from copy A on a mount finds these. Which copy is trusted is
`CurrentCopy`: copy A, if it can be read, because copy B is the same or older
(`Ordered`), for which `Numbered` bounds the metadata sequence numbers by the
number of calls. A torn copy A leaves copy B, which is the copy trusted when the call
began, or equal to it, if the call began with `old.backed`.

`Uniform` says that all payloads have one length (`OneSize`) and that what is
left behind the last slot is less than the overhead of a record (`Cap % Unit <
Overhead`). The second half is needed: where a WRAP record fits there,
`KeepsNewest` and the refinement are false, as TLC shows with `Cap` 15
and `SeqRange` 16 in `Ring_uniform`. The invariant `UInv` says, of a region without faults so far:
every header on the media is that of such a record, and all pointers are
multiples of its size (`Regular`), so that no WRAP record is written and the
walk passes over one slot after another (`SlotPassed`); hence a window that has
no room for another record holds as many as fit (`WindowFills`), and retirement
drops a record only from a full area and stops one short of that
(`RetiringAlike`). Between calls the context validates and agrees with what a
mount would find (`AtRest`), which makes `HealthyRing` follow; during an append
it holds the records there were, or as many of the newest as fit with the new
one (`Underway`, `Newest`), which makes `KeepsNewest` follow; and what the call
makes of the durable records is a format or an append of `NvlogRingLog`
(`Outcome`, `NewestRefines`), seen as the next call begins (`BeginRefines`).

### Linear mode

`NvlogLinear_proofs` proves, for a record area, payload lengths, header width
and numbers of appends, formats and faults of any size, under `Regime`:

- `LinearIsAppendLog`: `Spec => ImplementsAppendLog`;
- `FormattedMounts`, `ContextIsOfMedia`, `IterationDeliversMount`: the
  invariants that `Linear_faults` checks; `TypeCorrect`.

`Regime` is what `Linear_faults` assumes too, and is needed: the application
formats a region that holds no records (`~ReformatUsed`), an append over the
remains of another has its length (`~RetryOther`), and an interrupted write
does not tear inside a header (`TornWrites => HdrCells = 1`). Without any one of
the three the theorems are false, as the departures listed above show.

The inductive invariant says of the media what no single property says: the
acknowledged records lie as a chain (`Chain`) from the start of the area to
`pos[acked + 1]`, each whole, with sequence numbers 0, 1, 2 ...; behind it is
nothing but the tail of one append, in one of the forms its HAL writes go
through (`Writing` while the call runs; `Uncommitted` or `Doubtful` once it has
been interrupted); and a mounted context points behind the chain. It has
existential positions, so that each step of an append shows the next form
(`HeaderEffect`, `BodyEffect`, `CrcEffect`, `CommitEffect`), and a torn write
one of the two around it.

The walks of `nvlog_mount` and `nvlog_iter_next` are recursive functions of the
cursor. Their equations are proved, not assumed: `WalkExists`
(`NvlogRecord_proofs`) constructs such a function for every region size, by
induction over sets of cursors (`LeastNat`, `DownToOne`), since the library's
induction theorems cannot be instantiated here. By the same induction
`WalksOfChain` shows that both walks deliver exactly the chain, and `WalksStop`
that they end behind it, at an uncommitted tail as on erased cells.

### Bench host

`BenchPower_proofs` proves, for every number of cycles and attempts and every
number of failing power commands, `TypeCorrect` and the four safety properties
of `Bench_power`: `NeverOvercounts`, `LeftPowered`, `FailureShown`,
`CutWithPortClosed`.

`SummaryNeverOvercounts` compares counters of the runner with the cycle of the
worker, while lines of the worker are under way in two places. The invariant
(`Counted`) reads `queue` and `stdout` as one pipe and says that two ascending
counts run along it (`Carries`), of requests and of completed cycles, the second
never ahead of the first; they start at the runner's counters and end at the
worker's cycle. A step of the worker adds to the end of the pipe
(`CarriesAppend`), the reader thread moves a line inside it, the runner takes
from its front. The worker's many actions are first reduced to the three kinds
of step that matter (`WorkerSteps`).

### Bench firmware

`BenchFirmware_proofs` proves, for any bursts, log size, faults, power losses
and host modes, `TypeCorrect`, `NoneSkipped`, `TalliesAreExact`,
`FailuresAreReported` and `VerdictIsFinal`, and, for a log with room for the
largest burst that a scenario appends (`Roomy`), `OneCutIsHarmless`. All six are
properties of `Bench_session`.

The scenarios are sequences of operations. Two facts are proved of each (`scenario_..._runs`): it is a `Script` (it ends in its only
return, restarts just before it if at all, and returns only with the results
such a scenario has), and it can be followed (`Follows`) from the boards it may
find, each operation leaving what the next one wants. They are composed from
lemmas about pieces (`RunsOn`, `AppendsLead`, `ScratchLogLeads` ...). On the
first rests `IInv`, from which five of the theorems follow: `Booked` (RAM and
NVS differ in the failure and the outcome only), `Tally` (what was told is what
was counted), `Failures` and `Verdicts`.

`OneCutNeverFails` needs the second. `Carefree` says that as long as no
operation has failed of itself and power went at most once, what is left of the
running scenario has a `Plan`, and that a scenario in a later phase, which is
the one that does not reset the log, finds the log its phase before left
(`Resumable`). That a phase is in the saved state is possible for the two steps
between `restart` and the return that follows; only a power loss there makes it
last, and the second power loss is what the property excludes. `Roomy` is
`LogRecords >= 2` and at least the burst of the endurance scenario; with one
record the second phase of scenario_reboot_recovery fails without any power loss.

### Only model-checked

- Liveness: `SessionEnds` and `SessionFinishes`.
- Of `NvlogRing`: `InAppendOrder`, which needs an account of the laps of the
  ring, as remounts use sequence numbers a second time.
- `NvlogFlash` with its refinement of `NvlogAppendLog`. Its media hold spoiled
  units and remains of older records at any distance, and the invariant that
  `NvlogLinear_proofs` uses (a chain and one tail) is not enough there.

## Not modelled

- HAL reads that fail: the code returns an error and changes nothing.
- CRC and little-endian arithmetic; parameter checks; version, mode, media and
  geometry mismatches, which decide only which error a mount returns.
- `PADDING` records: read by the code, written by nothing. Ring mode on flash:
  no call of the API creates it. The tail of `nvlog_append` from line 1212 on
  cannot be reached.
- Cells of a sector whose erase was interrupted: the simulator erases a sector
  or leaves it.
- The example HALs and the POSIX file: bus protocols around a read and a write,
  for one caller and without state between calls. A write that stops after
  some pages is a HAL write that stops after a prefix.
- `bench_hal.cpp` (display, SD card, PSRAM and button drivers), event wording,
  configuration parsing, the device counters of the host's summary and file
  formats.
- `nvlog_stats` and `nvlog_ring_count`, which copy fields of the context;
  `nvlog_flash_verify_erased`, which reads only.
- Calls of several tasks into one context: the documentation asks for a lock
  around every call (`src/docs/RTOS_INTEGRATION.md`).

## Plan

Done: `NvlogSuperblock`, `NvlogPublish` and its proofs; `NvlogRecord` and its
lemmas, `NvlogRing` and its proofs, `NvlogRingLog`; `NvlogLinear` and its proofs, `NvlogFlash`,
`NvlogAppendLog` and its proofs; `NvlogSnapshot` and its proofs;
`BenchFirmware`, `BenchPower` and their proofs.

Next, most important first:

1. Of `NvlogRing`: `InAppendOrder`.
2. `NvlogFlash`: `TypeOK`, `ContextAgrees`, `IterationInOrder`, the refinement.
3. The composition of `BenchPower` with `BenchFirmware`: a power cut by the
   worker is a power loss of the board, and the summary counts its verdicts.
