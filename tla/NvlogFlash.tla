----------------------------- MODULE NvlogFlash -----------------------------
(***************************************************************************)
(* Linear mode on erase-before-write media, with HAL errors and power loss *)
(* between and inside the erases and the programmed units (src/src/        *)
(* nvlog_hal_flash.c: nvlog_flash_format; src/src/nvlog.c: format_impl,    *)
(* nvlog_mount, nvlog_append and nvlog_iter_next on such media; the medium *)
(* as src/backends/nvlog_flash_sim.c has it).                              *)
(*                                                                         *)
(* A format erases the superblocks before it writes them, so that every    *)
(* generation is the first one.  The two halves of a header are told apart:*)
(* HdrCells is 2, the first cell holds what all records written at one     *)
(* place share (magic .. seq), the second one the lengths and the CRC.     *)
(***************************************************************************)
EXTENDS NvlogRecord, SequencesExt

CONSTANTS Cap,          \* the record area, in cells
          SbCells,      \* the cells before it: the two superblocks
          SectorCells,  \* erase_size
          ProgramUnit,  \* prog_size
          Lens,         \* payload lengths the application appends
          Residues,     \* lengths in headers that older calls may have left on the stack
          GoesOn,       \* does it append to a context after a format of it failed?
          MaxAppends,   \* bound: calls of nvlog_append
          MaxFormats,   \* bound: calls of nvlog_flash_format
          MaxFaults     \* bound: HAL errors and interrupted calls

ASSUME FlashAssumption ==
  /\ HdrCells = 2 /\ Lens \cup Residues \subseteq Nat /\ GoesOn \in BOOLEAN
  /\ {Cap, SectorCells, ProgramUnit} \subseteq Nat \ {0} /\ SbCells \in Nat
  /\ Cap % ProgramUnit = 0 /\ (SbCells + Cap) % SectorCells = 0
  /\ {MaxAppends, MaxFormats, MaxFaults} \subseteq Nat

VARIABLES
  media,  \* the record area
  sb,     \* do the superblock copies A and B decode?
  slot,   \* what nvlog_mount finds in its uninitialized hdr: never changes
  ctx,    \* the RAM context
  pc,     \* what the running call does next; "idle" between calls
  todo,   \* the units left of the record being programmed
  sector, \* the next sector to erase
  req,    \* length and payload of an append that has not returned NVLOG_OK
  status, \* what the last call returned
  log,    \* ghost: the payloads a mount would find
  acked,  \* ghost: records whose append returned NVLOG_OK or a mount found
  calls   \* ghost: calls and faults so far, for the bounds

vars == <<media, sb, slot, ctx, pc, todo, sector, req, status, log, acked, calls>>

Gen == 1
Sectors == (SbCells + Cap) \div SectorCells
sector_of(i) == (SbCells + i) \div SectorCells

Blank == [mounted |-> FALSE, wp |-> 0, next |-> 0, count |-> 0]
NoReq == [len |-> 0, v |-> 0]

\* Mutant: not aligned.
alloc_bytes_unaligned(len) == rec_alloc_bytes(len)

\* A record takes whole program units.
alloc_bytes(len) ==
  ((rec_alloc_bytes(len) + ProgramUnit - 1) \div ProgramUnit) * ProgramUnit

-----------------------------------------------------------------------------
\* The image of a record, in units.
record_units(base, d, v) ==
  LET total == rec_alloc_bytes(d.len)
      image == [k \in 1 .. alloc_bytes(d.len) |->
                  IF k <= HdrCells THEN HeaderCell(d, k)
                  ELSE IF k <= HdrCells + d.len THEN PayloadCell(v)
                  ELSE IF k = total - 1 THEN CrcCell(d, v)
                  ELSE IF k = total THEN Commit ELSE Erased]
  IN  [u \in 1 .. alloc_bytes(d.len) \div ProgramUnit |->
         HalWrite(base + (u - 1) * ProgramUnit,
                  SubSeq(image, (u - 1) * ProgramUnit + 1, u * ProgramUnit))]

\* Programming only clears bits.  Over other data it stops at the first bit it
\* would have to set; the bytes before that one are then a mixture.  A payload may
\* happen to need no bit set; a CRC and the lengths of a header are taken to.
Spoiled == <<"spoiled">>

IsPayload(cell) == cell[1] = "payload"
FirstHalf(cell) == cell[1] = "header" /\ cell[2] = 1

may_program(old, new) ==
  \/ old \in {Erased, new}
  \/ FirstHalf(old) /\ FirstHalf(new) /\ old[3].seq = new[3].seq
  \/ IsPayload(old) /\ IsPayload(new)

may_refuse(old, new) ==
  old \notin {Erased, new}
  /\ ~(FirstHalf(old) /\ FirstHalf(new) /\ old[3].seq = new[3].seq)

-----------------------------------------------------------------------------
\* On this medium a header that is there in part counts as incomplete, too.
is_incomplete(r) == r.res \in {"INCOMPLETE", "MALFORMED", "GENERATION_MISMATCH"}

\* The scan of nvlog_mount.  It steps over an incomplete record by the length
\* that hdr holds, which verify_record fills for valid records only: what an
\* earlier call left there, then the header of the last valid record if the
\* build keeps the variable where it was.
scan(m) ==
  LET from[cursor \in Nat, next \in Nat, hdr \in Int, recs \in Seq(Nat)] ==
        LET Stop(ok) == [ok |-> ok, wp |-> cursor, next |-> next, recs |-> recs]
            Pass(r) ==
              IF r.res = "VALID"
              THEN from[cursor + alloc_bytes(r.d.len), r.d.seq + 1,
                        IF slot.kept THEN r.d.len ELSE NoLen, Append(recs, r.v)]
              ELSE IF is_incomplete(r) /\ hdr # NoLen /\ cursor + alloc_bytes(hdr) <= Cap
                   THEN from[cursor + alloc_bytes(hdr), next, hdr, recs]
              ELSE Stop(r.res = "END" \/ is_incomplete(r))
        IN  IF Cap - cursor < Overhead THEN Stop(TRUE)
                                       ELSE Pass(verify_record(m, cursor, Gen, Cap))
  IN  from[0, 0, slot.first, <<>>]

Current == sb.A \/ sb.B
Durable == scan(media)
Visible == IF Current THEN Durable.recs ELSE <<>>

\* Mutant: what an incomplete record left in the output is delivered.
iter_after_skip_again(recs) == IF recs = <<>> THEN recs ELSE Append(recs, Last(recs))

\* An incomplete record is not delivered.
iter_after_skip(recs) == recs

\* nvlog_iter_next steps over an incomplete record by the length in its own
\* header, torn or not, and does not round it up to program units.  Where the
\* lengths are a mixture they are any value.
nvlog_iter_next(m, mixture) ==
  LET from[cursor \in Nat, recs \in Seq(Nat)] ==
        LET Stop(ok) == [ok |-> ok, recs |-> recs]
            len == IF At(m, cursor + 1) = Spoiled THEN mixture ELSE raw_len(m, cursor)
            Pass(r) ==
              IF r.res = "VALID" THEN from[cursor + alloc_bytes(r.d.len), Append(recs, r.v)]
              ELSE IF r.res = "END" THEN Stop(TRUE)
              ELSE IF r.d # <<>> /\ len # NoLen
                   THEN from[cursor + rec_alloc_bytes(len), iter_after_skip(recs)]
              ELSE Stop(FALSE)
        IN  IF Cap < cursor + Overhead THEN Stop(TRUE)
                                       ELSE Pass(verify_record(m, cursor, Gen, Cap))
  IN  from[0, <<>>]

-----------------------------------------------------------------------------
Init ==
  /\ media = [i \in 0 .. Cap - 1 |-> Erased]
  /\ sb = [A |-> FALSE, B |-> FALSE]
  /\ slot \in [kept : BOOLEAN, first : Residues \cup {NoLen}]
  /\ ctx = Blank /\ pc = "idle" /\ todo = <<>> /\ sector = 0
  /\ req = NoReq /\ status = "NONE" /\ log = <<>> /\ acked = 0
  /\ calls = [appends |-> 0, formats |-> 0, faults |-> 0]

Return(s) == pc' = "idle" /\ todo' = <<>> /\ status' = s

\* nvlog_flash_format up to its first erase: the context stays mounted if it was.
Format ==
  /\ pc = "idle" /\ calls.formats < MaxFormats
  /\ calls' = [calls EXCEPT !.formats = @ + 1]
  /\ pc' = "erase" /\ sector' = 0 /\ req' = NoReq
  /\ UNCHANGED <<media, sb, slot, ctx, todo, status, acked>>

\* The effect of the erase of the next sector.
Erases ==
  /\ media' = [i \in DOMAIN media |-> IF sector_of(i) = sector THEN Erased ELSE media[i]]
  /\ sb' = IF sector = 0 THEN [A |-> FALSE, B |-> FALSE] ELSE sb
  /\ acked' = IF sector = 0 THEN 0 ELSE acked

\* Mutant: the sectors are erased from the last to the first.
EraseSectorDownwards ==
  /\ pc = "erase"
  /\ media' = [i \in DOMAIN media |->
                 IF sector_of(i) = Sectors - 1 - sector THEN Erased ELSE media[i]]
  /\ LET last == sector + 1 = Sectors
     IN  /\ sb' = IF last THEN [A |-> FALSE, B |-> FALSE] ELSE sb
         /\ acked' = IF last THEN 0 ELSE acked
         /\ IF last THEN pc' = "sbA" /\ ctx' = Blank ELSE UNCHANGED <<pc, ctx>>
  /\ sector' = sector + 1
  /\ UNCHANGED <<slot, todo, req, status, calls>>

\* After the last sector format_impl clears the context.
EraseSector ==
  /\ pc = "erase" /\ Erases
  /\ IF sector + 1 = Sectors THEN pc' = "sbA" /\ ctx' = Blank ELSE UNCHANGED <<pc, ctx>>
  /\ sector' = sector + 1
  /\ UNCHANGED <<slot, todo, req, status, calls>>

WriteA ==
  /\ pc = "sbA" /\ sb' = [sb EXCEPT !.A = TRUE] /\ pc' = "sbB"
  /\ UNCHANGED <<media, slot, ctx, todo, sector, req, status, acked, calls>>

WriteB ==
  /\ pc = "sbB" /\ sb' = [sb EXCEPT !.B = TRUE]
  /\ ctx' = [ctx EXCEPT !.mounted = TRUE]
  /\ Return("OK")
  /\ UNCHANGED <<media, slot, sector, req, acked, calls>>

\* nvlog_append up to its first write: a new payload, or that of the last
\* append again if it did not succeed.
AppendRecord(len) ==
  /\ pc = "idle" /\ ctx.mounted /\ calls.appends < MaxAppends
  /\ calls' = [calls EXCEPT !.appends = @ + 1]
  /\ \E v \in {calls.appends + 1} \cup {r.v : r \in {x \in {req} : x.v # 0 /\ x.len = len}} :
       /\ req' = [len |-> len, v |-> v]
       /\ \/ ctx.wp + alloc_bytes(len) > Cap /\ Return("FULL")
          \/ /\ ctx.wp + alloc_bytes(len) <= Cap
             /\ pc' = "data" /\ UNCHANGED status
             /\ todo' = record_units(ctx.wp, Header("DATA", ctx.next, len, Gen), v)
  /\ UNCHANGED <<media, sb, slot, ctx, sector, acked>>

unit == Head(todo)
old_cell(k) == media[unit.at + k - 1]
\* The first k cells of the unit can be programmed.
programs(k) == \A i \in 1 .. k : may_program(old_cell(i), unit.cells[i])

ProgramUnitWrite ==
  /\ todo # <<>> /\ programs(ProgramUnit)
  /\ media' = Put(media, unit, ProgramUnit) /\ todo' = Tail(todo)
  /\ UNCHANGED <<sb, slot, ctx, pc, sector, req, status, acked, calls>>

\* Programmed cells are in the way: the HAL reports an error.
ProgramRefused ==
  /\ todo # <<>>
  /\ \E k \in 1 .. ProgramUnit :
       /\ programs(k - 1) /\ may_refuse(old_cell(k), unit.cells[k])
       /\ \E cell \in {old_cell(k), Spoiled} :
            media' = [Put(media, unit, k - 1) EXCEPT ![unit.at + k - 1] = cell]
  /\ Return("IO")
  /\ UNCHANGED <<sb, slot, ctx, sector, req, acked, calls>>

\* Mutant: the next record gets the same sequence number.
DataWrittenSameSeq ==
  /\ pc = "data" /\ todo = <<>>
  /\ ctx' = [ctx EXCEPT !.wp = @ + alloc_bytes(req.len), !.count = @ + 1]
  /\ acked' = acked + 1 /\ req' = NoReq /\ Return("OK")
  /\ UNCHANGED <<media, sb, slot, sector, calls>>

DataWritten ==
  /\ pc = "data" /\ todo = <<>>
  /\ ctx' = [ctx EXCEPT !.wp = @ + alloc_bytes(req.len), !.next = @ + 1, !.count = @ + 1]
  /\ acked' = acked + 1 /\ req' = NoReq /\ Return("OK")
  /\ UNCHANGED <<media, sb, slot, sector, calls>>

\* nvlog_mount: reads only; a failed mount leaves the context alone.
Mount ==
  LET found == Durable
  IN  /\ pc = "idle"
      /\ \/ ~(Current /\ found.ok) /\ UNCHANGED <<ctx, acked>> /\ Return("CORRUPT")
         \/ /\ Current /\ found.ok
            /\ ctx' = [mounted |-> TRUE, wp |-> found.wp, next |-> found.next,
                       count |-> Len(found.recs)]
            /\ acked' = Len(found.recs)
            /\ Return("OK")
      /\ req' = IF req.v \in ToSet(found.recs) THEN NoReq ELSE req
      /\ UNCHANGED <<media, sb, slot, sector, calls>>

-----------------------------------------------------------------------------
\* The erase or the write in progress stops: the sector is erased or it is not,
\* a unit has been programmed in part, a superblock does not decode.
Interrupted ==
  \/ pc = "erase" /\ (Erases \/ UNCHANGED <<media, sb, acked>>)
  \/ /\ todo # <<>>
     /\ \E k \in 0 .. ProgramUnit : programs(k) /\ media' = Put(media, unit, k)
     /\ UNCHANGED <<sb, acked>>
  \/ pc \in {"sbA", "sbB"} /\ UNCHANGED <<media, sb, acked>>

Fault ==
  /\ calls.faults < MaxFaults /\ calls' = [calls EXCEPT !.faults = @ + 1]
  /\ Interrupted /\ UNCHANGED <<slot, sector, req>>

\* The call returns NVLOG_ERR_IO, with the context as it was: after a failed
\* erase the application clears it, unless GoesOn.
IoError ==
  /\ Fault /\ Return("IO")
  /\ ctx' = IF pc = "erase" /\ ~GoesOn THEN Blank ELSE ctx

\* Power loss in the middle of a call, or between calls.
PowerLoss ==
  /\ \/ Fault
     \/ pc = "idle" /\ ctx.mounted /\ UNCHANGED <<media, sb, acked, slot, sector, req, calls>>
  /\ ctx' = Blank /\ Return("NONE")

Step ==
  \/ Format \/ EraseSector \/ WriteA \/ WriteB
  \/ \E len \in Lens : AppendRecord(len)
  \/ ProgramUnitWrite \/ ProgramRefused \/ DataWritten
  \/ Mount
  \/ IoError \/ PowerLoss

Next == Step /\ log' = Visible'

Spec == Init /\ [][Next]_vars

-----------------------------------------------------------------------------
\* Whatever a mount stepped over, the write pointer is that of a program unit
\* inside the region.
TypeOK ==
  /\ DOMAIN media = 0 .. Cap - 1 /\ sb \in [{"A", "B"} -> BOOLEAN]
  /\ ctx.wp \in 0 .. Cap /\ ctx.wp % ProgramUnit = 0 /\ {ctx.next, ctx.count} \subseteq Nat
  /\ pc \in {"idle", "erase", "sbA", "sbB", "data"} /\ sector \in 0 .. Sectors
  /\ todo # <<>> => pc = "data"
  /\ status \in {"NONE", "OK", "FULL", "CORRUPT", "IO"}

\* The context and a formatted region agree: where the write pointer stands on
\* erased cells, a mount would put it there, after the same records; where an
\* append has failed, a mount knows of one record more at most.
ContextAgrees ==
  pc = "idle" /\ ctx.mounted /\ Current =>
    LET found == Durable
    IN  /\ Len(found.recs) \in {ctx.count, ctx.count + 1}
        /\ ctx.wp < Cap /\ media[ctx.wp] = Erased =>
             /\ found.ok /\ found.wp = ctx.wp /\ found.next = ctx.next
             /\ Len(found.recs) = ctx.count

\* An iteration, which steps over incomplete records by another length than the
\* mount, delivers no record the mount would not find, and none twice or out
\* of order.
IterationInOrder ==
  pc = "idle" /\ Current =>
    LET found == Durable.recs
    IN  \A mixture \in {NoLen} \cup (IF Spoiled \in Range(media) THEN 0 .. Cap ELSE {}) :
        \E kept \in SUBSET DOMAIN found :
          nvlog_iter_next(media, mixture).recs =
            FoldLeft(LAMBDA s, i : IF i \in kept THEN Append(s, found[i]) ELSE s,
                     <<>>, [i \in DOMAIN found |-> i])

\* Erase-before-write media implement the append-only log: acknowledged records
\* stay until a format erases the superblocks, which it does before anything
\* else, and an interrupted append or format is all or nothing.
AppendLog == INSTANCE NvlogAppendLog WITH
  Payloads <- 1 .. MaxAppends

ImplementsAppendLog == AppendLog!Spec

\* Committed records remain readable after a remount: when a call has returned
\* NVLOG_OK, a mount succeeds and finds every acknowledged record.
CommittedStay ==
  pc = "idle" /\ status = "OK" => Current /\ Durable.ok /\ Len(Durable.recs) >= acked
=============================================================================
