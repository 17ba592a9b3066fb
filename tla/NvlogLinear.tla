---------------------------- MODULE NvlogLinear ----------------------------
(***************************************************************************)
(* Linear mode on byte-writable media, one HAL write per step, with HAL    *)
(* errors and power loss between and inside the writes (src/src/nvlog.c:   *)
(* format_impl, nvlog_mount, the linear branches of nvlog_append and       *)
(* nvlog_iter_next).                                                       *)
(*                                                                         *)
(* The record area has Cap cells, 0 .. Cap-1: cell 0 is the code's offset  *)
(* NVLOG_REGION_HEADER_SIZE, Cap the end of the region.                    *)
(***************************************************************************)
EXTENDS NvlogSuperblock, NvlogRecord

CONSTANTS Cap,         \* the record area, in cells
          Lens,        \* payload lengths the application appends
          ReformatUsed,\* does the application format a region that holds records?
          RetryOther,  \* may an append over the remains of another differ in length?
          TornWrites,  \* does an interrupted write leave a prefix behind?
          MaxAppends,  \* bound: calls of nvlog_append
          MaxFormats,  \* bound: calls of nvlog_format
          MaxFaults    \* bound: HAL errors and interrupted calls

ASSUME LinearAssumption ==
  /\ Cap \in Nat /\ Cap > Overhead /\ Lens \subseteq Nat
  /\ {ReformatUsed, RetryOther, TornWrites} \subseteq BOOLEAN
  /\ {MaxAppends, MaxFormats, MaxFaults} \subseteq Nat

VARIABLES
  media,    \* the record area
  sbA, sbB, \* the two superblock copies: only a format writes them
  ctx,      \* the RAM context
  pc,       \* what the running call does next; "idle" between calls
  todo,     \* the HAL writes left of the record being written
  req,      \* length and payload of the running append
  status,   \* what the last call returned
  acked,    \* ghost: records whose append returned NVLOG_OK or a mount found
  calls     \* ghost: calls and faults so far, for the bounds

vars == <<media, sbA, sbB, ctx, pc, todo, req, status, acked, calls>>
region == <<media, sbA, sbB>>

Sb(gen, mseq) == [ok |-> TRUE, gen |-> gen, mseq |-> mseq]
BadSb == [ok |-> FALSE, gen |-> 0, mseq |-> 0]

Context == [mounted : BOOLEAN, gen : Nat, mseq : Nat, wp : Nat, next : Nat, count : Nat]
Blank == [mounted |-> FALSE, gen |-> 0, mseq |-> 0, wp |-> 0, next |-> 0, count |-> 0]

-----------------------------------------------------------------------------
\* The scan of nvlog_mount from each cursor on: the payloads of the records it
\* passes over, the sequence number after theirs (0 if there are none), and where
\* it stops; ok = FALSE where nvlog_mount gives up with an error.
scan_from(m, gen) ==
  LET from[cursor \in Nat] ==
        LET Stop(ok) == [ok |-> ok, wp |-> cursor, next |-> 0, recs |-> <<>>]
            Pass(r)  ==
              IF r.res = "VALID"
              THEN [from[cursor + rec_alloc_bytes(r.d.len)] EXCEPT
                      !.next = IF @ = 0 THEN r.d.seq + 1 ELSE @, !.recs = <<r.v>> \o @]
              ELSE Stop(r.res \in {"END", "INCOMPLETE"})
        IN  IF Cap < cursor + Overhead THEN Stop(TRUE)
                                       ELSE Pass(verify_record(m, cursor, gen, Cap))
  IN  from

scan(m, gen) == scan_from(m, gen)[0]

Current == load_current_superblock(sbA, sbB)
Durable == scan(media, Current.gen)

\* Mutant: no record that fails to verify is stepped over.
steps_over_never(r, gen, len) == FALSE

\* The walk steps over a record that does not verify if the header is of this
\* generation, torn or not, and the addition takes its payload length.
steps_over(r, gen, len) == r.d # <<>> /\ r.d.gen = gen /\ len # NoLen

\* The walk of nvlog_iter_next from each cursor on: what an iteration delivers
\* until it reports the end (ok = TRUE) or an error.  It knows no write pointer.
iter_from(m, gen) ==
  LET from[cursor \in Nat] ==
        LET Stop(ok) == [ok |-> ok, recs |-> <<>>]
            len      == raw_len(m, cursor)
            Pass(r)  ==
              IF r.res = "VALID"
              THEN [from[cursor + rec_alloc_bytes(r.d.len)] EXCEPT !.recs = <<r.v>> \o @]
              ELSE IF r.res # "END" /\ steps_over(r, gen, len)
              THEN from[cursor + rec_alloc_bytes(len)]
              ELSE Stop(r.res = "END")
        IN  IF Cap < cursor + Overhead THEN Stop(TRUE)
                                       ELSE Pass(verify_record(m, cursor, gen, Cap))
  IN  from

nvlog_iter_next(m, gen) == iter_from(m, gen)[0]

-----------------------------------------------------------------------------
Init ==
  /\ media = [i \in 0 .. Cap - 1 |-> Erased]
  /\ sbA = BadSb /\ sbB = BadSb
  /\ ctx = Blank /\ pc = "idle" /\ todo = <<>>
  /\ req = [len |-> 0, v |-> 0] /\ status = "NONE" /\ acked = 0
  /\ calls = [appends |-> 0, formats |-> 0, faults |-> 0]

Return(s) == pc' = "idle" /\ todo' = <<>> /\ status' = s

\* nvlog_format up to its first write: the record area is not touched.
Format ==
  /\ pc = "idle" /\ calls.formats < MaxFormats
  /\ ReformatUsed \/ \A i \in DOMAIN media : media[i] = Erased
  /\ ctx' = [Blank EXCEPT
               !.gen  = IF Current.ok THEN next_generation_value(Current.gen) ELSE 1,
               !.mseq = IF Current.ok
                        THEN next_session_value(next_session_value(Current.mseq))
                        ELSE next_session_value(0)]
  /\ pc' = "sbA"
  /\ calls' = [calls EXCEPT !.formats = @ + 1]
  /\ UNCHANGED <<region, todo, req, status, acked>>

WriteA ==
  /\ pc = "sbA" /\ sbA' = Sb(ctx.gen, ctx.mseq) /\ pc' = "sbB" /\ acked' = 0
  /\ UNCHANGED <<media, sbB, ctx, todo, req, status, calls>>

WriteB ==
  /\ pc = "sbB" /\ sbB' = Sb(ctx.gen, ctx.mseq)
  /\ ctx' = [ctx EXCEPT !.mounted = TRUE]
  /\ Return("OK")
  /\ UNCHANGED <<media, sbA, req, acked, calls>>

\* The application retries an interrupted append as it was, unless RetryOther.
allowed(len) ==
  \/ RetryOther \/ len = req.len
  \/ \A i \in ctx.wp .. Cap - 1 : media[i] = Erased

\* Mutant: no check for room.
AppendRecordUnchecked(len) ==
  LET v == calls.appends + 1
  IN  /\ pc = "idle" /\ ctx.mounted /\ calls.appends < MaxAppends /\ allowed(len)
      /\ calls' = [calls EXCEPT !.appends = @ + 1]
      /\ req' = [len |-> len, v |-> v]
      /\ pc' = "data"
      /\ todo' = write_record_wire(ctx.wp, Header("DATA", ctx.next, len, ctx.gen), v)
      /\ UNCHANGED <<region, ctx, acked, status>>

\* nvlog_append up to its first write.
AppendRecord(len) ==
  LET total == rec_alloc_bytes(len)
      v     == calls.appends + 1
  IN  /\ pc = "idle" /\ ctx.mounted /\ calls.appends < MaxAppends /\ allowed(len)
      /\ calls' = [calls EXCEPT !.appends = @ + 1]
      /\ req' = [len |-> len, v |-> v]
      /\ \/ ctx.wp + total > Cap /\ Return("FULL")
         \/ /\ ctx.wp + total <= Cap
            /\ pc' = "data" /\ UNCHANGED status
            /\ todo' = write_record_wire(ctx.wp, Header("DATA", ctx.next, len, ctx.gen), v)
      /\ UNCHANGED <<region, ctx, acked>>

\* One HAL write of the record under way.
WriteCells ==
  /\ todo # <<>>
  /\ media' = Put(media, Head(todo), Len(Head(todo).cells))
  /\ todo' = Tail(todo)
  /\ UNCHANGED <<sbA, sbB, ctx, pc, req, status, acked, calls>>

\* Mutant: the next record gets the same sequence number.
DataWrittenSameSeq ==
  /\ pc = "data" /\ todo = <<>>
  /\ ctx' = [ctx EXCEPT !.wp = @ + rec_alloc_bytes(req.len), !.count = @ + 1]
  /\ acked' = acked + 1
  /\ Return("OK")
  /\ UNCHANGED <<region, req, calls>>

\* All writes have succeeded: the context moves past the record.
DataWritten ==
  /\ pc = "data" /\ todo = <<>>
  /\ ctx' = [ctx EXCEPT !.wp = @ + rec_alloc_bytes(req.len), !.next = @ + 1, !.count = @ + 1]
  /\ acked' = acked + 1
  /\ Return("OK")
  /\ UNCHANGED <<region, req, calls>>

\* nvlog_mount: reads only; a failed mount leaves the context alone.
Mount ==
  /\ pc = "idle"
  /\ \/ ~(Current.ok /\ Durable.ok) /\ UNCHANGED <<ctx, acked>> /\ Return("CORRUPT")
     \/ /\ Current.ok /\ Durable.ok
        /\ ctx' = [mounted |-> TRUE, gen |-> Current.gen, mseq |-> next_session_value(Current.mseq),
                   wp |-> Durable.wp, next |-> Durable.next, count |-> Len(Durable.recs)]
        /\ acked' = Len(Durable.recs)
        /\ Return("OK")
  /\ UNCHANGED <<region, req, calls>>

-----------------------------------------------------------------------------
\* The write in progress stops after some of its cells.
Interrupted ==
  \/ /\ todo # <<>>
     /\ \E k \in 0 .. Len(Head(todo).cells) :
          /\ k \in 1 .. Len(Head(todo).cells) - 1 => TornWrites
          /\ media' = Put(media, Head(todo), k)
     /\ UNCHANGED <<sbA, sbB>>
  \/ /\ pc = "sbA" /\ sbA' \in {sbA} \cup (IF TornWrites THEN {BadSb} ELSE {})
     /\ UNCHANGED <<media, sbB>>
  \/ /\ pc = "sbB" /\ sbB' \in {sbB} \cup (IF TornWrites THEN {BadSb} ELSE {})
     /\ UNCHANGED <<media, sbA>>

Fault ==
  /\ calls.faults < MaxFaults /\ calls' = [calls EXCEPT !.faults = @ + 1]
  /\ Interrupted

\* Mutant: the write pointer moves past the failed record.
IoErrorSkips ==
  /\ Fault /\ Return("IO")
  /\ ctx' = IF pc = "data" THEN [ctx EXCEPT !.wp = @ + rec_alloc_bytes(req.len)] ELSE ctx
  /\ UNCHANGED <<req, acked>>

\* The HAL reports the write as failed and the call returns NVLOG_ERR_IO: the
\* context is as it was (format has wiped it already).
IoError == Fault /\ Return("IO") /\ UNCHANGED <<ctx, req, acked>>

\* Power loss in the middle of a call, or between calls.
PowerLoss ==
  /\ \/ Fault
     \/ pc = "idle" /\ ctx.mounted /\ UNCHANGED <<region, calls>>
  /\ ctx' = Blank /\ Return("NONE")
  /\ UNCHANGED <<req, acked>>

Next ==
  \/ Format \/ WriteA \/ WriteB
  \/ \E len \in Lens : AppendRecord(len)
  \/ WriteCells \/ DataWritten
  \/ Mount
  \/ IoError \/ PowerLoss

Spec == Init /\ [][Next]_vars

-----------------------------------------------------------------------------
\* The write pointer never passes the end of the region, and HAL writes are left
\* over only while a record is being written.
TypeOK ==
  /\ DOMAIN media = 0 .. Cap - 1
  /\ ctx \in Context /\ ctx.wp <= Cap
  /\ pc \in {"idle", "data", "sbA", "sbB"}
  /\ todo # <<>> => pc = "data"
  /\ status \in {"NONE", "OK", "FULL", "CORRUPT", "IO"}

\* Wherever a call is interrupted, a formatted region mounts.
AlwaysMounts == Current.ok => Durable.ok

\* The running context and the media agree: a mount would put the write
\* pointer and the next sequence number where the context has them, or past
\* the one record in doubt.
ContextAgrees ==
  pc = "idle" /\ ctx.mounted =>
    \/ Durable.wp = ctx.wp /\ Durable.next = ctx.next /\ Len(Durable.recs) = ctx.count
    \/ /\ status = "IO" /\ Len(Durable.recs) = ctx.count + 1
       /\ Durable.wp = ctx.wp + rec_alloc_bytes(req.len) /\ Durable.next = ctx.next + 1

\* An iteration delivers what a mount would find, and ends without an error,
\* although it follows the media beyond the write pointer.
IterationIsExact ==
  pc = "idle" /\ ctx.mounted =>
    nvlog_iter_next(media, ctx.gen) = [ok |-> TRUE, recs |-> Durable.recs]

\* Linear mode implements the append-only log, HAL errors and power losses
\* included: an append takes effect at its commit marker, at once.
AppendLog == INSTANCE NvlogAppendLog WITH
  Payloads <- 1 .. MaxAppends,
  log      <- IF Current.ok THEN Durable.recs ELSE <<>>

ImplementsAppendLog == AppendLog!Spec
=============================================================================
