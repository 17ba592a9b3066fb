----------------------------- MODULE NvlogRing -----------------------------
(***************************************************************************)
(* Ring mode on byte-writable media, one HAL write per step, with HAL      *)
(* errors and power loss between and inside the writes (src/src/nvlog.c:   *)
(* the ring branch of nvlog_append, ring_validate_window,                  *)
(* ring_retire_tail_to_free, ring_publish_superblocks, nvlog_ring_format,  *)
(* nvlog_ring_mount, and the ring branch of nvlog_iter_next).              *)
(*                                                                         *)
(* The record area has Cap cells, 0 .. Cap-1: cell 0 is the code's offset  *)
(* NVLOG_REGION_HEADER_SIZE, Cap is ring_data_limit_bytes.  The reserve    *)
(* between Cap and the end of the region is never written and reads as     *)
(* erased.                                                                 *)
(***************************************************************************)
EXTENDS NvlogSuperblock, NvlogRecord, FiniteSets, SequencesExt

CONSTANTS Cap,         \* usable bytes of the ring, in cells
          Reserve,     \* the reserve behind them, in cells
          Lens,        \* payload lengths the application appends
          SeqRange,    \* 2^32 of the record sequence numbers
          MaxCalls,    \* bound: calls of nvlog_append and nvlog_ring_format
          MaxFaults,   \* bound: HAL errors and power losses
          MaxFormats,  \* bound: calls of nvlog_ring_format among them
          TornWrites   \* may an interrupted write leave a prefix behind?

ASSUME RingAssumption ==
  /\ Cap \in Nat \ {0} /\ Lens \subseteq Nat /\ TornWrites \in BOOLEAN
  /\ Reserve \in Nat /\ \A len \in Lens : Overhead + len <= Reserve
  /\ SeqRange \in Nat /\ SeqRange > Cap
  /\ {MaxCalls, MaxFaults, MaxFormats} \subseteq Nat

VARIABLES
  media,    \* the record area
  sbA, sbB, \* the two superblock copies
  ctx,      \* the RAM context
  pc,       \* what the running call does next; "idle" between calls
  todo,     \* the HAL writes left of the record being written
  req,      \* the running append: payload length and value, record offset
  status,   \* what the last call returned
  old,      \* ghost: durable and live records when the running call began, whether
            \* it writes outside their windows only, and whether copy B backed them
  log,      \* ghost: the records whose appending began, with their generation
  calls     \* ghost: calls and faults so far, for the bounds

vars == <<media, sbA, sbB, ctx, pc, todo, req, status, old, log, calls>>

RegionSize == Cap + Reserve
NextSeq(s) == (s + 1) % SeqRange

BadSb == [ok |-> FALSE, gen |-> 0, mseq |-> 0]

\* Mutant: the tail stays where format put it.
sb_encode_tail(c) == [ok |-> TRUE, gen |-> c.gen, mseq |-> c.mseq, wp |-> c.wp, tail |-> 0,
                      next |-> c.next, count |-> c.count, free |-> c.free]

\* The superblock image of a context; the fields ring_validate_window derives
\* from them (used_bytes, padding_bytes, ring_full) are left out.
sb_encode(c) == [ok |-> TRUE, gen |-> c.gen, mseq |-> c.mseq, wp |-> c.wp, tail |-> c.tail,
                 next |-> c.next, count |-> c.count, free |-> c.free]

Context == [mounted : BOOLEAN, gen : Nat, mseq : Nat, wp : Nat, tail : Nat,
            next : Nat, count : Nat, free : Nat]

Blank == [mounted |-> FALSE, gen |-> 0, mseq |-> 0, wp |-> 0, tail |-> 0,
          next |-> 0, count |-> 0, free |-> 0]

-----------------------------------------------------------------------------
\* Mutant: off by one.
wrapped_late(cursor) == IF cursor > Cap THEN 0 ELSE cursor

\* A cursor that runs off the data area continues at its start.
wrapped(cursor) == IF cursor >= Cap THEN 0 ELSE cursor

\* Too little room for any record between a cursor and the data limit, and
\* the write pointer already wrapped: those cells are padding.
in_end_gap(wp, cursor) ==
  cursor # 0 /\ cursor < Cap /\ Cap - cursor < Overhead /\ wp < cursor

ring_normalize_tail_cursor(c, cursor) == IF in_end_gap(c.wp, cursor) THEN 0 ELSE cursor

\* Mutant: equal pointers always mean an empty ring.
ring_occupied_empty(c) == IF c.wp >= c.tail THEN c.wp - c.tail ELSE Cap - c.tail + c.wp

ring_occupied(c) ==
  IF c.wp = c.tail THEN IF c.count > 0 THEN Cap ELSE 0
  ELSE IF c.wp > c.tail THEN c.wp - c.tail
  ELSE Cap - c.tail + c.wp

\* What the walk passes over at a cursor where it finds r: padding, a record, or
\* nothing it could pass.
stride(wp, cursor, r) ==
  IF in_end_gap(wp, cursor) THEN Cap - cursor
  ELSE IF r.res # "VALID" THEN 0 ELSE rec_alloc_bytes(r.d.len)

Entry(r) == [seq |-> r.d.seq, v |-> r.v]

\* The DATA record there, if that is what it is.
held(wp, cursor, r) ==
  IF ~in_end_gap(wp, cursor) /\ r.d.type = "DATA" THEN <<Entry(r)>> ELSE <<>>

\* Mutant: any order will do.
in_sequence_any(first, recs) == TRUE

\* A DATA record is followed by the next in the numbering.
in_sequence(first, recs) ==
  first = <<>> \/ recs = <<>> \/ Head(recs).seq = NextSeq(Head(first).seq)

Failed == [ok |-> FALSE, recs |-> <<>>]
Passed(recs) == [ok |-> TRUE, recs |-> recs]

\* The walk of ring_validate_window from every cursor, with so many cells still
\* occupied: the DATA records it meets, oldest first, or ok = FALSE where the
\* code gives up.
walk_from(m, gen, wp) ==
  LET from[at \in Nat \X Nat] ==
        LET cursor   == at[1]
            occupied == at[2]
            r        == verify_record(m, cursor, gen, RegionSize)
            step     == stride(wp, cursor, r)
            first    == held(wp, cursor, r)
            rest     == from[<<wrapped(cursor + step), occupied - step>>]
        IN  IF occupied = 0 THEN IF cursor = wp THEN Passed(<<>>) ELSE Failed
            ELSE IF step \notin 1 .. occupied \/ ~rest.ok \/ ~in_sequence(first, rest.recs)
                 THEN Failed ELSE Passed(first \o rest.recs)
  IN  from

ring_walk(m, c) ==
  IF c.tail >= Cap \/ c.wp >= Cap THEN Failed
  ELSE walk_from(m, c.gen, c.wp)[<<c.tail, ring_occupied(c)>>]

\* What ring_validate_window makes of a walk: whether the window holds, its
\* records, and the context with the counters recomputed (on failure, as it
\* was).
walked(c, w) ==
  [ok   |-> w.ok,
   recs |-> w.recs,
   c    |-> IF ~w.ok THEN c
            ELSE [c EXCEPT !.count = Len(w.recs), !.free = Cap - ring_occupied(c),
                           !.next = IF w.recs = <<>> THEN @ ELSE NextSeq(Last(w.recs).seq)]]

ring_validate_window(m, c) == walked(c, ring_walk(m, c))

\* The context without the record d at its tail.
dropped(c, tail, d) ==
  [c EXCEPT !.tail  = ring_normalize_tail_cursor(c, wrapped(tail + rec_alloc_bytes(d.len))),
            !.count = IF d.type = "DATA" THEN @ - 1 ELSE @]

\* ring_retire_tail_to_free from every context: drop records at the tail until
\* required cells are free, validating the window after each.
retire_from(m, required) ==
  LET retire[c \in Context] ==
        LET tail == ring_normalize_tail_cursor(c, c.tail)
            r    == verify_record(m, tail, c.gen, RegionSize)
            w    == ring_validate_window(m, dropped(c, tail, r.d))
        IN  IF c.free >= required \/ c.count = 0 THEN ring_validate_window(m, c)
            ELSE IF r.res # "VALID" THEN walked([c EXCEPT !.tail = tail], Failed)
            ELSE IF w.ok THEN retire[w.c] ELSE w
  IN  retire

ring_retire_tail_to_free(m, c, required) == retire_from(m, required)[c]

\* Validate the window and, if a record does not fit, retire the tail.
make_room(m, c, total) ==
  LET w == ring_validate_window(m, c)
  IN  IF w.ok /\ w.c.free < total THEN ring_retire_tail_to_free(m, w.c, total) ELSE w

-----------------------------------------------------------------------------
\* The records a region holds for whoever mounts it, and those of a context.
Recover(m, s) == IF s.ok THEN ring_walk(m, s) ELSE Failed

Durable == Recover(media, load_current_superblock(sbA, sbB))
Live    == ring_walk(media, ctx)

Init ==
  /\ media = [i \in 0 .. Cap - 1 |-> Erased]
  /\ sbA = BadSb /\ sbB = BadSb
  /\ ctx = Blank /\ pc = "idle" /\ todo = <<>>
  /\ req = [op |-> "none", len |-> 0, v |-> 0, base |-> 0]
  /\ status = "NONE"
  /\ old = [durable |-> <<>>, live |-> <<>>, next |-> 0, apart |-> FALSE, backed |-> TRUE]
  /\ log = {}
  /\ calls = [appends |-> 0, faults |-> 0, formats |-> 0]

\* The record the running append adds.
Candidate == [seq |-> old.next, v |-> req.v]

Return(s) == pc' = "idle" /\ todo' = <<>> /\ status' = s

\* The cells of a superblock's window.
window(s) == {(s.tail + i) % Cap : i \in 0 .. ring_occupied(s) - 1}

\* Whatever a call that writes to the cells touched starts from is what its
\* effect is judged against.  Copy B backs it if a mount trusts B, as it does
\* after a call that published both copies.
Begin(touched) ==
  /\ pc = "idle"
  /\ old' = [durable |-> Durable.recs, live |-> IF ctx.mounted THEN Live.recs ELSE <<>>,
             next |-> ctx.next,
             apart |-> /\ Durable.ok
                       /\ touched \cap window(load_current_superblock(sbA, sbB)) = {}
                       /\ touched \cap window(ctx) = {},
             backed |-> \/ sbB = load_current_superblock(sbA, sbB)
                        \/ status = "OK" /\ req.op # "mount"]

-----------------------------------------------------------------------------
\* nvlog_ring_format up to its first write (format_impl).
Format ==
  LET current == load_current_superblock(sbA, sbB)
  IN  /\ calls.formats < MaxFormats /\ calls.appends + calls.formats < MaxCalls
      /\ Begin({})
      /\ ctx' = [Blank EXCEPT
                   !.gen  = IF current.ok THEN next_generation_value(current.gen) ELSE 1,
                   !.mseq = IF current.ok
                            THEN next_session_value(next_session_value(current.mseq))
                            ELSE next_session_value(0),
                   !.free = Cap]
      /\ pc' = "sbA" /\ todo' = <<>>
      /\ req' = [op |-> "format", len |-> 0, v |-> 0, base |-> 0]
      /\ calls' = [calls EXCEPT !.formats = @ + 1]
      /\ UNCHANGED <<media, sbA, sbB, status, log>>

\* The append takes the context as make_room left it and, if there is room,
\* starts writing the record at base.
StartWriting(r, len, v, base) ==
  LET total == rec_alloc_bytes(len)
  IN  /\ req' = [op |-> "append", len |-> len, v |-> v, base |-> base]
      /\ ctx' = r.c
      /\ \/ ~r.ok /\ Return("CORRUPT")
         \/ r.ok /\ Cap - base < total /\ Return("FULL")
         \/ /\ r.ok /\ Cap - base >= total
            /\ pc' = "data" /\ UNCHANGED status
            /\ todo' = write_record_wire(base, Header("DATA", r.c.next, len, r.c.gen), v)
      /\ UNCHANGED <<media, sbA, sbB>>

\* The middle of nvlog_append's ring branch: validate the window, retire the
\* tail if the record does not fit, and start writing the record at base.
Place(c, len, v, base) ==
  StartWriting(make_room(media, c, rec_alloc_bytes(len)), len, v, base)

\* nvlog_append up to its first write.  A record that does not fit before the
\* data limit goes to the start of the area; the room it leaves behind is
\* padding or, where a record fits, a WRAP record written first.
AppendRecord(len) ==
  LET gap == Cap - ctx.wp
      fits == gap >= rec_alloc_bytes(len)
      v   == calls.appends + 1
  IN  /\ ctx.mounted /\ calls.appends + calls.formats < MaxCalls
      /\ Begin(IF fits THEN ctx.wp .. ctx.wp + rec_alloc_bytes(len) - 1
                       ELSE 0 .. rec_alloc_bytes(len) - 1 \cup ctx.wp .. Cap - 1)
      /\ calls' = [calls EXCEPT !.appends = @ + 1]
      /\ log' = log \cup {[gen |-> ctx.gen, seq |-> ctx.next, v |-> v]}
      /\ \/ fits /\ Place(ctx, len, v, ctx.wp)
         \/ /\ ~fits /\ gap < Overhead
            /\ Place([ctx EXCEPT !.wp = 0], len, v, 0)
         \/ /\ ~fits /\ gap >= Overhead
            /\ pc' = "wrap"
            /\ todo' = write_record_wire(ctx.wp,
                         Header("WRAP", ctx.next, gap - Overhead, ctx.gen), Zeros)
            /\ req' = [op |-> "append", len |-> len, v |-> v, base |-> 0]
            /\ UNCHANGED <<media, sbA, sbB, ctx, status>>

\* One HAL write of the record under way.
WriteCells ==
  /\ todo # <<>>
  /\ media' = Put(media, Head(todo), Len(Head(todo).cells))
  /\ todo' = Tail(todo)
  /\ UNCHANGED <<sbA, sbB, ctx, pc, req, status, old, log, calls>>

WrapWritten ==
  /\ pc = "wrap" /\ todo = <<>>
  /\ Place([ctx EXCEPT !.wp = 0], req.len, req.v, 0)
  /\ UNCHANGED <<old, log, calls>>

\* Mutant: publishes only when the tail has moved.
DataWrittenLazy ==
  LET c == [ctx EXCEPT !.wp = wrapped(req.base + rec_alloc_bytes(req.len)),
                       !.count = @ + 1, !.next = NextSeq(@), !.mseq = next_session_value(@)]
      w == ring_validate_window(media, c)
  IN  /\ pc = "data" /\ todo = <<>>
      /\ ctx' = w.c
      /\ \/ w.ok /\ c.tail # sbA.tail /\ pc' = "sbA" /\ UNCHANGED <<todo, status>>
         \/ w.ok /\ c.tail = sbA.tail /\ Return("OK")
         \/ ~w.ok /\ Return("CORRUPT")
      /\ UNCHANGED <<media, sbA, sbB, req, old, log, calls>>

\* The record is on the media: the context moves past it, and the window is
\* validated once more before it is published.
DataWritten ==
  LET c == [ctx EXCEPT !.wp = wrapped(req.base + rec_alloc_bytes(req.len)),
                       !.count = @ + 1, !.next = NextSeq(@), !.mseq = next_session_value(@)]
      w == ring_validate_window(media, c)
  IN  /\ pc = "data" /\ todo = <<>>
      /\ ctx' = w.c
      /\ \/ w.ok /\ pc' = "sbA" /\ UNCHANGED <<todo, status>>
         \/ ~w.ok /\ Return("CORRUPT")
      /\ UNCHANGED <<media, sbA, sbB, req, old, log, calls>>

\* ring_publish_superblocks
PublishA ==
  /\ pc = "sbA" /\ sbA' = sb_encode(ctx) /\ pc' = "sbB"
  /\ UNCHANGED <<media, sbB, ctx, todo, req, status, old, log, calls>>

\* Mutant: the second copy is not written.
PublishAOnly ==
  /\ pc = "sbB"
  /\ ctx' = [ctx EXCEPT !.mounted = TRUE]
  /\ Return("OK")
  /\ UNCHANGED <<media, sbA, sbB, req, old, log, calls>>

PublishB ==
  /\ pc = "sbB" /\ sbB' = sb_encode(ctx)
  /\ ctx' = [ctx EXCEPT !.mounted = TRUE]
  /\ Return("OK")
  /\ UNCHANGED <<media, sbA, req, old, log, calls>>

\* nvlog_ring_mount: reads only; a failed mount leaves the context alone.
Mount ==
  LET s == load_current_superblock(sbA, sbB)
      c == [mounted |-> TRUE, gen |-> s.gen, mseq |-> next_session_value(s.mseq), wp |-> s.wp,
            tail |-> s.tail, next |-> s.next, count |-> s.count, free |-> s.free]
      w == ring_validate_window(media, c)
  IN  /\ Begin({})
      /\ \/ ~s.ok /\ UNCHANGED ctx /\ Return("CORRUPT")
         \/ s.ok /\ ~w.ok /\ UNCHANGED ctx /\ Return("CORRUPT")
         \/ s.ok /\ w.ok /\ ctx' = w.c /\ Return("OK")
      /\ req' = [op |-> "mount", len |-> 0, v |-> 0, base |-> 0]
      /\ UNCHANGED <<media, sbA, sbB, log, calls>>

-----------------------------------------------------------------------------
\* What an interrupted write can leave of a superblock copy.
Torn(sb) == {sb} \cup (IF TornWrites THEN {BadSb} ELSE {})

\* The write in progress stops after some of its cells.
Interrupted ==
  \/ /\ todo # <<>>
     /\ \E k \in 0 .. Len(Head(todo).cells) :
          /\ k \in 1 .. Len(Head(todo).cells) - 1 => TornWrites
          /\ media' = Put(media, Head(todo), k)
     /\ UNCHANGED <<sbA, sbB>>
  \/ /\ pc = "sbA" /\ sbA' \in Torn(sbA)
     /\ UNCHANGED <<media, sbB>>
  \/ /\ pc = "sbB" /\ sbB' \in Torn(sbB)
     /\ UNCHANGED <<media, sbA>>

\* The HAL reports the write as failed and nvlog_append returns NVLOG_ERR_IO:
\* the context keeps whatever the call had already changed in it.
IoError ==
  /\ calls.faults < MaxFaults
  /\ Interrupted /\ Return("IO")
  /\ calls' = [calls EXCEPT !.faults = @ + 1]
  /\ UNCHANGED <<ctx, req, old, log>>

\* Power loss in the middle of a call, or between calls.
PowerLoss ==
  /\ ctx' = Blank /\ Return("NONE")
  /\ \/ /\ calls.faults < MaxFaults /\ calls' = [calls EXCEPT !.faults = @ + 1]
        /\ Interrupted
     \/ pc = "idle" /\ ctx.mounted /\ UNCHANGED <<media, sbA, sbB, calls>>
  /\ UNCHANGED <<req, old, log>>

Next ==
  \/ Format
  \/ \E len \in Lens : AppendRecord(len)
  \/ WriteCells \/ WrapWritten \/ DataWritten
  \/ PublishA \/ PublishB
  \/ Mount
  \/ IoError \/ PowerLoss

Spec == Init /\ [][Next]_vars

-----------------------------------------------------------------------------
\* Mutant: a WRAP record is skipped before the cursor has moved past it.
iter_from_stays(m, c) ==
  LET from[at \in Nat \X Nat \X Nat] ==
        LET r    == verify_record(m, at[1], c.gen, RegionSize)
            next == wrapped(at[1] + rec_alloc_bytes(r.d.len))
        IN  IF at[2] = 0 THEN [recs |-> <<>>, ends |-> TRUE]
            ELSE IF at[3] > Cap THEN [recs |-> <<>>, ends |-> FALSE]
            ELSE IF r.res # "VALID" THEN [recs |-> <<>>, ends |-> TRUE]
            ELSE IF r.d.type = "WRAP" THEN from[<<at[1], at[2], at[3] + 1>>]
            ELSE [from[<<next, at[2] - 1, 0>>] EXCEPT !.recs = <<Entry(r)>> \o @]
  IN  from

\* The walk of nvlog_iter_next from every cursor, with so many records left to
\* deliver and so many WRAP records and gaps skipped in a row: what it delivers,
\* oldest first, and whether its loop ends: it does not if it has skipped more of
\* them than there are cells.  Its end-of-area test compares with the end of the
\* region, reserve included.
iter_from(m, c) ==
  LET from[at \in Nat \X Nat \X Nat] ==
        LET cursor  == at[1]
            left    == at[2]
            skipped == at[3]
            r       == verify_record(m, cursor, c.gen, RegionSize)
            next    == wrapped(cursor + rec_alloc_bytes(r.d.len))
        IN  IF left = 0 THEN [recs |-> <<>>, ends |-> TRUE]
            ELSE IF skipped > Cap THEN [recs |-> <<>>, ends |-> FALSE]
            ELSE IF cursor # 0 /\ RegionSize - cursor < Overhead /\ c.wp < cursor
                 THEN from[<<0, left, skipped + 1>>]
            ELSE IF r.res # "VALID" THEN [recs |-> <<>>, ends |-> TRUE]
            ELSE IF r.d.type = "WRAP" THEN from[<<next, left, skipped + 1>>]
            ELSE [from[<<next, left - 1, 0>>] EXCEPT !.recs = <<Entry(r)>> \o @]
  IN  from

\* The records nvlog_iter_next delivers after nvlog_iter_init.
nvlog_iter_next(m, c) == iter_from(m, c)[<<c.tail, c.count, 0>>]

-----------------------------------------------------------------------------
\* The context's pointers stay inside the data area and its record count within
\* what the area can hold, whatever the call, the fault or the mount.
TypeOK ==
  /\ DOMAIN media = 0 .. Cap - 1
  /\ ctx \in Context /\ ctx.wp < Cap /\ ctx.tail < Cap /\ ctx.count * Overhead <= Cap
  /\ pc \in {"idle", "wrap", "data", "sbA", "sbB"}
  /\ todo # <<>> => pc \in {"wrap", "data"}
  /\ status \in {"NONE", "OK", "FULL", "CORRUPT", "IO"}

\* A call that returned NVLOG_OK left the media so that a mount finds exactly
\* the records the context holds, the one just appended being the newest.
AckedIsDurable ==
  pc = "idle" /\ status = "OK" =>
    /\ Live.ok /\ Durable = Live
    /\ req.op = "append" => Last(Live.recs) = Candidate

\* Wherever the power goes and whatever it tears, a mount that succeeds finds
\* whole records with the payloads they were appended with, all appended in the
\* generation of the superblock it trusts: never one with another's payload, half
\* written, or left by a log with another generation number.  That generation is
\* copy A's while copy A is readable, so an older log never comes back over it.
NoInvention ==
  LET current == load_current_superblock(sbA, sbB)
  IN  Durable.ok =>
        /\ sbA.ok => current.gen = sbA.gen
        /\ \A e \in ToSet(Durable.recs) :
             [gen |-> current.gen, seq |-> e.seq, v |-> e.v] \in log

\* And it finds them in the order of their appending.
InAppendOrder ==
  LET found == Durable.recs
  IN  Durable.ok => \A i \in 1 .. Len(found) - 1 : found[i].v < found[i + 1].v

\* A call that writes outside the live and durable windows is old-or-new: stopped
\* anywhere, by an error or a power loss, it leaves a region that mounts, with
\* the records it held before or with those of the context plus the new one
\* (none, for a format).  The exception is a call that tears copy A over a copy B
\* which an unfinished publication had already left stale or torn: that takes the
\* only image of the newest state, and an older log comes back, or none.
OldOrNew ==
  old.apart /\ (old.backed \/ sbA.ok) =>
    /\ Durable.ok
    /\ \/ Durable.recs = old.durable
       \/ req.op = "append" /\ Durable.recs = Append(old.live, Candidate)
       \/ req.op = "format" /\ Durable.recs = <<>>

\* Without HAL errors and interrupted calls a formatted ring is never found
\* corrupt, by an append or by a mount.
HealthyRing == calls.faults = 0 /\ pc = "idle" /\ sbA.ok => status # "CORRUPT"

\* Old-or-new: whatever a power loss interrupts, the region still mounts.
StillMounts == old.durable # <<>> => Durable.ok

\* An append discards the oldest records, and no more of them than the new one
\* needs: where all records have one size, one more would not have fitted.
KeepsNewest ==
  pc = "idle" /\ status = "OK" /\ req.op = "append" =>
    LET all == Append(old.live, Candidate)
    IN  \/ Live.recs = all
        \/ /\ IsSuffix(Live.recs, all)
           /\ (Len(Live.recs) + 1) * rec_alloc_bytes(req.len) > Cap

\* While the context agrees with the media, an iteration ends, and delivers the
\* live records in their order and nothing else, no WRAP record and nothing of
\* what interrupted appends left, even if it stops short at the padding in front
\* of the data limit.
IterationInOrder ==
  pc = "idle" /\ ctx.mounted /\ Live.ok /\ ctx.count = Len(Live.recs) =>
    LET iteration == nvlog_iter_next(media, ctx)
    IN  iteration.ends /\ IsPrefix(iteration.recs, Live.recs)

\* An iteration delivers every live record, the newest one included.
IterationIsComplete ==
  pc = "idle" /\ status = "OK" => nvlog_iter_next(media, ctx).recs = Live.recs

\* Every call of nvlog_iter_next returns, whatever failed before it.
IterationEnds ==
  pc = "idle" /\ ctx.mounted => nvlog_iter_next(media, ctx).ends

=============================================================================
