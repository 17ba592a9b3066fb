--------------------------- MODULE NvlogSnapshot ---------------------------
(***************************************************************************)
(* Which iterators and record descriptors a context still accepts: the     *)
(* generation, session and mutation counters that format, mount and append *)
(* set, and the comparison of nvlog_iter_next and nvlog_read_payload       *)
(* (src/src/nvlog.c).                                                      *)
(*                                                                         *)
(* One region, one context and one snapshot taken of it.  The log itself   *)
(* is left to the other modules: a call matters here by what it does to    *)
(* the counters and by how far it gets.  An iterator and a descriptor carry*)
(* the same three numbers; what a descriptor says of its record besides,   *)
(* nvlog_read_payload compares with the record found at its offset.        *)
(* A superblock write takes effect or does not (torn ones: NvlogPublish).  *)
(***************************************************************************)
EXTENDS NvlogSuperblock

CONSTANTS Kinds,    \* of regions: "linear", "ring", "flash"
          MaxCalls  \* bound: calls that change the context or the region

ASSUME SnapshotAssumption ==
  Kinds \subseteq {"linear", "ring", "flash"} /\ MaxCalls \in Nat /\ MaxCalls < U32 - 1

VARIABLES
  kind,   \* mode and medium of the region: never changes
  sb,     \* the superblock a mount would load
  ctx,    \* the RAM context
  snap,   \* what an iterator or descriptor remembers; NoSnap before there is one
  since,  \* ghost: what has happened since the snapshot was taken
  calls   \* ghost: calls so far, for the bound

vars == <<kind, sb, ctx, snap, since, calls>>

BadSb  == [ok |-> FALSE, gen |-> 0, mseq |-> 0]
Blank  == [mounted |-> FALSE, gen |-> 0, mseq |-> 0, session |-> 0, mutation |-> 0]
NoSnap == [taken |-> FALSE, gen |-> 0, session |-> 0, mutation |-> 0]

\* An append, a mount or a format of the context; the context cleared, or a format
\* of it failed; a format that reached the region.
Nothing == [used |-> FALSE, cleared |-> FALSE, formatted |-> FALSE]

Init ==
  /\ kind \in Kinds
  /\ sb \in {BadSb} \cup [ok : {TRUE}, gen : Counter, mseq : Counter]
  /\ ctx = Blank /\ snap = NoSnap /\ since = Nothing /\ calls = 0

Call == calls < MaxCalls /\ calls' = calls + 1 /\ UNCHANGED kind

-----------------------------------------------------------------------------
nvlog_ctx_init ==
  /\ Call /\ ctx' = Blank /\ since' = [since EXCEPT !.cleared = TRUE]
  /\ UNCHANGED <<sb, snap>>

\* Mutant: the generation is that of the region found.
formatted_same_gen(current) ==
  LET mseq == next_session_value(IF current.ok THEN next_session_value(current.mseq) ELSE 0)
      gen  == IF current.ok THEN current.gen ELSE 1
  IN  [Blank EXCEPT !.gen = gen, !.mseq = mseq, !.session = mseq, !.mutation = mseq]

\* The context format_impl makes, before its first write.
formatted(current) ==
  LET mseq == next_session_value(IF current.ok THEN next_session_value(current.mseq) ELSE 0)
      gen  == IF current.ok THEN next_generation_value(current.gen) ELSE 1
  IN  [Blank EXCEPT !.gen = gen, !.mseq = mseq, !.session = mseq, !.mutation = mseq]

written(c) == [ok |-> TRUE, gen |-> c.gen, mseq |-> c.mseq]

\* A format that returns NVLOG_OK.  Flash has lost its superblocks by then.
Format ==
  LET c == formatted(IF kind = "flash" THEN BadSb ELSE sb)
  IN  /\ Call
      /\ ctx' = [c EXCEPT !.mounted = TRUE] /\ sb' = written(c)
      /\ since' = [since EXCEPT !.used = TRUE, !.formatted = TRUE]
      /\ UNCHANGED snap

\* A format that returns NVLOG_ERR_IO from an erase, with the context as it was
\* and the superblocks erased or not, or from a write of a superblock.
FormatFails ==
  LET c == formatted(IF kind = "flash" THEN BadSb ELSE sb)
  IN  /\ Call
      /\ \/ kind = "flash" /\ sb' \in {sb, BadSb} /\ UNCHANGED ctx
         \/ ctx' = c /\ sb' \in {IF kind = "flash" THEN BadSb ELSE sb, written(c)}
      /\ since' = [since EXCEPT !.used = TRUE, !.cleared = TRUE,
                                !.formatted = @ \/ sb' # sb]
      /\ UNCHANGED snap

\* Mutant: a mount starts the mutation counter again.
mutation_after_mount_reset == 1

\* What a mount makes of the mutation counter.
mutation_after_mount == IF ctx.mounted THEN next_session_value(ctx.mutation) ELSE 1

\* nvlog_mount and nvlog_ring_mount, where they succeed.
Mount ==
  /\ Call /\ sb.ok
  /\ LET session == next_session_value(sb.mseq)
     IN  ctx' = [mounted |-> TRUE, gen |-> sb.gen, mseq |-> session, session |-> session,
                 mutation |-> mutation_after_mount]
  /\ since' = [since EXCEPT !.used = TRUE]
  /\ UNCHANGED <<sb, snap>>

\* The counters after an append has written its record.
appended(c) ==
  [c EXCEPT !.mutation = (@ + 1) % U32,
            !.mseq = IF kind = "ring" THEN next_session_value(@) ELSE @]

\* nvlog_append, once its record is written; in ring mode the superblocks follow,
\* or the first write of them fails.
AppendRecord ==
  /\ Call /\ ctx.mounted
  /\ ctx' = appended(ctx)
  /\ \/ kind = "ring" /\ sb.ok /\ sb' = written(ctx')
     \/ UNCHANGED sb
  /\ since' = [since EXCEPT !.used = TRUE]
  /\ UNCHANGED snap

\* nvlog_iter_init, and the descriptors its iterator hands out.
nvlog_iter_init ==
  /\ ctx.mounted
  /\ snap' = [taken |-> TRUE, gen |-> ctx.gen, session |-> ctx.session,
              mutation |-> ctx.mutation]
  /\ since' = Nothing
  /\ UNCHANGED <<kind, sb, ctx, calls>>

Next ==
  \/ nvlog_ctx_init \/ Format \/ FormatFails \/ Mount \/ AppendRecord \/ nvlog_iter_init

Spec == Init /\ [][Next]_vars

-----------------------------------------------------------------------------
\* nvlog_iter_next and nvlog_read_payload do not return NVLOG_ERR_STALE.
accepts ==
  /\ snap.taken /\ ctx.mounted
  /\ snap.mutation = ctx.mutation /\ snap.session = ctx.session /\ snap.gen = ctx.gen

\* The counters keep their width, and only the mutation counter can be zero in a
\* mounted context.
TypeOK ==
  /\ kind \in Kinds /\ (sb.ok => {sb.gen, sb.mseq} \subseteq Counter)
  /\ ctx.mounted =>
       {ctx.gen, ctx.mseq, ctx.session} \subseteq Counter /\ ctx.mutation \in 0 .. U32 - 1

\* A context that is neither cleared nor left by a failed format rejects every
\* snapshot taken before the last append, mount or format, wherever the
\* counters wrap.
StaleRejected == accepts /\ ~since.cleared => ~since.used

\* On byte-writable media no context, however it came about, accepts a snapshot
\* from before a format of the region.
NeverAcrossFormat == accepts => ~since.formatted
=============================================================================
