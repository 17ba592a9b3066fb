----------------------- MODULE NvlogSnapshot_proofs -----------------------
(***************************************************************************)
(* On byte-writable media no iterator or descriptor outlives a format, and *)
(* none outlives an append or a mount of its context, for every counter    *)
(* width and every number of calls below it.                               *)
(*                                                                         *)
(* The argument: a format moves the generation of the region by one, and   *)
(* an append or a mount moves the mutation counter by one, or by two where *)
(* it skips zero; neither comes round to the snapshot again in so few      *)
(* calls.  Flash is left out: an erase takes the generation away.          *)
(***************************************************************************)
EXTENDS NvlogSnapshot, TLAPS

Word == 0 .. U32 - 1

\* The types of all variables; TypeOK keeps what is said of a mounted context.
Types ==
  /\ kind \in Kinds /\ calls \in 0 .. MaxCalls
  /\ sb \in [ok : BOOLEAN, gen : Word, mseq : Word]
  /\ ctx \in [mounted : BOOLEAN, gen : Word, mseq : Word, session : Word, mutation : Word]
  /\ snap \in [taken : BOOLEAN, gen : Word, session : Word, mutation : Word]
  /\ since \in [used : BOOLEAN, cleared : BOOLEAN, formatted : BOOLEAN]

\* How many formats lie between two generations: the counter skips zero.
formats(from, to) == IF to >= from THEN to - from ELSE to - from + U32 - 1

\* A mounted context is of the generation that is on the media.
MountedIsCurrent == ctx.mounted => sb.ok /\ ctx.gen = sb.gen

\* The region has moved on from the snapshot by no more formats than there were
\* calls, and by one at least if there was a format.
GenerationMoved ==
  snap.taken =>
    /\ sb.ok /\ snap.gen \in Counter
    /\ formats(snap.gen, sb.gen) <= calls
    /\ since.formatted => formats(snap.gen, sb.gen) >= 1

\* A mutation counter has moved on by at most n; past its wrap it may be one
\* further.
moved(from, to, n, used) ==
  \/ to >= from /\ to - from <= n /\ (used => to > from)
  \/ to < from /\ to + U32 - from <= n + 1

\* So has that of a context that was neither cleared nor formatted.
MutationMoved ==
  snap.taken /\ ~since.cleared /\ ~since.formatted =>
    /\ ctx.mounted
    /\ moved(snap.mutation, ctx.mutation, calls, since.used)

IInv ==
  /\ TypeOK /\ Types
  /\ kind # "flash" => MountedIsCurrent /\ GenerationMoved /\ MutationMoved

-----------------------------------------------------------------------------
LEMMA Bounds == U32 \in Nat /\ U32 >= 4 /\ MaxCalls \in Nat /\ MaxCalls < U32 - 1
  BY U32Assumption, SnapshotAssumption

\* One format moves the generation by one.
LEMMA NextGeneration ==
  ASSUME NEW a \in Counter, NEW b \in Counter, formats(a, b) + 1 < U32 - 1
  PROVE  /\ next_generation_value(b) \in Counter
         /\ formats(a, next_generation_value(b)) = formats(a, b) + 1
  BY Bounds DEF Counter, formats, next_generation_value

\* The successors are counters.
LEMMA Successors ==
  /\ \A a \in Counter : next_generation_value(a) \in Counter
  /\ \A a \in Word : next_session_value(a) \in Counter
  BY Bounds DEF Counter, Word, next_generation_value, next_session_value

\* The context a format writes, for a region with or without superblocks.
LEMMA FormattedContext ==
  ASSUME NEW s \in [ok : BOOLEAN, gen : Word, mseq : Word],
         s.ok => s.gen \in Counter /\ s.mseq \in Counter
  PROVE  /\ formatted(s) \in
              [mounted : {FALSE}, gen : Counter, mseq : Counter, session : Counter, mutation : Counter]
         /\ s.ok => formatted(s).gen = next_generation_value(s.gen)
<1> DEFINE mseq == next_session_value(IF s.ok THEN next_session_value(s.mseq) ELSE 0)
           gen  == IF s.ok THEN next_generation_value(s.gen) ELSE 1
<1>1. mseq \in Counter
  BY Successors, Bounds DEF Counter, Word
<1>2. gen \in Counter
  BY Successors, Bounds DEF Counter
<1>3. s.ok => gen = next_generation_value(s.gen)
  OBVIOUS
<1>4. formatted(s) = [Blank EXCEPT !.gen = gen, !.mseq = mseq, !.session = mseq, !.mutation = mseq]
  BY DEF formatted
<1> HIDE DEF mseq, gen
<1>5. formatted(s) = [mounted |-> FALSE, gen |-> gen, mseq |-> mseq, session |-> mseq,
                      mutation |-> mseq]
  BY <1>4 DEF Blank
<1>. QED  BY <1>1, <1>2, <1>3, <1>5

\* An append or a mount moves the mutation counter, and not back to where the
\* snapshot was taken.
LEMMA NextMutation ==
  ASSUME NEW a \in Word, NEW b \in Word, NEW n \in Nat, n < MaxCalls, NEW u, moved(a, b, n, u)
  PROVE  /\ (b + 1) % U32 \in Word /\ moved(a, (b + 1) % U32, n + 1, TRUE)
         /\ next_session_value(b) \in Word /\ moved(a, next_session_value(b), n + 1, TRUE)
<1>1. (b + 1) % U32 = IF b = U32 - 1 THEN 0 ELSE b + 1
  BY Bounds DEF Word
<1>2. (b + 1) % U32 \in Word /\ moved(a, (b + 1) % U32, n + 1, TRUE)
  BY <1>1, Bounds DEF Word, moved
<1>3. next_session_value(b) \in Word /\ moved(a, next_session_value(b), n + 1, TRUE)
  BY Bounds DEF Word, moved, next_session_value
<1>. QED  BY <1>2, <1>3

-----------------------------------------------------------------------------
\* A region and a context without history satisfy the invariant.
LEMMA InitInv == ASSUME Init PROVE IInv
<1>0. sb = BadSb \/ sb \in [ok : {TRUE}, gen : Counter, mseq : Counter]
  BY Zenon DEF Init
<1>1. TypeOK
  <2>1. sb.ok => sb.gen \in Counter /\ sb.mseq \in Counter
    <3>1. CASE sb = BadSb
      BY <3>1 DEF BadSb
    <3>2. CASE sb \in [ok : {TRUE}, gen : Counter, mseq : Counter]
      BY <3>2
    <3>. QED  BY <1>0, <3>1, <3>2
  <2>2. kind \in Kinds /\ ~ctx.mounted
    BY DEF Init, Blank
  <2>. QED  BY <2>1, <2>2 DEF TypeOK
<1>2. Types
  <2>1. kind \in Kinds /\ calls \in 0 .. MaxCalls
    BY Bounds DEF Init
  <2>2. sb \in [ok : BOOLEAN, gen : Word, mseq : Word]
    <3>1. Counter \subseteq Word /\ 0 \in Word
      BY Bounds DEF Counter, Word
    <3>2. BadSb \in [ok : BOOLEAN, gen : Word, mseq : Word]
      BY <3>1 DEF BadSb
    <3>. QED  BY <1>0, <3>1, <3>2
  <2>3. ctx \in [mounted : BOOLEAN, gen : Word, mseq : Word, session : Word, mutation : Word]
    BY Bounds DEF Init, Blank, Word
  <2>4. snap \in [taken : BOOLEAN, gen : Word, session : Word, mutation : Word]
    BY Bounds DEF Init, NoSnap, Word
  <2>5. since \in [used : BOOLEAN, cleared : BOOLEAN, formatted : BOOLEAN]
    BY DEF Init, Nothing
  <2>. QED  BY <2>1, <2>2, <2>3, <2>4, <2>5 DEF Types
<1>3. MountedIsCurrent /\ GenerationMoved /\ MutationMoved
  BY DEF Init, Blank, NoSnap, MountedIsCurrent, GenerationMoved, MutationMoved
<1>. QED  BY <1>1, <1>2, <1>3 DEF IInv

LEMMA ClearInv == ASSUME IInv, nvlog_ctx_init PROVE IInv'
<1>1. calls' = calls + 1 /\ calls' \in 0 .. MaxCalls /\ kind' = kind
  BY Bounds DEF IInv, Types, nvlog_ctx_init, Call
<1>2. ctx' = Blank /\ since' = [since EXCEPT !.cleared = TRUE] /\ UNCHANGED <<sb, snap>>
  BY DEF nvlog_ctx_init
<1>3. TypeOK' /\ Types'
  <2>1. TypeOK'
    BY <1>1, <1>2 DEF IInv, TypeOK, Blank
  <2>2. ctx' \in [mounted : BOOLEAN, gen : Word, mseq : Word, session : Word, mutation : Word]
    BY <1>2, Bounds DEF Blank, Word
  <2>3. since' \in [used : BOOLEAN, cleared : BOOLEAN, formatted : BOOLEAN]
    BY <1>2 DEF IInv, Types
  <2>. QED  BY <1>1, <1>2, <2>1, <2>2, <2>3 DEF IInv, Types
<1>4. ASSUME kind # "flash" PROVE MountedIsCurrent' /\ GenerationMoved' /\ MutationMoved'
  <2>1. MountedIsCurrent' /\ MutationMoved'
    BY <1>2 DEF IInv, Types, MountedIsCurrent, MutationMoved, Blank
  <2>2. GenerationMoved'
    BY <1>1, <1>2, <1>4, Bounds DEF IInv, Types, GenerationMoved, formats, Word
  <2>. QED  BY <2>1, <2>2
<1>. QED  BY <1>1, <1>3, <1>4 DEF IInv

LEMMA MountInv == ASSUME IInv, Mount PROVE IInv'
<1>1. calls' = calls + 1 /\ calls < MaxCalls /\ calls' \in 0 .. MaxCalls /\ kind' = kind
  BY Bounds DEF IInv, Types, Mount, Call
<1>2. /\ sb.ok /\ sb.gen \in Counter /\ sb.mseq \in Counter
      /\ since' = [since EXCEPT !.used = TRUE] /\ UNCHANGED <<sb, snap>>
  BY DEF IInv, TypeOK, Mount
<1>3. PICK session \in Counter :
        ctx' = [mounted |-> TRUE, gen |-> sb.gen, mseq |-> session, session |-> session,
                mutation |-> mutation_after_mount]
  <2>1. next_session_value(sb.mseq) \in Counter
    BY <1>2, Successors, Bounds DEF Counter, Word
  <2>. QED  BY <2>1 DEF Mount
<1>4. mutation_after_mount \in Word
  BY Successors, Bounds DEF mutation_after_mount, IInv, Types, Counter, Word
<1>5. TypeOK' /\ Types'
  <2>1. TypeOK'
    BY <1>1, <1>2, <1>3, <1>4 DEF IInv, TypeOK, Word
  <2>2. ctx' \in [mounted : BOOLEAN, gen : Word, mseq : Word, session : Word, mutation : Word]
    BY <1>2, <1>3, <1>4, Bounds DEF Word, Counter
  <2>3. since' \in [used : BOOLEAN, cleared : BOOLEAN, formatted : BOOLEAN]
    BY <1>2 DEF IInv, Types
  <2>. QED  BY <1>1, <1>2, <2>1, <2>2, <2>3 DEF IInv, Types
<1>6. ASSUME kind # "flash" PROVE MountedIsCurrent' /\ GenerationMoved' /\ MutationMoved'
  <2>1. MountedIsCurrent'
    BY <1>2, <1>3 DEF MountedIsCurrent
  <2>2. GenerationMoved'
    BY <1>1, <1>2, <1>6, Bounds DEF IInv, Types, GenerationMoved, formats, Word
  <2>3. ASSUME snap.taken, ~since.cleared, ~since.formatted
        PROVE  moved(snap.mutation, mutation_after_mount, calls + 1, TRUE)
    <3>1. ctx.mounted /\ moved(snap.mutation, ctx.mutation, calls, since.used)
      BY <1>6, <2>3 DEF IInv, MutationMoved
    <3>2. snap.mutation \in Word /\ ctx.mutation \in Word /\ calls \in Nat
      BY DEF IInv, Types
    <3>. QED  BY <1>1, <3>1, <3>2, NextMutation DEF mutation_after_mount
  <2>4. MutationMoved'
    BY <1>1, <1>2, <1>3, <2>3 DEF IInv, Types, MutationMoved
  <2>. QED  BY <2>1, <2>2, <2>4
<1>. QED  BY <1>1, <1>5, <1>6 DEF IInv
\* The context of a format in a state of the invariant.
LEMMA FormattedOf ==
  ASSUME IInv
  PROVE  formatted(IF kind = "flash" THEN BadSb ELSE sb) \in
           [mounted : {FALSE}, gen : Counter, mseq : Counter, session : Counter, mutation : Counter]
<1>1. BadSb \in [ok : BOOLEAN, gen : Word, mseq : Word] /\ ~BadSb.ok
  BY Bounds DEF BadSb, Word
<1>2. sb \in [ok : BOOLEAN, gen : Word, mseq : Word]
      /\ (sb.ok => sb.gen \in Counter /\ sb.mseq \in Counter)
  BY DEF IInv, Types, TypeOK
<1>3. CASE kind = "flash"
  BY <1>1, <1>3, FormattedContext
<1>4. CASE kind # "flash"
  BY <1>2, <1>4, FormattedContext
<1>. QED  BY <1>3, <1>4

\* The part of the invariant that a format moves: what its new context puts on
\* the media, if anything does get there.
LEMMA WrittenGeneration ==
  ASSUME IInv, kind # "flash", calls < MaxCalls, snap.taken
  PROVE  formats(snap.gen, formatted(sb).gen) \in 1 .. calls + 1
<1>1. /\ sb.ok /\ sb.gen \in Counter /\ snap.gen \in Counter /\ calls \in 0 .. MaxCalls
      /\ formats(snap.gen, sb.gen) <= calls
  BY DEF IInv, TypeOK, Types, GenerationMoved
<1>2. formatted(sb).gen = next_generation_value(sb.gen)
  BY <1>1, FormattedContext DEF IInv, TypeOK, Types
<1>3. formats(snap.gen, sb.gen) \in Nat
  BY <1>1, Bounds DEF formats, Counter
<1>4. formats(snap.gen, next_generation_value(sb.gen)) = formats(snap.gen, sb.gen) + 1
  BY <1>1, <1>3, Bounds, NextGeneration
<1>. QED  BY <1>1, <1>2, <1>3, <1>4

\* A format that succeeds: on flash, too, the context is that of the superblock.
LEMMA FormatInv == ASSUME IInv, Format PROVE IInv'
<1> DEFINE c == formatted(IF kind = "flash" THEN BadSb ELSE sb)
<1>1. calls' = calls + 1 /\ calls < MaxCalls /\ calls' \in 0 .. MaxCalls /\ kind' = kind
  BY Bounds DEF IInv, Types, Format, Call
<1>2. ctx' = [c EXCEPT !.mounted = TRUE] /\ sb' = [ok |-> TRUE, gen |-> c.gen, mseq |-> c.mseq]
  BY Zenon DEF Format, written
<1>3. since' = [used |-> TRUE, cleared |-> since.cleared, formatted |-> TRUE] /\ snap' = snap
  <2>1. since \in [used : BOOLEAN, cleared : BOOLEAN, formatted : BOOLEAN]
    BY DEF IInv, Types
  <2>2. since' = [since EXCEPT !.used = TRUE, !.formatted = TRUE] /\ snap' = snap
    BY DEF Format
  <2>. QED  BY <2>1, <2>2
<1>4. c \in [mounted : {FALSE}, gen : Counter, mseq : Counter, session : Counter, mutation : Counter]
  BY FormattedOf DEF IInv
<1>5. kind # "flash" => c = formatted(sb)
  OBVIOUS
<1> HIDE DEF c
<1>6. TypeOK' /\ Types'
  <2>1. TypeOK'
    BY <1>1, <1>2, <1>4, Bounds DEF IInv, TypeOK, Counter
  <2>2. ctx' \in [mounted : BOOLEAN, gen : Word, mseq : Word, session : Word, mutation : Word]
    <3>1. Counter \subseteq Word
      BY Bounds DEF Counter, Word
    <3>2. /\ c.gen \in Word /\ c.mseq \in Word /\ c.session \in Word /\ c.mutation \in Word
      BY <1>4, <3>1
    <3>3. ctx' = [mounted |-> TRUE, gen |-> c.gen, mseq |-> c.mseq, session |-> c.session,
                  mutation |-> c.mutation]
      BY <1>2, <1>4
    <3>. QED  BY <3>2, <3>3
  <2>3. since' \in [used : BOOLEAN, cleared : BOOLEAN, formatted : BOOLEAN]
    <3>1. since.cleared \in BOOLEAN
      BY DEF IInv, Types
    <3>. QED  BY <1>3, <3>1
  <2>4. sb' \in [ok : BOOLEAN, gen : Word, mseq : Word]
    BY <1>2, <1>4, Bounds DEF Word, Counter
  <2>. QED  BY <1>1, <1>3, <2>1, <2>2, <2>3, <2>4 DEF IInv, Types
<1>7. ASSUME kind # "flash" PROVE MountedIsCurrent' /\ GenerationMoved' /\ MutationMoved'
  <2>1. MountedIsCurrent'
    BY <1>2, <1>4 DEF MountedIsCurrent
  <2>2. GenerationMoved'
    <3>1. snap.taken => snap.gen \in Counter /\ formats(snap.gen, c.gen) \in 1 .. calls + 1
      BY <1>1, <1>5, <1>7, WrittenGeneration DEF IInv, GenerationMoved
    <3>. QED  BY <1>1, <1>2, <1>3, <3>1 DEF GenerationMoved, IInv, Types
  <2>3. MutationMoved'
    BY <1>3 DEF MutationMoved
  <2>. QED  BY <2>1, <2>2, <2>3
<1>. QED  BY <1>1, <1>6, <1>7 DEF IInv

\* A format that fails: whatever it has written, no context is left mounted on
\* byte-writable media.
LEMMA FormatFailsInv == ASSUME IInv, FormatFails PROVE IInv'
<1> DEFINE c == formatted(IF kind = "flash" THEN BadSb ELSE sb)
<1>1. calls' = calls + 1 /\ calls < MaxCalls /\ calls' \in 0 .. MaxCalls /\ kind' = kind /\ snap' = snap
  BY Bounds DEF IInv, Types, FormatFails, Call
<1>2. /\ \/ kind = "flash" /\ sb' \in {sb, BadSb} /\ ctx' = ctx
         \/ ctx' = c /\ (\/ kind = "flash" /\ sb' = BadSb
                         \/ kind # "flash" /\ sb' = sb
                         \/ sb' = [ok |-> TRUE, gen |-> c.gen, mseq |-> c.mseq])
      /\ since' = [since EXCEPT !.used = TRUE, !.cleared = TRUE, !.formatted = @ \/ sb' # sb]
  BY DEF FormatFails, written
<1>3. c \in [mounted : {FALSE}, gen : Counter, mseq : Counter, session : Counter, mutation : Counter]
  BY FormattedOf DEF IInv
<1>4. kind # "flash" => c = formatted(sb)
  OBVIOUS
<1> HIDE DEF c
<1>5. TypeOK' /\ Types'
  <2>0. Counter \subseteq Word /\ 0 \in Word
    BY Bounds DEF Word, Counter
  <2>1. sb' \in [ok : BOOLEAN, gen : Word, mseq : Word]
        /\ (sb'.ok => sb'.gen \in Counter /\ sb'.mseq \in Counter)
    <3>1. CASE sb' = sb
      BY <3>1 DEF IInv, Types, TypeOK
    <3>2. CASE sb' = BadSb
      BY <3>2, <2>0 DEF BadSb
    <3>3. CASE sb' = [ok |-> TRUE, gen |-> c.gen, mseq |-> c.mseq]
      BY <3>3, <1>3, <2>0
    <3>. QED  BY <1>2, <3>1, <3>2, <3>3
  <2>2. ctx' \in [mounted : BOOLEAN, gen : Word, mseq : Word, session : Word, mutation : Word]
        /\ (ctx'.mounted => ctx' = ctx)
    <3>1. c \in [mounted : BOOLEAN, gen : Word, mseq : Word, session : Word, mutation : Word]
          /\ ~c.mounted
      BY <1>3, <2>0
    <3>2. ctx \in [mounted : BOOLEAN, gen : Word, mseq : Word, session : Word, mutation : Word]
      BY DEF IInv, Types
    <3>. QED  BY <1>2, <3>1, <3>2
  <2>3. since' \in [used : BOOLEAN, cleared : BOOLEAN, formatted : BOOLEAN]
    BY <1>2 DEF IInv, Types
  <2>4. TypeOK'
    BY <1>1, <2>1, <2>2 DEF IInv, TypeOK
  <2>. QED  BY <1>1, <2>1, <2>2, <2>3, <2>4 DEF IInv, Types
<1>6. ASSUME kind # "flash" PROVE MountedIsCurrent' /\ GenerationMoved' /\ MutationMoved'
  <2>1. MountedIsCurrent' /\ MutationMoved'
    BY <1>2, <1>3, <1>6 DEF MountedIsCurrent, MutationMoved, IInv, Types
  <2>2. GenerationMoved'
    <3>1. snap.taken => snap.gen \in Counter /\ formats(snap.gen, c.gen) \in 1 .. calls + 1
      BY <1>1, <1>4, <1>6, WrittenGeneration DEF IInv, GenerationMoved
    <3>2. CASE sb' = sb
      <4>1. since'.formatted = since.formatted
        BY <1>2, <3>2 DEF IInv, Types
      <4>2. snap.taken => formats(snap.gen, sb.gen) <= calls + 1
        BY <1>1, <1>6, Bounds DEF IInv, Types, GenerationMoved, formats, Word
      <4>. QED  BY <1>1, <1>6, <3>2, <4>1, <4>2 DEF GenerationMoved, IInv
    <3>3. CASE sb' = [ok |-> TRUE, gen |-> c.gen, mseq |-> c.mseq]
      BY <1>1, <3>1, <3>3 DEF GenerationMoved, IInv, Types
    <3>. QED  BY <1>2, <1>6, <3>2, <3>3
  <2>. QED  BY <2>1, <2>2
<1>. QED  BY <1>1, <1>5, <1>6 DEF IInv

\* An append moves the mutation counter and leaves the generation alone.
LEMMA AppendInv == ASSUME IInv, AppendRecord PROVE IInv'
<1>1. /\ calls' = calls + 1 /\ calls < MaxCalls /\ calls' \in 0 .. MaxCalls /\ kind' = kind
      /\ snap' = snap /\ ctx.mounted /\ since' = [since EXCEPT !.used = TRUE]
  BY Bounds DEF IInv, Types, AppendRecord, Call
<1>2. PICK mseq \in Counter :
        ctx' = [mounted |-> TRUE, gen |-> ctx.gen, mseq |-> mseq, session |-> ctx.session,
                mutation |-> (ctx.mutation + 1) % U32]
  <2>1. ctx.mseq \in Counter /\ Counter \subseteq Word
    BY <1>1, Bounds DEF IInv, TypeOK, Counter, Word
  <2>2. next_session_value(ctx.mseq) \in Counter
    BY <2>1, Successors
  <2> DEFINE mseq == IF kind = "ring" THEN next_session_value(ctx.mseq) ELSE ctx.mseq
             mutation == (ctx.mutation + 1) % U32
  <2>3. mseq \in Counter
    BY <2>1, <2>2
  <2>4. ctx' = [[ctx EXCEPT !.mutation = mutation] EXCEPT !.mseq = mseq]
    BY DEF AppendRecord, appended, IInv, Types
  <2> HIDE DEF mseq, mutation
  <2>5. ctx' = [mounted |-> TRUE, gen |-> ctx.gen, mseq |-> mseq, session |-> ctx.session,
                mutation |-> mutation]
    BY <1>1, <2>4 DEF IInv, Types
  <2>. QED  BY <2>3, <2>5 DEF mutation
<1>3. sb' = sb \/ (sb.ok /\ sb' = [ok |-> TRUE, gen |-> ctx'.gen, mseq |-> ctx'.mseq])
  <2>1. sb' = sb \/ (sb.ok /\ sb' = written(ctx'))
    BY DEF AppendRecord
  <2>. QED  BY <2>1 DEF written
<1>4. /\ ctx.gen \in Counter /\ ctx.session \in Counter /\ ctx.mutation \in Word
      /\ Counter \subseteq Word /\ (ctx.mutation + 1) % U32 \in Word
  <2>1. ctx.gen \in Counter /\ ctx.session \in Counter /\ ctx.mutation \in Word
    BY <1>1 DEF IInv, TypeOK, Word
  <2>2. Counter \subseteq Word
    BY Bounds DEF Counter, Word
  <2>3. (ctx.mutation + 1) % U32 \in Word
    BY <2>1, Bounds DEF Word
  <2>. QED  BY <2>1, <2>2, <2>3
<1>5. TypeOK' /\ Types'
  <2>1. sb' \in [ok : BOOLEAN, gen : Word, mseq : Word]
        /\ (sb'.ok => sb'.gen \in Counter /\ sb'.mseq \in Counter)
    <3>1. CASE sb' = sb
      BY <3>1 DEF IInv, Types, TypeOK
    <3>2. CASE sb' = [ok |-> TRUE, gen |-> ctx'.gen, mseq |-> ctx'.mseq]
      <4>1. ctx'.gen = ctx.gen /\ ctx'.mseq = mseq
        BY <1>2
      <4>. QED  BY <1>4, <3>2, <4>1
    <3>. QED  BY <1>3, <3>1, <3>2
  <2>2. ctx' \in [mounted : BOOLEAN, gen : Word, mseq : Word, session : Word, mutation : Word]
    BY <1>2, <1>4
  <2>3. since' \in [used : BOOLEAN, cleared : BOOLEAN, formatted : BOOLEAN]
    BY <1>1 DEF IInv, Types
  <2>4. TypeOK'
    BY <1>1, <1>2, <1>4, <2>1 DEF IInv, TypeOK, Word
  <2>. QED  BY <1>1, <2>1, <2>2, <2>3, <2>4 DEF IInv, Types
<1>6. ASSUME kind # "flash" PROVE MountedIsCurrent' /\ GenerationMoved' /\ MutationMoved'
  <2>1. sb.ok /\ sb'.ok /\ ctx.gen = sb.gen /\ ctx'.gen = ctx.gen /\ sb'.gen = sb.gen
    BY <1>1, <1>2, <1>3, <1>6 DEF IInv, MountedIsCurrent
  <2>2. MountedIsCurrent'
    BY <2>1 DEF MountedIsCurrent
  <2>3. GenerationMoved'
    <3>1. since'.formatted = since.formatted
      BY <1>1 DEF IInv, Types
    <3>2. snap.taken => formats(snap.gen, sb.gen) <= calls + 1
      BY <1>6, Bounds DEF IInv, Types, GenerationMoved, formats, Word
    <3>. QED  BY <1>1, <1>6, <2>1, <3>1, <3>2 DEF GenerationMoved, IInv
  <2>4. ASSUME snap.taken, ~since.cleared, ~since.formatted
        PROVE  moved(snap.mutation, (ctx.mutation + 1) % U32, calls + 1, TRUE)
    <3>1. moved(snap.mutation, ctx.mutation, calls, since.used)
      BY <1>6, <2>4 DEF IInv, MutationMoved
    <3>2. snap.mutation \in Word /\ ctx.mutation \in Word /\ calls \in Nat
      BY DEF IInv, Types
    <3>. QED  BY <1>1, <3>1, <3>2, NextMutation
  <2>5. MutationMoved'
    BY <1>1, <1>2, <2>4 DEF IInv, Types, MutationMoved
  <2>. QED  BY <2>2, <2>3, <2>5
<1>. QED  BY <1>1, <1>5, <1>6 DEF IInv

\* A snapshot starts where its context is.
LEMMA IterInv == ASSUME IInv, nvlog_iter_init PROVE IInv'
<1>1. /\ UNCHANGED <<kind, sb, ctx, calls>> /\ ctx.mounted
      /\ snap' = [taken |-> TRUE, gen |-> ctx.gen, session |-> ctx.session, mutation |-> ctx.mutation]
      /\ since' = [used |-> FALSE, cleared |-> FALSE, formatted |-> FALSE]
  BY DEF nvlog_iter_init, Nothing
<1>2. TypeOK' /\ Types'
  BY <1>1 DEF IInv, TypeOK, Types
<1>3. ASSUME kind # "flash" PROVE MountedIsCurrent' /\ GenerationMoved' /\ MutationMoved'
  <2>1. MountedIsCurrent'
    BY <1>1, <1>3 DEF IInv, MountedIsCurrent
  <2>2. sb.ok /\ ctx.gen = sb.gen /\ sb.gen \in Counter /\ calls \in Nat /\ ctx.mutation \in Word
    BY <1>1, <1>3, Bounds DEF IInv, MountedIsCurrent, TypeOK, Types, Word
  <2>3. formats(sb.gen, sb.gen) = 0
    BY <2>2, Bounds DEF formats, Counter
  <2>4. moved(ctx.mutation, ctx.mutation, calls, FALSE)
    BY <2>2, Bounds DEF moved, Word
  <2>5. GenerationMoved'
    BY <1>1, <2>2, <2>3 DEF GenerationMoved
  <2>6. MutationMoved'
    BY <1>1, <2>4 DEF MutationMoved
  <2>. QED  BY <2>1, <2>5, <2>6
<1>. QED  BY <1>1, <1>2, <1>3 DEF IInv

LEMMA NextInv == ASSUME IInv, [Next]_vars PROVE IInv'
<1>1. CASE Next
  BY <1>1, ClearInv, FormatInv, FormatFailsInv, MountInv, AppendInv, IterInv DEF Next
<1>2. CASE UNCHANGED vars
  BY <1>2 DEF vars, IInv, TypeOK, Types, MountedIsCurrent, GenerationMoved, MutationMoved
<1>. QED  BY <1>1, <1>2

-----------------------------------------------------------------------------
\* The counters of a region and of every mounted context keep the width and the
\* range the superblock gives them (nvlog_format, nvlog_mount, nvlog_append).
THEOREM TypeCorrect == Spec => []TypeOK
<1>1. Spec => []IInv
  BY InitInv, NextInv, PTL DEF Spec
<1>2. IInv => TypeOK
  BY DEF IInv
<1>. QED  BY <1>1, <1>2, PTL

\* On byte-writable media nvlog_iter_next and nvlog_read_payload accept no
\* iterator or descriptor from before a format, whatever became of the context.
THEOREM FormatEndsSnapshots == Spec => [](kind # "flash" => NeverAcrossFormat)
<1>1. Spec => []IInv
  BY InitInv, NextInv, PTL DEF Spec
<1>2. IInv => (kind # "flash" => NeverAcrossFormat)
  <2> SUFFICES ASSUME IInv, kind # "flash", accepts, since.formatted PROVE FALSE
    BY DEF NeverAcrossFormat
  <2>1. snap.taken /\ snap.gen = sb.gen /\ snap.gen \in Counter
    BY DEF accepts, IInv, MountedIsCurrent, GenerationMoved
  <2>2. formats(snap.gen, sb.gen) >= 1
    BY <2>1 DEF IInv, GenerationMoved
  <2>. QED  BY <2>1, <2>2, Bounds DEF formats, Counter
<1>. QED  BY <1>1, <1>2, PTL

\* On byte-writable media a context that is neither cleared nor left by a failed
\* format accepts none from before its last append, mount or format.
THEOREM CallsEndSnapshots == Spec => [](kind # "flash" => StaleRejected)
<1>1. Spec => []IInv
  BY InitInv, NextInv, PTL DEF Spec
<1>2. Spec => [](kind # "flash" => NeverAcrossFormat)
  BY FormatEndsSnapshots
<1>3. IInv /\ (kind # "flash" => NeverAcrossFormat) => (kind # "flash" => StaleRejected)
  <2> SUFFICES ASSUME IInv, NeverAcrossFormat, kind # "flash", accepts, ~since.cleared, since.used
               PROVE  FALSE
    BY DEF StaleRejected
  <2>1. snap.taken /\ ~since.formatted /\ snap.mutation = ctx.mutation
    BY DEF accepts, NeverAcrossFormat
  <2>2. moved(snap.mutation, ctx.mutation, calls, since.used) /\ ctx.mutation \in Word
    BY <2>1 DEF IInv, MutationMoved, Types
  <2>. QED  BY <2>1, <2>2, Bounds DEF moved, Word
<1>. QED  BY <1>1, <1>2, <1>3, PTL

=============================================================================
