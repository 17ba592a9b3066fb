------------------------ MODULE NvlogPublish_proofs ------------------------
(***************************************************************************)
(* The two-copy publication protocol of NvlogPublish, for every counter    *)
(* width, every set of states, and every bound on unfinished publications  *)
(* that keeps the copies within half the counter range of each other.      *)
(***************************************************************************)
EXTENDS NvlogPublish, TLAPS

USE DEF Counter

\* Half of the counter range is an integer below the range.
LEMMA HalfRange == /\ U32 \in Nat /\ Half \in Nat /\ Half < U32
                   /\ MaxLag \in Nat /\ 4 * MaxLag + 2 < Half
  BY U32Assumption, LagAssumption DEF Half

\* The difference of two counters is a counter value.
LEMMA DiffType == ASSUME NEW a \in Counter, NEW b \in Counter
                  PROVE  u32_diff(a, b) \in 0 .. U32 - 1
  BY U32Assumption DEF u32_diff

\* One increment, which skips zero, moves a counter ahead by one or two.
LEMMA NextDiff ==
  ASSUME NEW a \in Counter, NEW b \in Counter, NEW n \in Nat,
         u32_diff(a, b) \in 0 .. n, n + 2 < U32
  PROVE  /\ next_session_value(a) \in Counter
         /\ u32_diff(next_session_value(a), b) \in 1 .. n + 2
         /\ next_generation_value(a) \in Counter
         /\ u32_diff(next_generation_value(a), b) \in 1 .. n + 2
  BY U32Assumption DEF u32_diff, next_session_value, next_generation_value

\* A counter never differs from itself, and distinct counters do differ.
LEMMA DiffZero == ASSUME NEW a \in Counter, NEW b \in Counter
                  PROVE  (u32_diff(a, b) = 0) <=> (a = b)
  BY U32Assumption DEF u32_diff

\* A superblock that is ahead by less than half the range is the newer one.
LEMMA AheadIsNewer ==
  ASSUME NEW x, NEW y, NEW n \in Nat, n < Half,
         x.gen \in Counter, x.mseq \in Counter,
         y.gen \in Counter, y.mseq \in Counter,
         StrictlyAhead(x, y, n)
  PROVE  superblock_is_newer(x, y)
<1>1. CASE x.gen # y.gen
  <2>1. u32_diff(x.gen, y.gen) \in 1 .. n
    BY <1>1 DEF StrictlyAhead
  <2>2. u32_diff(x.gen, y.gen) > 0 /\ u32_diff(x.gen, y.gen) < Half
    BY <2>1, HalfRange
  <2>. QED  BY <1>1, <2>2 DEF superblock_is_newer, u32_is_newer
<1>2. CASE x.gen = y.gen
  <2>1. u32_diff(x.mseq, y.mseq) \in 1 .. n
    BY <1>2 DEF StrictlyAhead
  <2>2. u32_diff(x.mseq, y.mseq) > 0 /\ u32_diff(x.mseq, y.mseq) < Half
    BY <2>1, HalfRange
  <2>. QED  BY <1>2, <2>2 DEF superblock_is_newer, u32_is_newer
<1>. QED  BY <1>1, <1>2

\* What recovery finds, in terms of the two copies.
LEMMA CurrentIs ==
  ASSUME IInv
  PROVE  /\ copyA.ok /\ copyB.ok /\ copyA # copyB => Current = copyA
         /\ copyA.ok => Current = copyA
         /\ ~copyA.ok => Current = copyB
<1>1. CASE copyA.ok /\ copyB.ok /\ copyA # copyB
  <2>1. StrictlyAhead(copyA, copyB, 4 * lag)
    BY <1>1 DEF IInv
  <2>2. copyA \in Superblock /\ copyB \in Superblock
    BY <1>1 DEF IInv, TypeOK, Bad
  <2>3. lag \in 0 .. MaxLag
    BY DEF IInv, TypeOK
  <2>4. 4 * lag \in Nat /\ 4 * lag < Half
    BY <2>3, HalfRange
  <2>5. superblock_is_newer(copyA, copyB)
    BY <2>1, <2>2, <2>4, AheadIsNewer DEF Superblock
  <2>. QED  BY <1>1, <2>5 DEF Current, load_current_superblock
<1>2. CASE ~(copyA.ok /\ copyB.ok /\ copyA # copyB)
  BY <1>2 DEF Current, load_current_superblock
<1>. QED  BY <1>1, <1>2

-----------------------------------------------------------------------------
\* The erased region satisfies the invariant.
LEMMA InitInv == ASSUME Init PROVE IInv
<1>1. TypeOK
  <2>1. 1 \in Counter
    BY U32Assumption
  <2>2. 0 \in 0 .. MaxLag
    BY HalfRange
  <2>3. ctx \in [mounted : BOOLEAN, gen : Counter, mseq : Counter, state : States]
    BY <2>1, StatesAssumption DEF Init
  <2>. QED  BY <2>2, <2>3 DEF Init, TypeOK
<1>2. ~copyA.ok /\ ~copyB.ok /\ durable = copyB.state /\ copyA = copyB
  BY DEF Init, Bad
<1>3. pc = "idle"
  BY DEF Init
<1>. QED  BY <1>1, <1>2, <1>3 DEF IInv

\* How far a context reads ahead of copy B once it is loaded from the media.
LEMMA LoadedStamp ==
  ASSUME IInv, Current.ok, copyB.ok
  PROVE  /\ Current \in Superblock /\ copyB \in Superblock
         /\ NotBehind(Current, copyB, 4 * lag)
<1>1. Current \in Superblock /\ copyB \in Superblock
  BY CurrentIs DEF IInv, TypeOK, Bad
<1>2. copyA.ok => NotBehind(copyA, copyB, 4 * lag)
  BY DEF IInv, NotBehind
<1>3. NotBehind(copyB, copyB, 4 * lag)
  BY DEF NotBehind
<1>. QED  BY <1>1, <1>2, <1>3, CurrentIs

\* format_impl starts from a context strictly ahead of copy B.
LEMMA FormatInv == ASSUME IInv, Format PROVE IInv'
<1>0. /\ lag \in Nat /\ lag < MaxLag /\ lag' = lag + 1 /\ lag' \in 0 .. MaxLag
      /\ 4 * lag' < Half /\ 4 * lag' = 4 * lag + 4 /\ 4 * lag + 4 < U32
  <2>1. lag \in 0 .. MaxLag /\ lag < MaxLag /\ lag' = lag + 1
    BY DEF IInv, TypeOK, Format
  <2>. QED  BY <2>1, HalfRange
<1>1. Current.ok => Current \in Superblock
  BY CurrentIs DEF IInv, TypeOK, Bad
<1>2. next_session_value(0) = 1 /\ 1 \in Counter
  BY U32Assumption DEF next_session_value
<1>3. ASSUME NEW c \in Counter
      PROVE  next_session_value(c) \in Counter /\ next_generation_value(c) \in Counter
  BY U32Assumption DEF next_session_value, next_generation_value
<1>4. TypeOK'
  BY <1>0, <1>1, <1>2, <1>3, StatesAssumption DEF IInv, TypeOK, Format, Superblock, media
<1>5. ASSUME copyB.ok PROVE StrictlyAhead(ctx', copyB, 4 * lag')
  <2>1. Current.ok
    BY <1>5, CurrentIs
  <2>2. /\ Current.gen \in Counter /\ copyB.gen \in Counter
        /\ NotBehind(Current, copyB, 4 * lag)
    BY <1>5, <2>1, LoadedStamp DEF Superblock
  <2>3. u32_diff(Current.gen, copyB.gen) \in 0 .. 4 * lag
    BY <1>0, <2>2, DiffZero DEF NotBehind, StrictlyAhead
  <2>4. ctx'.gen = next_generation_value(Current.gen)
    BY <2>1 DEF Format
  <2>5. u32_diff(ctx'.gen, copyB.gen) \in 1 .. 4 * lag + 2 /\ ctx'.gen \in Counter
    <3>1. 4 * lag \in Nat /\ 4 * lag + 2 < U32
      BY <1>0, HalfRange
    <3>2. /\ next_generation_value(Current.gen) \in Counter
          /\ u32_diff(next_generation_value(Current.gen), copyB.gen) \in 1 .. 4 * lag + 2
      BY <2>2, <2>3, <3>1, NextDiff
    <3>. QED  BY <2>4, <3>2
  <2>6. ctx'.gen # copyB.gen
    BY <2>2, <2>5, DiffZero
  <2>. QED  BY <1>0, <2>5, <2>6 DEF StrictlyAhead
<1>6. ASSUME copyA.ok, copyB.ok, copyA # copyB
      PROVE  StrictlyAhead(copyA, copyB, 4 * lag')
  BY <1>0, <1>6 DEF IInv, StrictlyAhead
<1>. QED
  BY <1>0, <1>4, <1>5, <1>6 DEF IInv, Format, media, StrictlyAhead

\* nvlog_append counts metadata_seq on from the mounted context.
LEMMA AppendInv == ASSUME IInv, NEW s \in States, Append(s) PROVE IInv'
<1>0. /\ lag \in Nat /\ lag < MaxLag /\ lag' = lag + 1 /\ lag' \in 0 .. MaxLag
      /\ 4 * lag' < Half /\ 4 * lag' = (4 * lag + 2) + 2 /\ 4 * lag + 4 < U32
      /\ 4 * lag + 2 \in Nat
  <2>1. lag \in 0 .. MaxLag /\ lag < MaxLag /\ lag' = lag + 1
    BY DEF IInv, TypeOK, Append
  <2>. QED  BY <2>1, HalfRange
<1>1. /\ ctx \in [mounted : BOOLEAN, gen : Counter, mseq : Counter, state : States]
      /\ ctx' = [ctx EXCEPT !.mseq = next_session_value(@), !.state = s]
      /\ UNCHANGED <<copyA, copyB, durable, exposed>> /\ pc' = "A"
  BY DEF IInv, TypeOK, Append, media
<1>2. next_session_value(ctx.mseq) \in Counter
  BY <1>1, U32Assumption DEF next_session_value
<1>3. TypeOK'
  BY <1>0, <1>1, <1>2 DEF IInv, TypeOK
<1>4. ASSUME copyB.ok PROVE StrictlyAhead(ctx', copyB, 4 * lag')
  <2>1. NotBehind(ctx, copyB, 4 * lag + 2)
    BY <1>4 DEF IInv, Append
  <2>2. copyB \in Superblock
    BY <1>4 DEF IInv, TypeOK, Bad
  <2>3. CASE ctx.gen # copyB.gen
    BY <1>0, <1>1, <2>1, <2>2, <2>3 DEF NotBehind, StrictlyAhead, Superblock
  <2>4. CASE ctx.gen = copyB.gen
    <3>1. u32_diff(ctx.mseq, copyB.mseq) \in 0 .. 4 * lag + 2
      BY <1>0, <1>1, <2>1, <2>2, <2>4, DiffZero DEF NotBehind, StrictlyAhead, Superblock
    <3>2. u32_diff(next_session_value(ctx.mseq), copyB.mseq) \in 1 .. 4 * lag'
      BY <1>0, <1>1, <2>2, <3>1, NextDiff DEF Superblock
    <3>. QED  BY <1>1, <2>4, <3>2 DEF StrictlyAhead
  <2>. QED  BY <2>3, <2>4
<1>5. ASSUME copyA.ok, copyB.ok, copyA # copyB
      PROVE  StrictlyAhead(copyA, copyB, 4 * lag')
  BY <1>0, <1>5 DEF IInv, StrictlyAhead
<1>. QED
  BY <1>0, <1>1, <1>3, <1>4, <1>5 DEF IInv, StrictlyAhead


\* Copy A carries the context, durably; copy B is left where it was.
LEMMA WriteAInv == ASSUME IInv, WriteA PROVE IInv'
<1>0. /\ ctx \in [mounted : BOOLEAN, gen : Counter, mseq : Counter, state : States]
      /\ ctx' = ctx /\ copyB' = copyB /\ lag' = lag /\ pc = "A" /\ pc' = "B"
      /\ copyA' = sb /\ durable' = ctx.state /\ exposed' = FALSE
  BY DEF IInv, TypeOK, WriteA
<1>1. sb \in Superblock /\ sb.ok /\ sb.state = ctx.state /\ sb' = sb
  BY <1>0 DEF sb, Superblock
<1>2. TypeOK'
  BY <1>0, <1>1 DEF IInv, TypeOK
<1>3. lag # 0
  BY <1>0 DEF IInv
<1>4. copyB.ok => StrictlyAhead(ctx, copyB, 4 * lag)
  BY <1>0 DEF IInv
<1>5. copyB.ok => StrictlyAhead(sb, copyB, 4 * lag)
  BY <1>4 DEF StrictlyAhead, sb
<1>. QED  BY <1>0, <1>1, <1>2, <1>3, <1>4, <1>5 DEF IInv, StrictlyAhead

\* Copy B catches up with copy A.
LEMMA WriteBInv == ASSUME IInv, WriteB PROVE IInv'
<1>0. /\ ctx \in [mounted : BOOLEAN, gen : Counter, mseq : Counter, state : States]
      /\ ctx' = [ctx EXCEPT !.mounted = TRUE] /\ copyA' = copyA /\ copyA = sb
      /\ copyB' = sb /\ lag' = 0 /\ pc' = "idle"
      /\ UNCHANGED <<durable, exposed>>
  BY DEF IInv, TypeOK, WriteB
<1>1. sb \in Superblock /\ sb.ok /\ sb.gen = ctx.gen /\ sb.mseq = ctx.mseq
  BY <1>0 DEF sb, Superblock
<1>2. 0 \in 0 .. MaxLag
  BY HalfRange
<1>3. TypeOK'
  BY <1>0, <1>1, <1>2 DEF IInv, TypeOK
<1>4. NotBehind(ctx', copyB', 4 * lag' + 2)
  BY <1>0, <1>1 DEF NotBehind
<1>. QED  BY <1>0, <1>1, <1>3, <1>4 DEF IInv

\* An interrupted write, whatever becomes of the context, as long as it keeps
\* its stamp.
LEMMA InterruptInv ==
  ASSUME IInv, Interrupt,
         ctx' \in [mounted : BOOLEAN, gen : Counter, mseq : Counter, state : States],
         ctx'.gen = ctx.gen, ctx'.mseq = ctx.mseq
  PROVE  IInv'
<1>0. /\ lag \in 0 .. MaxLag /\ lag # 0 /\ pc \in {"A", "B"}
      /\ pc' = "idle" /\ durable' = durable /\ lag' = lag
  BY DEF IInv, TypeOK, Interrupt
<1>1. copyA' \in {copyA, Bad} /\ copyB' \in {copyB, Bad} /\ exposed' \in BOOLEAN
  BY DEF Interrupt, media, IInv, TypeOK
<1>2. TypeOK'
  BY <1>0, <1>1 DEF IInv, TypeOK
<1>3. ~Bad.ok
  BY DEF Bad
<1>4. copyA'.ok => durable' = copyA'.state
  BY <1>0, <1>1, <1>3 DEF IInv
<1>5. ~copyA'.ok /\ ~exposed' => durable' = copyB'.state
  <2>1. CASE UNCHANGED <<media, exposed>>
    BY <1>0, <2>1 DEF IInv, media
  <2>2. CASE /\ pc = "A" /\ copyA' = Bad /\ UNCHANGED copyB
             /\ exposed' = (exposed \/ (copyA.ok /\ copyA # copyB))
    BY <1>0, <2>2 DEF IInv
  <2>3. CASE pc = "B" /\ copyB' = Bad /\ UNCHANGED <<copyA, exposed>>
    BY <2>3 DEF IInv, sb
  <2>. QED  BY <2>1, <2>2, <2>3 DEF Interrupt
<1>6. copyA'.ok /\ copyB'.ok =>
        copyA' = copyB' \/ StrictlyAhead(copyA', copyB', 4 * lag')
  BY <1>0, <1>1, <1>3 DEF IInv
<1>7. ASSUME copyB'.ok PROVE NotBehind(ctx', copyB', 4 * lag' + 2)
  <2>1. copyB' = copyB /\ copyB.ok
    BY <1>1, <1>3, <1>7
  <2>2. StrictlyAhead(ctx, copyB, 4 * lag)
    BY <1>0, <2>1 DEF IInv
  <2>. QED  BY <1>0, <2>1, <2>2 DEF NotBehind, StrictlyAhead
<1>. QED  BY <1>0, <1>2, <1>4, <1>5, <1>6, <1>7 DEF IInv

\* A mounted context carries the stamp after the one recovery found.
LEMMA MountInv == ASSUME IInv, Mount PROVE IInv'
<1>0. /\ UNCHANGED <<copyA, copyB, pc, durable, exposed, lag>> /\ Current.ok /\ pc = "idle"
      /\ ctx' = [mounted |-> TRUE, gen |-> Current.gen,
                 mseq |-> next_session_value(Current.mseq), state |-> Current.state]
  BY DEF Mount, media, ghosts
<1>1. Current \in Superblock
  BY <1>0, CurrentIs DEF IInv, TypeOK, Bad
<1>2. lag \in Nat /\ 4 * lag \in Nat /\ 4 * lag + 2 < U32
  BY HalfRange DEF IInv, TypeOK
<1>3. next_session_value(Current.mseq) \in Counter
  BY <1>1, U32Assumption DEF next_session_value, Superblock
<1>4. TypeOK'
  BY <1>0, <1>1, <1>3 DEF IInv, TypeOK, Superblock
<1>5. ASSUME copyB.ok PROVE NotBehind(ctx', copyB, 4 * lag + 2)
  <2>1. copyB \in Superblock /\ NotBehind(Current, copyB, 4 * lag)
    BY <1>0, <1>5, LoadedStamp
  <2>2. CASE Current.gen # copyB.gen
    BY <1>0, <1>2, <2>1, <2>2, <1>1, DiffType DEF NotBehind, StrictlyAhead, Superblock
  <2>3. CASE Current.gen = copyB.gen
    <3>1. u32_diff(Current.mseq, copyB.mseq) \in 0 .. 4 * lag
      BY <1>1, <1>2, <2>1, <2>3, DiffZero DEF NotBehind, StrictlyAhead, Superblock
    <3>2. u32_diff(next_session_value(Current.mseq), copyB.mseq) \in 1 .. 4 * lag + 2
      BY <1>1, <1>2, <2>1, <3>1, NextDiff DEF Superblock
    <3>. QED  BY <1>0, <2>3, <3>2 DEF NotBehind, StrictlyAhead
  <2>. QED  BY <2>2, <2>3
<1>. QED  BY <1>0, <1>4, <1>5 DEF IInv, sb, StrictlyAhead, NotBehind

-----------------------------------------------------------------------------
\* Power loss between calls only forgets the context.
LEMMA ForgetInv ==
  ASSUME IInv, pc = "idle", UNCHANGED <<media, pc, ghosts>>,
         ctx' = [ctx EXCEPT !.mounted = FALSE]
  PROVE  IInv'
<1>1. TypeOK'
  BY DEF IInv, TypeOK, media, ghosts
<1>2. ~ctx'.mounted
  BY DEF IInv, TypeOK
<1>. QED  BY <1>1, <1>2 DEF IInv, media, ghosts, StrictlyAhead

\* Every step of the protocol preserves the invariant.
LEMMA NextInv == ASSUME IInv, [Next]_vars PROVE IInv'
<1>0. ctx \in [mounted : BOOLEAN, gen : Counter, mseq : Counter, state : States]
  BY DEF IInv, TypeOK
<1>1. CASE Format
  BY <1>1, FormatInv
<1>2. ASSUME NEW s \in States, Append(s) PROVE IInv'
  BY <1>2, AppendInv
<1>3. CASE WriteA
  BY <1>3, WriteAInv
<1>4. CASE WriteB
  BY <1>4, WriteBInv
<1>5. CASE IoError
  BY <1>0, <1>5, InterruptInv DEF IoError
<1>6. CASE PowerLoss
  <2>1. /\ ctx' = [ctx EXCEPT !.mounted = FALSE]
        /\ ctx' \in [mounted : BOOLEAN, gen : Counter, mseq : Counter, state : States]
        /\ ctx'.gen = ctx.gen /\ ctx'.mseq = ctx.mseq
    BY <1>0, <1>6 DEF PowerLoss
  <2>2. CASE Interrupt
    BY <2>1, <2>2, InterruptInv
  <2>3. CASE pc = "idle" /\ UNCHANGED <<media, pc, ghosts>>
    BY <2>1, <2>3, ForgetInv
  <2>. QED  BY <1>6, <2>2, <2>3 DEF PowerLoss
<1>7. CASE Mount
  BY <1>7, MountInv
<1>8. CASE UNCHANGED vars
  BY <1>8 DEF vars, IInv, TypeOK, sb, StrictlyAhead, NotBehind
<1>. QED  BY <1>1, <1>2, <1>3, <1>4, <1>5, <1>6, <1>7, <1>8 DEF Next

\* The inductive invariant holds in every reachable state: the copies and the
\* context stay within 4 * lag + 2 increments of copy B, and copy A (or, when
\* it is torn, copy B) holds the durable state.
THEOREM Inductive == Spec => []IInv
  BY InitInv, NextInv, PTL DEF Spec

\* Type correctness of the publication protocol.
THEOREM TypeCorrect == Spec => []TypeOK
<1>1. IInv => TypeOK
  BY DEF IInv
<1>. QED  BY <1>1, Inductive, PTL

\* Recovery finds the last completed publication, for every counter width,
\* wrap-around included, after any interleaving of appends, formats, mounts,
\* HAL errors, power losses and (when no readable copy A is torn over a
\* differing copy B) torn superblocks.
THEOREM RecoveryIsOldOrNew == Spec => []OldOrNew
<1>1. IInv => OldOrNew
  <2>. SUFFICES ASSUME IInv PROVE OldOrNew
    OBVIOUS
  <2>1. exposed \in BOOLEAN
    BY DEF IInv, TypeOK
  <2>. QED  BY <2>1, CurrentIs DEF IInv, OldOrNew
<1>. QED  BY <1>1, Inductive, PTL

\* A copy B that missed the last publications never wins over copy A.
THEOREM StaleCopyLoses == Spec => []StaleCopyNeverWins
<1>1. IInv => StaleCopyNeverWins
  BY CurrentIs DEF StaleCopyNeverWins
<1>. QED  BY <1>1, Inductive, PTL


\* What recovery finds moves only with the write of copy A, to the state the
\* running call publishes.
THEOREM RecoveryMoves == Spec => RecoveryMovesOnlyAtA
<1>. DEFINE Found == /\ copyA.ok => Current = copyA
                     /\ ~copyA.ok => Current = copyB
            Moves == Current.state' # Current.state =>
                       exposed' \/ (pc = "A" /\ Current.state' = ctx.state)
<1>1. IInv => Found
  BY CurrentIs
<1>2. IInv' => Found'
  BY <1>1, PTL
<1>3. ASSUME IInv, IInv', [Next]_vars PROVE [Moves]_vars
  <2>1. Found /\ Found'
    BY <1>1, <1>2, <1>3
  <2>2. CASE UNCHANGED media
    <3>1. Current' = Current
      BY <2>2 DEF media, Current
    <3>. QED  BY <3>1
  <2>3. CASE WriteA
    <3>1. copyA' = sb /\ pc = "A"
      BY <2>3 DEF WriteA
    <3>2. sb.ok /\ sb.state = ctx.state
      BY DEF sb
    <3>. QED  BY <2>1, <3>1, <3>2
  <2>4. CASE WriteB
    <3>1. copyA' = copyA /\ copyA.ok
      BY <1>3, <2>4 DEF WriteB, IInv, sb
    <3>. QED  BY <2>1, <3>1
  <2>5. CASE Interrupt /\ ~UNCHANGED media
    <3>1. CASE pc = "A"
      <4>1. /\ copyA' = Bad /\ copyB' = copyB
            /\ exposed' = (exposed \/ (copyA.ok /\ copyA # copyB))
        BY <2>5, <3>1 DEF Interrupt, media
      <4>2. ~copyA'.ok
        BY <4>1 DEF Bad
      <4>3. Current' = copyB
        BY <2>1, <4>1, <4>2
      <4>4. exposed' \/ ~copyA.ok \/ copyA = copyB
        BY <4>1
      <4>5. Current' # Current => exposed'
        BY <2>1, <4>3, <4>4
      <4>. QED  BY <4>5
    <3>2. CASE pc = "B"
      <4>1. copyA' = copyA /\ copyA.ok
        BY <1>3, <2>5, <3>2 DEF Interrupt, media, IInv, sb
      <4>. QED  BY <2>1, <4>1
    <3>. QED  BY <1>3, <2>5, <3>1, <3>2 DEF Interrupt, IInv, TypeOK
  <2>6. UNCHANGED media \/ WriteA \/ WriteB \/ Interrupt
    BY <1>3 DEF Next, Format, Append, IoError, PowerLoss, Mount, vars, media
  <2>. QED  BY <2>2, <2>3, <2>4, <2>5, <2>6
<1>4. IInv /\ IInv' /\ [Next]_vars => [Moves]_vars
  BY <1>3
<1>. QED
  BY <1>4, Inductive, PTL DEF Spec, RecoveryMovesOnlyAtA

=============================================================================
