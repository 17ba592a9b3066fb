-------------------------- MODULE NvlogRing_proofs --------------------------
(***************************************************************************)
(* Ring mode, for every size of the area and of the reserve, all payload   *)
(* lengths, header widths and ranges of the sequence numbers, and any      *)
(* number of calls and faults. Nothing is assumed but the assumptions that *)
(* NvlogRing and NvlogRecord state of their constants; where generations   *)
(* or metadata sequence numbers are compared, that there are no more of    *)
(* them than a signed comparison can order (Distinguishable, Orderable);   *)
(* and for the last four theorems, that all records have one size and too  *)
(* few cells are left behind the last for a WRAP record (Uniform).         *)
(*                                                                         *)
(* The argument: the walk of ring_validate_window is a function of the     *)
(* position and of the cells still occupied (WalkUnfolds, WalkSteps), and  *)
(* induction over those cells (WalkInduction) says what a walk depends on  *)
(* (cells inside the window only), how it grows by a record at the write   *)
(* pointer, and how it shrinks when ring_retire_tail_to_free drops one at  *)
(* the tail. With that, IInv is inductive: where the window of the RAM     *)
(* context validates, its next sequence number follows the newest record   *)
(* (Sound), the record or the WRAP record under way lies in free cells and *)
(* is written up to where the call stands (Placed, Wrapping), and what the *)
(* superblocks publish is the window validated last (Published). GInv adds *)
(* what is known of the records on the media, NInv in which order the      *)
(* superblock copies are, and Aside how far a call has come that writes    *)
(* outside the windows. UInv is about records of one size: they lie in     *)
(* slots, WRAP records are not written, and a call without faults has      *)
(* discarded a record only if the area was full.                           *)
(***************************************************************************)
EXTENDS MCRingUniform, NvlogRecord_proofs

-----------------------------------------------------------------------------
Media == [0 .. Cap - 1 -> Cells(Nat)]
Entries == [seq : Nat, v : Nat]

\* The constants are numbers, and a record takes at least three cells.
LEMMA CapNat ==
  /\ Cap \in Nat /\ Cap > 0 /\ Reserve \in Nat /\ RegionSize \in Nat /\ Cap <= RegionSize
  /\ HdrCells \in Nat /\ HdrCells >= 1 /\ Overhead = HdrCells + 2
  /\ SeqRange \in Nat /\ SeqRange > Cap
BY RingAssumption, HdrCellsAssumption DEF RegionSize, Overhead

\* What lies at a cursor, what the walk of ring_validate_window passes over
\* there, and the DATA record it meets there.
Found(m, g, x)     == verify_record(m, x, g, RegionSize)
StepAt(m, g, w, x) == stride(w, x, Found(m, g, x))
HeldAt(m, g, w, x) == held(w, x, Found(m, g, x))

Walk(m, g, w, x, o) == walk_from(m, g, w)[<<x, o>>]
Walks == [ok : BOOLEAN, recs : Seq(Entries)]

\* One step of the walk, by a function that is to be the walk itself.
WalkBody(m, g, w, at, f) ==
  LET cursor   == at[1]
      occupied == at[2]
      r        == verify_record(m, cursor, g, RegionSize)
      step     == stride(w, cursor, r)
      first    == held(w, cursor, r)
      rest     == f[<<wrapped(cursor + step), occupied - step>>]
  IN  IF occupied = 0 THEN IF cursor = w THEN Passed(<<>>) ELSE Failed
      ELSE IF step \notin 1 .. occupied \/ ~rest.ok \/ ~in_sequence(first, rest.recs)
           THEN Failed ELSE Passed(first \o rest.recs)

\* Where the walk passes over something, it is a number of cells, and what it
\* delivers is at most one record.
LEMMA StepTyped ==
  ASSUME NEW m \in Media, NEW g, NEW w \in Nat, NEW x \in Nat, StepAt(m, g, w, x) # 0
  PROVE  /\ StepAt(m, g, w, x) \in Nat
         /\ HeldAt(m, g, w, x) = <<>> \/ \E e \in Entries : HeldAt(m, g, w, x) = <<e>>
         /\ HeldAt(m, g, w, x) \in Seq(Entries)
         /\ ~in_end_gap(w, x) =>
              /\ Found(m, g, x).res = "VALID"
              /\ Found(m, g, x).d \in Headers /\ Found(m, g, x).v \in Nat
              /\ Found(m, g, x).d.gen = g
              /\ RecordAt(m, Cap, x, Found(m, g, x).d, Found(m, g, x).v)
              /\ StepAt(m, g, w, x) = rec_alloc_bytes(Found(m, g, x).d.len)
<1>1. CASE in_end_gap(w, x)
  <2>1. StepAt(m, g, w, x) = Cap - x /\ HeldAt(m, g, w, x) = <<>>
    BY <1>1 DEF StepAt, HeldAt, stride, held
  <2>. QED  BY <1>1, <2>1, CapNat DEF in_end_gap
<1>2. CASE ~in_end_gap(w, x)
  <2> DEFINE r == Found(m, g, x)
  <2>1. r.res = "VALID" /\ StepAt(m, g, w, x) = rec_alloc_bytes(r.d.len)
    BY <1>2 DEF StepAt, stride
  <2>2. /\ r.d \in Headers /\ r.v \in Nat /\ r.d.gen = g
        /\ RecordAt(m, Cap, x, r.d, r.v)
    BY <2>1, CapNat, ValidIsRecord DEF Found, Media
  <2>3. HeldAt(m, g, w, x) = IF r.d.type = "DATA" THEN <<Entry(r)>> ELSE <<>>
    BY <1>2 DEF HeldAt, held
  <2> HIDE DEF r
  <2>4. Entry(r) \in Entries
    BY <2>2 DEF Entry, Entries, Headers
  <2>5. rec_alloc_bytes(r.d.len) \in Nat
    BY <2>2, CapNat DEF rec_alloc_bytes, Headers
  <2>6. HeldAt(m, g, w, x) = <<>> \/ \E e \in Entries : HeldAt(m, g, w, x) = <<e>>
    BY <2>3, <2>4
  <2>7. HeldAt(m, g, w, x) \in Seq(Entries)
    <3>1. <<>> \in Seq(Entries) /\ \A e \in Entries : <<e>> \in Seq(Entries)
      OBVIOUS
    <3>. QED  BY <2>6, <3>1
  <2>. QED  BY <1>2, <2>1, <2>2, <2>5, <2>6, <2>7 DEF r
<1>. QED  BY <1>1, <1>2

\* The walk is defined at every cursor: one step, then the walk from there.
LEMMA WalkUnfolds ==
  ASSUME NEW m \in Media, NEW g, NEW w \in Nat
  PROVE  \A at \in Nat \X Nat : walk_from(m, g, w)[at] = WalkBody(m, g, w, at, walk_from(m, g, w))
<1> DEFINE D == Nat \X Nat
           s(d) == StepAt(m, g, w, d[1])
           h(d) == HeldAt(m, g, w, d[1])
           mu == [d \in D |-> d[2]]
           stop == [d \in D |-> d[2] = 0 \/ s(d) \notin 1 .. d[2]]
           next == [d \in D |-> <<wrapped(d[1] + s(d)), d[2] - s(d)>>]
           base == [d \in D |-> IF d[2] = 0 THEN IF d[1] = w THEN Passed(<<>>) ELSE Failed ELSE Failed]
           comb == [d \in D |-> [r \in Walks |->
                      IF ~r.ok \/ ~in_sequence(h(d), r.recs) THEN Failed
                      ELSE Passed(h(d) \o r.recs)]]
           Body(f) == [at \in Nat \X Nat |-> WalkBody(m, g, w, at, f)]
<1>1. \A d \in D : d[1] \in Nat /\ d[2] \in Nat /\ d = <<d[1], d[2]>>
  OBVIOUS
<1>2. \A d \in D : ~stop[d] => s(d) \in 1 .. d[2] /\ d[2] # 0
  OBVIOUS
<1>3. \A d \in D : ~stop[d] => h(d) \in Seq(Entries)
  BY <1>1, <1>2, StepTyped
<1>4. IsRecursion(D, Walks, mu, stop, next, base, comb)
  <2>1. mu \in [D -> Nat]
    BY <1>1
  <2>2. \A d \in D : stop[d] => base[d] \in Walks
    BY DEF Failed, Passed, Walks
  <2>3. ASSUME NEW d \in D, ~stop[d] PROVE next[d] \in D /\ mu[next[d]] < mu[d]
    <3>1. s(d) \in 1 .. d[2] /\ d[1] \in Nat /\ d[2] \in Nat
      BY <1>1, <1>2, <2>3
    <3>2. wrapped(d[1] + s(d)) \in Nat /\ d[2] - s(d) \in Nat /\ d[2] - s(d) < d[2]
      BY <3>1 DEF wrapped
    <3> HIDE DEF s
    <3>. QED  BY <3>2
  <2>4. ASSUME NEW d \in D, NEW v \in Walks, ~stop[d] PROVE comb[d][v] \in Walks
    <3>1. h(d) \in Seq(Entries)
      BY <1>3, <2>4
    <3> HIDE DEF h
    <3>. QED  BY <3>1 DEF Failed, Passed, Walks
  <2> HIDE DEF D, mu, stop, next, base, comb
  <2>. QED  BY <2>1, <2>2, <2>3, <2>4 DEF IsRecursion
<1>5. PICK f \in [D -> Walks] : Solves(f, D, stop, next, base, comb)
  <2> HIDE DEF D, mu, stop, next, base, comb
  <2>. QED  BY <1>4, RecursionExists
<1>6. \A d \in D : f[d] = WalkBody(m, g, w, d, f)
  <2> SUFFICES ASSUME NEW d \in D PROVE f[d] = WalkBody(m, g, w, d, f)
    OBVIOUS
  <2>1. f[d] = IF stop[d] THEN base[d] ELSE comb[d][f[next[d]]]
    BY <1>5 DEF Solves
  <2>2. ~stop[d] => f[next[d]] \in Walks
    BY <1>4, <1>5 DEF IsRecursion
  <2> DEFINE rest == f[<<wrapped(d[1] + s(d)), d[2] - s(d)>>]
  <2>3. WalkBody(m, g, w, d, f) =
          IF d[2] = 0 THEN IF d[1] = w THEN Passed(<<>>) ELSE Failed
          ELSE IF s(d) \notin 1 .. d[2] \/ ~rest.ok \/ ~in_sequence(h(d), rest.recs)
               THEN Failed ELSE Passed(h(d) \o rest.recs)
    BY DEF WalkBody, StepAt, HeldAt, Found
  <2>4. CASE d[2] = 0
    BY <2>1, <2>3, <2>4
  <2>5. CASE d[2] # 0 /\ s(d) \notin 1 .. d[2]
    <3>1. f[d] = Failed
      BY <2>1, <2>5
    <3> HIDE DEF s, rest, h
    <3>. QED  BY <2>3, <2>5, <3>1
  <2>6. CASE d[2] # 0 /\ s(d) \in 1 .. d[2]
    <3>1. rest \in Walks /\ f[d] = comb[d][rest]
      BY <2>1, <2>2, <2>6
    <3>2. f[d] = IF ~rest.ok \/ ~in_sequence(h(d), rest.recs) THEN Failed
                 ELSE Passed(h(d) \o rest.recs)
      <4> HIDE DEF rest, s, h
      <4>. QED  BY <3>1
    <3> HIDE DEF s, rest, h
    <3>. QED  BY <2>3, <2>6, <3>2
  <2>. QED  BY <2>4, <2>5, <2>6
<1>7. f = Body(f)
  BY <1>5, <1>6
<1>8. walk_from(m, g, w) = CHOOSE e : e = Body(e)
  BY Zenon DEF walk_from, WalkBody
<1>9. walk_from(m, g, w) = Body(walk_from(m, g, w))
  <2> HIDE DEF Body
  <2>. QED  BY <1>7, <1>8
<1>. QED  BY <1>9

\* The walk from a cursor, in terms of the walk from the next.
LEMMA WalkEnds ==
  ASSUME NEW m \in Media, NEW g, NEW w \in Nat, NEW x \in Nat
  PROVE  /\ Walk(m, g, w, x, 0) = IF x = w THEN Passed(<<>>) ELSE Failed
         /\ Walk(m, g, w, x, 0).ok <=> x = w
         /\ Walk(m, g, w, x, 0).recs = <<>>
<1>1. Walk(m, g, w, x, 0) = WalkBody(m, g, w, <<x, 0>>, walk_from(m, g, w))
  BY WalkUnfolds DEF Walk
<1>2. Walk(m, g, w, x, 0) = IF x = w THEN Passed(<<>>) ELSE Failed
  BY <1>1 DEF WalkBody
<1>. QED  BY <1>2 DEF Passed, Failed

\* One step of the loop of ring_validate_window: take the stride at the
\* position, and refuse when it overruns the window or breaks the sequence.
LEMMA WalkSteps ==
  ASSUME NEW m \in Media, NEW g, NEW w \in Nat, NEW x \in Nat, NEW o \in Nat, o # 0
  PROVE  LET s    == StepAt(m, g, w, x)
             h    == HeldAt(m, g, w, x)
             rest == Walk(m, g, w, wrapped(x + s), o - s)
         IN  Walk(m, g, w, x, o) =
               IF s \notin 1 .. o \/ ~rest.ok \/ ~in_sequence(h, rest.recs)
               THEN Failed ELSE Passed(h \o rest.recs)
<1>1. Walk(m, g, w, x, o) = WalkBody(m, g, w, <<x, o>>, walk_from(m, g, w))
  BY WalkUnfolds DEF Walk
<1>. QED  BY <1>1 DEF WalkBody, StepAt, HeldAt, Found, Walk

\* What the walk returns.
LEMMA WalkTyped ==
  ASSUME NEW m \in Media, NEW g, NEW w \in Nat
  PROVE  \A x, o \in Nat : Walk(m, g, w, x, o) \in Walks
<1> DEFINE T == {o \in Nat : \E x \in Nat : Walk(m, g, w, x, o) \notin Walks}
<1>1. SUFFICES ASSUME T # {} PROVE FALSE
  OBVIOUS
<1>2. PICK o \in T : \A y \in T : o <= y
  BY <1>1, LeastNat
<1>3. PICK x \in Nat : Walk(m, g, w, x, o) \notin Walks
  BY <1>2
<1>4. o # 0
  <2>1. Walk(m, g, w, x, 0) = IF x = w THEN Passed(<<>>) ELSE Failed
    BY WalkEnds
  <2>2. Passed(<<>>) \in Walks /\ Failed \in Walks
    BY DEF Walks, Passed, Failed
  <2>. QED  BY <1>2, <1>3, <2>1, <2>2
<1> DEFINE s == StepAt(m, g, w, x)
           h == HeldAt(m, g, w, x)
           rest == Walk(m, g, w, wrapped(x + s), o - s)
<1>5. Walk(m, g, w, x, o) = IF s \notin 1 .. o \/ ~rest.ok \/ ~in_sequence(h, rest.recs)
                            THEN Failed ELSE Passed(h \o rest.recs)
  BY <1>2, <1>3, <1>4, WalkSteps
<1>6. CASE s \in 1 .. o
  <2>1. h \in Seq(Entries)
    BY <1>3, <1>6, StepTyped
  <2>2. rest \in Walks
    <3>1. wrapped(x + s) \in Nat /\ o - s \in Nat /\ o - s < o
      BY <1>2, <1>3, <1>6 DEF wrapped
    <3> HIDE DEF s
    <3>. QED  BY <1>2, <3>1
  <2> HIDE DEF s, h, rest
  <2>. QED  BY <1>3, <1>5, <2>1, <2>2 DEF Walks, Failed, Passed
<1>7. CASE s \notin 1 .. o
  <2> HIDE DEF s, h, rest
  <2>. QED  BY <1>3, <1>5, <1>7 DEF Walks, Failed
<1>. QED  BY <1>6, <1>7

-----------------------------------------------------------------------------
Cursors == 0 .. Cap - 1

\* A record or padding ends inside the data area, padding at its end; a record
\* takes at least an overhead.
LEMMA Block ==
  ASSUME NEW m \in Media, NEW g, NEW w \in Cursors, NEW x \in Cursors, StepAt(m, g, w, x) # 0
  PROVE  /\ StepAt(m, g, w, x) \in 1 .. Cap /\ x + StepAt(m, g, w, x) <= Cap
         /\ in_end_gap(w, x) => /\ x + StepAt(m, g, w, x) = Cap
                                /\ HeldAt(m, g, w, x) = <<>>
         /\ ~in_end_gap(w, x) => StepAt(m, g, w, x) >= Overhead
         /\ wrapped(x + StepAt(m, g, w, x)) \in Cursors
<1> DEFINE s == StepAt(m, g, w, x)
<1>1. CASE in_end_gap(w, x)
  <2>1. s = Cap - x /\ HeldAt(m, g, w, x) = <<>>
    BY <1>1 DEF StepAt, HeldAt, stride, held
  <2> HIDE DEF s
  <2>. QED  BY <1>1, <2>1, CapNat DEF in_end_gap, wrapped, Cursors, s
<1>2. CASE ~in_end_gap(w, x)
  <2>1. /\ Found(m, g, x).d \in Headers /\ s = rec_alloc_bytes(Found(m, g, x).d.len)
        /\ RecordAt(m, Cap, x, Found(m, g, x).d, Found(m, g, x).v)
    BY <1>2, StepTyped, CapNat DEF Cursors
  <2>2. s \in Nat /\ s >= Overhead /\ x + s <= Cap
    BY <2>1, CapNat DEF rec_alloc_bytes, Headers, RecordAt
  <2> HIDE DEF s
  <2>. QED  BY <1>2, <2>2, CapNat DEF wrapped, Cursors, s
<1>. QED  BY <1>1, <1>2

\* A walk that holds passes over what lies at its cursor and holds from there.
Passes(m, g, w, x, o) ==
  LET s    == StepAt(m, g, w, x)
      h    == HeldAt(m, g, w, x)
      rest == Walk(m, g, w, wrapped(x + s), o - s)
  IN  /\ s \in 1 .. o /\ x + s <= Cap /\ wrapped(x + s) \in Cursors /\ o - s \in 0 .. Cap
      /\ h \in Seq(Entries) /\ rest \in Walks /\ rest.ok /\ in_sequence(h, rest.recs)
      /\ Walk(m, g, w, x, o) = Passed(h \o rest.recs)

\* A walk that succeeds passed its first position and succeeded on the rest.
LEMMA OkPasses ==
  ASSUME NEW m \in Media, NEW g, NEW w \in Cursors, NEW x \in Cursors, NEW o \in 1 .. Cap,
         Walk(m, g, w, x, o).ok
  PROVE  Passes(m, g, w, x, o)
<1> DEFINE s == StepAt(m, g, w, x)
           h == HeldAt(m, g, w, x)
           rest == Walk(m, g, w, wrapped(x + s), o - s)
<1>0. w \in Nat /\ x \in Nat /\ o \in Nat /\ o # 0 /\ o <= Cap /\ Cap \in Nat
  BY CapNat DEF Cursors
<1>1. Walk(m, g, w, x, o) = IF s \notin 1 .. o \/ ~rest.ok \/ ~in_sequence(h, rest.recs)
                            THEN Failed ELSE Passed(h \o rest.recs)
  BY <1>0, WalkSteps
<1>2. s \in 1 .. o /\ rest.ok /\ in_sequence(h, rest.recs) /\ Walk(m, g, w, x, o) = Passed(h \o rest.recs)
  <2> HIDE DEF s, h, rest
  <2>. QED  BY <1>1 DEF Failed
<1>3. x + s <= Cap /\ wrapped(x + s) \in Cursors /\ h \in Seq(Entries)
  BY <1>0, <1>2, Block, StepTyped
<1>4. o - s \in 0 .. Cap
  <2> HIDE DEF s
  <2>. QED  BY <1>0, <1>2
<1>5. rest \in Walks
  <2> HIDE DEF s
  <2>. QED  BY <1>0, <1>3, <1>4, WalkTyped DEF Cursors
<1> HIDE DEF s, h, rest
<1>. QED  BY <1>2, <1>3, <1>4, <1>5 DEF Passes, s, h, rest

\* What holds where the walk may end, and of every cursor where it holds of the
\* next, holds of every walk that reaches its end.
LEMMA WalkInduction ==
  ASSUME NEW m \in Media, NEW g, NEW w \in Cursors, NEW S, <<w, 0>> \in S,
         \A x \in Cursors, o \in 1 .. Cap :
            /\ Passes(m, g, w, x, o)
            /\ <<wrapped(x + StepAt(m, g, w, x)), o - StepAt(m, g, w, x)>> \in S
            => <<x, o>> \in S
  PROVE  \A x \in Cursors, o \in 0 .. Cap : Walk(m, g, w, x, o).ok => <<x, o>> \in S
<1> DEFINE T == {o \in 0 .. Cap : \E x \in Cursors : Walk(m, g, w, x, o).ok /\ <<x, o>> \notin S}
<1>1. SUFFICES ASSUME T # {} PROVE FALSE
  OBVIOUS
<1>2. PICK o \in T : \A y \in T : o <= y
  <2>1. T \subseteq Nat
    BY CapNat
  <2> HIDE DEF T
  <2>. QED  BY <1>1, <2>1, LeastNat
<1>3. PICK x \in Cursors : Walk(m, g, w, x, o).ok /\ <<x, o>> \notin S
  BY <1>2
<1>4. o # 0
  <2>1. x \in Nat /\ w \in Nat
    BY CapNat DEF Cursors
  <2>2. Walk(m, g, w, x, 0).ok => x = w
    BY <2>1, WalkEnds
  <2>3. ASSUME o = 0 PROVE FALSE
    <3>1. Walk(m, g, w, x, 0).ok /\ <<x, 0>> \notin S
      BY <1>3, <2>3
    <3>. QED  BY <2>2, <3>1
  <2>. QED  BY <2>3
<1>5. Passes(m, g, w, x, o)
  BY <1>2, <1>3, <1>4, OkPasses, CapNat
<1> DEFINE s == StepAt(m, g, w, x)
<1>6. <<wrapped(x + s), o - s>> \notin S
  BY <1>2, <1>3, <1>4, <1>5, CapNat
<1>7. /\ wrapped(x + s) \in Cursors /\ o - s \in 0 .. Cap /\ s \in 1 .. o
      /\ Walk(m, g, w, wrapped(x + s), o - s).ok
  BY <1>5 DEF Passes
<1>8. o - s \in T /\ o - s < o
  <2> HIDE DEF s
  <2>. QED  BY <1>2, <1>6, <1>7
<1>. QED  BY <1>2, <1>8, CapNat

\* A walk that holds ends at the write pointer.
LEMMA WalkReaches ==
  ASSUME NEW m \in Media, NEW g, NEW w \in Cursors
  PROVE  \A x \in Cursors, o \in 0 .. Cap :
            Walk(m, g, w, x, o).ok => x + o = w \/ x + o = w + Cap
<1> DEFINE S == {d \in Cursors \X (0 .. Cap) : d[1] + d[2] = w \/ d[1] + d[2] = w + Cap}
<1>1. <<w, 0>> \in S
  BY CapNat DEF Cursors
<1>2. ASSUME NEW x \in Cursors, NEW o \in 1 .. Cap, Passes(m, g, w, x, o),
             <<wrapped(x + StepAt(m, g, w, x)), o - StepAt(m, g, w, x)>> \in S
      PROVE  <<x, o>> \in S
  <2> DEFINE s == StepAt(m, g, w, x)
  <2>1. s \in 1 .. o /\ x + s <= Cap
    BY <1>2 DEF Passes
  <2>2. wrapped(x + s) + (o - s) = w \/ wrapped(x + s) + (o - s) = w + Cap
    BY <1>2
  <2> HIDE DEF s
  <2>3. x + o = w \/ x + o = w + Cap
    BY <2>1, <2>2, CapNat DEF wrapped, Cursors
  <2>. QED  BY <2>3, CapNat DEF Cursors
<1> HIDE DEF S
<1>3. \A x \in Cursors, o \in 0 .. Cap : Walk(m, g, w, x, o).ok => <<x, o>> \in S
  BY <1>1, <1>2, WalkInduction
<1>. QED  BY <1>3 DEF S

\* A walk meets at most one record at a cursor.
LEMMA HeldLen ==
  ASSUME NEW h, h = <<>> \/ \E e \in Entries : h = <<e>>
  PROVE  Len(h) \in {0, 1} /\ (Len(h) = 0 => h = <<>>) /\ (h = <<>> => Len(h) = 0)
<1>1. CASE h = <<>>
  BY <1>1
<1>2. CASE \E e \in Entries : h = <<e>>
  BY <1>2
<1>. QED  BY <1>1, <1>2

\* Every record it delivers takes an overhead of the cells it passes over.
LEMMA WalkHolds ==
  ASSUME NEW m \in Media, NEW g, NEW w \in Cursors
  PROVE  \A x \in Cursors, o \in 0 .. Cap :
            Walk(m, g, w, x, o).ok => Len(Walk(m, g, w, x, o).recs) * Overhead <= o
<1> DEFINE P(x, o) == Len(Walk(m, g, w, x, o).recs) * Overhead <= o
           S == {d \in Cursors \X (0 .. Cap) : P(d[1], d[2])}
<1>1. <<w, 0>> \in S
  <2>1. Walk(m, g, w, w, 0).recs = <<>>
    BY WalkEnds, CapNat DEF Cursors
  <2>2. Len(<<>>) = 0 /\ 0 * Overhead = 0 /\ w \in Cursors /\ 0 \in 0 .. Cap
    BY CapNat
  <2>3. P(w, 0)
    BY <2>1, <2>2
  <2> HIDE DEF P
  <2>. QED  BY <2>2, <2>3
<1>2. ASSUME NEW x \in Cursors, NEW o \in 1 .. Cap, Passes(m, g, w, x, o),
             <<wrapped(x + StepAt(m, g, w, x)), o - StepAt(m, g, w, x)>> \in S
      PROVE  <<x, o>> \in S
  <2> DEFINE s == StepAt(m, g, w, x)
             h == HeldAt(m, g, w, x)
             rest == Walk(m, g, w, wrapped(x + s), o - s)
  <2>1. /\ s \in 1 .. o /\ h \in Seq(Entries) /\ rest.recs \in Seq(Entries)
        /\ Walk(m, g, w, x, o).recs = h \o rest.recs
    BY <1>2 DEF Passes, Walks, Passed
  <2>2. P(wrapped(x + s), o - s)
    <3> HIDE DEF P, s
    <3>. QED  BY <1>2 DEF s
  <2>3. Len(h) \in {0, 1} /\ (Len(h) = 0 \/ s >= Overhead)
    <3>1. s # 0 /\ x \in Nat /\ w \in Nat
      BY <2>1, CapNat DEF Cursors
    <3>2. h = <<>> \/ \E e \in Entries : h = <<e>>
      BY <3>1, StepTyped
    <3>3. s >= Overhead \/ h = <<>>
      BY <3>1, Block
    <3> HIDE DEF h, s
    <3>4. Len(h) \in {0, 1} /\ (h = <<>> => Len(h) = 0)
      BY <3>2, HeldLen, Zenon
    <3>. QED  BY <3>3, <3>4, Zenon
  <2>8. Len(rest.recs) * Overhead <= o - s
    BY <2>2
  <2> HIDE DEF s, h, rest
  <2>4. Len(h \o rest.recs) = Len(h) + Len(rest.recs) /\ Len(rest.recs) \in Nat
    BY <2>1
  <2>5. ASSUME NEW a \in Nat, NEW l \in Nat, a \in {0, 1}, a = 0 \/ s >= Overhead,
             l * Overhead <= o - s
        PROVE  (a + l) * Overhead <= o
    <3>1. CASE a = 0
      <4>1. a + l = l
        BY <3>1
      <4>. QED  BY <2>1, <2>5, <4>1, CapNat
    <3>2. CASE a = 1
      <4>1. (1 + l) * Overhead = Overhead + l * Overhead /\ l * Overhead \in Int
        BY CapNat
      <4>. QED  BY <2>1, <2>5, <3>2, <4>1, CapNat
    <3>. QED  BY <2>5, <3>1, <3>2
  <2>6. Len(h \o rest.recs) * Overhead <= o
    <3>1. Len(h) \in Nat
      BY <2>1
    <3>2. (Len(h) + Len(rest.recs)) * Overhead <= o
      BY <2>8, <2>3, <2>4, <2>5, <3>1
    <3>. QED  BY <2>4, <3>2
  <2>7. P(x, o)
    BY <2>1, <2>6, Zenon
  <2> HIDE DEF P
  <2>. QED  BY <2>7, CapNat
<1> HIDE DEF S, P
<1>3. \A x \in Cursors, o \in 0 .. Cap : Walk(m, g, w, x, o).ok => <<x, o>> \in S
  BY <1>1, <1>2, WalkInduction
<1>4. \A x \in Cursors, o \in 0 .. Cap : Walk(m, g, w, x, o).ok => P(x, o)
  BY <1>3 DEF S
<1>. QED  BY <1>4 DEF P

-----------------------------------------------------------------------------
\* Sequences that begin with the record a walk delivers first.
LEMMA Prefixed ==
  ASSUME NEW h \in Seq(Entries), h = <<>> \/ \E e \in Entries : h = <<e>>,
         NEW R \in Seq(Entries), NEW T \in Seq(Entries)
  PROVE  /\ h \o R \in Seq(Entries) /\ R \o T \in Seq(Entries) /\ <<>> \o R = R /\ R \o <<>> = R
         /\ (h \o R) \o T = h \o (R \o T)
         /\ h # <<>> => h \o R # <<>> /\ Head(h \o R) = Head(h)
         /\ R # <<>> => h \o R # <<>> /\ Last(h \o R) = Last(R)
         /\ R # <<>> => R \o T # <<>> /\ Head(R \o T) = Head(R)
         /\ T # <<>> => R \o T # <<>> /\ Last(R \o T) = Last(T)
         /\ h # <<>> => Head(h) = Last(h) /\ Len(h) = 1
<1> USE DEF Last
<1>1. /\ h \o R \in Seq(Entries) /\ R \o T \in Seq(Entries) /\ <<>> \o R = R /\ R \o <<>> = R
  OBVIOUS
<1>2. (h \o R) \o T = h \o (R \o T)
  OBVIOUS
<1>3. h # <<>> => h \o R # <<>> /\ Head(h \o R) = Head(h)
  OBVIOUS
<1>4. R # <<>> => h \o R # <<>> /\ Last(h \o R) = Last(R)
  OBVIOUS
<1>5. R # <<>> => R \o T # <<>> /\ Head(R \o T) = Head(R)
  OBVIOUS
<1>6. T # <<>> => R \o T # <<>> /\ Last(R \o T) = Last(T)
  OBVIOUS
<1>7. h # <<>> => Head(h) = Last(h) /\ Len(h) = 1
  OBVIOUS
<1>. QED  BY <1>1, <1>2, <1>3, <1>4, <1>5, <1>6, <1>7

-----------------------------------------------------------------------------
\* Too close to the data limit for a record.
EndZone(x) == x # 0 /\ Cap - x < Overhead

\* A walk passes over such cells as padding only.
LEMMA EndZoneIsGap ==
  ASSUME NEW m \in Media, NEW g, NEW w \in Cursors, NEW x \in Cursors, EndZone(x),
         StepAt(m, g, w, x) # 0
  PROVE  in_end_gap(w, x) /\ w < x
<1>1. ~in_end_gap(w, x) => StepAt(m, g, w, x) >= Overhead
  BY Block
<1>2. StepAt(m, g, w, x) \in 1 .. Cap /\ x + StepAt(m, g, w, x) <= Cap
  BY Block
<1>3. in_end_gap(w, x)
  BY <1>1, <1>2, CapNat DEF EndZone, Cursors
<1>. QED  BY <1>3 DEF in_end_gap

\* Two walks that agree on what is padding do the same at a cursor.
LEMMA SameStep ==
  ASSUME NEW m, NEW g, NEW w, NEW m2, NEW w2, NEW x,
         in_end_gap(w2, x) <=> in_end_gap(w, x),
         in_end_gap(w, x) \/ Found(m2, g, x) = Found(m, g, x)
  PROVE  StepAt(m2, g, w2, x) = StepAt(m, g, w, x) /\ HeldAt(m2, g, w2, x) = HeldAt(m, g, w, x)
BY Zenon DEF StepAt, HeldAt, stride, held

\* The record that follows a sequence continues its numbering.
Continues(R, h) == R # <<>> /\ h # <<>> => Head(h).seq = NextSeq(Last(R).seq)

\* Prefixing the first record of a walk leaves the sequence numbers in order.
LEMMA ContinuesPrefixed ==
  ASSUME NEW f \in Seq(Entries), f = <<>> \/ \E e \in Entries : f = <<e>>,
         NEW R \in Seq(Entries), NEW h \in Seq(Entries),
         in_sequence(f, R), Continues(f \o R, h)
  PROVE  Continues(R, h) /\ in_sequence(f, R \o h) /\ f \o (R \o h) = (f \o R) \o h
<1>1. Continues(R, h)
  BY Prefixed DEF Continues
<1>2. in_sequence(f, R \o h)
  <2>1. CASE f = <<>>
    BY <2>1 DEF in_sequence
  <2>2. CASE f # <<>> /\ R # <<>>
    BY <2>2, Prefixed DEF in_sequence
  <2>3. CASE f # <<>> /\ R = <<>>
    <3>1. R \o h = h /\ f \o R = f /\ Head(f) = Last(f)
      <4>1. <<>> \o h = h /\ f \o <<>> = f
        OBVIOUS
      <4>. QED  BY <2>3, <4>1, Prefixed
    <3>2. h = <<>> \/ Head(h).seq = NextSeq(Head(f).seq)
      <4> HIDE DEF NextSeq
      <4>. QED  BY <2>3, <3>1, Zenon DEF Continues
    <3>. QED  BY <3>1, <3>2, Zenon DEF in_sequence
  <2>. QED  BY <2>1, <2>2, <2>3
<1>. QED  BY <1>1, <1>2, Prefixed

\* What a record or padding at the write pointer adds to every walk that ends
\* there: the walks go on to the new write pointer and deliver it too.
LEMMA WalkGrows ==
  ASSUME NEW m \in Media, NEW g, NEW w \in Cursors, NEW w2 \in Cursors,
         StepAt(m, g, w2, w) # 0, w2 = wrapped(w + StepAt(m, g, w2, w))
  PROVE  LET s == StepAt(m, g, w2, w)
             h == HeldAt(m, g, w2, w)
         IN  \A x \in Cursors, o \in 0 .. Cap :
               /\ Walk(m, g, w, x, o).ok
               /\ o + s <= Cap /\ (o + s < Cap \/ ~EndZone(x))
               /\ Continues(Walk(m, g, w, x, o).recs, h)
               => Walk(m, g, w2, x, o + s) = Passed(Walk(m, g, w, x, o).recs \o h)
<1> DEFINE s == StepAt(m, g, w2, w)
           h == HeldAt(m, g, w2, w)
           R(x, o) == Walk(m, g, w, x, o).recs
           P(x, o) == /\ o + s <= Cap /\ (o + s < Cap \/ ~EndZone(x))
                      /\ Continues(R(x, o), h)
                      => Walk(m, g, w2, x, o + s) = Passed(R(x, o) \o h)
           S == {d \in Cursors \X (0 .. Cap) : P(d[1], d[2])}
<1>0. /\ s \in 1 .. Cap /\ w + s <= Cap /\ h \in Seq(Entries)
      /\ w \in Nat /\ w2 \in Nat /\ \A x \in Cursors : x \in Nat
  BY Block, StepTyped, CapNat DEF Cursors
<1>1. P(w, 0)
  <2>1. R(w, 0) = <<>>
    BY <1>0, WalkEnds
  <2>2. Walk(m, g, w2, w2, 0) = Passed(<<>>)
    BY <1>0, WalkEnds
  <2>3. Walk(m, g, w2, w, s) =
          IF s \notin 1 .. s \/ ~Walk(m, g, w2, w2, s - s).ok
             \/ ~in_sequence(h, Walk(m, g, w2, w2, s - s).recs)
          THEN Failed ELSE Passed(h \o Walk(m, g, w2, w2, s - s).recs)
    BY <1>0, WalkSteps
  <2> HIDE DEF s, h
  <2>4. s - s = 0 /\ s \in 1 .. s /\ 0 + s = s
    BY <1>0
  <2>5. Passed(<<>>).ok /\ Passed(<<>>).recs = <<>>
    BY DEF Passed
  <2>6. in_sequence(h, <<>>)
    BY DEF in_sequence
  <2>7. Walk(m, g, w2, w, s) = Passed(h \o <<>>)
    BY <2>2, <2>3, <2>4, <2>5, <2>6, Zenon
  <2>8. h \o <<>> = <<>> \o h
    BY <1>0
  <2>. QED  BY <2>1, <2>4, <2>7, <2>8, Zenon
<1>2. ASSUME NEW x \in Cursors, NEW o \in 1 .. Cap, Passes(m, g, w, x, o),
             P(wrapped(x + StepAt(m, g, w, x)), o - StepAt(m, g, w, x))
      PROVE  P(x, o)
  <2> DEFINE s1 == StepAt(m, g, w, x)
             h1 == HeldAt(m, g, w, x)
             y  == wrapped(x + s1)
             rest == Walk(m, g, w, y, o - s1)
  <2>1. /\ s1 \in 1 .. o /\ x + s1 <= Cap /\ y \in Cursors /\ o - s1 \in 0 .. Cap
        /\ h1 \in Seq(Entries) /\ rest.recs \in Seq(Entries) /\ rest.ok
        /\ in_sequence(h1, rest.recs) /\ Walk(m, g, w, x, o) = Passed(h1 \o rest.recs)
    BY <1>2 DEF Passes, Walks
  <2>2. Walk(m, g, w, x, o).ok /\ R(x, o) = h1 \o rest.recs
    <3> HIDE DEF h1, rest
    <3>. QED  BY <2>1 DEF Passed
  <2>3. SUFFICES ASSUME o + s <= Cap, o + s < Cap \/ ~EndZone(x), Continues(R(x, o), h)
                 PROVE  Walk(m, g, w2, x, o + s) = Passed(R(x, o) \o h)
    OBVIOUS
  <2>4. x + o = w \/ x + o = w + Cap
    BY <2>2, WalkReaches, CapNat
  <2>5. EndZone(x) => in_end_gap(w, x) /\ w < x
    BY <2>1, EndZoneIsGap
  <2>6. in_end_gap(w2, x) <=> in_end_gap(w, x)
    <3>1. w2 = IF w + s >= Cap THEN 0 ELSE w + s
      BY DEF wrapped
    <3> HIDE DEF s, s1
    <3>2. ASSUME EndZone(x) PROVE in_end_gap(w2, x)
      BY <1>0, <2>3, <2>4, <2>5, <3>1, <3>2, CapNat DEF in_end_gap, EndZone, Cursors
    <3>3. in_end_gap(w2, x) => EndZone(x)
      BY DEF in_end_gap, EndZone
    <3>4. in_end_gap(w, x) => EndZone(x)
      BY DEF in_end_gap, EndZone
    <3>. QED  BY <2>5, <3>2, <3>3, <3>4
  <2>7. StepAt(m, g, w2, x) = s1 /\ HeldAt(m, g, w2, x) = h1
    BY <2>6, SameStep
  <2>8. h1 = <<>> \/ \E e \in Entries : h1 = <<e>>
    BY <1>0, <2>1, StepTyped
  <2>9. Walk(m, g, w2, x, o + s) =
          IF s1 \notin 1 .. o + s \/ ~Walk(m, g, w2, y, (o + s) - s1).ok
             \/ ~in_sequence(h1, Walk(m, g, w2, y, (o + s) - s1).recs)
          THEN Failed ELSE Passed(h1 \o Walk(m, g, w2, y, (o + s) - s1).recs)
    <3>1. o + s \in Nat /\ o + s # 0
      BY <1>0
    <3>. QED  BY <1>0, <2>7, <3>1, WalkSteps
  <2> HIDE DEF s, h, s1, h1, y
  <2>10. /\ (o + s) - s1 = (o - s1) + s /\ s1 \in 1 .. o + s
         /\ (o - s1) + s < Cap
    BY <1>0, <2>1, <2>3, CapNat
  <2>11. /\ Continues(rest.recs, h) /\ in_sequence(h1, rest.recs \o h)
         /\ h1 \o (rest.recs \o h) = (h1 \o rest.recs) \o h
    <3>1. Continues(h1 \o rest.recs, h)
      BY <2>2, <2>3, Zenon
    <3>2. h \in Seq(Entries)
      BY <1>0
    <3> HIDE DEF rest
    <3>. QED  BY <2>1, <2>8, <3>1, <3>2, ContinuesPrefixed
  <2>12. Walk(m, g, w2, y, (o + s) - s1) = Passed(rest.recs \o h)
    <3>1. P(y, o - s1)
      BY <1>2 DEF s1, y
    <3>2. (o - s1) + s <= Cap /\ (o - s1) + s < Cap
      BY <1>0, <2>1, <2>10, CapNat
    <3>. QED  BY <2>10, <2>11, <3>1, <3>2
  <2>13. Walk(m, g, w2, x, o + s) = Passed(h1 \o (rest.recs \o h))
    <3>1. Passed(rest.recs \o h).ok /\ Passed(rest.recs \o h).recs = rest.recs \o h
      BY DEF Passed
    <3>. QED  BY <2>9, <2>10, <2>11, <2>12, <3>1, Zenon
  <2>. QED  BY <2>2, <2>11, <2>13
<1> HIDE DEF P
<1>3. <<w, 0>> \in S
  BY <1>1, CapNat
<1>4. \A x \in Cursors, o \in 1 .. Cap :
        /\ Passes(m, g, w, x, o)
        /\ <<wrapped(x + StepAt(m, g, w, x)), o - StepAt(m, g, w, x)>> \in S
        => <<x, o>> \in S
  BY <1>2, CapNat
<1> HIDE DEF S
<1>5. \A x \in Cursors, o \in 0 .. Cap : Walk(m, g, w, x, o).ok => <<x, o>> \in S
  BY <1>3, <1>4, WalkInduction
<1>6. \A x \in Cursors, o \in 0 .. Cap : Walk(m, g, w, x, o).ok => P(x, o)
  BY <1>5 DEF S
<1>. QED  BY <1>6 DEF P

-----------------------------------------------------------------------------
\* A walk past the data limit is a walk to the limit and one from the start.
LEMMA WalkSplits ==
  ASSUME NEW m \in Media, NEW g, NEW w \in Cursors
  PROVE  \A x \in Cursors, o \in 0 .. Cap :
            Walk(m, g, w, x, o).ok /\ x + o = w + Cap /\ w <= x =>
              LET A == Walk(m, g, 0, x, Cap - x)
                  B == Walk(m, g, w, 0, w)
              IN  A.ok /\ B.ok /\ Walk(m, g, w, x, o).recs = A.recs \o B.recs
<1> DEFINE A(x) == Walk(m, g, 0, x, Cap - x)
           B == Walk(m, g, w, 0, w)
           P(x, o) == x + o = w + Cap /\ w <= x =>
                        A(x).ok /\ B.ok /\ Walk(m, g, w, x, o).recs = A(x).recs \o B.recs
           S == {d \in Cursors \X (0 .. Cap) : P(d[1], d[2])}
<1>0. w \in Nat /\ 0 \in Cursors /\ \A x \in Cursors : x \in Nat
  BY CapNat DEF Cursors
<1>1. P(w, 0)
  BY <1>0, CapNat
<1>2. ASSUME NEW x \in Cursors, NEW o \in 1 .. Cap, Passes(m, g, w, x, o),
             P(wrapped(x + StepAt(m, g, w, x)), o - StepAt(m, g, w, x))
      PROVE  P(x, o)
  <2> DEFINE s == StepAt(m, g, w, x)
             h == HeldAt(m, g, w, x)
             y == wrapped(x + s)
             rest == Walk(m, g, w, y, o - s)
  <2>1. /\ s \in 1 .. o /\ x + s <= Cap /\ y \in Cursors /\ o - s \in 0 .. Cap
        /\ h \in Seq(Entries) /\ rest.recs \in Seq(Entries) /\ rest.ok
        /\ in_sequence(h, rest.recs) /\ Walk(m, g, w, x, o) = Passed(h \o rest.recs)
    BY <1>2 DEF Passes, Walks
  <2>2. Walk(m, g, w, x, o).recs = h \o rest.recs
    <3> HIDE DEF h, rest
    <3>. QED  BY <2>1 DEF Passed
  <2>3. SUFFICES ASSUME x + o = w + Cap, w <= x
                 PROVE  A(x).ok /\ B.ok /\ Walk(m, g, w, x, o).recs = A(x).recs \o B.recs
    OBVIOUS
  <2>4. in_end_gap(0, x) <=> in_end_gap(w, x)
    <3>1. EndZone(x) => in_end_gap(w, x)
      BY <2>1, EndZoneIsGap
    <3>. QED  BY <1>0, <3>1, CapNat DEF in_end_gap, EndZone, Cursors
  <2>5. StepAt(m, g, 0, x) = s /\ HeldAt(m, g, 0, x) = h
    BY <2>4, SameStep
  <2>6. h = <<>> \/ \E e \in Entries : h = <<e>>
    BY <1>0, <2>1, StepTyped
  <2>7. A(x) = IF s \notin 1 .. Cap - x \/ ~Walk(m, g, 0, y, (Cap - x) - s).ok
                  \/ ~in_sequence(h, Walk(m, g, 0, y, (Cap - x) - s).recs)
               THEN Failed ELSE Passed(h \o Walk(m, g, 0, y, (Cap - x) - s).recs)
    <3>1. Cap - x \in Nat /\ Cap - x # 0 /\ 0 \in Nat
      BY CapNat DEF Cursors
    <3>. QED  BY <1>0, <2>5, <3>1, WalkSteps
  <2>8. s \in 1 .. Cap - x
    <3> HIDE DEF s
    <3>. QED  BY <1>0, <2>1, CapNat
  <2>9. CASE x + s < Cap
    <3>1. y = x + s /\ (Cap - x) - s = Cap - y /\ y + (o - s) = w + Cap /\ w <= y
      <4>1. y = x + s
        <5>1. ~(x + s >= Cap)
          <6> HIDE DEF s
          <6>. QED  BY <1>0, <2>1, <2>9, CapNat
        <5>. QED  BY <5>1 DEF wrapped
      <4> HIDE DEF s, y
      <4>. QED  BY <1>0, <2>1, <2>3, <4>1, CapNat
    <3>2. A(y).ok /\ B.ok /\ rest.recs = A(y).recs \o B.recs
      BY <1>2, <3>1
    <3>3. A(y).recs \in Seq(Entries) /\ B.recs \in Seq(Entries)
      <4>1. Cap - y \in Nat /\ y \in Nat
        BY <2>1, CapNat DEF Cursors
      <4>. QED  BY <1>0, <4>1, WalkTyped DEF Walks
    <3>4. in_sequence(h, A(y).recs)
      <4>1. h \in Seq(Entries) /\ in_sequence(h, rest.recs)
        BY <2>1
      <4> HIDE DEF h, A, y, B, rest
      <4>2. in_sequence(h, A(y).recs \o B.recs)
        BY <3>2, <4>1, Zenon
      <4>3. A(y).recs # <<>> => /\ A(y).recs \o B.recs # <<>>
                               /\ Head(A(y).recs \o B.recs) = Head(A(y).recs)
        BY <2>6, <3>3, <4>1, Prefixed
      <4>. QED  BY <4>2, <4>3, Zenon DEF in_sequence
    <3>5. A(x) = Passed(h \o A(y).recs)
      <4>1. Walk(m, g, 0, y, (Cap - x) - s) = A(y)
        BY <3>1
      <4> HIDE DEF s, h, A, y
      <4>. QED  BY <2>7, <2>8, <3>2, <3>4, <4>1, Zenon
    <3>6. A(x).ok /\ A(x).recs = h \o A(y).recs
      <4> HIDE DEF h, A, y
      <4>. QED  BY <3>5 DEF Passed
    <3>7. h \o (A(y).recs \o B.recs) = (h \o A(y).recs) \o B.recs
      <4>1. h \in Seq(Entries)
        BY <2>1
      <4> DEFINE RA == A(y).recs
                 RB == B.recs
      <4>2. RA \in Seq(Entries) /\ RB \in Seq(Entries)
        BY <3>3
      <4> HIDE DEF h, RA, RB
      <4>3. h \o (RA \o RB) = (h \o RA) \o RB
        BY <2>6, <4>1, <4>2, Prefixed
      <4>. QED  BY <4>3 DEF RA, RB
    <3> HIDE DEF A, B, rest, h, y
    <3>. QED  BY <2>2, <3>2, <3>6, <3>7, Zenon
  <2>10. CASE x + s = Cap
    <3>1. y = 0 /\ (Cap - x) - s = 0 /\ o - s = w
      <4>1. y = 0
        BY <2>10, CapNat DEF wrapped
      <4> HIDE DEF s, y
      <4>. QED  BY <1>0, <2>1, <2>3, <2>10, <4>1, CapNat
    <3>2. rest = B
      BY <3>1
    <3>3. Walk(m, g, 0, 0, 0).ok /\ Walk(m, g, 0, 0, 0).recs = <<>>
      BY <1>0, WalkEnds
    <3>4. A(x) = Passed(h \o <<>>)
      <4>1. Walk(m, g, 0, y, (Cap - x) - s) = Walk(m, g, 0, 0, 0)
        BY <3>1
      <4>2. in_sequence(h, <<>>)
        BY DEF in_sequence
      <4> HIDE DEF s, h, A, y
      <4>. QED  BY <2>7, <2>8, <3>3, <4>1, <4>2, Zenon
    <3>5. A(x).ok /\ A(x).recs = h
      <4>1. h \o <<>> = h
        BY <2>1
      <4> HIDE DEF h, A
      <4>. QED  BY <3>4, <4>1 DEF Passed
    <3> HIDE DEF A, B, rest, h, y
    <3>. QED  BY <2>1, <2>2, <3>2, <3>5, Zenon
  <2>11. x + s < Cap \/ x + s = Cap
    <3> HIDE DEF s
    <3>. QED  BY <1>0, <2>1, CapNat
  <2>. QED  BY <2>9, <2>10, <2>11
<1> HIDE DEF P
<1>3. <<w, 0>> \in S
  BY <1>1, CapNat
<1>4. \A x \in Cursors, o \in 1 .. Cap :
        /\ Passes(m, g, w, x, o)
        /\ <<wrapped(x + StepAt(m, g, w, x)), o - StepAt(m, g, w, x)>> \in S
        => <<x, o>> \in S
  BY <1>2, CapNat
<1> HIDE DEF S
<1>5. \A x \in Cursors, o \in 0 .. Cap : Walk(m, g, w, x, o).ok => <<x, o>> \in S
  BY <1>3, <1>4, WalkInduction
<1>6. \A x \in Cursors, o \in 0 .. Cap : Walk(m, g, w, x, o).ok => P(x, o)
  BY <1>5 DEF S
<1>. QED  BY <1>6 DEF P, A, B

-----------------------------------------------------------------------------
\* A record on media that differ from others in erased cells only lies on these
\* too.
LEMMA RecordAgrees ==
  ASSUME NEW n, NEW b \in Nat, NEW d, d.len \in Nat, NEW p, NEW m, NEW m2,
         RecordAt(m2, n, b, d, p),
         \A i \in b .. b + rec_alloc_bytes(d.len) - 1 : m2[i] = m[i] \/ m2[i] = Erased
  PROVE  RecordAt(m, n, b, d, p)
<1>1. \A k \in 1 .. HdrCells : b + k - 1 \in b .. b + rec_alloc_bytes(d.len) - 1
  BY CapNat DEF rec_alloc_bytes
<1>2. \A k \in 1 .. d.len : b + HdrCells + k - 1 \in b .. b + rec_alloc_bytes(d.len) - 1
  BY CapNat DEF rec_alloc_bytes
<1>3. /\ b + HdrCells + d.len \in b .. b + rec_alloc_bytes(d.len) - 1
      /\ b + HdrCells + d.len + 1 \in b .. b + rec_alloc_bytes(d.len) - 1
  BY CapNat DEF rec_alloc_bytes
<1>4. HeaderAt(m, b, d)
  BY <1>1, CellKinds DEF RecordAt, HeaderAt
<1>5. BodyAt(m, b, d, p)
  BY <1>2, CellKinds DEF RecordAt, BodyAt
<1>6. m[b + HdrCells + d.len] = CrcCell(d, p) /\ m[b + HdrCells + d.len + 1] = Commit
  BY <1>3, CellKinds DEF RecordAt
<1>. QED  BY <1>4, <1>5, <1>6 DEF RecordAt

\* A record that lies on the media is found.
LEMMA RecordFound ==
  ASSUME NEW m \in Media, NEW x \in Nat, NEW d, d.len \in Nat, NEW p, RecordAt(m, Cap, x, d, p)
  PROVE  Found(m, d.gen, x) = [res |-> "VALID", d |-> d, v |-> p]
<1>1. DOMAIN m = 0 .. Cap - 1
  BY DEF Media
<1>2. Cap \in Nat /\ RegionSize \in Nat /\ Cap <= RegionSize
  BY CapNat
<1>3. verify_record(m, x, d.gen, RegionSize) = [res |-> "VALID", d |-> d, v |-> p]
  BY <1>1, <1>2, RecordIsValid
<1>. QED  BY <1>3 DEF Found

\* The cells a walk passes over.
InWindow(i, x, o) == (x <= i /\ i < x + o) \/ i < x + o - Cap

\* Erasing cells can stop a walk, and cannot make it deliver anything else; what
\* changes outside its cells it does not see.
LEMMA WalkSees ==
  ASSUME NEW m \in Media, NEW m2 \in Media, NEW g, NEW w \in Cursors
  PROVE  \A x \in Cursors, o \in 0 .. Cap :
            /\ Walk(m2, g, w, x, o).ok
            /\ \A i \in Cursors : InWindow(i, x, o) => m2[i] = m[i] \/ m2[i] = Erased
            => Walk(m, g, w, x, o) = Walk(m2, g, w, x, o)
<1> DEFINE Sees(x, o) == \A i \in Cursors : InWindow(i, x, o) => m2[i] = m[i] \/ m2[i] = Erased
           P(x, o) == Sees(x, o) => Walk(m, g, w, x, o) = Walk(m2, g, w, x, o)
           S == {d \in Cursors \X (0 .. Cap) : P(d[1], d[2])}
<1>0. w \in Nat /\ 0 \in Cursors /\ \A x \in Cursors : x \in Nat
  BY CapNat DEF Cursors
<1>1. P(w, 0)
  BY <1>0, WalkEnds
<1>2. ASSUME NEW x \in Cursors, NEW o \in 1 .. Cap, Passes(m2, g, w, x, o),
             P(wrapped(x + StepAt(m2, g, w, x)), o - StepAt(m2, g, w, x)), Sees(x, o)
      PROVE  Walk(m, g, w, x, o) = Walk(m2, g, w, x, o)
  <2> DEFINE s == StepAt(m2, g, w, x)
             h == HeldAt(m2, g, w, x)
             y == wrapped(x + s)
             rest == Walk(m2, g, w, y, o - s)
  <2>1. /\ s \in 1 .. o /\ x + s <= Cap /\ y \in Cursors /\ o - s \in 0 .. Cap
        /\ rest.ok /\ in_sequence(h, rest.recs) /\ Walk(m2, g, w, x, o) = Passed(h \o rest.recs)
    BY <1>2 DEF Passes, Walks
  <2>2. Sees(y, o - s)
    <3> SUFFICES ASSUME NEW i \in Cursors, InWindow(i, y, o - s) PROVE InWindow(i, x, o)
      BY <1>2
    <3>1. y = IF x + s >= Cap THEN 0 ELSE x + s
      BY DEF wrapped
    <3>2. (y <= i /\ i < y + (o - s)) \/ i < y + (o - s) - Cap
      BY DEF InWindow
    <3> HIDE DEF s, y
    <3>. QED  BY <1>0, <2>1, <3>1, <3>2, CapNat DEF InWindow, Cursors
  <2>3. rest = Walk(m, g, w, y, o - s)
    <3> HIDE DEF Sees
    <3>. QED  BY <1>2, <2>2
  <2>4. in_end_gap(w, x) \/ Found(m, g, x) = Found(m2, g, x)
    <3> SUFFICES ASSUME ~in_end_gap(w, x) PROVE Found(m, g, x) = Found(m2, g, x)
      OBVIOUS
    <3> DEFINE r == Found(m2, g, x)
    <3>1. /\ r.d \in Headers /\ r.d.gen = g /\ RecordAt(m2, Cap, x, r.d, r.v)
          /\ s = rec_alloc_bytes(r.d.len)
      BY <1>0, <2>1, StepTyped
    <3>2. r.d.len \in Nat
      BY <3>1 DEF Headers
    <3>3. \A i \in x .. x + s - 1 : i \in Cursors /\ InWindow(i, x, o)
      <4> HIDE DEF s
      <4>. QED  BY <1>0, <2>1, CapNat DEF InWindow, Cursors
    <3> HIDE DEF r
    <3>4. RecordAt(m, Cap, x, r.d, r.v)
      <4>1. \A i \in x .. x + rec_alloc_bytes(r.d.len) - 1 : m2[i] = m[i] \/ m2[i] = Erased
        BY <1>2, <3>1, <3>3, Zenon
      <4>. QED  BY <1>0, <3>1, <3>2, <4>1, RecordAgrees
    <3>5. x \in Nat /\ RecordAt(m, Cap, x, r.d, r.v) /\ RecordAt(m2, Cap, x, r.d, r.v)
      BY <1>0, <3>1, <3>4
    <3>6. Found(m, r.d.gen, x) = Found(m2, r.d.gen, x)
      <4> DEFINE d == r.d
                 v == r.v
      <4>0. d.len \in Nat /\ RecordAt(m, Cap, x, d, v) /\ RecordAt(m2, Cap, x, d, v)
        BY <3>2, <3>5
      <4> HIDE DEF d, v
      <4>1. Found(m, d.gen, x) = [res |-> "VALID", d |-> d, v |-> v]
        BY <3>5, <4>0, RecordFound
      <4>2. Found(m2, d.gen, x) = [res |-> "VALID", d |-> d, v |-> v]
        BY <3>5, <4>0, RecordFound
      <4>. QED  BY <4>1, <4>2 DEF d
    <3>7. r.d.gen = g
      BY <3>1
    <3>. QED  BY <3>6, <3>7
  <2>5. StepAt(m, g, w, x) = s /\ HeldAt(m, g, w, x) = h
    BY <2>4, SameStep
  <2>6. Walk(m, g, w, x, o) =
          IF s \notin 1 .. o \/ ~Walk(m, g, w, y, o - s).ok
             \/ ~in_sequence(h, Walk(m, g, w, y, o - s).recs)
          THEN Failed ELSE Passed(h \o Walk(m, g, w, y, o - s).recs)
    <3>1. o \in Nat /\ o # 0
      BY <1>2
    <3>. QED  BY <1>0, <2>5, <3>1, WalkSteps
  <2> HIDE DEF s, h, y, rest
  <2>. QED  BY <2>1, <2>3, <2>6, Zenon
<1>3. ASSUME NEW x \in Cursors, NEW o \in 1 .. Cap, Passes(m2, g, w, x, o),
             P(wrapped(x + StepAt(m2, g, w, x)), o - StepAt(m2, g, w, x))
      PROVE  P(x, o)
  BY <1>2, <1>3, Zenon
<1> HIDE DEF P
<1>4. <<w, 0>> \in S
  BY <1>1, CapNat
<1>5. \A x \in Cursors, o \in 1 .. Cap :
        /\ Passes(m2, g, w, x, o)
        /\ <<wrapped(x + StepAt(m2, g, w, x)), o - StepAt(m2, g, w, x)>> \in S
        => <<x, o>> \in S
  BY <1>3, CapNat
<1> HIDE DEF S
<1>6. \A x \in Cursors, o \in 0 .. Cap : Walk(m2, g, w, x, o).ok => <<x, o>> \in S
  BY <1>4, <1>5, WalkInduction
<1>7. \A x \in Cursors, o \in 0 .. Cap : Walk(m2, g, w, x, o).ok => P(x, o)
  BY <1>6 DEF S
<1>. QED  BY <1>7 DEF P

-----------------------------------------------------------------------------
\* The pointers of a context or a superblock lie in the data area.
InArea(c) == c.wp \in Cursors /\ c.tail \in Cursors

\* The walk of a window, and how many cells it passes over.
LEMMA WalkOfWindow ==
  ASSUME NEW c, InArea(c), NEW m
  PROVE  /\ ring_walk(m, c) = Walk(m, c.gen, c.wp, c.tail, ring_occupied(c))
         /\ ring_occupied(c) \in 0 .. Cap
         /\ c.wp = c.tail /\ c.count > 0 => ring_occupied(c) = Cap
         /\ c.wp = c.tail /\ ~(c.count > 0) => ring_occupied(c) = 0
         /\ c.wp > c.tail => ring_occupied(c) = c.wp - c.tail
         /\ c.wp < c.tail => ring_occupied(c) = Cap - c.tail + c.wp
<1>1. ~(c.tail >= Cap) /\ ~(c.wp >= Cap)
  BY CapNat DEF InArea, Cursors
<1>2. ring_walk(m, c) = Walk(m, c.gen, c.wp, c.tail, ring_occupied(c))
  BY <1>1 DEF ring_walk, Walk
<1>. QED  BY <1>2, CapNat DEF ring_occupied, InArea, Cursors

\* Padding in front of a walk adds nothing to it.
LEMMA GapSkipped ==
  ASSUME NEW m \in Media, NEW g, NEW w \in Cursors, NEW x \in Cursors, NEW o \in 0 .. Cap,
         Walk(m, g, w, x, o).ok
  PROVE  LET y == IF in_end_gap(w, x) THEN 0 ELSE x
         IN  /\ y \in Cursors /\ ~in_end_gap(w, y)
             /\ \E n \in 0 .. o : Walk(m, g, w, y, n) = Walk(m, g, w, x, o)
<1>1. CASE ~in_end_gap(w, x)
  BY <1>1
<1>2. CASE in_end_gap(w, x)
  <2>1. o # 0
    <3>1. x # w
      BY <1>2, CapNat DEF in_end_gap, Cursors
    <3>2. x \in Nat /\ w \in Nat
      BY CapNat DEF Cursors
    <3>3. ~Walk(m, g, w, x, 0).ok
      BY <3>1, <3>2, WalkEnds
    <3>. QED  BY <3>3
  <2> DEFINE s == StepAt(m, g, w, x)
             rest == Walk(m, g, w, wrapped(x + s), o - s)
  <2>2. Passes(m, g, w, x, o)
    BY <2>1, OkPasses, CapNat
  <2>3. /\ s \in 1 .. o /\ wrapped(x + s) \in Cursors
        /\ rest \in Walks /\ rest.ok
        /\ Walk(m, g, w, x, o) = Passed(HeldAt(m, g, w, x) \o rest.recs)
    BY <2>2 DEF Passes
  <2>4. x + s = Cap /\ HeldAt(m, g, w, x) = <<>>
    BY <1>2, <2>3, Block
  <2>5. wrapped(x + s) = 0
    BY <2>4, CapNat DEF wrapped
  <2>6. <<>> \o rest.recs = rest.recs
    <3>1. rest.recs \in Seq(Entries)
      BY <2>3 DEF Walks
    <3> HIDE DEF rest
    <3>. QED  BY <3>1
  <2>7. Walk(m, g, w, x, o) = Passed(rest.recs)
    BY <2>3, <2>4, <2>6, Zenon
  <2>8. rest = Passed(rest.recs)
    <3> HIDE DEF rest
    <3>. QED  BY <2>3 DEF Walks, Passed
  <2>9. o - s \in 0 .. o
    <3> HIDE DEF s
    <3>. QED  BY <2>3
  <2>10. Walk(m, g, w, 0, o - s) = Walk(m, g, w, x, o)
    BY <2>5, <2>7, <2>8
  <2>11. 0 \in Cursors /\ ~in_end_gap(w, 0)
    BY CapNat DEF Cursors, in_end_gap
  <2> HIDE DEF s, rest
  <2>. QED  BY <1>2, <2>9, <2>10, <2>11
<1>. QED  BY <1>1, <1>2

\* What is left of a window that holds when the record at its tail goes.
LEMMA Dropping ==
  ASSUME NEW m \in Media, NEW c \in Context, InArea(c),
         ring_walk(m, c).ok, c.count = Len(ring_walk(m, c).recs), c.count # 0
  PROVE  LET t == ring_normalize_tail_cursor(c, c.tail)
             r == Found(m, c.gen, t)
             D == dropped(c, t, r.d)
             R == ring_walk(m, c).recs
             Q == ring_walk(m, D).recs
         IN  /\ r.res = "VALID" /\ D \in Context /\ InArea(D)
             /\ D.wp = c.wp /\ D.gen = c.gen /\ D.next = c.next /\ D.mounted = c.mounted
             /\ D.mseq = c.mseq
             /\ ring_walk(m, D).ok /\ D.count = Len(Q) /\ D.count <= c.count
             /\ ring_occupied(D) < ring_occupied(c)
             /\ Q \in Seq(Entries) /\ (Q # <<>> => Last(Q) = Last(R))
             /\ R = (IF r.d.type = "DATA" THEN <<Entry(r)>> ELSE <<>>) \o Q
             /\ ~EndZone(c.wp) => ~EndZone(D.tail)
<1> DEFINE g == c.gen
           w == c.wp
           x == c.tail
           o == ring_occupied(c)
           t == ring_normalize_tail_cursor(c, c.tail)
           r == Found(m, c.gen, t)
           D == dropped(c, t, r.d)
           R == ring_walk(m, c).recs
<1>1. /\ w \in Cursors /\ x \in Cursors /\ o \in 0 .. Cap
      /\ w \in Nat /\ x \in Nat /\ c.count \in Nat
      /\ Walk(m, g, w, x, o) = ring_walk(m, c)
  BY WalkOfWindow, CapNat DEF InArea, Cursors, Context
<1>2. t = IF in_end_gap(w, x) THEN 0 ELSE x
  BY DEF ring_normalize_tail_cursor
<1>3. PICK n \in 0 .. o : Walk(m, g, w, t, n) = ring_walk(m, c)
  BY <1>1, <1>2, GapSkipped
<1>4. t \in Cursors /\ ~in_end_gap(w, t) /\ t \in Nat
  <2>1. t \in Cursors /\ ~in_end_gap(w, t)
    BY <1>1, <1>2, GapSkipped
  <2>. QED  BY <2>1, CapNat DEF Cursors
<1>5. n \in 1 .. Cap
  <2>1. ASSUME n = 0 PROVE FALSE
    <3>1. Walk(m, g, w, t, 0).recs = <<>>
      BY <1>1, <1>4, WalkEnds
    <3>2. ring_walk(m, c).recs = <<>>
      BY <1>3, <2>1, <3>1
    <3>. QED  BY <3>2
  <2>. QED  BY <1>1, <1>3, <2>1, CapNat
<1> DEFINE s == StepAt(m, g, w, t)
           h == HeldAt(m, g, w, t)
           y == wrapped(t + s)
           rest == Walk(m, g, w, y, n - s)
<1>6. /\ s \in 1 .. n /\ t + s <= Cap /\ y \in Cursors /\ n - s \in 0 .. Cap
      /\ h \in Seq(Entries) /\ rest.recs \in Seq(Entries) /\ rest.ok
      /\ ring_walk(m, c) = Passed(h \o rest.recs)
  <2>1. Walk(m, g, w, t, n).ok
    BY <1>3
  <2>2. Passes(m, g, w, t, n)
    BY <1>1, <1>4, <1>5, <2>1, OkPasses
  <2>. QED  BY <1>3, <2>2 DEF Passes, Walks
<1>7. /\ r.res = "VALID" /\ r.d \in Headers /\ s = rec_alloc_bytes(r.d.len)
      /\ h = IF r.d.type = "DATA" THEN <<Entry(r)>> ELSE <<>>
      /\ h = <<>> \/ \E e \in Entries : h = <<e>>
  <2>1. s # 0
    BY <1>6
  <2>2. r.res = "VALID" /\ r.d \in Headers /\ s = rec_alloc_bytes(r.d.len)
    BY <1>1, <1>4, <2>1, StepTyped
  <2>3. h = <<>> \/ \E e \in Entries : h = <<e>>
    BY <1>1, <1>4, <2>1, StepTyped
  <2>. QED  BY <1>4, <2>2, <2>3 DEF HeldAt, held
<1>8. R = h \o rest.recs
  <2> HIDE DEF h, rest
  <2>. QED  BY <1>6 DEF Passed
<1> DEFINE z == IF in_end_gap(w, y) THEN 0 ELSE y
<1>9. PICK k \in 0 .. n - s : Walk(m, g, w, z, k) = rest
  BY <1>1, <1>6, GapSkipped
<1>10. z \in Cursors /\ ~in_end_gap(w, z)
  BY <1>1, <1>6, GapSkipped
<1>11. k < o /\ k < n /\ k \in 0 .. Cap
  <2> HIDE DEF s, y, rest, z
  <2>. QED  BY <1>1, <1>3, <1>5, <1>6, <1>9, CapNat
<1>12. Len(R) = Len(h) + Len(rest.recs) /\ Len(rest.recs) \in Nat
  <2> HIDE DEF h, rest, R
  <2>. QED  BY <1>6, <1>8
<1>13. Len(h) = IF r.d.type = "DATA" THEN 1 ELSE 0
  <2>1. CASE r.d.type = "DATA"
    <3>1. h = <<Entry(r)>>
      BY <1>7, <2>1
    <3>. QED  BY <2>1, <3>1
  <2>2. CASE r.d.type # "DATA"
    <3>1. h = <<>>
      BY <1>7, <2>2
    <3>. QED  BY <2>2, <3>1
  <2>. QED  BY <2>1, <2>2
<1>14. /\ D.wp = c.wp /\ D.gen = c.gen /\ D.next = c.next /\ D.mounted = c.mounted
       /\ D.mseq = c.mseq /\ D.free = c.free
       /\ D.tail = z
       /\ D.count = IF r.d.type = "DATA" THEN c.count - 1 ELSE c.count
       /\ D = [c EXCEPT !.tail = z, !.count = IF r.d.type = "DATA" THEN c.count - 1 ELSE c.count]
  <2>1. D = [c EXCEPT !.tail = z, !.count = IF r.d.type = "DATA" THEN c.count - 1 ELSE c.count]
    BY <1>7, Zenon DEF dropped, ring_normalize_tail_cursor
  <2> HIDE DEF D, z, r, s, h, y, rest, t
  <2>. QED  BY <2>1 DEF Context
<1>15. D.count = Len(rest.recs)
  <2> HIDE DEF D, z, r, s, h, y, rest, t, R
  <2>1. c.count = Len(R)
    BY DEF R
  <2>2. D.count = IF r.d.type = "DATA" THEN c.count - 1 ELSE c.count
    BY <1>14
  <2>3. CASE r.d.type = "DATA"
    <3>1. Len(h) = 1 /\ D.count = c.count - 1
      BY <1>13, <2>2, <2>3
    <3>2. c.count = 1 + Len(rest.recs)
      BY <1>12, <2>1, <3>1
    <3>. QED  BY <1>12, <3>1, <3>2
  <2>4. CASE r.d.type # "DATA"
    <3>1. Len(h) = 0 /\ D.count = c.count
      BY <1>13, <2>2, <2>4
    <3>. QED  BY <1>12, <2>1, <3>1
  <2>. QED  BY <2>3, <2>4
<1>16. D \in Context /\ InArea(D)
  <2>1. z \in Nat
    BY <1>10, CapNat DEF Cursors
  <2>2. D.count \in Nat
    BY <1>12, <1>15
  <2> HIDE DEF D, z, r, s, h, y, rest, t, R
  <2>3. InArea(D)
    BY <1>1, <1>10, <1>14 DEF InArea
  <2>4. D \in Context
    BY <1>14, <2>1, <2>2 DEF Context
  <2>. QED  BY <2>3, <2>4
<1>17. ring_occupied(D) = k
  <2>1. z + k = w \/ z + k = w + Cap
    <3>1. Walk(m, g, w, z, k).ok
      BY <1>6, <1>9
    <3>. QED  BY <1>1, <1>10, <1>11, <3>1, WalkReaches
  <2>2. ASSUME z = w PROVE D.count = 0 /\ k = 0
    <3>1. k = 0
      <4> HIDE DEF z, s
      <4>. QED  BY <1>1, <1>11, <2>1, <2>2, CapNat
    <3>2. Walk(m, g, w, z, 0).recs = <<>>
      <4>1. z \in Nat
        BY <1>10, CapNat DEF Cursors
      <4>. QED  BY <1>1, <4>1, WalkEnds
    <3>3. rest.recs = <<>>
      BY <1>9, <3>1, <3>2
    <3>. QED  BY <1>15, <3>1, <3>3
  <2>3. /\ D.wp = D.tail /\ ~(D.count > 0) => ring_occupied(D) = 0
        /\ D.wp > D.tail => ring_occupied(D) = D.wp - D.tail
        /\ D.wp < D.tail => ring_occupied(D) = Cap - D.tail + D.wp
    BY <1>16, WalkOfWindow
  <2>4. D.wp = w /\ D.tail = z /\ z \in Nat /\ z < Cap
    BY <1>10, <1>14, CapNat DEF Cursors
  <2> HIDE DEF D, z
  <2>. QED  BY <1>1, <1>11, <2>1, <2>2, <2>3, <2>4, CapNat DEF Cursors
<1>18. ring_walk(m, D) = rest
  <2>1. ring_walk(m, D) = Walk(m, D.gen, D.wp, D.tail, ring_occupied(D))
    BY <1>16, WalkOfWindow
  <2>. QED  BY <1>9, <1>14, <1>17, <2>1
<1>19. rest.recs # <<>> => Last(rest.recs) = Last(R)
  <2> HIDE DEF h, rest, R
  <2>. QED  BY <1>6, <1>7, <1>8, Prefixed
<1>20. ASSUME ~EndZone(w) PROVE ~EndZone(z)
  <2>1. CASE k = 0
    <3>1. z = w
      <4>1. Walk(m, g, w, z, 0).ok
        BY <1>6, <1>9, <2>1
      <4>2. z \in Nat
        BY <1>10, CapNat DEF Cursors
      <4>. QED  BY <1>1, <4>1, <4>2, WalkEnds
    <3>. QED  BY <1>20, <3>1
  <2>2. CASE k # 0
    <3>1. Walk(m, g, w, z, k).ok /\ k \in 1 .. Cap
      BY <1>6, <1>9, <1>11, <2>2
    <3>2. StepAt(m, g, w, z) \in 1 .. k
      BY <1>1, <1>10, <3>1, OkPasses DEF Passes
    <3>3. StepAt(m, g, w, z) # 0
      BY <3>2
    <3>. QED  BY <1>1, <1>10, <3>3, EndZoneIsGap
  <2>. QED  BY <2>1, <2>2
<1>21. D.count <= c.count
  <2> HIDE DEF D, r
  <2>. QED  BY <1>1, <1>14
<1> HIDE DEF D, z, s, y, t, R, h, rest, o
<1>22. R = (IF r.d.type = "DATA" THEN <<Entry(r)>> ELSE <<>>) \o rest.recs
  BY <1>7, <1>8, Zenon
<1>. QED  BY <1>6, <1>7, <1>11, <1>14, <1>15, <1>16, <1>17, <1>18, <1>19, <1>20, <1>21, <1>22
          DEF D, t, R, o

-----------------------------------------------------------------------------
\* The next sequence number is the one after the newest record.
Agrees(R, next) == R # <<>> => next = NextSeq(Last(R).seq)

\* A context whose window holds, with the counters of its records.
Validated(m, c) ==
  LET w == ring_walk(m, c)
  IN  /\ c \in Context /\ InArea(c)
      /\ w.ok /\ w.recs \in Seq(Entries) /\ c.count = Len(w.recs) /\ Agrees(w.recs, c.next)

\* What a context keeps when its window is validated or its tail retired.
SameBut(c, d) ==
  /\ d \in Context /\ d.wp = c.wp /\ d.gen = c.gen /\ d.mseq = c.mseq /\ d.mounted = c.mounted

\* next_sequence_value stays a sequence number.
LEMMA NextSeqNat == ASSUME NEW s \in Nat PROVE NextSeq(s) \in Nat
BY CapNat DEF NextSeq

\* The newest of some records is a record.
LEMMA LastEntry ==
  ASSUME NEW R \in Seq(Entries), R # <<>>
  PROVE  Last(R) \in Entries /\ Last(R).seq \in Nat /\ Len(R) \in Nat \ {0}
<1>1. Len(R) \in 1 .. Len(R)
  OBVIOUS
<1>2. R[Len(R)] \in Entries
  BY <1>1
<1>. QED  BY <1>1, <1>2 DEF Last, Entries

\* ring_validate_window recomputes the counters of a context whose window holds,
\* and leaves any other context as it was.
LEMMA Validating ==
  ASSUME NEW m \in Media, NEW c \in Context
  PROVE  LET v == ring_validate_window(m, c)
             w == ring_walk(m, c)
         IN  /\ v \in [ok : BOOLEAN, recs : Seq(Entries), c : Context]
             /\ v.ok <=> w.ok
             /\ ~w.ok => v.c = c
             /\ w.ok => /\ InArea(c) /\ SameBut(c, v.c) /\ v.c.tail = c.tail
                        /\ v.c.free = Cap - ring_occupied(c)
                        /\ v.c.next = IF w.recs = <<>> THEN c.next ELSE NextSeq(Last(w.recs).seq)
                        /\ Validated(m, v.c) /\ ring_walk(m, v.c) = w
                        /\ \/ ring_occupied(v.c) = ring_occupied(c)
                           \/ v.c.count = 0 /\ ring_occupied(v.c) <= ring_occupied(c)
<1> DEFINE v == ring_validate_window(m, c)
           w == ring_walk(m, c)
           d == [c EXCEPT !.count = Len(w.recs), !.free = Cap - ring_occupied(c),
                          !.next = IF w.recs = <<>> THEN c.next ELSE NextSeq(Last(w.recs).seq)]
<1>1. v = [ok |-> w.ok, recs |-> w.recs, c |-> IF ~w.ok THEN c ELSE d]
  BY Zenon DEF ring_validate_window, walked
<1>2. w \in Walks
  <2>1. CASE c.tail >= Cap \/ c.wp >= Cap
    BY <2>1 DEF ring_walk, Failed, Walks
  <2>2. CASE ~(c.tail >= Cap \/ c.wp >= Cap)
    <3>1. InArea(c)
      BY <2>2, CapNat DEF InArea, Cursors, Context
    <3>2. c.wp \in Nat /\ c.tail \in Nat
      BY DEF Context
    <3>3. w = Walk(m, c.gen, c.wp, c.tail, ring_occupied(c)) /\ ring_occupied(c) \in Nat
      BY <3>1, WalkOfWindow, CapNat
    <3>. QED  BY <3>2, <3>3, WalkTyped
  <2>. QED  BY <2>1, <2>2
<1>3. CASE ~w.ok
  <2> HIDE DEF w, d, v
  <2>1. v \in [ok : BOOLEAN, recs : Seq(Entries), c : Context]
    BY <1>1, <1>2, <1>3 DEF Walks
  <2>2. v.ok = w.ok /\ v.c = c
    BY <1>1, <1>3
  <2>. QED  BY <1>3, <2>1, <2>2 DEF v, w
<1>4. CASE w.ok
  <2>1. InArea(c)
    <3>1. ~(c.tail >= Cap \/ c.wp >= Cap)
      BY <1>4 DEF ring_walk, Failed
    <3>. QED  BY <3>1, CapNat DEF InArea, Cursors, Context
  <2>2. v.c = d /\ v.ok /\ v.recs = w.recs
    <3> HIDE DEF w, d, v
    <3>. QED  BY <1>1, <1>4
  <2>3. w.recs \in Seq(Entries) /\ Len(w.recs) \in Nat
    <3> HIDE DEF w
    <3>. QED  BY <1>2 DEF Walks
  <2>4. w.recs # <<>> => NextSeq(Last(w.recs).seq) \in Nat
    <3> HIDE DEF w
    <3>. QED  BY <2>3, LastEntry, NextSeqNat
  <2>5. /\ ring_occupied(c) \in 0 .. Cap
        /\ w = Walk(m, c.gen, c.wp, c.tail, ring_occupied(c))
        /\ c.wp = c.tail /\ ~(c.count > 0) => ring_occupied(c) = 0
        /\ c.wp > c.tail => ring_occupied(c) = c.wp - c.tail
        /\ c.wp < c.tail => ring_occupied(c) = Cap - c.tail + c.wp
        /\ c.wp = c.tail /\ c.count > 0 => ring_occupied(c) = Cap
    BY <2>1, WalkOfWindow
  <2>6. /\ d \in Context /\ SameBut(c, d) /\ d.tail = c.tail /\ d.count = Len(w.recs)
        /\ d.free = Cap - ring_occupied(c)
        /\ d.next = IF w.recs = <<>> THEN c.next ELSE NextSeq(Last(w.recs).seq)
    <3>1. Cap - ring_occupied(c) \in Nat
      BY <2>5, CapNat
    <3>2. (IF w.recs = <<>> THEN c.next ELSE NextSeq(Last(w.recs).seq)) \in Nat
      <4> HIDE DEF w
      <4>. QED  BY <2>4 DEF Context
    <3> HIDE DEF w
    <3>3. d \in Context
      BY <2>3, <3>1, <3>2 DEF Context
    <3>. QED  BY <3>3 DEF SameBut, Context
  <2> HIDE DEF d, v
  <2>7. InArea(d) /\ d.wp = c.wp /\ d.gen = c.gen
    BY <2>1, <2>6 DEF InArea, SameBut
  <2>8. Agrees(w.recs, d.next)
    <3> HIDE DEF w
    <3>. QED  BY <2>6 DEF Agrees
  <2>9. /\ d.wp = d.tail /\ ~(d.count > 0) => ring_occupied(d) = 0
        /\ d.wp > d.tail => ring_occupied(d) = d.wp - d.tail
        /\ d.wp < d.tail => ring_occupied(d) = Cap - d.tail + d.wp
        /\ d.wp = d.tail /\ d.count > 0 => ring_occupied(d) = Cap
        /\ ring_walk(m, d) = Walk(m, d.gen, d.wp, d.tail, ring_occupied(d))
    BY <2>7, WalkOfWindow
  <2>10. ASSUME ring_occupied(d) = ring_occupied(c) PROVE ring_walk(m, d) = w
    BY <2>5, <2>6, <2>7, <2>9, <2>10
  <2>11. ASSUME ring_occupied(d) # ring_occupied(c)
         PROVE  /\ d.count = 0 /\ ring_occupied(d) <= ring_occupied(c)
                /\ ring_walk(m, d) = w
    <3>1. c.wp = c.tail /\ c.wp \in Cursors /\ c.tail \in Cursors
      BY <2>1, <2>5, <2>6, <2>7, <2>9, <2>11, CapNat DEF InArea, Cursors
    <3>2. d.wp = d.tail /\ c.count \in Nat /\ d.count \in Nat /\ c.wp \in Nat
      BY <2>6, <2>7, <3>1 DEF Context
    <3>3. CASE d.count > 0
      <4>1. ring_occupied(d) = Cap
        BY <2>9, <3>2, <3>3
      <4>2. ring_occupied(c) = 0
        BY <2>5, <2>11, <3>1, <4>1
      <4>3. w.recs = <<>>
        BY <2>5, <3>1, <3>2, <4>2, WalkEnds
      <4>4. Len(w.recs) = 0
        <5>1. Len(<<>>) = 0
          OBVIOUS
        <5>. QED  BY <4>3, <5>1
      <4>. QED  BY <2>6, <3>3, <4>4
    <3>4. CASE ~(d.count > 0)
      <4>1. d.count = 0 /\ ring_occupied(d) = 0
        BY <2>9, <3>2, <3>4
      <4>2. w.recs = <<>>
        <5>1. Len(w.recs) = 0 /\ w.recs \in Seq(Entries)
          BY <2>3, <2>6, <4>1
        <5> HIDE DEF w
        <5>. QED  BY <5>1
      <4>3. ring_walk(m, d) = Passed(<<>>)
        BY <2>6, <2>7, <2>9, <3>1, <3>2, <4>1, WalkEnds
      <4>4. w = Passed(<<>>)
        <5> HIDE DEF w
        <5>. QED  BY <1>2, <1>4, <4>2 DEF Walks, Passed
      <4>. QED  BY <2>5, <4>1, <4>3, <4>4, CapNat
    <3>. QED  BY <3>3, <3>4
  <2> DEFINE Same == ring_occupied(d) = ring_occupied(c)
             Less == d.count = 0 /\ ring_occupied(d) <= ring_occupied(c)
  <2>12. ring_walk(m, d) = w /\ (Same \/ Less)
    <3>1. Same => ring_walk(m, d) = w
      BY <2>10
    <3>2. ~Same => Less /\ ring_walk(m, d) = w
      BY <2>11
    <3> HIDE DEF Same, Less, w
    <3>. QED  BY <3>1, <3>2
  <2>13. Validated(m, d)
    <3> HIDE DEF w
    <3>. QED  BY <1>4, <2>3, <2>6, <2>7, <2>8, <2>12 DEF Validated
  <2>14. v \in [ok : BOOLEAN, recs : Seq(Entries), c : Context]
    <3> HIDE DEF w
    <3>. QED  BY <1>1, <1>2, <2>2, <2>6 DEF Walks
  <2>15. v.c = d /\ v.ok /\ w.ok
    BY <1>4, <2>2
  <2> DEFINE G(e) ==
               /\ SameBut(c, e) /\ e.tail = c.tail
               /\ e.free = Cap - ring_occupied(c)
               /\ e.next = IF w.recs = <<>> THEN c.next ELSE NextSeq(Last(w.recs).seq)
               /\ Validated(m, e) /\ ring_walk(m, e) = w
               /\ \/ ring_occupied(e) = ring_occupied(c)
                  \/ e.count = 0 /\ ring_occupied(e) <= ring_occupied(c)
  <2> HIDE DEF w
  <2>16. G(d)
    BY <2>6, <2>12, <2>13
  <2>17. G(v.c)
    <3> HIDE DEF G
    <3>. QED  BY <2>15, <2>16
  <2> HIDE DEF v
  <2>18. /\ v \in [ok : BOOLEAN, recs : Seq(Entries), c : Context]
         /\ v.ok <=> w.ok
         /\ ~w.ok => v.c = c
         /\ w.ok => InArea(c) /\ G(v.c)
    BY <2>1, <2>14, <2>15, <2>17
  <2>. QED  BY <2>18 DEF v, w
<1>. QED  BY <1>3, <1>4
-----------------------------------------------------------------------------
\* What is found valid has a header.
LEMMA FoundTyped ==
  ASSUME NEW m \in Media, NEW g, NEW x \in Nat, Found(m, g, x).res = "VALID"
  PROVE  Found(m, g, x).d \in Headers
BY CapNat, ValidIsRecord DEF Found, Media

\* One round of ring_retire_tail_to_free, by a function that is to be the loop.
RetireBody(m, q, c, f) ==
  LET tail == ring_normalize_tail_cursor(c, c.tail)
      r    == verify_record(m, tail, c.gen, RegionSize)
      w    == ring_validate_window(m, dropped(c, tail, r.d))
  IN  IF c.free >= q \/ c.count = 0 THEN ring_validate_window(m, c)
      ELSE IF r.res # "VALID" THEN walked([c EXCEPT !.tail = tail], Failed)
      ELSE IF w.ok THEN f[w.c] ELSE w

Windows == [ok : BOOLEAN, recs : Seq(Entries), c : Context]

\* The record at the tail of a context, and the window without it.
AtTail(m, c) == Found(m, c.gen, ring_normalize_tail_cursor(c, c.tail))
Without(m, c) == dropped(c, ring_normalize_tail_cursor(c, c.tail), AtTail(m, c).d)

\* A context without the record at its tail is a context; and its window, once
\* validated, is smaller if the context's was valid.
LEMMA WithoutTyped ==
  ASSUME NEW m \in Media, NEW c \in Context, AtTail(m, c).res = "VALID", c.count # 0
  PROVE  Without(m, c) \in Context
<1> DEFINE t == ring_normalize_tail_cursor(c, c.tail)
           d == AtTail(m, c).d
           u == ring_normalize_tail_cursor(c, wrapped(t + rec_alloc_bytes(d.len)))
           k == IF d.type = "DATA" THEN c.count - 1 ELSE c.count
<1>1. t \in Nat /\ c.count \in Nat
  BY DEF ring_normalize_tail_cursor, Context
<1>2. d \in Headers
  BY <1>1, FoundTyped DEF AtTail
<1>3. rec_alloc_bytes(d.len) \in Nat
  <2>1. d.len \in Nat
    <3> HIDE DEF d
    <3>. QED  BY <1>2 DEF Headers
  <2> HIDE DEF d
  <2>. QED  BY <2>1, CapNat DEF rec_alloc_bytes
<1>4. u \in Nat
  <2> HIDE DEF t, d
  <2>. QED  BY <1>1, <1>3 DEF ring_normalize_tail_cursor, wrapped
<1>5. k \in Nat
  <2> HIDE DEF d
  <2>. QED  BY <1>1
<1>6. Without(m, c) = [c EXCEPT !.tail = u, !.count = k]
  BY Zenon DEF Without, dropped
<1> HIDE DEF u, k
<1>. QED  BY <1>4, <1>5, <1>6 DEF Context

\* How far a context is from one that the loop leaves.
Rounds(m, c) ==
  IF c.count = 0 THEN 0
  ELSE IF ring_walk(m, c).ok /\ c.count = Len(ring_walk(m, c).recs) THEN 1 + ring_occupied(c)
  ELSE Cap + 2

\* The loop of ring_retire_tail_to_free makes finitely many rounds.
LEMMA RoundsNat ==
  ASSUME NEW m \in Media, NEW c \in Context
  PROVE  Rounds(m, c) \in Nat /\ Rounds(m, c) <= Cap + 2 /\ (Validated(m, c) => Rounds(m, c) <= Cap + 1)
         /\ (c.count # 0 => Rounds(m, c) > 0)
<1>1. ring_walk(m, c).ok => InArea(c)
  BY Validating
<1>2. InArea(c) => ring_occupied(c) \in 0 .. Cap
  BY WalkOfWindow
<1>3. ring_walk(m, c).ok => ring_occupied(c) \in 0 .. Cap
  BY <1>1, <1>2
<1>4. Validated(m, c) => ring_walk(m, c).ok /\ c.count = Len(ring_walk(m, c).recs)
  BY DEF Validated
<1>. QED  BY <1>3, <1>4, CapNat DEF Rounds

\* One round brings the loop closer to its end.
LEMMA RoundsFall ==
  ASSUME NEW m \in Media, NEW c \in Context, AtTail(m, c).res = "VALID", c.count # 0,
         ring_validate_window(m, Without(m, c)).ok
  PROVE  LET v == ring_validate_window(m, Without(m, c))
         IN  v.c \in Context /\ Rounds(m, v.c) < Rounds(m, c)
<1> DEFINE D == Without(m, c)
           v == ring_validate_window(m, D)
<1>1. D \in Context
  BY WithoutTyped
<1>2. v.c \in Context /\ Validated(m, v.c) /\ InArea(D)
      /\ (v.c.count = 0 \/ ring_occupied(v.c) = ring_occupied(D))
  <2>1. v.ok
    OBVIOUS
  <2> HIDE DEF D
  <2>. QED  BY <1>1, <2>1, Validating DEF Validated
<1>3. CASE ring_walk(m, c).ok /\ c.count = Len(ring_walk(m, c).recs)
  <2>1. InArea(c)
    BY <1>3, Validating
  <2>2. ring_occupied(D) < ring_occupied(c)
    BY <1>3, <2>1, Dropping DEF Without, AtTail
  <2>3. Rounds(m, c) = 1 + ring_occupied(c)
    BY <1>3 DEF Rounds
  <2>4. ring_occupied(c) \in Nat /\ ring_occupied(D) \in Nat
    <3> HIDE DEF D
    <3>. QED  BY <1>2, <2>1, WalkOfWindow, CapNat
  <2>5. Rounds(m, v.c) = IF v.c.count = 0 THEN 0 ELSE 1 + ring_occupied(v.c)
    <3> HIDE DEF v
    <3>. QED  BY <1>2 DEF Rounds, Validated
  <2> HIDE DEF v, D
  <2>6. Rounds(m, v.c) < Rounds(m, c)
    BY <1>2, <2>2, <2>3, <2>4, <2>5
  <2>. QED  BY <1>2, <2>6 DEF v, D
<1>4. CASE ~(ring_walk(m, c).ok /\ c.count = Len(ring_walk(m, c).recs))
  <2>1. Rounds(m, c) = Cap + 2
    BY <1>4 DEF Rounds
  <2> HIDE DEF v, D
  <2>2. Rounds(m, v.c) \in Nat /\ Rounds(m, v.c) <= Cap + 1
    BY <1>2, RoundsNat
  <2>3. Rounds(m, v.c) < Rounds(m, c)
    BY <2>1, <2>2, CapNat
  <2>. QED  BY <1>2, <2>3 DEF v, D
<1>. QED  BY <1>3, <1>4

\* The loop of ring_retire_tail_to_free does one round, or stops, from every
\* context: the recursive function that models it is defined there.
LEMMA RetireUnfolds ==
  ASSUME NEW m \in Media, NEW q \in Nat
  PROVE  \A c \in Context : retire_from(m, q)[c] = RetireBody(m, q, c, retire_from(m, q))
<1> DEFINE rest(c) == ring_validate_window(m, Without(m, c))
           halts(c) == c.free >= q \/ c.count = 0 \/ AtTail(m, c).res # "VALID" \/ ~rest(c).ok
           left(c) == IF c.free >= q \/ c.count = 0 THEN ring_validate_window(m, c)
                      ELSE IF AtTail(m, c).res # "VALID"
                      THEN walked([c EXCEPT !.tail = ring_normalize_tail_cursor(c, c.tail)], Failed)
                      ELSE rest(c)
           mu == [c \in Context |-> Rounds(m, c)]
           stop == [c \in Context |-> halts(c)]
           next == [c \in Context |-> rest(c).c]
           base == [c \in Context |-> left(c)]
           comb == [c \in Context |-> [v \in Windows |-> v]]
           Body(f) == [c \in Context |-> RetireBody(m, q, c, f)]
<1>1. mu \in [Context -> Nat]
  BY RoundsNat
<1>2. \A c \in Context : ring_validate_window(m, c) \in Windows
  BY Validating DEF Windows
<1>3. ASSUME NEW c \in Context PROVE left(c) \in Windows
  <2>1. CASE c.free >= q \/ c.count = 0
    BY <1>2, <2>1
  <2>2. CASE ~(c.free >= q \/ c.count = 0) /\ AtTail(m, c).res # "VALID"
    <3> DEFINE e == [c EXCEPT !.tail = ring_normalize_tail_cursor(c, c.tail)]
    <3>1. ring_normalize_tail_cursor(c, c.tail) \in Nat
      BY DEF ring_normalize_tail_cursor, Context
    <3>2. e \in Context
      BY <3>1 DEF Context
    <3> HIDE DEF e
    <3>3. walked(e, Failed) = [ok |-> FALSE, recs |-> <<>>, c |-> e]
      BY DEF walked, Failed
    <3>4. walked(e, Failed) \in Windows
      BY <3>2, <3>3 DEF Windows
    <3>. QED  BY <2>2, <3>4 DEF e
  <2>3. CASE ~(c.free >= q \/ c.count = 0) /\ AtTail(m, c).res = "VALID"
    <3>1. Without(m, c) \in Context
      BY <2>3, WithoutTyped
    <3>. QED  BY <1>2, <2>3, <3>1
  <2>. QED  BY <2>1, <2>2, <2>3
<1>4. ASSUME NEW c \in Context, ~halts(c)
      PROVE  rest(c).c \in Context /\ Rounds(m, rest(c).c) < Rounds(m, c)
  BY <1>4, RoundsFall
<1> HIDE DEF halts, left, rest
<1>5. IsRecursion(Context, Windows, mu, stop, next, base, comb)
  <2>1. \A c \in Context : stop[c] => base[c] \in Windows
    BY <1>3
  <2>2. \A c \in Context : ~stop[c] => next[c] \in Context /\ mu[next[c]] < mu[c]
    BY <1>4
  <2>3. \A c \in Context : \A v \in Windows : ~stop[c] => comb[c][v] \in Windows
    OBVIOUS
  <2>. QED  BY <1>1, <2>1, <2>2, <2>3 DEF IsRecursion
<1>6. PICK f \in [Context -> Windows] : Solves(f, Context, stop, next, base, comb)
  <2> HIDE DEF mu, stop, next, base, comb
  <2>. QED  BY <1>5, RecursionExists
<1>7. ASSUME NEW c \in Context PROVE f[c] = RetireBody(m, q, c, f)
  <2>1. f[c] = IF halts(c) THEN left(c) ELSE comb[c][f[rest(c).c]]
    BY <1>6 DEF Solves
  <2>2. ~halts(c) => comb[c][f[rest(c).c]] = f[rest(c).c]
    <3>1. ~halts(c) => f[rest(c).c] \in Windows
      BY <1>4
    <3>. QED  BY <3>1
  <2>3. f[c] = IF halts(c) THEN left(c) ELSE f[rest(c).c]
    <3> HIDE DEF comb
    <3>. QED  BY <2>1, <2>2
  <2>4. RetireBody(m, q, c, f) =
          IF c.free >= q \/ c.count = 0 THEN ring_validate_window(m, c)
          ELSE IF AtTail(m, c).res # "VALID"
          THEN walked([c EXCEPT !.tail = ring_normalize_tail_cursor(c, c.tail)], Failed)
          ELSE IF rest(c).ok THEN f[rest(c).c] ELSE rest(c)
    BY Zenon DEF RetireBody, AtTail, Without, rest, Found
  <2>. QED  BY <2>3, <2>4, Zenon DEF halts, left
<1>8. f = Body(f)
  <2> HIDE DEF comb, stop, next, base, mu
  <2>. QED  BY <1>6, <1>7
<1>9. retire_from(m, q) = CHOOSE e : e = Body(e)
  BY Zenon DEF retire_from, RetireBody
<1> HIDE DEF Body
<1>10. retire_from(m, q) = Body(retire_from(m, q))
  BY <1>8, <1>9, Zenon
<1>. QED  BY <1>10 DEF Body

-----------------------------------------------------------------------------
\* What retiring the tail leaves: a window that holds the newest of the records,
\* with the cells that were required free, or without any record.
Retired(m, c, q, v) ==
  /\ v.ok /\ Validated(m, v.c) /\ SameBut(c, v.c) /\ v.c.next = c.next
  /\ q <= Cap - ring_occupied(v.c) \/ v.c.count = 0
  /\ ~EndZone(c.wp) /\ ~EndZone(c.tail) => ~EndZone(v.c.tail)
  /\ \E S \in Seq(Entries) : ring_walk(m, c).recs = S \o ring_walk(m, v.c).recs

\* Validating a validated context changes nothing but free.
LEMMA ValidatedTwice ==
  ASSUME NEW m \in Media, NEW c, Validated(m, c)
  PROVE  LET v == ring_validate_window(m, c)
         IN  /\ v.ok /\ SameBut(c, v.c) /\ v.c.tail = c.tail /\ v.c.next = c.next
             /\ v.c.free = Cap - ring_occupied(c) /\ v.c.count = c.count
             /\ Validated(m, v.c) /\ ring_walk(m, v.c) = ring_walk(m, c)
             /\ ring_occupied(v.c) = ring_occupied(c)
<1> DEFINE v == ring_validate_window(m, c)
           w == ring_walk(m, c)
<1>1. /\ c \in Context /\ w.ok /\ c.count = Len(w.recs) /\ InArea(c)
      /\ w.recs # <<>> => c.next = NextSeq(Last(w.recs).seq)
  BY DEF Validated, Agrees
<1>2. /\ v.ok /\ SameBut(c, v.c) /\ v.c.tail = c.tail
      /\ v.c.free = Cap - ring_occupied(c)
      /\ v.c.next = IF w.recs = <<>> THEN c.next ELSE NextSeq(Last(w.recs).seq)
      /\ Validated(m, v.c) /\ ring_walk(m, v.c) = w
  BY <1>1, Validating
<1>3. v.c.next = c.next
  <2> HIDE DEF v, w
  <2>. QED  BY <1>1, <1>2
<1>4. v.c.count = Len(ring_walk(m, v.c).recs)
  BY <1>2 DEF Validated
<1>5. v.c.count = c.count
  <2> HIDE DEF v, w
  <2>. QED  BY <1>1, <1>2, <1>4
<1>6. ring_occupied(v.c) = ring_occupied(c)
  BY <1>2, <1>5 DEF ring_occupied, SameBut
<1>. QED  BY <1>2, <1>3, <1>5, <1>6

\* ring_retire_tail_to_free keeps a validated window validated: it drops records
\* from the oldest end only, and frees the bytes it accounts for.
LEMMA Retiring ==
  ASSUME NEW m \in Media, NEW q \in Nat
  PROVE  \A c \in Context :
            Validated(m, c) /\ (c.free = Cap - ring_occupied(c) \/ c.count = 0) =>
              Retired(m, c, q, ring_retire_tail_to_free(m, c, q))
<1> DEFINE R(c) == ring_retire_tail_to_free(m, c, q)
           Good(c) == Validated(m, c) /\ (c.free = Cap - ring_occupied(c) \/ c.count = 0)
           T == {n \in Nat : \E c \in Context : Good(c) /\ ring_occupied(c) = n /\ ~Retired(m, c, q, R(c))}
<1>1. ASSUME NEW c \in Context, Good(c),
             \A d \in Context : Good(d) /\ ring_occupied(d) < ring_occupied(c) => Retired(m, d, q, R(d))
      PROVE  Retired(m, c, q, R(c))
  <2> DEFINE r == AtTail(m, c)
             D == Without(m, c)
             v == ring_validate_window(m, D)
             w == ring_walk(m, c)
  <2>0. /\ c.wp \in Nat /\ c.tail \in Nat /\ c.free \in Nat /\ c.count \in Nat
        /\ ring_occupied(c) \in 0 .. Cap /\ InArea(c)
        /\ w.ok /\ w.recs \in Seq(Entries) /\ c.count = Len(w.recs) /\ Agrees(w.recs, c.next)
    <3>1. InArea(c) /\ w.ok /\ w.recs \in Seq(Entries) /\ c.count = Len(w.recs) /\ Agrees(w.recs, c.next)
      BY <1>1 DEF Validated
    <3>. QED  BY <3>1, WalkOfWindow DEF Context
  <2>1. R(c) = RetireBody(m, q, c, retire_from(m, q))
    BY RetireUnfolds DEF ring_retire_tail_to_free
  <2>2. CASE c.free >= q \/ c.count = 0
    <3> DEFINE u == ring_validate_window(m, c)
    <3>1. R(c) = u
      BY <2>1, <2>2 DEF RetireBody
    <3>2. /\ u.ok /\ SameBut(c, u.c) /\ u.c.tail = c.tail /\ u.c.next = c.next
          /\ u.c.count = c.count /\ Validated(m, u.c) /\ ring_walk(m, u.c) = w
          /\ ring_occupied(u.c) = ring_occupied(c)
      BY <1>1, ValidatedTwice
    <3>3. q <= Cap - ring_occupied(c) \/ c.count = 0
      BY <1>1, <2>0, <2>2, CapNat
    <3>4. <<>> \in Seq(Entries) /\ w.recs = <<>> \o w.recs
      <4> HIDE DEF w
      <4>. QED  BY <2>0
    <3>5. ring_walk(m, c).recs = <<>> \o ring_walk(m, u.c).recs
      <4>1. ring_walk(m, u.c).recs = w.recs
        BY <3>2
      <4>. QED  BY <3>4, <4>1
    <3> HIDE DEF u
    <3>. QED  BY <3>1, <3>2, <3>3, <3>4, <3>5 DEF Retired
  <2>3. CASE ~(c.free >= q \/ c.count = 0)
    <3>1. /\ r.res = "VALID" /\ D \in Context /\ InArea(D)
          /\ D.wp = c.wp /\ D.gen = c.gen /\ D.next = c.next /\ D.mounted = c.mounted
          /\ D.mseq = c.mseq
          /\ ring_walk(m, D).ok /\ D.count = Len(ring_walk(m, D).recs) /\ D.count <= c.count
          /\ ring_occupied(D) < ring_occupied(c)
          /\ ring_walk(m, D).recs \in Seq(Entries)
          /\ ring_walk(m, D).recs # <<>> => Last(ring_walk(m, D).recs) = Last(w.recs)
          /\ w.recs = (IF r.d.type = "DATA" THEN <<Entry(r)>> ELSE <<>>) \o ring_walk(m, D).recs
          /\ ~EndZone(c.wp) => ~EndZone(D.tail)
      BY <2>0, <2>3, Dropping DEF AtTail, Without
    <3>2. R(c) = IF v.ok THEN R(v.c) ELSE v
      BY <2>1, <2>3, <3>1, Zenon DEF RetireBody, AtTail, Without, Found, ring_retire_tail_to_free
    <3>3. Agrees(ring_walk(m, D).recs, D.next)
      <4>1. ring_walk(m, D).recs # <<>> => w.recs # <<>>
        <5>1. Len(ring_walk(m, D).recs) <= Len(w.recs)
          BY <2>0, <3>1
        <5> HIDE DEF w, D
        <5>. QED  BY <2>0, <3>1, <5>1
      <4> HIDE DEF w, D
      <4>. QED  BY <2>0, <3>1, <4>1 DEF Agrees
    <3>4. Validated(m, D)
      <4> HIDE DEF D
      <4>. QED  BY <3>1, <3>3 DEF Validated
    <3>5. /\ v.ok /\ SameBut(D, v.c) /\ v.c.tail = D.tail /\ v.c.next = D.next
          /\ v.c.free = Cap - ring_occupied(D)
          /\ Validated(m, v.c) /\ ring_walk(m, v.c) = ring_walk(m, D)
          /\ ring_occupied(v.c) = ring_occupied(D)
      BY <3>4, ValidatedTwice
    <3> HIDE DEF v, D
    <3>6. v.c \in Context /\ Good(v.c) /\ ring_occupied(v.c) < ring_occupied(c)
      BY <3>1, <3>5 DEF SameBut
    <3>7. Retired(m, v.c, q, R(v.c))
      <4> HIDE DEF Good, R
      <4>. QED  BY <1>1, <3>6
    <3> DEFINE z == R(v.c)
    <3>8. R(c) = z
      BY <3>2, <3>5
    <3>9. PICK S \in Seq(Entries) : ring_walk(m, v.c).recs = S \o ring_walk(m, z.c).recs
      BY <3>7 DEF Retired
    <3> DEFINE h == IF r.d.type = "DATA" THEN <<Entry(r)>> ELSE <<>>
    <3>10. h \in Seq(Entries)
      <4>1. r.d \in Headers /\ r.v \in Nat
        <5>1. ring_normalize_tail_cursor(c, c.tail) \in Nat
          BY <2>0 DEF ring_normalize_tail_cursor
        <5>. QED  BY <3>1, <5>1, CapNat, ValidIsRecord DEF AtTail, Found, Media
      <4> HIDE DEF r
      <4>2. Entry(r) \in Entries
        BY <4>1 DEF Entry, Entries, Headers
      <4>. QED  BY <4>2
    <3> HIDE DEF h, z
    <3>11. w.recs = h \o (S \o ring_walk(m, z.c).recs)
      BY <3>1, <3>5, <3>9, Zenon DEF h
    <3>12. ring_walk(m, z.c).recs \in Seq(Entries)
      BY <3>7 DEF Retired, Validated, z
    <3>13. h \o S \in Seq(Entries) /\ h \o (S \o ring_walk(m, z.c).recs) = (h \o S) \o ring_walk(m, z.c).recs
      <4> DEFINE Z == ring_walk(m, z.c).recs
      <4> HIDE DEF Z
      <4>1. Z \in Seq(Entries)
        BY <3>12 DEF Z
      <4>2. h \o (S \o Z) = (h \o S) \o Z /\ h \o S \in Seq(Entries)
        BY <3>9, <3>10, <4>1
      <4>. QED  BY <4>2 DEF Z
    <3>14. \E S2 \in Seq(Entries) : ring_walk(m, c).recs = S2 \o ring_walk(m, z.c).recs
      BY <3>11, <3>13
    <3>15. SameBut(c, z.c) /\ z.c.next = c.next
      BY <3>1, <3>5, <3>7 DEF Retired, SameBut, z
    <3>16. ~EndZone(c.wp) /\ ~EndZone(c.tail) => ~EndZone(z.c.tail)
      <4>1. v.c.wp = c.wp /\ v.c.tail = D.tail
        BY <3>1, <3>5 DEF SameBut
      <4>2. ~EndZone(v.c.wp) /\ ~EndZone(v.c.tail) => ~EndZone(z.c.tail)
        BY <3>7 DEF Retired, z
      <4>. QED  BY <3>1, <4>1, <4>2
    <3>17. Retired(m, c, q, z)
      BY <3>7, <3>14, <3>15, <3>16 DEF Retired, z
    <3>. QED  BY <3>8, <3>17
  <2>. QED  BY <2>2, <2>3
<1>2. \A c \in Context : Good(c) => ring_occupied(c) \in Nat
  <2> SUFFICES ASSUME NEW c \in Context, Good(c) PROVE ring_occupied(c) \in Nat
    OBVIOUS
  <2>1. InArea(c)
    BY DEF Validated
  <2>. QED  BY <2>1, WalkOfWindow, CapNat
<1> HIDE DEF Good, R
<1>3. T = {}
  <2> SUFFICES ASSUME T # {} PROVE FALSE
    OBVIOUS
  <2>1. T \subseteq Nat
    OBVIOUS
  <2> HIDE DEF T
  <2>2. PICK n \in T : \A j \in T : n <= j
    BY <2>1, LeastNat
  <2>3. PICK c \in Context : Good(c) /\ ring_occupied(c) = n /\ ~Retired(m, c, q, R(c))
    BY <2>2 DEF T
  <2>4. PICK d \in Context : Good(d) /\ ring_occupied(d) < ring_occupied(c) /\ ~Retired(m, d, q, R(d))
    BY <1>1, <2>3
  <2>5. ring_occupied(d) \in T /\ ring_occupied(d) \in Nat /\ n \in Nat
    BY <1>2, <2>1, <2>2, <2>4 DEF T
  <2>. QED  BY <2>2, <2>3, <2>4, <2>5
<1>4. \A c \in Context : Good(c) => Retired(m, c, q, R(c))
  BY <1>2, <1>3
<1>. QED  BY <1>4 DEF Good, R

\* Validating the window of an append and, if it lacks room, retiring its tail.
LEMMA MakingRoom ==
  ASSUME NEW m \in Media, NEW c \in Context, NEW q \in Nat,
         ring_walk(m, c).ok => Agrees(ring_walk(m, c).recs, c.next)
  PROVE  LET r == make_room(m, c, q)
         IN  /\ r.ok <=> ring_walk(m, c).ok
             /\ ~r.ok => r.c = c
             /\ r.ok => Retired(m, c, q, r)
<1> DEFINE r == make_room(m, c, q)
           v == ring_validate_window(m, c)
           w == ring_walk(m, c)
           R == ring_retire_tail_to_free(m, v.c, q)
<1>1. r = IF v.ok /\ v.c.free < q THEN R ELSE v
  BY DEF make_room
<1>2. CASE ~w.ok
  <2>1. v.c = c /\ ~v.ok
    <3>1. v.ok \in BOOLEAN /\ (v.ok <=> w.ok) /\ (~w.ok => v.c = c)
      BY Validating
    <3>. QED  BY <1>2, <3>1
  <2> HIDE DEF v, w, R
  <2>2. r = v
    BY <1>1, <2>1
  <2> HIDE DEF r
  <2>3. ~r.ok /\ r.c = c
    BY <2>1, <2>2
  <2>. QED  BY <1>2, <2>3 DEF r, w
<1>3. CASE w.ok
  <2>1. /\ v.ok /\ InArea(c) /\ SameBut(c, v.c) /\ v.c.tail = c.tail
        /\ v.c.free = Cap - ring_occupied(c)
        /\ v.c.next = IF w.recs = <<>> THEN c.next ELSE NextSeq(Last(w.recs).seq)
        /\ Validated(m, v.c) /\ ring_walk(m, v.c) = w
        /\ \/ ring_occupied(v.c) = ring_occupied(c)
           \/ v.c.count = 0 /\ ring_occupied(v.c) <= ring_occupied(c)
    BY <1>3, Validating
  <2>2. v.c.next = c.next
    <3>1. Agrees(w.recs, c.next)
      BY <1>3
    <3> HIDE DEF v, w
    <3>. QED  BY <2>1, <3>1 DEF Agrees
  <2>3. w.recs \in Seq(Entries) /\ v.c \in Context
    BY <2>1 DEF Validated
  <2>4. ring_occupied(c) \in Nat
    BY <2>1, WalkOfWindow, CapNat
  <2>5. CASE v.c.free < q
    <3>1. Retired(m, v.c, q, R)
      <4> HIDE DEF v, R
      <4>1. v.c.free = Cap - ring_occupied(v.c) \/ v.c.count = 0
        BY <2>1
      <4>. QED  BY <2>1, <2>3, <4>1, Retiring DEF R
    <3>2. r = R
      <4> HIDE DEF R, v, r
      <4>. QED  BY <1>1, <2>1, <2>5
    <3> HIDE DEF R, v, w, r
    <3>3. SameBut(c, R.c) /\ R.c.next = c.next
      BY <2>1, <2>2, <3>1 DEF Retired, SameBut
    <3>4. ~EndZone(c.wp) /\ ~EndZone(c.tail) => ~EndZone(R.c.tail)
      BY <2>1, <3>1 DEF Retired, SameBut
    <3>5. \E S \in Seq(Entries) : w.recs = S \o ring_walk(m, R.c).recs
      BY <2>1, <3>1 DEF Retired
    <3>6. Retired(m, c, q, R)
      BY <3>1, <3>3, <3>4, <3>5 DEF Retired, w
    <3>7. Retired(m, c, q, r) /\ r.ok
      BY <3>2, <3>6 DEF Retired
    <3>. QED  BY <1>3, <3>7 DEF r, w
  <2>6. CASE ~(v.c.free < q)
    <3>1. r = v
      <4> HIDE DEF R, v, r
      <4>. QED  BY <1>1, <2>6
    <3>2. w.recs = <<>> \o w.recs /\ <<>> \in Seq(Entries)
      <4> HIDE DEF w
      <4>. QED  BY <2>3
    <3> HIDE DEF R, v, w, r
    <3>3. q <= Cap - ring_occupied(v.c) \/ v.c.count = 0
      BY <2>1, <2>4, <2>6, CapNat
    <3>4. \E S \in Seq(Entries) : w.recs = S \o ring_walk(m, v.c).recs
      BY <2>1, <3>2
    <3>5. Retired(m, c, q, v)
      BY <2>1, <2>2, <3>3, <3>4 DEF Retired, w
    <3>6. Retired(m, c, q, r) /\ r.ok
      BY <2>1, <3>1, <3>5
    <3>. QED  BY <1>3, <3>6 DEF r, w
  <2>. QED  BY <2>5, <2>6
<1>. QED  BY <1>2, <1>3
-----------------------------------------------------------------------------
\* What a record consists of, cell by cell, and its first q cells on the media.
Img(d, v, i) ==
  IF i < HdrCells THEN HeaderCell(d, i + 1)
  ELSE IF i < HdrCells + d.len THEN PayloadCell(v)
  ELSE IF i = HdrCells + d.len THEN CrcCell(d, v) ELSE Commit

Image(m, b, d, v, q) == \A i \in 0 .. q - 1 : m[b + i] = Img(d, v, i)

\* A HAL write of the n cells of a record behind its first a.
IsPart(w, b, d, v, a, n) ==
  /\ w.at = b + a /\ Len(w.cells) = n
  /\ \A j \in 1 .. n : w.cells[j] = Img(d, v, a + j - 1)

\* What the writes of a record, stopped anywhere, make of the media: the last of
\* its cells is cleared, or its first cells are there.
Written(m, m2, b, d, v) ==
  \/ \A i \in Cursors :
       \/ m2[i] = m[i]
       \/ i = b + rec_alloc_bytes(d.len) - 1 /\ m2[i] = Erased
  \/ \E q \in 1 .. rec_alloc_bytes(d.len) :
       Image(m2, b, d, v, q) /\ \A i \in Cursors : i \in b .. b + q - 1 \/ m2[i] = m[i]

\* How far the writes of a record have come.
Progress(m, b, d, v, left) ==
  LET Hdr == HeaderWrite(b, d)
      Bod == BodyWrite(b, d, v)
      Crc == CrcWrite(b, d, v)
      Com == CommitWrite(b, d)
  IN  \/ left = write_record_wire(b, d, v)
      \/ left = IF d.len > 0 THEN <<Hdr, Bod, Crc, Com>> ELSE <<Hdr, Crc, Com>>
      \/ left = <<Bod, Crc, Com>> /\ Image(m, b, d, v, HdrCells)
      \/ left = <<Crc, Com>> /\ Image(m, b, d, v, HdrCells + d.len)
      \/ left = <<Com>> /\ Image(m, b, d, v, HdrCells + d.len + 1)
      \/ left = <<>> /\ Image(m, b, d, v, rec_alloc_bytes(d.len))

\* The cells of a record are cells.
LEMMA ImgCell ==
  ASSUME NEW d \in Headers, NEW v \in Nat, NEW i \in Nat, i < rec_alloc_bytes(d.len)
  PROVE  Img(d, v, i) \in Cells(Nat)
<1>1. i < HdrCells => i + 1 \in 1 .. HdrCells
  BY CapNat
<1>2. CASE i < HdrCells
  BY <1>1, <1>2 DEF Img, Cells
<1>3. CASE ~(i < HdrCells)
  BY <1>3 DEF Img, Cells
<1>. QED  BY <1>2, <1>3

\* What a HAL write leaves in each cell, when its first k cells arrive.
LEMMA CellsPut ==
  ASSUME NEW m \in Media, NEW w, w.at \in Nat, NEW k \in Nat,
         \A j \in 1 .. k : w.cells[j] \in Cells(Nat)
  PROVE  /\ Put(m, w, k) \in Media
         /\ \A i \in Cursors : Put(m, w, k)[i] =
              IF i \in w.at .. w.at + k - 1 THEN w.cells[i - w.at + 1] ELSE m[i]
<1> DEFINE m2 == Put(m, w, k)
<1>1. m2 = [i \in 0 .. Cap - 1 |-> IF i \in w.at .. w.at + k - 1 THEN w.cells[i - w.at + 1] ELSE m[i]]
  BY Zenon DEF Put, Media
<1>2. ASSUME NEW i \in 0 .. Cap - 1
      PROVE  (IF i \in w.at .. w.at + k - 1 THEN w.cells[i - w.at + 1] ELSE m[i]) \in Cells(Nat)
  <2>1. m[i] \in Cells(Nat)
    BY DEF Media
  <2>2. i \in w.at .. w.at + k - 1 => i - w.at + 1 \in 1 .. k
    BY CapNat
  <2>. QED  BY <2>1, <2>2
<1>. QED  BY <1>1, <1>2 DEF Media, Cursors

\* Such a write of the next cells of a record, torn or not.
LEMMA PartEffect ==
  ASSUME NEW m \in Media, NEW b \in Nat, NEW d \in Headers, NEW v \in Nat, NEW w,
         NEW a \in Nat, NEW n \in Nat, a + n <= rec_alloc_bytes(d.len),
         b + rec_alloc_bytes(d.len) <= Cap,
         IsPart(w, b, d, v, a, n), Image(m, b, d, v, a), NEW k \in 0 .. n
  PROVE  LET m2 == Put(m, w, k)
         IN  m2 \in Media /\ Image(m2, b, d, v, a + k) /\ Written(m, m2, b, d, v)
<1> DEFINE m2 == Put(m, w, k)
<1>1. /\ w.at = b + a /\ w.at \in Nat /\ k \in Nat /\ d.len \in Nat
      /\ rec_alloc_bytes(d.len) \in Nat /\ Cap \in Nat
  BY CapNat DEF IsPart, Headers, rec_alloc_bytes
<1>2. \A j \in 1 .. k : w.cells[j] = Img(d, v, a + j - 1) /\ a + j - 1 \in Nat /\ a + j - 1 < rec_alloc_bytes(d.len)
  BY <1>1 DEF IsPart
<1>3. \A j \in 1 .. k : w.cells[j] \in Cells(Nat)
  BY <1>2, ImgCell
<1>4. /\ m2 \in Media
      /\ \A i \in Cursors : m2[i] = IF i \in w.at .. w.at + k - 1 THEN w.cells[i - w.at + 1] ELSE m[i]
  BY <1>1, <1>3, CellsPut
<1> HIDE DEF m2
<1>5. Image(m2, b, d, v, a + k)
  <2> SUFFICES ASSUME NEW i \in 0 .. a + k - 1 PROVE m2[b + i] = Img(d, v, i)
    BY DEF Image
  <2>1. b + i \in Cursors /\ i \in Nat
    BY <1>1 DEF Cursors
  <2>2. CASE i < a
    <3>1. m2[b + i] = m[b + i] /\ i \in 0 .. a - 1
      BY <1>1, <1>4, <2>1, <2>2
    <3>. QED  BY <3>1 DEF Image
  <2>3. CASE ~(i < a)
    <3>1. /\ b + i \in w.at .. w.at + k - 1 /\ (b + i) - w.at + 1 = i - a + 1
          /\ i - a + 1 \in 1 .. k /\ a + (i - a + 1) - 1 = i
      BY <1>1, <2>1, <2>3
    <3>2. m2[b + i] = w.cells[i - a + 1]
      BY <1>4, <2>1, <3>1
    <3>. QED  BY <1>2, <3>1, <3>2
  <2>. QED  BY <2>2, <2>3
<1>6. Written(m, m2, b, d, v)
  <2>1. CASE a + k = 0
    <3>1. \A i \in Cursors : m2[i] = m[i]
      BY <1>1, <1>4, <2>1 DEF Cursors
    <3>. QED  BY <3>1 DEF Written
  <2>2. CASE a + k # 0
    <3>1. a + k \in 1 .. rec_alloc_bytes(d.len)
      BY <1>1, <2>2
    <3>2. \A i \in Cursors : i \in b .. b + (a + k) - 1 \/ m2[i] = m[i]
      BY <1>1, <1>4 DEF Cursors
    <3>. QED  BY <1>5, <3>1, <3>2 DEF Written
  <2>. QED  BY <2>1, <2>2
<1>. QED  BY <1>4, <1>5, <1>6 DEF m2

\* The writes of a record are writes of its cells, after the first.
LEMMA Parts ==
  ASSUME NEW b \in Nat, NEW d \in Headers, NEW v \in Nat
  PROVE  /\ IsPart(HeaderWrite(b, d), b, d, v, 0, HdrCells)
         /\ IsPart(BodyWrite(b, d, v), b, d, v, HdrCells, d.len)
         /\ IsPart(CrcWrite(b, d, v), b, d, v, HdrCells + d.len, 1)
         /\ IsPart(CommitWrite(b, d), b, d, v, HdrCells + d.len + 1, 1)
<1>0. d.len \in Nat /\ HdrCells \in Nat /\ HdrCells >= 1
  BY CapNat DEF Headers
<1>1. IsPart(HeaderWrite(b, d), b, d, v, 0, HdrCells)
  BY <1>0 DEF IsPart, HeaderWrite, HalWrite, Img
<1>2. IsPart(BodyWrite(b, d, v), b, d, v, HdrCells, d.len)
  BY <1>0 DEF IsPart, BodyWrite, HalWrite, Img
<1>3. IsPart(CrcWrite(b, d, v), b, d, v, HdrCells + d.len, 1)
  BY <1>0 DEF IsPart, CrcWrite, HalWrite, Img
<1>4. IsPart(CommitWrite(b, d), b, d, v, HdrCells + d.len + 1, 1)
  BY <1>0 DEF IsPart, CommitWrite, HalWrite, Img
<1>. QED  BY <1>1, <1>2, <1>3, <1>4

\* One write of a record, torn or not, and how far the record then is.
LEMMA WriteEffect ==
  ASSUME NEW m \in Media, NEW b \in Nat, NEW d \in Headers, NEW v \in Nat, NEW left,
         Progress(m, b, d, v, left), left # <<>>, b + rec_alloc_bytes(d.len) <= Cap,
         NEW k \in 0 .. Len(Head(left).cells)
  PROVE  LET m2 == Put(m, Head(left), k)
         IN  /\ m2 \in Media /\ Written(m, m2, b, d, v)
             /\ k = Len(Head(left).cells) => Progress(m2, b, d, v, Tail(left))
<1> DEFINE Clr == ClearWrite(b, d)
           Hdr == HeaderWrite(b, d)
           Bod == BodyWrite(b, d, v)
           Crc == CrcWrite(b, d, v)
           Com == CommitWrite(b, d)
           m2 == Put(m, Head(left), k)
           Goal == /\ m2 \in Media /\ Written(m, m2, b, d, v)
                   /\ k = Len(Head(left).cells) => Progress(m2, b, d, v, Tail(left))
<1>0. /\ d.len \in Nat /\ HdrCells \in Nat /\ HdrCells >= 1
      /\ rec_alloc_bytes(d.len) = HdrCells + d.len + 2 /\ Cap \in Nat
  BY CapNat DEF Headers, rec_alloc_bytes
<1>1. /\ IsPart(Hdr, b, d, v, 0, HdrCells)
      /\ IsPart(Bod, b, d, v, HdrCells, d.len)
      /\ IsPart(Crc, b, d, v, HdrCells + d.len, 1)
      /\ IsPart(Com, b, d, v, HdrCells + d.len + 1, 1)
  BY Parts
<1>2. Clr.at = b + rec_alloc_bytes(d.len) - 1 /\ Clr.cells = <<Erased>>
  BY <1>0 DEF ClearWrite, HalWrite
<1>3. write_record_wire(b, d, v)
        = IF d.len > 0 THEN <<Clr, Hdr, Bod, Crc, Com>> ELSE <<Clr, Hdr, Crc, Com>>
  BY <1>0, WireWrites
<1> HIDE DEF Clr, Hdr, Bod, Crc, Com
<1>4. ASSUME NEW w, w = Head(left), NEW a \in Nat, NEW n \in Nat, IsPart(w, b, d, v, a, n),
             a + n <= rec_alloc_bytes(d.len), Image(m, b, d, v, a),
             \A m3 : Image(m3, b, d, v, a + n) => Progress(m3, b, d, v, Tail(left))
      PROVE  Goal
  <2>1. Len(w.cells) = n
    BY <1>4 DEF IsPart
  <2>2. k \in 0 .. n
    BY <1>4, <2>1
  <2>3. m2 = Put(m, w, k)
    BY <1>4
  <2>4. m2 \in Media /\ Image(m2, b, d, v, a + k) /\ Written(m, m2, b, d, v)
    <3> HIDE DEF m2
    <3>. QED  BY <1>4, <2>2, <2>3, PartEffect
  <2>5. k = n => Progress(m2, b, d, v, Tail(left))
    <3> HIDE DEF m2
    <3>. QED  BY <1>4, <2>4
  <2>. QED  BY <1>4, <2>1, <2>4, <2>5
<1>5. Image(m, b, d, v, 0)
  BY DEF Image
<1>6. ASSUME left = write_record_wire(b, d, v)
      PROVE  Goal
  <2>1. /\ Head(left) = Clr
        /\ Tail(left) = IF d.len > 0 THEN <<Hdr, Bod, Crc, Com>> ELSE <<Hdr, Crc, Com>>
    BY <1>3, <1>6, HeadAndTail
  <2>2. Progress(m2, b, d, v, Tail(left))
    BY <2>1, Zenon DEF Progress, Hdr, Bod, Crc, Com
  <2>3. Clr.at \in Nat /\ Len(Clr.cells) = 1 /\ Clr.cells[1] = Erased /\ k \in 0 .. 1
    <3>1. Len(<<Erased>>) = 1 /\ <<Erased>>[1] = Erased
      OBVIOUS
    <3>2. Len(Clr.cells) = 1 /\ Clr.cells[1] = Erased
      BY <1>2, <3>1, Zenon
    <3>3. k \in 0 .. Len(Clr.cells)
      BY <2>1, Zenon
    <3>4. k \in 0 .. 1
      BY <3>2, <3>3, Zenon
    <3>. QED  BY <1>0, <1>2, <3>2, <3>4
  <2>4. \A j \in 1 .. k : Clr.cells[j] \in Cells(Nat)
    BY <2>3 DEF Cells
  <2>5. m2 = Put(m, Clr, k)
    BY <2>1
  <2> HIDE DEF m2
  <2>6. /\ m2 \in Media
        /\ \A i \in Cursors : m2[i] = IF i \in Clr.at .. Clr.at + k - 1 THEN Clr.cells[i - Clr.at + 1] ELSE m[i]
    BY <2>3, <2>4, <2>5, CellsPut
  <2>7. \A i \in Cursors : m2[i] = m[i] \/ (i = b + rec_alloc_bytes(d.len) - 1 /\ m2[i] = Erased)
    <3> SUFFICES ASSUME NEW i \in Cursors, m2[i] # m[i]
                 PROVE  i = b + rec_alloc_bytes(d.len) - 1 /\ m2[i] = Erased
      OBVIOUS
    <3>1. i \in Clr.at .. Clr.at + k - 1 /\ m2[i] = Clr.cells[i - Clr.at + 1]
      BY <2>6
    <3>2. i = Clr.at /\ i - Clr.at + 1 = 1
      BY <2>3, <3>1, CapNat DEF Cursors
    <3>. QED  BY <1>2, <2>3, <3>1, <3>2
  <2>8. Written(m, m2, b, d, v)
    BY <2>7 DEF Written
  <2>. QED  BY <2>2, <2>6, <2>8
<1>7. ASSUME left = IF d.len > 0 THEN <<Hdr, Bod, Crc, Com>> ELSE <<Hdr, Crc, Com>>
      PROVE  Goal
  <2>1. /\ Head(left) = Hdr
        /\ Tail(left) = IF d.len > 0 THEN <<Bod, Crc, Com>> ELSE <<Crc, Com>>
    BY <1>7, HeadAndTail
  <2>2. ASSUME NEW m3, Image(m3, b, d, v, 0 + HdrCells) PROVE Progress(m3, b, d, v, Tail(left))
    <3>1. Image(m3, b, d, v, HdrCells) /\ (d.len = 0 => HdrCells + d.len = HdrCells)
      BY <1>0, <2>2
    <3>2. CASE d.len > 0
      BY <2>1, <3>1, <3>2, Zenon DEF Progress, Bod, Crc, Com
    <3>3. CASE ~(d.len > 0)
      <4>1. HdrCells + d.len = HdrCells
        BY <1>0, <3>3
      <4>. QED  BY <2>1, <3>1, <3>3, <4>1, Zenon DEF Progress, Crc, Com
    <3>. QED  BY <3>2, <3>3
  <2>3. 0 + HdrCells <= rec_alloc_bytes(d.len) /\ 0 \in Nat
    BY <1>0
  <2>. QED
    <3> HIDE DEF Goal
    <3>. QED  BY <1>0, <1>1, <1>4, <1>5, <2>1, <2>2, <2>3
<1>8. ASSUME left = <<Bod, Crc, Com>>, Image(m, b, d, v, HdrCells)
      PROVE  Goal
  <2>1. Head(left) = Bod /\ Tail(left) = <<Crc, Com>>
    BY <1>8, HeadAndTail
  <2>2. ASSUME NEW m3, Image(m3, b, d, v, HdrCells + d.len) PROVE Progress(m3, b, d, v, Tail(left))
    BY <2>1, <2>2, Zenon DEF Progress, Crc, Com
  <2>3. HdrCells + d.len <= rec_alloc_bytes(d.len)
    BY <1>0
  <2>. QED
    <3> HIDE DEF Goal
    <3>. QED  BY <1>0, <1>1, <1>4, <1>8, <2>1, <2>2, <2>3
<1>9. ASSUME left = <<Crc, Com>>, Image(m, b, d, v, HdrCells + d.len)
      PROVE  Goal
  <2>1. Head(left) = Crc /\ Tail(left) = <<Com>>
    BY <1>9, HeadAndTail
  <2>2. ASSUME NEW m3, Image(m3, b, d, v, HdrCells + d.len + 1) PROVE Progress(m3, b, d, v, Tail(left))
    BY <2>1, <2>2, Zenon DEF Progress, Com
  <2>3. HdrCells + d.len + 1 <= rec_alloc_bytes(d.len) /\ 1 \in Nat /\ HdrCells + d.len \in Nat
    BY <1>0
  <2>. QED
    <3> HIDE DEF Goal
    <3>. QED  BY <1>0, <1>1, <1>4, <1>9, <2>1, <2>2, <2>3
<1>10. ASSUME left = <<Com>>, Image(m, b, d, v, HdrCells + d.len + 1)
      PROVE  Goal
  <2>1. Head(left) = Com /\ Tail(left) = <<>>
    BY <1>10, HeadAndTail
  <2>2. ASSUME NEW m3, Image(m3, b, d, v, (HdrCells + d.len + 1) + 1) PROVE Progress(m3, b, d, v, Tail(left))
    <3>1. (HdrCells + d.len + 1) + 1 = rec_alloc_bytes(d.len)
      BY <1>0
    <3>. QED  BY <2>1, <2>2, <3>1, Zenon DEF Progress
  <2>3. (HdrCells + d.len + 1) + 1 <= rec_alloc_bytes(d.len) /\ 1 \in Nat /\ HdrCells + d.len + 1 \in Nat
    BY <1>0
  <2>. QED
    <3> HIDE DEF Goal
    <3>. QED  BY <1>0, <1>1, <1>4, <1>10, <2>1, <2>2, <2>3
<1>11. Goal
  <2> HIDE DEF Goal
  <2>. QED  BY <1>6, <1>7, <1>8, <1>9, <1>10 DEF Progress, Hdr, Bod, Crc, Com
<1>. QED  BY <1>11

\* All the cells of a record are the record.
LEMMA ImageIsRecord ==
  ASSUME NEW m, NEW b \in Nat, NEW d \in Headers, NEW v,
         b + rec_alloc_bytes(d.len) <= Cap, Image(m, b, d, v, rec_alloc_bytes(d.len))
  PROVE  RecordAt(m, Cap, b, d, v)
<1>0. /\ d.len \in Nat /\ HdrCells \in Nat /\ HdrCells >= 1
      /\ rec_alloc_bytes(d.len) = HdrCells + d.len + 2
  BY CapNat DEF Headers, rec_alloc_bytes
<1>1. \A i \in 0 .. HdrCells + d.len + 1 : m[b + i] = Img(d, v, i)
  BY <1>0 DEF Image
<1>2. HeaderAt(m, b, d)
  <2> SUFFICES ASSUME NEW k \in 1 .. HdrCells PROVE m[b + k - 1] = HeaderCell(d, k)
    BY DEF HeaderAt
  <2>1. k - 1 \in 0 .. HdrCells + d.len + 1 /\ b + (k - 1) = b + k - 1 /\ (k - 1) + 1 = k /\ k - 1 < HdrCells
    BY <1>0
  <2>. QED  BY <1>1, <2>1 DEF Img
<1>3. BodyAt(m, b, d, v)
  <2> SUFFICES ASSUME NEW k \in 1 .. d.len PROVE m[b + HdrCells + k - 1] = PayloadCell(v)
    BY DEF BodyAt
  <2> DEFINE i == HdrCells + k - 1
  <2>1. i \in 0 .. HdrCells + d.len + 1 /\ b + i = b + HdrCells + k - 1 /\ ~(i < HdrCells) /\ i < HdrCells + d.len
    BY <1>0
  <2> HIDE DEF i
  <2>. QED  BY <1>1, <2>1 DEF Img
<1>4. m[b + HdrCells + d.len] = CrcCell(d, v)
  <2> DEFINE i == HdrCells + d.len
  <2>1. i \in 0 .. HdrCells + d.len + 1 /\ b + i = b + HdrCells + d.len /\ ~(i < HdrCells) /\ ~(i < HdrCells + d.len)
    BY <1>0
  <2>. QED  BY <1>1, <2>1 DEF Img
<1>5. m[b + HdrCells + d.len + 1] = Commit
  <2> DEFINE i == HdrCells + d.len + 1
  <2>1. /\ i \in 0 .. HdrCells + d.len + 1 /\ b + i = b + HdrCells + d.len + 1 /\ ~(i < HdrCells)
        /\ ~(i < HdrCells + d.len) /\ i # HdrCells + d.len
    BY <1>0
  <2>. QED  BY <1>1, <2>1 DEF Img
<1>. QED  BY <1>2, <1>3, <1>4, <1>5 DEF RecordAt
-----------------------------------------------------------------------------
\* The first cell of a header.
Starts(x) == x[1] = "header" /\ x[2] = 1

\* No walk holds that begins where no header begins.
LEMMA NoStart ==
  ASSUME NEW m \in Media, NEW g, NEW w \in Cursors, NEW x \in Cursors, NEW o \in 1 .. Cap,
         ~EndZone(x), ~Starts(m[x])
  PROVE  ~Walk(m, g, w, x, o).ok
<1> SUFFICES ASSUME Walk(m, g, w, x, o).ok PROVE FALSE
  OBVIOUS
<1>1. StepAt(m, g, w, x) # 0
  BY OkPasses DEF Passes
<1>2. ~in_end_gap(w, x)
  BY DEF in_end_gap, EndZone
<1>3. RecordAt(m, Cap, x, Found(m, g, x).d, Found(m, g, x).v)
  BY <1>1, <1>2, StepTyped, CapNat DEF Cursors
<1>4. 1 \in 1 .. HdrCells /\ x + 1 - 1 = x
  BY CapNat DEF Cursors
<1>5. m[x] = HeaderCell(Found(m, g, x).d, 1)
  BY <1>3, <1>4 DEF RecordAt, HeaderAt
<1>. QED  BY <1>5 DEF Starts, HeaderCell

\* A walk to the data limit from a WRAP record that ends there delivers nothing.
LEMMA WrapOnly ==
  ASSUME NEW m \in Media, NEW g, NEW x \in Cursors, NEW d \in Headers,
         m[x] = HeaderCell(d, 1), d.type = "WRAP", x + rec_alloc_bytes(d.len) = Cap,
         Walk(m, g, 0, x, Cap - x).ok
  PROVE  Walk(m, g, 0, x, Cap - x).recs = <<>>
<1> DEFINE s == StepAt(m, g, 0, x)
           h == HeldAt(m, g, 0, x)
           r == Found(m, g, x)
<1>0. /\ d.len \in Nat /\ x \in Nat /\ 0 \in Cursors /\ Cap - x \in 1 .. Cap
      /\ rec_alloc_bytes(d.len) >= Overhead /\ rec_alloc_bytes(d.len) \in Nat
  BY CapNat DEF Headers, Cursors, rec_alloc_bytes
<1>1. Passes(m, g, 0, x, Cap - x)
  BY <1>0, OkPasses
<1>2. /\ s \in 1 .. Cap - x
      /\ Walk(m, g, 0, x, Cap - x) = Passed(h \o Walk(m, g, 0, wrapped(x + s), (Cap - x) - s).recs)
  BY <1>1 DEF Passes
<1>3. ~in_end_gap(0, x)
  <2>1. ~(Cap - x < Overhead)
    BY <1>0, CapNat
  <2>. QED  BY <2>1 DEF in_end_gap
<1>4. s # 0
  BY <1>2
<1>5. r.d \in Headers /\ RecordAt(m, Cap, x, r.d, r.v) /\ s = rec_alloc_bytes(r.d.len)
  BY <1>0, <1>3, <1>4, StepTyped
<1>6. r.d = d
  <2>1. 1 \in 1 .. HdrCells /\ x + 1 - 1 = x
    BY <1>0, CapNat
  <2>2. m[x] = HeaderCell(r.d, 1)
    BY <1>5, <2>1 DEF RecordAt, HeaderAt
  <2> HIDE DEF r
  <2>. QED  BY <2>2 DEF HeaderCell
<1>7. h = <<>>
  BY <1>6 DEF HeldAt, held
<1>8. s = Cap - x
  <2> HIDE DEF r, s
  <2>. QED  BY <1>0, <1>5, <1>6, CapNat DEF rec_alloc_bytes
<1>9. wrapped(x + s) = 0 /\ (Cap - x) - s = 0
  <2> HIDE DEF s
  <2>. QED  BY <1>0, <1>8, CapNat DEF wrapped
<1>10. Walk(m, g, 0, 0, 0).recs = <<>>
  BY WalkEnds, CapNat
<1>11. Walk(m, g, 0, x, Cap - x) = Passed(<<>> \o <<>>)
  BY <1>2, <1>7, <1>9, <1>10, Zenon
<1>12. <<>> \o <<>> = <<>>
  OBVIOUS
<1>. QED  BY <1>11, <1>12 DEF Passed

-----------------------------------------------------------------------------
\* What a context knows of the media.  If its window holds, the next sequence
\* number is that after the newest record, and it stays so whatever an interrupted
\* append writes behind the write pointer: that is why the second part is about the
\* window of a context that is full as about the records from the start of the
\* area to the write pointer, and the third about a window in two parts.
Sound(m, c) ==
  LET L == ring_walk(m, c)
      A == Walk(m, c.gen, 0, c.tail, Cap - c.tail)
      B == Walk(m, c.gen, c.wp, 0, c.wp)
  IN  /\ c.tail < c.wp => \/ L.ok /\ Agrees(L.recs, c.next)
                          \/ ~Starts(m[c.tail])
      /\ c.tail = c.wp /\ c.count > 0 =>
           /\ L.ok => Agrees(L.recs, c.next)
           /\ B.ok => Agrees(B.recs, c.next)
      /\ c.wp < c.tail =>
           /\ B.ok => Agrees(B.recs, c.next)
           /\ A.ok /\ B.ok /\ B.recs = <<>> => Agrees(A.recs, c.next)

\* The newest record of a window in two parts is that of the second, if it has any.
LEMMA AgreesJoined ==
  ASSUME NEW R \in Seq(Entries), NEW T \in Seq(Entries), NEW n
  PROVE  /\ T # <<>> => (Agrees(R \o T, n) <=> Agrees(T, n))
         /\ T = <<>> => (Agrees(R \o T, n) <=> Agrees(R, n))
<1>1. CASE T # <<>>
  <2>1. R \o T # <<>> /\ Last(R \o T) = Last(T)
    BY <1>1 DEF Last
  <2>. QED  BY <1>1, <2>1 DEF Agrees
<1>2. CASE T = <<>>
  <2>1. R \o T = R
    BY <1>2
  <2>. QED  BY <1>2, <2>1
<1>. QED  BY <1>1, <1>2

\* The walk of a window that spans the end of the area is the walk up to the end
\* of the area followed by the walk from its start.
LEMMA WindowSplits ==
  ASSUME NEW m \in Media, NEW c, InArea(c), ring_walk(m, c).ok,
         c.wp < c.tail \/ (c.wp = c.tail /\ c.count > 0)
  PROVE  LET A == Walk(m, c.gen, 0, c.tail, Cap - c.tail)
             B == Walk(m, c.gen, c.wp, 0, c.wp)
         IN  /\ A.ok /\ B.ok /\ A.recs \in Seq(Entries) /\ B.recs \in Seq(Entries)
             /\ ring_walk(m, c).recs = A.recs \o B.recs
<1> DEFINE A == Walk(m, c.gen, 0, c.tail, Cap - c.tail)
           B == Walk(m, c.gen, c.wp, 0, c.wp)
           o == ring_occupied(c)
<1>1. /\ ring_walk(m, c) = Walk(m, c.gen, c.wp, c.tail, o)
      /\ o \in 0 .. Cap /\ c.wp \in Cursors /\ c.tail \in Cursors
      /\ c.wp \in Nat /\ c.tail \in Nat /\ 0 \in Nat /\ Cap - c.tail \in Nat
      /\ c.tail + o = c.wp + Cap /\ c.wp <= c.tail
  BY WalkOfWindow, CapNat DEF InArea, Cursors
<1>2. A.ok /\ B.ok /\ ring_walk(m, c).recs = A.recs \o B.recs
  <2> DEFINE g == c.gen
             w == c.wp
             x == c.tail
  <2>1. /\ Walk(m, g, w, x, o).ok /\ w \in Cursors /\ x \in Cursors /\ o \in 0 .. Cap
        /\ x + o = w + Cap /\ w <= x
    BY <1>1
  <2> HIDE DEF o, g, w, x
  <2>2. /\ Walk(m, g, 0, x, Cap - x).ok /\ Walk(m, g, w, 0, w).ok
        /\ Walk(m, g, w, x, o).recs = Walk(m, g, 0, x, Cap - x).recs \o Walk(m, g, w, 0, w).recs
    BY <2>1, WalkSplits
  <2>. QED  BY <1>1, <2>2 DEF g, w, x
<1>3. A \in Walks /\ B \in Walks
  BY <1>1, WalkTyped
<1>. QED  BY <1>2, <1>3 DEF Walks

\* A window that holds agrees with the next sequence number.
LEMMA SoundAgrees ==
  ASSUME NEW m \in Media, NEW c \in Context, InArea(c), ~EndZone(c.tail), Sound(m, c),
         ring_walk(m, c).ok
  PROVE  Agrees(ring_walk(m, c).recs, c.next)
<1> DEFINE L == ring_walk(m, c)
           A == Walk(m, c.gen, 0, c.tail, Cap - c.tail)
           B == Walk(m, c.gen, c.wp, 0, c.wp)
<1>1. /\ L = Walk(m, c.gen, c.wp, c.tail, ring_occupied(c))
      /\ c.wp \in Cursors /\ c.tail \in Cursors /\ c.wp \in Nat /\ c.tail \in Nat /\ c.count \in Nat
      /\ c.wp > c.tail => ring_occupied(c) = c.wp - c.tail
      /\ c.wp = c.tail /\ ~(c.count > 0) => ring_occupied(c) = 0
  BY WalkOfWindow, CapNat DEF InArea, Cursors, Context
<1>2. CASE c.tail < c.wp
  <2>1. ring_occupied(c) \in 1 .. Cap
    BY <1>1, <1>2, CapNat DEF Cursors
  <2>2. ~Starts(m[c.tail]) => ~L.ok
    BY <1>1, <2>1, NoStart
  <2>. QED  BY <1>2, <2>2 DEF Sound
<1>3. CASE c.tail = c.wp /\ c.count > 0
  BY <1>3 DEF Sound
<1>4. CASE c.tail = c.wp /\ ~(c.count > 0)
  <2>1. L.recs = <<>>
    BY <1>1, <1>4, WalkEnds
  <2>. QED  BY <2>1 DEF Agrees
<1>5. CASE c.wp < c.tail
  <2>1. /\ A.ok /\ B.ok /\ A.recs \in Seq(Entries) /\ B.recs \in Seq(Entries)
        /\ L.recs = A.recs \o B.recs
    BY <1>5, WindowSplits
  <2>2. Agrees(B.recs, c.next) /\ (B.recs = <<>> => Agrees(A.recs, c.next))
    BY <1>5, <2>1 DEF Sound
  <2>3. Agrees(A.recs \o B.recs, c.next)
    <3> HIDE DEF A, B
    <3>. QED  BY <2>1, <2>2, AgreesJoined
  <2>. QED  BY <2>1, <2>3
<1>. QED  BY <1>1, <1>2, <1>3, <1>4, <1>5

\* And where it does, the context is sound.
LEMMA GoodSound ==
  ASSUME NEW m \in Media, NEW c \in Context, InArea(c),
         ring_walk(m, c).ok, Agrees(ring_walk(m, c).recs, c.next)
  PROVE  Sound(m, c)
<1> DEFINE L == ring_walk(m, c)
           A == Walk(m, c.gen, 0, c.tail, Cap - c.tail)
           B == Walk(m, c.gen, c.wp, 0, c.wp)
<1>1. c.wp \in Nat /\ c.tail \in Nat
  BY DEF Context
<1>2. CASE c.tail < c.wp
  BY <1>1, <1>2 DEF Sound
<1>3. CASE c.wp < c.tail \/ (c.wp = c.tail /\ c.count > 0)
  <2>1. /\ A.ok /\ B.ok /\ A.recs \in Seq(Entries) /\ B.recs \in Seq(Entries)
        /\ L.recs = A.recs \o B.recs
    BY <1>3, WindowSplits
  <2>2. Agrees(A.recs \o B.recs, c.next)
    BY <2>1
  <2>3. Agrees(B.recs, c.next) /\ (B.recs = <<>> => Agrees(A.recs, c.next))
    <3>1. B.recs = <<>> => Agrees(B.recs, c.next)
      BY DEF Agrees
    <3> HIDE DEF A, B
    <3>. QED  BY <2>1, <2>2, <3>1, AgreesJoined
  <2>4. ~(c.tail < c.wp)
    BY <1>1, <1>3
  <2>. QED  BY <2>3, <2>4 DEF Sound
<1>4. CASE c.wp = c.tail /\ ~(c.count > 0)
  BY <1>1, <1>4 DEF Sound
<1>. QED  BY <1>1, <1>2, <1>3, <1>4

-----------------------------------------------------------------------------
\* A walk over cells that are as they were is the walk it was.
LEMMA Untouched ==
  ASSUME NEW m \in Media, NEW m2 \in Media, NEW g, NEW w \in Cursors, NEW x \in Cursors,
         NEW o \in 0 .. Cap, \A i \in Cursors : InWindow(i, x, o) => m2[i] = m[i]
  PROVE  Walk(m, g, w, x, o).ok \/ Walk(m2, g, w, x, o).ok => Walk(m2, g, w, x, o) = Walk(m, g, w, x, o)
<1>1. Walk(m2, g, w, x, o).ok => Walk(m2, g, w, x, o) = Walk(m, g, w, x, o)
  BY WalkSees
<1>2. Walk(m, g, w, x, o).ok => Walk(m2, g, w, x, o) = Walk(m, g, w, x, o)
  BY WalkSees
<1>. QED  BY <1>1, <1>2

\* What the writes of a record leave alone, and where its cells are.
LEMMA WrittenCells ==
  ASSUME NEW m \in Media, NEW m2 \in Media, NEW b \in Cursors, NEW d \in Headers, NEW v \in Nat,
         b + rec_alloc_bytes(d.len) <= Cap, Written(m, m2, b, d, v)
  PROVE  /\ \A i \in Cursors : i \in b .. b + rec_alloc_bytes(d.len) - 1 \/ m2[i] = m[i]
         /\ \/ \A i \in Cursors : m2[i] = m[i] \/ m2[i] = Erased
            \/ /\ m2[b] = HeaderCell(d, 1)
               /\ \E q \in Nat : /\ \A i \in Cursors : b < i /\ i < b + q => ~Starts(m2[i])
                                 /\ \A i \in Cursors : i >= b + q => m2[i] = m[i]
<1>0. /\ d.len \in Nat /\ b \in Nat /\ HdrCells \in Nat /\ HdrCells >= 1
      /\ rec_alloc_bytes(d.len) = HdrCells + d.len + 2 /\ \A i \in Cursors : i \in Nat
  BY CapNat DEF Headers, Cursors, rec_alloc_bytes
<1>1. CASE \A i \in Cursors : \/ m2[i] = m[i]
                              \/ i = b + rec_alloc_bytes(d.len) - 1 /\ m2[i] = Erased
  BY <1>0, <1>1
<1>2. CASE \E q \in 1 .. rec_alloc_bytes(d.len) :
             Image(m2, b, d, v, q) /\ \A i \in Cursors : i \in b .. b + q - 1 \/ m2[i] = m[i]
  <2>1. PICK q \in 1 .. rec_alloc_bytes(d.len) :
             Image(m2, b, d, v, q) /\ \A i \in Cursors : i \in b .. b + q - 1 \/ m2[i] = m[i]
    BY <1>2
  <2>2. q \in Nat /\ q >= 1 /\ q <= rec_alloc_bytes(d.len)
    BY <1>0, <2>1
  <2>3. m2[b] = HeaderCell(d, 1)
    <3>1. 0 \in 0 .. q - 1 /\ b + 0 = b /\ 0 + 1 = 1 /\ 0 < HdrCells
      BY <1>0, <2>2
    <3>2. m2[b + 0] = Img(d, v, 0)
      BY <2>1, <3>1 DEF Image
    <3>. QED  BY <3>1, <3>2 DEF Img
  <2>4. ASSUME NEW i \in Cursors, b < i, i < b + q PROVE ~Starts(m2[i])
    <3> DEFINE j == i - b
    <3>1. j \in 0 .. q - 1 /\ b + j = i /\ j \in Nat /\ j # 0
      BY <1>0, <2>2, <2>4
    <3> HIDE DEF j
    <3>2. m2[i] = Img(d, v, j)
      <4>1. m2[b + j] = Img(d, v, j)
        BY <2>1, <3>1 DEF Image
      <4>. QED  BY <3>1, <4>1
    <3>3. j + 1 # 1
      BY <3>1
    <3>. QED  BY <3>2, <3>3 DEF Img, Starts, HeaderCell, PayloadCell, CrcCell, Commit
  <2>5. \A i \in Cursors : i >= b + q => m2[i] = m[i]
    BY <1>0, <2>1, <2>2
  <2>6. \A i \in Cursors : i \in b .. b + rec_alloc_bytes(d.len) - 1 \/ m2[i] = m[i]
    BY <1>0, <2>1, <2>2
  <2>. QED  BY <2>2, <2>3, <2>4, <2>5, <2>6
<1>. QED  BY <1>1, <1>2 DEF Written

\* The writes of a record at the write pointer, stopped anywhere, leave a context
\* sound; where the window is full, the record is a WRAP record.
LEMMA WritesKeepSound ==
  ASSUME NEW m \in Media, NEW m2 \in Media, NEW c \in Context, InArea(c), ~EndZone(c.tail),
         Sound(m, c), NEW d \in Headers, NEW v \in Nat,
         c.wp + rec_alloc_bytes(d.len) <= Cap, Written(m, m2, c.wp, d, v),
         c.tail = c.wp /\ c.count > 0 => d.type = "WRAP" /\ c.wp + rec_alloc_bytes(d.len) = Cap
  PROVE  Sound(m2, c)
<1> DEFINE g == c.gen
           w == c.wp
           x == c.tail
           o == ring_occupied(c)
           L == ring_walk(m, c)
           A == Walk(m, g, 0, x, Cap - x)
           B == Walk(m, g, w, 0, w)
           L2 == ring_walk(m2, c)
           A2 == Walk(m2, g, 0, x, Cap - x)
           B2 == Walk(m2, g, w, 0, w)
           e == w + rec_alloc_bytes(d.len)
<1>0. /\ w \in Cursors /\ x \in Cursors /\ w \in Nat /\ x \in Nat /\ o \in 0 .. Cap
      /\ 0 \in Cursors /\ w \in 0 .. Cap /\ Cap - x \in 1 .. Cap /\ Cap \in Nat
      /\ L = Walk(m, g, w, x, o) /\ L2 = Walk(m2, g, w, x, o)
      /\ x < w => o = w - x
      /\ c.count \in Nat /\ e <= Cap /\ e \in Nat
  <2>1. /\ L = Walk(m, g, w, x, o) /\ L2 = Walk(m2, g, w, x, o) /\ o \in 0 .. Cap
        /\ x < w => o = w - x
    BY WalkOfWindow, CapNat DEF InArea, Cursors
  <2>2. d.len \in Nat /\ e \in Nat
    BY CapNat DEF Headers, rec_alloc_bytes, InArea, Cursors
  <2>. QED  BY <2>1, <2>2, CapNat DEF InArea, Cursors, Context
<1>1. /\ \A i \in Cursors : i \in w .. w + rec_alloc_bytes(d.len) - 1 \/ m2[i] = m[i]
      /\ \/ \A i \in Cursors : m2[i] = m[i] \/ m2[i] = Erased
         \/ /\ m2[w] = HeaderCell(d, 1)
            /\ \E q \in Nat : /\ \A i \in Cursors : w < i /\ i < w + q => ~Starts(m2[i])
                              /\ \A i \in Cursors : i >= w + q => m2[i] = m[i]
  <2>1. w \in Cursors /\ w + rec_alloc_bytes(d.len) <= Cap /\ Written(m, m2, w, d, v)
    BY <1>0
  <2> HIDE DEF w
  <2>. QED  BY <2>1, WrittenCells
<1>2. /\ \A i \in Cursors : i < w => m2[i] = m[i]
      /\ \/ \A i \in Cursors : m2[i] = m[i] \/ m2[i] = Erased
         \/ /\ m2[w] = HeaderCell(d, 1)
            /\ \E q \in Nat : /\ \A i \in Cursors : w < i /\ i < w + q => ~Starts(m2[i])
                              /\ \A i \in Cursors : i >= w + q => m2[i] = m[i]
  <2>1. \A i \in Cursors : i \in Nat
    BY CapNat DEF Cursors
  <2>2. ASSUME NEW i \in Cursors, i < w PROVE m2[i] = m[i]
    <3>1. i \notin w .. w + rec_alloc_bytes(d.len) - 1
      BY <1>0, <2>1, <2>2
    <3>. QED  BY <1>1, <3>1
  <2>. QED  BY <1>1, <2>2
<1>3. B2.ok \/ B.ok => B2 = B
  <2>1. \A i \in Cursors : InWindow(i, 0, w) => m2[i] = m[i]
    BY <1>0, <1>2, CapNat DEF InWindow, Cursors
  <2>. QED  BY <1>0, <2>1, Untouched
<1>4. ASSUME x < w
      PROVE  \/ L2.ok /\ Agrees(L2.recs, c.next)
             \/ ~Starts(m2[x])
  <2>1. CASE ~Starts(m[x])
    <3>1. m2[x] = m[x]
      BY <1>0, <1>2, <1>4
    <3>. QED  BY <2>1, <3>1
  <2>2. CASE L.ok /\ Agrees(L.recs, c.next)
    <3>1. \A i \in Cursors : InWindow(i, x, o) => m2[i] = m[i]
      BY <1>0, <1>2, <1>4, CapNat DEF InWindow, Cursors
    <3>2. L2 = L
      BY <1>0, <2>2, <3>1, Untouched
    <3>. QED  BY <2>2, <3>2
  <2>. QED  BY <1>4, <2>1, <2>2 DEF Sound
<1>5. ASSUME x = w, c.count > 0, L2.ok
      PROVE  Agrees(L2.recs, c.next)
  <2>0. (L.ok => Agrees(L.recs, c.next)) /\ (B.ok => Agrees(B.recs, c.next))
    BY <1>5 DEF Sound
  <2>1. CASE \A i \in Cursors : m2[i] = m[i] \/ m2[i] = Erased
    <3>1. L = L2
      BY <1>0, <1>5, <2>1, WalkSees
    <3>. QED  BY <1>5, <2>0, <3>1
  <2>2. CASE m2[w] = HeaderCell(d, 1)
    <3>1. /\ A2.ok /\ B2.ok /\ A2.recs \in Seq(Entries) /\ B2.recs \in Seq(Entries)
          /\ L2.recs = A2.recs \o B2.recs
      BY <1>5, WindowSplits
    <3>2. A2.recs = <<>>
      BY <1>0, <1>5, <2>2, <3>1, WrapOnly
    <3>3. B2.recs # <<>> => Agrees(B2.recs, c.next)
      BY <1>3, <2>0, <3>1
    <3>4. L2.recs = B2.recs
      <4>1. <<>> \o B2.recs = B2.recs
        <5> HIDE DEF B2
        <5>. QED  BY <3>1
      <4>. QED  BY <3>1, <3>2, <4>1
    <3>. QED  BY <3>3, <3>4 DEF Agrees
  <2>. QED  BY <1>2, <2>1, <2>2
<1>6. ASSUME w < x, A2.ok, B2.ok, B2.recs = <<>>
      PROVE  Agrees(A2.recs, c.next)
  <2>0. A.ok /\ B.ok /\ B.recs = <<>> => Agrees(A.recs, c.next)
    BY <1>6 DEF Sound
  <2>1. CASE \A i \in Cursors : m2[i] = m[i] \/ m2[i] = Erased
    <3>1. A = A2
      BY <1>0, <1>6, <2>1, WalkSees
    <3>. QED  BY <1>3, <1>6, <2>0, <3>1
  <2>2. ASSUME NEW q \in Nat, \A i \in Cursors : w < i /\ i < w + q => ~Starts(m2[i]),
               \A i \in Cursors : i >= w + q => m2[i] = m[i]
        PROVE  Agrees(A2.recs, c.next)
    <3>1. CASE x < w + q
      <4>1. ~Starts(m2[x])
        BY <1>0, <1>6, <2>2, <3>1
      <4>. QED  BY <1>0, <1>6, <4>1, NoStart
    <3>2. CASE ~(x < w + q)
      <4>1. \A i \in Cursors : InWindow(i, x, Cap - x) => m2[i] = m[i]
        BY <1>0, <2>2, <3>2, CapNat DEF InWindow, Cursors
      <4>2. Cap - x \in 0 .. Cap
        BY <1>0
      <4>3. A2 = A
        BY <1>0, <1>6, <4>1, <4>2, Untouched
      <4>. QED  BY <1>3, <1>6, <2>0, <4>3
    <3>. QED  BY <3>1, <3>2
  <2>. QED  BY <1>2, <2>1, <2>2
<1>7. /\ x = w /\ c.count > 0 => (B2.ok => Agrees(B2.recs, c.next))
      /\ w < x => (B2.ok => Agrees(B2.recs, c.next))
  BY <1>3 DEF Sound
<1> HIDE DEF L2, A2, B2
<1>8. /\ x < w => \/ L2.ok /\ Agrees(L2.recs, c.next)
                  \/ ~Starts(m2[x])
      /\ x = w /\ c.count > 0 => /\ L2.ok => Agrees(L2.recs, c.next)
                                 /\ B2.ok => Agrees(B2.recs, c.next)
      /\ w < x => /\ B2.ok => Agrees(B2.recs, c.next)
                  /\ A2.ok /\ B2.ok /\ B2.recs = <<>> => Agrees(A2.recs, c.next)
  BY <1>4, <1>5, <1>6, <1>7
<1>. QED  BY <1>8 DEF Sound, L2, A2, B2
-----------------------------------------------------------------------------
\* No header begins inside a record.
LEMMA InsideRecord ==
  ASSUME NEW m, NEW b \in Nat, NEW d \in Headers, NEW v, NEW q \in Nat, Image(m, b, d, v, q),
         NEW x \in Nat, b < x, x < b + q
  PROVE  ~Starts(m[x])
<1> DEFINE j == x - b
<1>0. HdrCells \in Nat /\ d.len \in Nat
  BY CapNat DEF Headers
<1>1. j \in 0 .. q - 1 /\ b + j = x /\ j \in Nat /\ j # 0 /\ j + 1 # 1
  OBVIOUS
<1> HIDE DEF j
<1>2. m[x] = Img(d, v, j)
  <2>1. m[b + j] = Img(d, v, j)
    BY <1>1 DEF Image
  <2>. QED  BY <1>1, <2>1
<1>. QED  BY <1>0, <1>1, <1>2 DEF Img, Starts, HeaderCell, PayloadCell, CrcCell, Commit

\* The room behind a write pointer that went on at the start of the area, padding
\* or a WRAP record, is passed over, and delivers nothing.
LEMMA LeftBehind ==
  ASSUME NEW m \in Media, NEW g, NEW w \in Cursors, w # 0,
         \/ EndZone(w)
         \/ \E d \in Headers : /\ d.gen = g /\ d.type = "WRAP"
                               /\ w + rec_alloc_bytes(d.len) = Cap
                               /\ Image(m, w, d, Zeros, rec_alloc_bytes(d.len))
  PROVE  \A x \in Cursors, o \in 0 .. Cap :
            Walk(m, g, w, x, o).ok /\ o + (Cap - w) <= Cap /\ ~EndZone(x) =>
              Walk(m, g, 0, x, o + (Cap - w)) = Passed(Walk(m, g, w, x, o).recs)
<1> DEFINE s == StepAt(m, g, 0, w)
           h == HeldAt(m, g, 0, w)
<1>0. /\ w \in Nat /\ w < Cap /\ 0 \in Cursors /\ Cap \in Nat /\ Overhead \in Nat /\ Overhead >= 3
      /\ Zeros \in Nat /\ RegionSize \in Nat /\ Cap <= RegionSize
  BY CapNat DEF Cursors, Zeros
<1>1. s = Cap - w /\ h = <<>>
  <2>1. CASE EndZone(w)
    <3>1. in_end_gap(0, w)
      BY <1>0, <2>1 DEF EndZone, in_end_gap
    <3>. QED  BY <3>1 DEF StepAt, HeldAt, stride, held
  <2>2. ASSUME NEW d \in Headers, d.gen = g, d.type = "WRAP", w + rec_alloc_bytes(d.len) = Cap,
               Image(m, w, d, Zeros, rec_alloc_bytes(d.len))
        PROVE  s = Cap - w /\ h = <<>>
    <3>1. d.len \in Nat /\ rec_alloc_bytes(d.len) \in Nat /\ rec_alloc_bytes(d.len) >= Overhead
      BY <1>0 DEF Headers, rec_alloc_bytes
    <3>2. RecordAt(m, Cap, w, d, Zeros)
      <4>. QED  BY <1>0, <2>2, <3>1, ImageIsRecord
    <3>3. Found(m, g, w) = [res |-> "VALID", d |-> d, v |-> Zeros]
      <4>1. d.gen = g
        BY <2>2
            <4>2. Found(m, d.gen, w) = [res |-> "VALID", d |-> d, v |-> Zeros]
        BY <1>0, <3>1, <3>2, RecordFound
      <4>. QED  BY <4>1, <4>2
    <3>4. ~in_end_gap(0, w)
      <4>1. ~(Cap - w < Overhead)
        BY <1>0, <2>2, <3>1
      <4>. QED  BY <4>1 DEF in_end_gap
    <3>5. s = rec_alloc_bytes(d.len) /\ h = <<>>
      BY <2>2, <3>3, <3>4 DEF StepAt, HeldAt, stride, held
    <3>. QED  BY <1>0, <2>2, <3>1, <3>5
  <2>. QED  BY <2>1, <2>2
<1>2. s # 0 /\ wrapped(w + s) = 0
  <2> HIDE DEF s
  <2>. QED  BY <1>0, <1>1 DEF wrapped
<1>3. ASSUME NEW x \in Cursors, NEW o \in 0 .. Cap, Walk(m, g, w, x, o).ok, o + s <= Cap, ~EndZone(x)
      PROVE  Walk(m, g, 0, x, o + s) = Passed(Walk(m, g, w, x, o).recs)
  <2> DEFINE R == Walk(m, g, w, x, o).recs
  <2>1. R \in Seq(Entries)
    <3>1. x \in Nat /\ o \in Nat
      BY CapNat DEF Cursors
    <3>2. Walk(m, g, w, x, o) \in Walks
      BY <1>0, <3>1, WalkTyped
    <3>. QED  BY <3>2 DEF Walks
  <2>2. Continues(R, h)
    BY <1>1 DEF Continues
  <2>3. Walk(m, g, 0, x, o + s) = Passed(R \o h)
    BY <1>0, <1>2, <1>3, <2>2, WalkGrows
  <2> HIDE DEF R, h, s
  <2>4. R \o h = R
    BY <1>1, <2>1
  <2>. QED  BY <2>3, <2>4 DEF R
<1>. QED  BY <1>1, <1>3

\* What an append leaves of a context when it goes on at the start of the area: it
\* is still sound, whether the room it leaves behind is padding or a WRAP record.
LEMMA MoveWp ==
  ASSUME NEW m \in Media, NEW c \in Context, InArea(c), ~EndZone(c.tail), Sound(m, c), c.wp # 0,
         \/ EndZone(c.wp)
         \/ \E d \in Headers : /\ d.gen = c.gen /\ d.type = "WRAP"
                               /\ c.wp + rec_alloc_bytes(d.len) = Cap
                               /\ Image(m, c.wp, d, Zeros, rec_alloc_bytes(d.len))
  PROVE  Sound(m, [c EXCEPT !.wp = 0])
<1> DEFINE g == c.gen
           w == c.wp
           x == c.tail
           C == [c EXCEPT !.wp = 0]
           s == Cap - w
<1>0. /\ w \in Cursors /\ x \in Cursors /\ w \in Nat /\ x \in Nat /\ 0 \in Cursors /\ Cap \in Nat
      /\ w # 0 /\ w < Cap /\ x < Cap /\ Zeros \in Nat /\ RegionSize \in Nat /\ Cap <= RegionSize
      /\ Cap - x \in 1 .. Cap /\ c.count \in Nat /\ Overhead \in Nat /\ Overhead >= 3
  BY CapNat DEF InArea, Cursors, Context, Zeros
<1>c. /\ C \in Context /\ InArea(C) /\ C.wp = 0 /\ C.tail = x /\ C.gen = g /\ C.count = c.count
      /\ C.next = c.next
  BY <1>0 DEF InArea, Context
<1>1. s = Cap - w
  OBVIOUS
\* A window that holds and ends at the write pointer goes on to the data limit.
<1>3. ASSUME NEW o \in 0 .. Cap, Walk(m, g, w, x, o).ok, o + s <= Cap
      PROVE  Walk(m, g, 0, x, o + s).recs = Walk(m, g, w, x, o).recs
  <2>1. \/ EndZone(w)
        \/ \E d \in Headers : /\ d.gen = g /\ d.type = "WRAP"
                              /\ w + rec_alloc_bytes(d.len) = Cap
                              /\ Image(m, w, d, Zeros, rec_alloc_bytes(d.len))
    OBVIOUS
  <2>2. ~EndZone(x)
    OBVIOUS
  <2> HIDE DEF w, x, g, s
  <2>3. Walk(m, g, 0, x, o + s) = Passed(Walk(m, g, w, x, o).recs)
    BY <1>0, <1>1, <1>3, <2>1, <2>2, LeftBehind
  <2>. QED  BY <2>3 DEF Passed
<1>4. Walk(m, g, 0, 0, 0).recs = <<>>
  BY <1>0, WalkEnds
<1>5. CASE x = 0
  <2>1. ASSUME c.count > 0, ring_walk(m, C).ok
        PROVE  Agrees(ring_walk(m, C).recs, c.next)
    <3>1. ring_walk(m, C) = Walk(m, g, 0, 0, Cap)
      BY <1>c, <1>5, <2>1, WalkOfWindow
    <3>2. Starts(m[0])
      <4>1. ~EndZone(0) /\ Cap \in 1 .. Cap
        BY <1>0 DEF EndZone
      <4>. QED  BY <1>0, <2>1, <3>1, <4>1, NoStart
    <3>3. ring_walk(m, c) = Walk(m, g, w, 0, w)
      <4>1. w > x /\ w - x = w
        BY <1>0, <1>5
      <4>2. ring_walk(m, c) = Walk(m, g, w, x, ring_occupied(c)) /\ ring_occupied(c) = w - x
        BY <4>1, WalkOfWindow
      <4>. QED  BY <1>5, <4>1, <4>2
    <3>4. Walk(m, g, w, 0, w).ok /\ Agrees(Walk(m, g, w, 0, w).recs, c.next)
      <4>1. x < w
        BY <1>0, <1>5
      <4>. QED  BY <1>5, <3>2, <3>3, <4>1 DEF Sound
    <3>5. w \in 0 .. Cap /\ w + s <= Cap /\ w + s = Cap
      BY <1>0, <1>1
    <3>6. Walk(m, g, 0, 0, Cap).recs = Walk(m, g, w, 0, w).recs
      <4> HIDE DEF w, s, x, g
      <4>. QED  BY <1>3, <1>5, <3>4, <3>5
    <3>. QED  BY <3>1, <3>4, <3>6
  <2>2. Agrees(Walk(m, g, 0, 0, 0).recs, c.next)
    BY <1>4 DEF Agrees
  <2>3. C.tail = 0 /\ C.wp = 0 /\ C.gen = g /\ C.count = c.count /\ C.next = c.next /\ ~(0 < 0)
    BY <1>c, <1>5
  <2>4. Sound(m, C)
    <3> HIDE DEF C, g
    <3>. QED  BY <2>1, <2>2, <2>3 DEF Sound
  <2>. QED  BY <2>4
<1>6. CASE x # 0
  <2>1. ASSUME Walk(m, g, 0, x, Cap - x).ok
        PROVE  Agrees(Walk(m, g, 0, x, Cap - x).recs, c.next)
    <3>0. Starts(m[x])
      BY <1>0, <2>1, NoStart
    <3>1. CASE x < w
      <4>1. ring_walk(m, c) = Walk(m, g, w, x, w - x)
        BY <1>0, <3>1, WalkOfWindow
      <4>2. Walk(m, g, w, x, w - x).ok /\ Agrees(Walk(m, g, w, x, w - x).recs, c.next)
        BY <3>0, <3>1, <4>1 DEF Sound
      <4>3. w - x \in 0 .. Cap /\ w - x + s <= Cap /\ w - x + s = Cap - x
        BY <1>0, <1>1, <3>1
      <4> DEFINE o == w - x
      <4>4. Walk(m, g, 0, x, o + s).recs = Walk(m, g, w, x, o).recs
        <5>1. o \in 0 .. Cap /\ o + s <= Cap /\ Walk(m, g, w, x, o).ok
          BY <4>2, <4>3
        <5> HIDE DEF o, s, w, x, g
        <5>. QED  BY <1>3, <5>1
      <4>. QED  BY <4>2, <4>3, <4>4
    <3>2. CASE x >= w
      <4>1. ~EndZone(w)
        BY <1>0, <1>6, <3>2 DEF EndZone
      <4>2. PICK d \in Headers : /\ d.gen = c.gen /\ d.type = "WRAP" /\ w + rec_alloc_bytes(d.len) = Cap
                                 /\ Image(m, w, d, Zeros, rec_alloc_bytes(d.len))
        BY <4>1
      <4>3. rec_alloc_bytes(d.len) \in Nat /\ rec_alloc_bytes(d.len) >= 1 /\ d.len \in Nat
        BY <1>0 DEF Headers, rec_alloc_bytes
      <4>4. x = w
        BY <1>0, <3>0, <3>2, <4>2, <4>3, InsideRecord
      <4>5. m[x] = HeaderCell(d, 1)
        <5>1. RecordAt(m, Cap, w, d, Zeros)
          <6> HIDE DEF w
          <6>. QED  BY <1>0, <4>2, <4>3, ImageIsRecord
        <5>2. 1 \in 1 .. HdrCells /\ w + 1 - 1 = w
          BY <1>0, CapNat
        <5>. QED  BY <4>4, <5>1, <5>2 DEF RecordAt, HeaderAt
      <4>6. Walk(m, g, 0, x, Cap - x).recs = <<>>
        <5>1. x + rec_alloc_bytes(d.len) = Cap
          BY <4>2, <4>4
        <5> HIDE DEF x, g
        <5>. QED  BY <1>0, <2>1, <4>2, <4>5, <5>1, WrapOnly
      <4>. QED  BY <4>6 DEF Agrees
    <3>. QED  BY <1>0, <3>1, <3>2
  <2>2. Agrees(Walk(m, g, 0, 0, 0).recs, c.next)
    BY <1>4 DEF Agrees
  <2>3. C.tail = x /\ C.wp = 0 /\ C.gen = g /\ C.next = c.next /\ 0 < x /\ ~(x < 0) /\ x # 0
    BY <1>0, <1>c, <1>6
  <2>4. Sound(m, C)
    <3> HIDE DEF C, g, x
    <3>. QED  BY <2>1, <2>2, <2>3 DEF Sound
  <2>. QED  BY <2>4
<1>. QED  BY <1>5, <1>6

-----------------------------------------------------------------------------
\* The context past the record that was appended at its write pointer.
Appended(c, total) ==
  [c EXCEPT !.wp = wrapped(c.wp + total), !.count = @ + 1, !.next = NextSeq(@),
            !.mseq = next_session_value(@)]

\* The context that an append publishes has its tail where it was and one record
\* more.
LEMMA AppendedTyped ==
  ASSUME NEW c \in Context, NEW total \in Nat, InArea(c), c.wp + total <= Cap
  PROVE  LET C == Appended(c, total)
         IN  /\ C \in Context /\ InArea(C) /\ C.tail = c.tail /\ C.gen = c.gen
             /\ C.count = c.count + 1 /\ C.next = NextSeq(c.next) /\ C.mounted = c.mounted
             /\ C.wp = wrapped(c.wp + total)
<1>1. c.next \in Nat /\ c.mseq \in Nat /\ c.wp \in Nat /\ Cap \in Nat /\ Cap > 0 /\ c.count \in Nat
  BY CapNat DEF Context
<1>2. NextSeq(c.next) \in Nat /\ next_session_value(c.mseq) \in Nat
  BY <1>1, NextSeqNat DEF next_session_value
<1>3. wrapped(c.wp + total) \in Cursors
  BY <1>1 DEF wrapped, Cursors
<1>4. c.count + 1 \in Nat /\ wrapped(c.wp + total) \in Nat
  BY <1>1, <1>3 DEF Cursors
<1>. QED  BY <1>2, <1>3, <1>4 DEF Appended, Context, InArea

\* A record that fits the free cells makes the window that much larger.
LEMMA AppendedOccupies ==
  ASSUME NEW c \in Context, NEW total \in Nat, total > 0, InArea(c), c.wp + total <= Cap,
         total <= Cap - ring_occupied(c)
  PROVE  ring_occupied(Appended(c, total)) = ring_occupied(c) + total
<1> DEFINE C == Appended(c, total)
<1>1. /\ C.tail = c.tail /\ C.count = c.count + 1 /\ C.wp = wrapped(c.wp + total)
  BY AppendedTyped
<1>2. c.wp \in Nat /\ c.tail \in Nat /\ c.count \in Nat /\ Cap \in Nat /\ c.wp < Cap /\ c.tail < Cap
  BY CapNat DEF InArea, Cursors, Context
<1> HIDE DEF C
<1>. QED  BY <1>1, <1>2 DEF ring_occupied, wrapped, C

\* Once the record is on the media, the window holds it behind those it held.
LEMMA DataDone ==
  ASSUME NEW m \in Media, NEW c \in Context, InArea(c), ~EndZone(c.tail),
         ring_walk(m, c).ok, Agrees(ring_walk(m, c).recs, c.next),
         NEW d \in Headers, d.type = "DATA", d.seq = c.next, d.gen = c.gen, NEW v \in Nat,
         c.wp + rec_alloc_bytes(d.len) <= Cap, rec_alloc_bytes(d.len) <= Cap - ring_occupied(c),
         Image(m, c.wp, d, v, rec_alloc_bytes(d.len))
  PROVE  ring_walk(m, Appended(c, rec_alloc_bytes(d.len)))
           = Passed(ring_walk(m, c).recs \o <<[seq |-> c.next, v |-> v]>>)
<1> DEFINE g == c.gen
           w == c.wp
           x == c.tail
           o == ring_occupied(c)
           t == rec_alloc_bytes(d.len)
           C == Appended(c, t)
           w2 == wrapped(w + t)
           R == ring_walk(m, c).recs
<1>0. /\ d.len \in Nat /\ t \in Nat /\ t >= Overhead /\ Overhead \in Nat /\ Overhead >= 3
      /\ w \in Nat /\ x \in Nat /\ Cap \in Nat /\ RegionSize \in Nat /\ Cap <= RegionSize
      /\ w \in Cursors /\ x \in Cursors
  BY CapNat DEF Headers, rec_alloc_bytes, InArea, Cursors
<1>1. /\ ring_walk(m, c) = Walk(m, g, w, x, o) /\ o \in 0 .. Cap
      /\ InArea(C) /\ C.tail = x /\ C.gen = g /\ C.wp = w2 /\ ring_occupied(C) = o + t
  <2>1. t > 0
    BY <1>0
  <2>2. /\ ring_walk(m, c) = Walk(m, g, w, x, o) /\ o \in 0 .. Cap
    BY WalkOfWindow
  <2>3. ring_occupied(C) = o + t
    BY <1>0, <2>1, AppendedOccupies
  <2>4. InArea(C) /\ C.tail = x /\ C.gen = g /\ C.wp = w2
    BY <1>0, AppendedTyped
  <2>. QED  BY <2>2, <2>3, <2>4
<1>2. ring_walk(m, C) = Walk(m, g, w2, x, o + t) /\ w2 \in Cursors
  <2> HIDE DEF C, g, w, x, o, w2
  <2>1. ring_walk(m, C) = Walk(m, C.gen, C.wp, C.tail, ring_occupied(C))
    BY <1>1, WalkOfWindow
  <2>. QED  BY <1>1, <2>1 DEF InArea
<1>3. RecordAt(m, Cap, w, d, v)
  <2>1. w + t <= Cap /\ Image(m, w, d, v, t)
    OBVIOUS
  <2> HIDE DEF w
  <2>. QED  BY <1>0, <2>1, ImageIsRecord
<1>4. Found(m, g, w) = [res |-> "VALID", d |-> d, v |-> v]
  <2>1. g = d.gen
    OBVIOUS
  <2> HIDE DEF w, g
  <2>. QED  BY <1>0, <1>3, <2>1, RecordFound
<1>5. ~in_end_gap(w2, w)
  <2>1. ~(Cap - w < Overhead)
    BY <1>0
  <2>. QED  BY <2>1 DEF in_end_gap
<1>6. StepAt(m, g, w2, w) = t /\ HeldAt(m, g, w2, w) = <<[seq |-> c.next, v |-> v]>>
  BY <1>4, <1>5 DEF StepAt, HeldAt, stride, held, Entry
<1>7. Continues(R, <<[seq |-> c.next, v |-> v]>>)
  <2> DEFINE e == [seq |-> c.next, v |-> v]
  <2>1. <<e>> # <<>> /\ Head(<<e>>) = e /\ e.seq = c.next
    OBVIOUS
  <2>. QED  BY <2>1 DEF Continues, Agrees
<1>8. t # 0 /\ o + t <= Cap /\ ~EndZone(x) /\ Walk(m, g, w, x, o).ok
  <2>1. t # 0 /\ o \in 0 .. Cap /\ t <= Cap - o
    BY <1>0, <1>1
  <2>2. o + t <= Cap
    <3> HIDE DEF o, t
    <3>. QED  BY <1>0, <2>1
  <2>. QED  BY <1>1, <2>1, <2>2
<1>9. Walk(m, g, w2, x, o + t) = Passed(Walk(m, g, w, x, o).recs \o <<[seq |-> c.next, v |-> v]>>)
  <2> DEFINE h == <<[seq |-> c.next, v |-> v]>>
  <2>1. w2 = wrapped(w + t) /\ HeldAt(m, g, w2, w) = h /\ Continues(Walk(m, g, w, x, o).recs, h)
    BY <1>1, <1>6, <1>7
  <2> HIDE DEF g, w, x, o, t, w2, h
  <2>2. StepAt(m, g, w2, w) # 0 /\ w2 = wrapped(w + StepAt(m, g, w2, w))
    BY <1>6, <1>8, <2>1
  <2>3. StepAt(m, g, w2, w) = t
    BY <1>6
  <2>4. Walk(m, g, w2, x, o + t) = Passed(Walk(m, g, w, x, o).recs \o h)
    <3> DEFINE s == StepAt(m, g, w2, w)
    <3>1. /\ Walk(m, g, w, x, o).ok /\ o + s <= Cap /\ (o + s < Cap \/ ~EndZone(x))
          /\ Continues(Walk(m, g, w, x, o).recs, HeldAt(m, g, w2, w))
      BY <1>1, <1>8, <2>1, <2>3
    <3>2. s # 0 /\ w2 = wrapped(w + s)
      BY <2>2
    <3>3. Walk(m, g, w2, x, o + s) = Passed(Walk(m, g, w, x, o).recs \o HeldAt(m, g, w2, w))
      <4>1. w \in Cursors /\ w2 \in Cursors /\ x \in Cursors /\ o \in 0 .. Cap
        BY <1>0, <1>1, <1>2
      <4>2. \A X \in Cursors, O \in 0 .. Cap :
              /\ Walk(m, g, w, X, O).ok
              /\ O + s <= Cap /\ (O + s < Cap \/ ~EndZone(X))
              /\ Continues(Walk(m, g, w, X, O).recs, HeldAt(m, g, w2, w))
              => Walk(m, g, w2, X, O + s) = Passed(Walk(m, g, w, X, O).recs \o HeldAt(m, g, w2, w))
        <5> HIDE DEF C, R
        <5>. QED  BY <4>1, <3>2, WalkGrows
      <4>3. QED
        <5> HIDE DEF s
        <5>. QED  BY <3>1, <4>1, <4>2
    <3>. QED  BY <2>1, <2>3, <3>3
  <2>. QED  BY <2>4 DEF h
<1>. QED  BY <1>1, <1>2, <1>9

\* Where an empty ring was not known to be empty at its write pointer, the record
\* covers the tail: the window fails, and the context stays sound.
LEMMA DataLost ==
  ASSUME NEW m \in Media, NEW c \in Context, InArea(c), ~EndZone(c.tail), c.count = 0,
         NEW d \in Headers, NEW v,
         c.wp + rec_alloc_bytes(d.len) <= Cap, c.wp < c.tail, c.tail < c.wp + rec_alloc_bytes(d.len),
         Image(m, c.wp, d, v, rec_alloc_bytes(d.len))
  PROVE  LET C == Appended(c, rec_alloc_bytes(d.len)) IN ~ring_walk(m, C).ok /\ Sound(m, C)
<1> DEFINE g == c.gen
           w == c.wp
           x == c.tail
           t == rec_alloc_bytes(d.len)
           C == Appended(c, t)
           w2 == wrapped(w + t)
<1>0. /\ t \in Nat /\ w \in Nat /\ x \in Nat /\ Cap \in Nat /\ w \in Cursors /\ x \in Cursors
      /\ Cap - x \in 1 .. Cap /\ x < Cap /\ 0 \in Cursors
  BY CapNat DEF Headers, rec_alloc_bytes, InArea, Cursors
<1>1. ~Starts(m[x])
  BY <1>0, InsideRecord
<1>2. C \in Context /\ InArea(C) /\ C.tail = x /\ C.gen = g /\ C.wp = w2
  BY <1>0, AppendedTyped
<1>3. x < w2 \/ (w2 = 0 /\ 0 < x)
  BY <1>0 DEF wrapped
<1>4. ~Walk(m, g, 0, x, Cap - x).ok
  BY <1>0, <1>1, NoStart
<1>5. ~ring_walk(m, C).ok
  <2> HIDE DEF C, w2
  <2>1. ring_walk(m, C) = Walk(m, g, w2, x, ring_occupied(C)) /\ ring_occupied(C) \in 1 .. Cap /\ w2 \in Cursors
    BY <1>0, <1>2, <1>3, WalkOfWindow DEF InArea, Cursors
  <2>. QED  BY <1>0, <1>1, <2>1, NoStart
<1>6. Agrees(Walk(m, g, 0, 0, 0).recs, C.next)
  BY <1>0, WalkEnds DEF Agrees
<1>7. w2 \in Nat
  BY <1>0 DEF wrapped
<1>8. Sound(m, C)
  <2> HIDE DEF C, w2
  <2>1. CASE x < w2
    BY <1>0, <1>1, <1>2, <1>7, <2>1 DEF Sound
  <2>2. CASE w2 = 0 /\ 0 < x
    BY <1>0, <1>2, <1>4, <1>6, <2>2 DEF Sound
  <2>. QED  BY <1>3, <2>1, <2>2
<1>. QED  BY <1>5, <1>8
-----------------------------------------------------------------------------
Copy ==
  {BadSb} \cup [ok : {TRUE}, gen : Nat, mseq : Nat, wp : Cursors, tail : Cursors,
                next : Nat, count : Nat, free : Nat]

\* The record of the running append, and the WRAP record before it.
DataHeader == Header("DATA", ctx.next, req.len, ctx.gen)
WrapHeader == Header("WRAP", ctx.next, Cap - ctx.wp - Overhead, ctx.gen)
Total == rec_alloc_bytes(req.len)

\* A record of t cells fits the free cells of a window that holds.
Room(m, c, t) ==
  LET w == ring_walk(m, c)
  IN  /\ w.ok /\ Agrees(w.recs, c.next)
      /\ t <= Cap - ring_occupied(c) /\ (Len(w.recs) + 1) * Overhead <= Cap

\* An empty ring whose pointers differ: the record covers the tail.
Overlap(c, t) == c.count = 0 /\ c.wp < c.tail /\ c.tail < c.wp + t

Types ==
  /\ media \in Media /\ sbA \in Copy /\ sbB \in Copy
  /\ ctx \in Context /\ InArea(ctx) /\ ctx.count * Overhead <= Cap
  /\ pc \in {"idle", "wrap", "data", "sbA", "sbB"}
  /\ todo # <<>> => pc \in {"wrap", "data"}
  /\ req \in [op : {"none", "append", "format", "mount"}, len : Nat, v : Nat, base : Nat]
  /\ status \in {"NONE", "OK", "FULL", "CORRUPT", "IO"}
  /\ old.next \in Nat /\ calls \in [appends : Nat, faults : Nat, formats : Nat]

Tails ==
  ~EndZone(ctx.tail) /\ (sbA.ok => ~EndZone(sbA.tail)) /\ (sbB.ok => ~EndZone(sbB.tail))

\* The record under way lies at the write pointer, and fits.
Placed ==
  pc = "data" =>
    /\ ctx.mounted /\ req.op = "append" /\ ctx.wp = req.base /\ ctx.wp + Total <= Cap
    /\ ctx.next = old.next
    /\ Progress(media, ctx.wp, DataHeader, req.v, todo)
    /\ Room(media, ctx, Total) \/ Overlap(ctx, Total)

\* So does the WRAP record, up to the data limit.
Wrapping ==
  pc = "wrap" =>
    /\ ctx.mounted /\ req.base = 0 /\ ctx.next = old.next /\ Cap - ctx.wp >= Overhead
    /\ Progress(media, ctx.wp, WrapHeader, Zeros, todo)

\* What is being published is a window that holds, the new record its newest.
Published ==
  pc \in {"sbA", "sbB"} =>
    /\ Live.ok
    /\ req.op = "append" => Last(Live.recs) = Candidate
    /\ pc = "sbB" => sbA = sb_encode(ctx)

\* Together they are inductive.
IInv ==
  Types /\ Tails /\ Sound(media, ctx) /\ Placed /\ Wrapping /\ Published /\ AckedIsDurable

-----------------------------------------------------------------------------
\* The length of a record in cells.
LEMMA AllocNat ==
  ASSUME NEW len \in Nat
  PROVE  /\ rec_alloc_bytes(len) \in Nat /\ rec_alloc_bytes(len) >= Overhead
         /\ Overhead \in Nat /\ Overhead >= 3
BY CapNat DEF rec_alloc_bytes

\* Every record of a window that holds takes an overhead of its cells.
LEMMA RecordsFit ==
  ASSUME NEW m \in Media, NEW c, InArea(c), ring_walk(m, c).ok
  PROVE  Len(ring_walk(m, c).recs) * Overhead <= ring_occupied(c) /\ ring_occupied(c) \in 0 .. Cap
         /\ Len(ring_walk(m, c).recs) \in Nat /\ ring_walk(m, c).recs \in Seq(Entries)
<1> DEFINE o == ring_occupied(c)
<1>1. /\ ring_walk(m, c) = Walk(m, c.gen, c.wp, c.tail, o) /\ o \in 0 .. Cap
      /\ c.wp \in Cursors /\ c.tail \in Cursors /\ c.wp \in Nat /\ c.tail \in Nat /\ o \in Nat
  BY WalkOfWindow, CapNat DEF InArea, Cursors
<1> HIDE DEF o
<1>2. Len(Walk(m, c.gen, c.wp, c.tail, o).recs) * Overhead <= o
  BY <1>1, WalkHolds
<1>3. Walk(m, c.gen, c.wp, c.tail, o) \in Walks
  BY <1>1, WalkTyped
<1>4. ring_walk(m, c).recs \in Seq(Entries)
  BY <1>1, <1>3 DEF Walks
<1>. QED  BY <1>1, <1>2, <1>4 DEF o

\* make_room leaves a sound context, and room for the record or an empty ring
\* whose tail the record will cover.
LEMMA Placing ==
  ASSUME NEW m \in Media, NEW c \in Context, InArea(c), ~EndZone(c.tail), ~EndZone(c.wp),
         Sound(m, c), c.count * Overhead <= Cap, NEW len \in Nat
  PROVE  LET t == rec_alloc_bytes(len)
             r == make_room(m, c, t)
         IN  /\ r.c \in Context /\ InArea(r.c) /\ r.c.count * Overhead <= Cap
             /\ ~EndZone(r.c.tail) /\ Sound(m, r.c)
             /\ r.c.mounted = c.mounted /\ r.c.next = c.next /\ r.c.wp = c.wp
             /\ r.ok /\ Cap - c.wp >= t => Room(m, r.c, t) \/ Overlap(r.c, t)
<1> DEFINE t == rec_alloc_bytes(len)
           r == make_room(m, c, t)
<1>0. /\ t \in Nat /\ t >= Overhead /\ Overhead \in Nat /\ Overhead >= 3 /\ Cap \in Nat /\ Cap > 0
  BY AllocNat, CapNat
<1>1. ring_walk(m, c).ok => Agrees(ring_walk(m, c).recs, c.next)
  BY SoundAgrees
<1>2. /\ r.ok <=> ring_walk(m, c).ok
      /\ ~r.ok => r.c = c
      /\ r.ok => Retired(m, c, t, r)
  <2> HIDE DEF t
  <2>. QED  BY <1>0, <1>1, MakingRoom
<1> HIDE DEF r, t
<1> DEFINE C == r.c
           R == ring_walk(m, C).recs
           o == ring_occupied(C)
<1>3. CASE ~r.ok
  BY <1>2, <1>3 DEF r, t
<1>4. CASE r.ok
  <2>1. /\ Validated(m, C) /\ SameBut(c, C) /\ C.next = c.next
        /\ t <= Cap - o \/ C.count = 0
        /\ ~EndZone(C.tail)
    BY <1>2, <1>4 DEF Retired
  <2>2. /\ C \in Context /\ InArea(C) /\ ring_walk(m, C).ok /\ C.count = Len(R)
        /\ Agrees(R, C.next) /\ C.wp = c.wp /\ C.mounted = c.mounted
    BY <2>1 DEF Validated, SameBut
  <2>3. Sound(m, C)
    BY <2>2, GoodSound
  <2>4. Len(R) * Overhead <= o /\ o \in 0 .. Cap /\ Len(R) \in Nat
    BY <2>2, RecordsFit
  <2>5. C.wp \in Nat /\ C.tail \in Nat /\ C.wp < Cap /\ C.tail < Cap
    BY <1>0, <2>2 DEF InArea, Cursors
  <2>6. C.count * Overhead <= Cap
    <3> HIDE DEF o, R
    <3>1. C.count * Overhead <= o /\ o \in Nat /\ o <= Cap
      BY <1>0, <2>2, <2>4
    <3>2. Len(R) * Overhead \in Nat
      BY <1>0, <2>4
    <3>. QED  BY <1>0, <2>2, <3>1, <3>2
  <2>7. ASSUME Cap - c.wp >= t
        PROVE  Room(m, C, t) \/ Overlap(C, t)
    <3>1. CASE t <= Cap - o
      <4>1. (Len(R) + 1) * Overhead = Len(R) * Overhead + Overhead /\ Len(R) * Overhead \in Nat
        <5> DEFINE n == Len(R)
        <5>1. n \in Nat
          BY <2>4
        <5> HIDE DEF n
        <5>. QED  BY <1>0, <5>1
      <4>2. Len(R) * Overhead + Overhead <= Cap
        <5> HIDE DEF R, o
        <5>. QED  BY <1>0, <2>4, <3>1, <4>1
      <4>3. (Len(R) + 1) * Overhead <= Cap
        BY <4>1, <4>2
      <4>. QED  BY <2>2, <3>1, <4>3 DEF Room
    <3>2. CASE C.count = 0 /\ ~(t <= Cap - o)
      <4>1. /\ C.wp = C.tail => o = 0
            /\ C.wp > C.tail => o = C.wp - C.tail
            /\ C.wp < C.tail => o = Cap - C.tail + C.wp
        BY <2>2, <3>2, WalkOfWindow
      <4> HIDE DEF o
      <4>2. C.wp < C.tail /\ C.tail < C.wp + t
        BY <1>0, <2>2, <2>5, <2>7, <3>2, <4>1
      <4>. QED  BY <3>2, <4>2 DEF Overlap
    <3>. QED  BY <2>1, <3>1, <3>2
  <2>. QED  BY <2>1, <2>2, <2>3, <2>6, <2>7 DEF r, t
<1>. QED  BY <1>3, <1>4 DEF r, t

\* When no write is left, the record is there.
LEMMA ProgressEnds ==
  ASSUME NEW m, NEW b \in Nat, NEW d \in Headers, NEW v, Progress(m, b, d, v, <<>>)
  PROVE  Image(m, b, d, v, rec_alloc_bytes(d.len))
<1> DEFINE Clr == ClearWrite(b, d)
           Hdr == HeaderWrite(b, d)
           Bod == BodyWrite(b, d, v)
           Crc == CrcWrite(b, d, v)
           Com == CommitWrite(b, d)
<1>1. write_record_wire(b, d, v)
        = IF d.len > 0 THEN <<Clr, Hdr, Bod, Crc, Com>> ELSE <<Clr, Hdr, Crc, Com>>
  BY WireWrites DEF Headers
<1> HIDE DEF Clr, Hdr, Bod, Crc, Com
<1>2. write_record_wire(b, d, v) # <<>>
  BY <1>1
<1>3. /\ <<>> # IF d.len > 0 THEN <<Hdr, Bod, Crc, Com>> ELSE <<Hdr, Crc, Com>>
      /\ <<>> # <<Bod, Crc, Com>> /\ <<>> # <<Crc, Com>> /\ <<>> # <<Com>>
  OBVIOUS
<1>. QED  BY <1>2, <1>3 DEF Progress, Clr, Hdr, Bod, Crc, Com

\* Writing behind a window leaves it as it is.
LEMMA RoomKept ==
  ASSUME NEW m \in Media, NEW m2 \in Media, NEW c, InArea(c), c.count \in Nat,
         NEW d \in Headers, NEW v \in Nat, c.wp + rec_alloc_bytes(d.len) <= Cap,
         Written(m, m2, c.wp, d, v), Room(m, c, rec_alloc_bytes(d.len))
  PROVE  Room(m2, c, rec_alloc_bytes(d.len))
<1> DEFINE o == ring_occupied(c)
           t == rec_alloc_bytes(d.len)
           w == c.wp
           x == c.tail
           g == c.gen
<1>1. /\ ring_walk(m, c) = Walk(m, g, w, x, o) /\ ring_walk(m2, c) = Walk(m2, g, w, x, o)
      /\ o \in 0 .. Cap /\ w \in Cursors /\ x \in Cursors /\ w \in Nat /\ x \in Nat /\ Cap \in Nat
      /\ w < Cap /\ x < Cap
      /\ w = x /\ c.count > 0 => o = Cap
      /\ w = x /\ ~(c.count > 0) => o = 0
      /\ w > x => o = w - x
      /\ w < x => o = Cap - x + w
  BY WalkOfWindow, CapNat DEF InArea, Cursors
<1>2. t \in Nat /\ t > 0 /\ t <= Cap - o /\ w + t <= Cap
  BY AllocNat DEF Headers, Room
<1>3. \A i \in Cursors : i \in w .. w + t - 1 \/ m2[i] = m[i]
  <2>1. w + t <= Cap /\ Written(m, m2, w, d, v)
    BY <1>2
  <2> HIDE DEF w
  <2>. QED  BY <1>1, <2>1, WrittenCells
<1>4. \A i \in Cursors : InWindow(i, x, o) => m2[i] = m[i]
  <2> HIDE DEF o, t, w, x
  <2>1. ASSUME NEW i \in Cursors, InWindow(i, x, o) PROVE i \notin w .. w + t - 1
    <3>1. i \in Nat
      BY <1>1 DEF Cursors
    <3>. QED  BY <1>1, <1>2, <2>1, <3>1 DEF InWindow
  <2>. QED  BY <1>3, <2>1
<1>5. Walk(m, g, w, x, o).ok
  BY <1>1 DEF Room
<1>6. Walk(m2, g, w, x, o) = Walk(m, g, w, x, o)
  <2> HIDE DEF o, t, w, x, g
  <2>. QED  BY <1>1, <1>4, <1>5, Untouched
<1>. QED  BY <1>1, <1>6 DEF Room

\* The next write of a record is of a number of cells.
LEMMA HeadCells ==
  ASSUME NEW m, NEW b \in Nat, NEW d \in Headers, NEW v \in Nat, NEW left,
         Progress(m, b, d, v, left), left # <<>>
  PROVE  Len(Head(left).cells) \in Nat
<1> DEFINE Clr == ClearWrite(b, d)
           Hdr == HeaderWrite(b, d)
           Bod == BodyWrite(b, d, v)
           Crc == CrcWrite(b, d, v)
           Com == CommitWrite(b, d)
<1>0. d.len \in Nat /\ HdrCells \in Nat
  BY CapNat DEF Headers
<1>1. /\ Len(Hdr.cells) = HdrCells /\ Len(Bod.cells) = d.len
      /\ Len(Crc.cells) = 1 /\ Len(Com.cells) = 1
  BY Parts DEF IsPart
<1>2. Len(Clr.cells) = 1
  BY DEF ClearWrite, HalWrite
<1>3. write_record_wire(b, d, v)
        = IF d.len > 0 THEN <<Clr, Hdr, Bod, Crc, Com>> ELSE <<Clr, Hdr, Crc, Com>>
  BY <1>0, WireWrites
<1>4. \/ left = IF d.len > 0 THEN <<Clr, Hdr, Bod, Crc, Com>> ELSE <<Clr, Hdr, Crc, Com>>
      \/ left = IF d.len > 0 THEN <<Hdr, Bod, Crc, Com>> ELSE <<Hdr, Crc, Com>>
      \/ left = <<Bod, Crc, Com>>
      \/ left = <<Crc, Com>>
      \/ left = <<Com>>
  BY <1>3, Zenon DEF Progress
<1> HIDE DEF Clr, Hdr, Bod, Crc, Com
<1>5. Head(left) \in {Clr, Hdr, Bod, Crc, Com}
  <2>1. CASE left = IF d.len > 0 THEN <<Clr, Hdr, Bod, Crc, Com>> ELSE <<Clr, Hdr, Crc, Com>>
    BY <2>1, HeadAndTail
  <2>2. CASE left = IF d.len > 0 THEN <<Hdr, Bod, Crc, Com>> ELSE <<Hdr, Crc, Com>>
    BY <2>2, HeadAndTail
  <2>3. CASE left = <<Bod, Crc, Com>>
    BY <2>3, HeadAndTail
  <2>4. CASE left = <<Crc, Com>>
    BY <2>4, HeadAndTail
  <2>5. CASE left = <<Com>>
    BY <2>5, HeadAndTail
  <2>. QED  BY <1>4, <2>1, <2>2, <2>3, <2>4, <2>5
<1>. QED  BY <1>0, <1>1, <1>2, <1>5

-----------------------------------------------------------------------------
\* The context after a format: an empty window.
LEMMA EmptyWindow ==
  ASSUME NEW m \in Media, NEW c, c.wp = 0, c.tail = 0, c.count = 0
  PROVE  InArea(c) /\ ~EndZone(c.tail) /\ Sound(m, c) /\ ring_walk(m, c) = Passed(<<>>)
<1>1. 0 \in Cursors /\ Cap \in Nat /\ Cap > 0
  BY CapNat DEF Cursors
<1>2. InArea(c)
  BY <1>1 DEF InArea
<1>3. ring_walk(m, c) = Walk(m, c.gen, 0, 0, 0)
  BY <1>2, WalkOfWindow
<1>4. Walk(m, c.gen, 0, 0, 0) = Passed(<<>>)
  BY WalkEnds
<1>. QED  BY <1>1, <1>2, <1>3, <1>4 DEF EndZone, Sound

\* A blank medium satisfies the invariant.
LEMMA RingInit == Init => IInv
<1> SUFFICES ASSUME Init PROVE IInv
  OBVIOUS
<1>1. media \in Media
  BY CapNat DEF Init, Media, Cells
<1>2. /\ ctx \in Context /\ ctx.wp = 0 /\ ctx.tail = 0 /\ ctx.count = 0
  BY DEF Init, Blank, Context
<1>3. InArea(ctx) /\ ~EndZone(ctx.tail) /\ Sound(media, ctx)
  BY <1>1, <1>2, EmptyWindow
<1>4. ctx.count * Overhead <= Cap
  BY <1>2, CapNat
<1>5. Types
  BY <1>1, <1>2, <1>3, <1>4 DEF Init, Types, Copy
<1>6. Tails
  BY <1>3 DEF Init, Tails, BadSb
<1>. QED  BY <1>3, <1>5, <1>6 DEF Init, IInv, Placed, Wrapping, Published, AckedIsDurable

\* The copy recovery trusts is one of the two.
LEMMA Trusted ==
  ASSUME NEW a, NEW b
  PROVE  /\ load_current_superblock(a, b) \in {a, b}
         /\ a = b => load_current_superblock(a, b) = a
BY DEF load_current_superblock

\* next_generation_value and next_session_value stay counters.
LEMMA SuccessorsNat ==
  ASSUME NEW n \in Nat PROVE next_generation_value(n) \in Nat /\ next_session_value(n) \in Nat
BY DEF next_generation_value, next_session_value

\* nvlog_format starts over with an empty window under a new generation.
LEMMA FormatKeeps == IInv /\ Format => IInv'
<1> SUFFICES ASSUME IInv, Format PROVE IInv'
  OBVIOUS
<1> USE DEF IInv
<1> DEFINE s == load_current_superblock(sbA, sbB)
<1>1. s \in Copy
  BY Trusted DEF Types
<1>2. s.ok => s.gen \in Nat /\ s.mseq \in Nat
  <2> HIDE DEF s
  <2>1. CASE s = BadSb
    <3>1. BadSb.ok = FALSE
      BY DEF BadSb
    <3>. QED  BY <2>1, <3>1
  <2>2. CASE s # BadSb
    <3>1. s \in [ok : {TRUE}, gen : Nat, mseq : Nat, wp : Cursors, tail : Cursors,
                 next : Nat, count : Nat, free : Nat]
      BY <1>1, <2>2 DEF Copy
    <3>. QED  BY <3>1
  <2>. QED  BY <2>1, <2>2
<1> DEFINE gen  == IF s.ok THEN next_generation_value(s.gen) ELSE 1
           mseq == IF s.ok THEN next_session_value(next_session_value(s.mseq))
                   ELSE next_session_value(0)
<1>3. gen \in Nat /\ mseq \in Nat
  BY <1>2, SuccessorsNat
<1>4. ctx' = [Blank EXCEPT !.gen = gen, !.mseq = mseq, !.free = Cap]
  BY DEF Format
<1>5. ctx' \in Context /\ ctx'.wp = 0 /\ ctx'.tail = 0 /\ ctx'.count = 0
  <2> HIDE DEF gen, mseq
  <2>. QED  BY <1>3, <1>4, CapNat DEF Blank, Context
<1>6. /\ media' = media /\ sbA' = sbA /\ sbB' = sbB /\ status' = status
      /\ pc' = "sbA" /\ todo' = <<>> /\ req'.op = "format"
      /\ req' = [op |-> "format", len |-> 0, v |-> 0, base |-> 0]
      /\ calls' = [calls EXCEPT !.formats = @ + 1] /\ old'.next = ctx.next
  BY DEF Format, Begin
<1>7. media' \in Media
  BY <1>6 DEF Types
<1>8. InArea(ctx') /\ ~EndZone(ctx'.tail) /\ Sound(media', ctx') /\ ring_walk(media', ctx') = Passed(<<>>)
  BY <1>5, <1>7, EmptyWindow
<1>9. ctx'.count * Overhead <= Cap
  BY <1>5, CapNat
<1>10. old'.next \in Nat
  BY <1>6 DEF Types, Context
<1>11. Types'
  BY <1>5, <1>6, <1>8, <1>9, <1>10 DEF Types
<1>12. Tails'
  BY <1>6, <1>8 DEF Tails
<1>13. Published'
  BY <1>6, <1>8 DEF Published, Live, Passed
<1>. QED  BY <1>6, <1>8, <1>11, <1>12, <1>13 DEF Placed, Wrapping, AckedIsDurable

\* The headers of the records under way.
LEMMA HeadersTyped ==
  /\ Types => /\ DataHeader \in Headers /\ DataHeader.type = "DATA" /\ DataHeader.len = req.len
              /\ DataHeader.seq = ctx.next /\ DataHeader.gen = ctx.gen
              /\ req.v \in Nat /\ req.len \in Nat /\ Total \in Nat /\ ctx.wp \in Nat
  /\ Types /\ Cap - ctx.wp >= Overhead =>
       /\ WrapHeader \in Headers /\ WrapHeader.type = "WRAP" /\ WrapHeader.gen = ctx.gen
       /\ ctx.wp + rec_alloc_bytes(WrapHeader.len) = Cap
<1>1. ASSUME Types PROVE ctx.wp \in Nat /\ ctx.next \in Nat /\ ctx.gen \in Nat /\ req.len \in Nat /\ req.v \in Nat
  BY <1>1 DEF Types, Context
<1>2. Cap \in Nat /\ Overhead \in Nat
  BY CapNat
<1>. QED  BY <1>1, <1>2 DEF DataHeader, WrapHeader, Header, Headers, Total, rec_alloc_bytes

\* One HAL write of the record under way, whole or in part.
LEMMA Writing ==
  ASSUME IInv, todo # <<>>, NEW k \in 0 .. Len(Head(todo).cells)
  PROVE  LET m2 == Put(media, Head(todo), k)
         IN  /\ m2 \in Media /\ Sound(m2, ctx)
             /\ pc = "data" => Room(m2, ctx, Total) \/ Overlap(ctx, Total)
             /\ k = Len(Head(todo).cells) =>
                  /\ pc = "data" => Progress(m2, ctx.wp, DataHeader, req.v, Tail(todo))
                  /\ pc = "wrap" => Progress(m2, ctx.wp, WrapHeader, Zeros, Tail(todo))
<1> USE DEF IInv
<1> DEFINE m2 == Put(media, Head(todo), k)
<1>0. /\ media \in Media /\ ctx \in Context /\ InArea(ctx) /\ ~EndZone(ctx.tail) /\ Sound(media, ctx)
      /\ ctx.count \in Nat /\ ctx.wp \in Nat /\ pc \in {"wrap", "data"}
  BY DEF Types, Tails, Context
<1>1. CASE pc = "data"
  <2> DEFINE d == DataHeader
  <2>1. /\ d \in Headers /\ req.v \in Nat /\ rec_alloc_bytes(d.len) = Total
        /\ ctx.wp + rec_alloc_bytes(d.len) <= Cap
        /\ Progress(media, ctx.wp, d, req.v, todo)
        /\ Room(media, ctx, Total) \/ Overlap(ctx, Total)
        /\ Total \in Nat /\ Total > 0
    <3>1. d \in Headers /\ req.v \in Nat /\ d.len = req.len /\ req.len \in Nat
      BY HeadersTyped
    <3>2. rec_alloc_bytes(d.len) = Total /\ Total \in Nat /\ Total > 0
      BY <3>1, AllocNat DEF Total
    <3>. QED  BY <1>1, <3>1, <3>2 DEF Placed
  <2> HIDE DEF d
  <2>2. /\ m2 \in Media /\ Written(media, m2, ctx.wp, d, req.v)
        /\ k = Len(Head(todo).cells) => Progress(m2, ctx.wp, d, req.v, Tail(todo))
    BY <1>0, <2>1, WriteEffect
  <2> HIDE DEF m2
  <2>3. ~(ctx.tail = ctx.wp /\ ctx.count > 0)
    <3>1. ctx.tail = ctx.wp /\ ctx.count > 0 => ring_occupied(ctx) = Cap
      BY <1>0, WalkOfWindow
    <3>2. Room(media, ctx, Total) => ring_occupied(ctx) # Cap
      BY <2>1, CapNat DEF Room
    <3>3. Overlap(ctx, Total) => ~(ctx.count > 0)
      BY DEF Overlap
    <3>. QED  BY <2>1, <3>1, <3>2, <3>3
  <2>4. Sound(m2, ctx)
    BY <1>0, <2>1, <2>2, <2>3, WritesKeepSound
  <2>5. Room(media, ctx, Total) => Room(m2, ctx, Total)
    <3>1. Room(media, ctx, rec_alloc_bytes(d.len)) => Room(m2, ctx, rec_alloc_bytes(d.len))
      BY <1>0, <2>1, <2>2, RoomKept
    <3>. QED  BY <2>1, <3>1
  <2>. QED  BY <1>1, <2>1, <2>2, <2>4, <2>5 DEF d, m2
<1>2. CASE pc = "wrap"
  <2> DEFINE d == WrapHeader
  <2>1. /\ d \in Headers /\ Zeros \in Nat /\ d.type = "WRAP"
        /\ ctx.wp + rec_alloc_bytes(d.len) = Cap /\ ctx.wp + rec_alloc_bytes(d.len) <= Cap
        /\ Progress(media, ctx.wp, d, Zeros, todo)
    BY <1>2, HeadersTyped, CapNat DEF Wrapping, Zeros
  <2> HIDE DEF d
  <2>2. /\ m2 \in Media /\ Written(media, m2, ctx.wp, d, Zeros)
        /\ k = Len(Head(todo).cells) => Progress(m2, ctx.wp, d, Zeros, Tail(todo))
    BY <1>0, <2>1, WriteEffect
  <2> HIDE DEF m2
  <2>3. Sound(m2, ctx)
    BY <1>0, <2>1, <2>2, WritesKeepSound
  <2>. QED  BY <1>2, <2>2, <2>3 DEF d, m2
<1>. QED  BY <1>0, <1>1, <1>2

\* One of the header, payload or commit writes of a record: it falls in the free
\* part of the area, outside the window that the context describes.
LEMMA WriteKeeps == IInv /\ WriteCells => IInv'
<1> SUFFICES ASSUME IInv, WriteCells PROVE IInv'
  OBVIOUS
<1>0. /\ todo # <<>> /\ media' = Put(media, Head(todo), Len(Head(todo).cells)) /\ todo' = Tail(todo)
      /\ sbA' = sbA /\ sbB' = sbB /\ ctx' = ctx /\ pc' = pc /\ req' = req /\ status' = status
      /\ old' = old /\ log' = log /\ calls' = calls
  BY DEF WriteCells
<1>1. pc \in {"data", "wrap"}
  BY <1>0 DEF IInv, Types
<1>2. Len(Head(todo).cells) \in Nat
  <2>1. ASSUME NEW b \in Nat, NEW d \in Headers, NEW v \in Nat, Progress(media, b, d, v, todo)
        PROVE  Len(Head(todo).cells) \in Nat
    BY <1>0, <2>1, HeadCells
  <2>2. Zeros \in Nat
    BY DEF Zeros
  <2>. QED  BY <1>1, <2>1, <2>2, HeadersTyped DEF IInv, Placed, Wrapping
<1> DEFINE m2 == Put(media, Head(todo), Len(Head(todo).cells))
<1>3. /\ m2 \in Media /\ Sound(m2, ctx)
      /\ pc = "data" => Room(m2, ctx, Total) \/ Overlap(ctx, Total)
      /\ pc = "data" => Progress(m2, ctx.wp, DataHeader, req.v, Tail(todo))
      /\ pc = "wrap" => Progress(m2, ctx.wp, WrapHeader, Zeros, Tail(todo))
  <2>1. Len(Head(todo).cells) \in 0 .. Len(Head(todo).cells)
    BY <1>2
  <2>. QED  BY <1>0, <2>1, Writing
<1>4. media' = m2
  BY <1>0
<1> HIDE DEF m2
<1>5. Types'
  BY <1>0, <1>1, <1>3, <1>4 DEF IInv, Types
<1>6. Tails'
  BY <1>0 DEF IInv, Tails
<1>7. Placed'
  BY <1>0, <1>3, <1>4 DEF IInv, Placed, Total, DataHeader
<1>8. Wrapping'
  BY <1>0, <1>3, <1>4 DEF IInv, Wrapping, WrapHeader
<1>. QED  BY <1>0, <1>1, <1>3, <1>4, <1>5, <1>6, <1>7, <1>8 DEF IInv, Published, AckedIsDurable
-----------------------------------------------------------------------------
\* Contexts and superblocks with the same window.
LEMMA SameWindow ==
  ASSUME NEW m, NEW c, NEW d, d.wp = c.wp, d.tail = c.tail, d.gen = c.gen, d.count = c.count
  PROVE  /\ ring_occupied(d) = ring_occupied(c) /\ ring_walk(m, d) = ring_walk(m, c)
         /\ d.next = c.next => (Sound(m, c) => Sound(m, d))
<1>1. ring_occupied(d) = ring_occupied(c)
  BY DEF ring_occupied
<1>2. ring_walk(m, d) = ring_walk(m, c)
  BY <1>1 DEF ring_walk
<1>. QED  BY <1>1, <1>2 DEF Sound

\* MoveWp, and the case where the write pointer is at the start already.
LEMMA MovedWp ==
  ASSUME NEW m \in Media, NEW c \in Context, InArea(c), ~EndZone(c.tail), Sound(m, c),
         \/ c.wp = 0
         \/ EndZone(c.wp)
         \/ \E d \in Headers : /\ d.gen = c.gen /\ d.type = "WRAP"
                               /\ c.wp + rec_alloc_bytes(d.len) = Cap
                               /\ Image(m, c.wp, d, Zeros, rec_alloc_bytes(d.len))
  PROVE  LET C == [c EXCEPT !.wp = 0]
         IN  /\ C \in Context /\ InArea(C) /\ ~EndZone(C.tail) /\ ~EndZone(C.wp) /\ Sound(m, C)
             /\ C.count = c.count /\ C.next = c.next /\ C.mounted = c.mounted /\ C.wp = 0
<1> DEFINE C == [c EXCEPT !.wp = 0]
<1>1. 0 \in Cursors /\ 0 \in Nat
  BY CapNat DEF Cursors
<1>2. /\ C \in Context /\ C.wp = 0 /\ C.tail = c.tail /\ C.count = c.count /\ C.next = c.next
      /\ C.mounted = c.mounted /\ C.gen = c.gen
  BY <1>1 DEF Context
<1>3. CASE c.wp = 0
  <2> HIDE DEF C
  <2>1. Sound(m, C)
    BY <1>2, <1>3, SameWindow
  <2>. QED  BY <1>1, <1>2, <1>3, <2>1 DEF C, InArea, EndZone
<1>4. CASE c.wp # 0
  <2>1. Sound(m, C)
    BY <1>4, MoveWp
  <2>. QED  BY <1>1, <1>2, <2>1 DEF InArea, EndZone
<1>. QED  BY <1>3, <1>4

-----------------------------------------------------------------------------
\* The middle of an append, from the context whose write pointer is where the
\* record is to go.
LEMMA PlaceKeeps ==
  ASSUME Types, Tails,
         NEW c \in Context, InArea(c), ~EndZone(c.tail), ~EndZone(c.wp), Sound(media, c),
         c.count * Overhead <= Cap, c.mounted, NEW len \in Nat, NEW v \in Nat,
         NEW base, base = c.wp, old'.next = c.next,
         calls' \in [appends : Nat, faults : Nat, formats : Nat],
         Place(c, len, v, base)
  PROVE  IInv'
<1> DEFINE t == rec_alloc_bytes(len)
           r == make_room(media, c, t)
<1>0. media \in Media /\ c.next \in Nat /\ base \in Nat
  BY DEF Types, Context
<1>1. /\ media' = media /\ sbA' = sbA /\ sbB' = sbB
      /\ req' = [op |-> "append", len |-> len, v |-> v, base |-> base]
      /\ ctx' = r.c
      /\ \/ pc' = "idle" /\ todo' = <<>> /\ status' \in {"CORRUPT", "FULL"}
         \/ /\ r.ok /\ Cap - base >= t
            /\ pc' = "data" /\ status' = status
            /\ todo' = write_record_wire(base, Header("DATA", r.c.next, len, r.c.gen), v)
  BY DEF Place, StartWriting, Return
<1>2. /\ r.c \in Context /\ InArea(r.c) /\ r.c.count * Overhead <= Cap
      /\ ~EndZone(r.c.tail) /\ Sound(media, r.c)
      /\ r.c.mounted = c.mounted /\ r.c.next = c.next /\ r.c.wp = c.wp
      /\ r.ok /\ Cap - c.wp >= t => Room(media, r.c, t) \/ Overlap(r.c, t)
  BY <1>0, Placing
<1> HIDE DEF r
<1>3. Types'
  BY <1>0, <1>1, <1>2 DEF Types
<1>4. Tails'
  BY <1>1, <1>2 DEF Tails
<1>5. Sound(media, ctx)'
  BY <1>1, <1>2
<1>6. Placed'
  <2> SUFFICES ASSUME pc' = "data" PROVE Placed'
    BY DEF Placed
  <2>1. /\ r.ok /\ Cap - base >= t
        /\ todo' = write_record_wire(base, Header("DATA", r.c.next, len, r.c.gen), v)
    BY <1>1
  <2>2. Total' = t /\ req'.op = "append" /\ req'.base = base /\ req'.v = v
    BY <1>1 DEF Total
  <2>3. DataHeader' = Header("DATA", r.c.next, len, r.c.gen)
    BY <1>1 DEF DataHeader
  <2>4. ctx'.wp = base /\ ctx'.mounted /\ ctx'.next = old'.next
    BY <1>1, <1>2
  <2>5. Progress(media', ctx'.wp, DataHeader', req'.v, todo')
    BY <2>1, <2>2, <2>3, <2>4 DEF Progress
  <2>6. ctx'.wp + Total' <= Cap
    <3>1. t \in Nat /\ Cap \in Nat
      BY AllocNat, CapNat
    <3> HIDE DEF t
    <3>. QED  BY <1>0, <2>1, <2>2, <2>4, <3>1
  <2>7. Room(media', ctx', Total') \/ Overlap(ctx', Total')
    BY <1>1, <1>2, <2>1, <2>2
  <2>. QED  BY <2>2, <2>4, <2>5, <2>6, <2>7 DEF Placed
<1>. QED  BY <1>1, <1>3, <1>4, <1>5, <1>6 DEF IInv, Wrapping, Published, AckedIsDurable

\* nvlog_append after its checks: the write plan of the wrap marker or of the
\* record is laid at the write position.
LEMMA AppendKeeps == ASSUME IInv, NEW len \in Lens, AppendRecord(len) PROVE IInv'
<1> DEFINE v == calls.appends + 1
           gap == Cap - ctx.wp
           fits == gap >= rec_alloc_bytes(len)
<1>0. /\ Types /\ Tails /\ Sound(media, ctx) /\ media \in Media /\ ctx \in Context /\ InArea(ctx)
      /\ ~EndZone(ctx.tail) /\ ctx.count * Overhead <= Cap /\ ctx.wp \in Cursors
      /\ ctx.wp \in Nat /\ ctx.next \in Nat /\ ctx.gen \in Nat
      /\ calls \in [appends : Nat, faults : Nat, formats : Nat]
  BY DEF IInv, Types, Tails, InArea, Context
<1>1. /\ ctx.mounted /\ old'.next = ctx.next /\ calls' = [calls EXCEPT !.appends = @ + 1]
      /\ \/ fits /\ Place(ctx, len, v, ctx.wp)
         \/ ~fits /\ gap < Overhead /\ Place([ctx EXCEPT !.wp = 0], len, v, 0)
         \/ /\ ~fits /\ gap >= Overhead
            /\ pc' = "wrap"
            /\ todo' = write_record_wire(ctx.wp,
                         Header("WRAP", ctx.next, gap - Overhead, ctx.gen), Zeros)
            /\ req' = [op |-> "append", len |-> len, v |-> v, base |-> 0]
            /\ UNCHANGED <<media, sbA, sbB, ctx, status>>
  BY DEF AppendRecord, Begin
<1>2. len \in Nat /\ v \in Nat /\ calls' \in [appends : Nat, faults : Nat, formats : Nat]
  BY <1>0, <1>1, RingAssumption
<1>3. /\ rec_alloc_bytes(len) \in Nat /\ rec_alloc_bytes(len) >= Overhead /\ Overhead \in Nat
      /\ Cap \in Nat
  BY <1>2, AllocNat, CapNat
<1>4. CASE fits /\ Place(ctx, len, v, ctx.wp)
  <2>1. ~EndZone(ctx.wp)
    BY <1>0, <1>3, <1>4 DEF EndZone
  <2> HIDE DEF v, fits
  <2>. QED  BY <1>0, <1>1, <1>2, <1>4, <2>1, PlaceKeeps
<1>5. CASE gap < Overhead /\ Place([ctx EXCEPT !.wp = 0], len, v, 0)
  <2> DEFINE C == [ctx EXCEPT !.wp = 0]
  <2>1. ctx.wp = 0 \/ EndZone(ctx.wp)
    BY <1>5 DEF EndZone
  <2>2. /\ C \in Context /\ InArea(C) /\ ~EndZone(C.tail) /\ ~EndZone(C.wp) /\ Sound(media, C)
        /\ C.count = ctx.count /\ C.next = ctx.next /\ C.mounted = ctx.mounted /\ C.wp = 0
    BY <1>0, <2>1, MovedWp
  <2>3. Place(C, len, v, 0)
    BY <1>5
  <2> HIDE DEF v, C
  <2>. QED  BY <1>0, <1>1, <1>2, <2>2, <2>3, PlaceKeeps
<1>6. CASE /\ gap >= Overhead
           /\ pc' = "wrap"
           /\ todo' = write_record_wire(ctx.wp,
                        Header("WRAP", ctx.next, gap - Overhead, ctx.gen), Zeros)
           /\ req' = [op |-> "append", len |-> len, v |-> v, base |-> 0]
           /\ UNCHANGED <<media, sbA, sbB, ctx, status>>
  <2>1. Types'
    BY <1>0, <1>1, <1>2, <1>6 DEF Types
  <2>2. Tails'
    BY <1>0, <1>6 DEF Tails
  <2>3. Wrapping'
    BY <1>1, <1>6 DEF Wrapping, Progress, WrapHeader
  <2>. QED  BY <1>0, <1>6, <2>1, <2>2, <2>3 DEF IInv, Placed, Published, AckedIsDurable
<1>. QED  BY <1>1, <1>4, <1>5, <1>6

\* The wrap marker is complete: the write position goes to 0 and the record
\* follows.
LEMMA WrapKeeps == IInv /\ WrapWritten => IInv'
<1> SUFFICES ASSUME IInv, WrapWritten PROVE IInv'
  OBVIOUS
<1> DEFINE C == [ctx EXCEPT !.wp = 0]
           d == WrapHeader
<1>0. /\ Types /\ Tails /\ Sound(media, ctx) /\ media \in Media /\ ctx \in Context /\ InArea(ctx)
      /\ ~EndZone(ctx.tail) /\ ctx.count * Overhead <= Cap /\ ctx.wp \in Nat
      /\ calls \in [appends : Nat, faults : Nat, formats : Nat] /\ req.len \in Nat /\ req.v \in Nat
  BY DEF IInv, Types, Tails, Context
<1>1. /\ pc = "wrap" /\ todo = <<>> /\ old' = old /\ calls' = calls
      /\ Place(C, req.len, req.v, 0)
  BY DEF WrapWritten
<1>2. /\ ctx.mounted /\ ctx.next = old.next /\ Cap - ctx.wp >= Overhead
      /\ Progress(media, ctx.wp, d, Zeros, <<>>)
  BY <1>1 DEF IInv, Wrapping
<1>3. /\ d \in Headers /\ d.type = "WRAP" /\ d.gen = ctx.gen
      /\ ctx.wp + rec_alloc_bytes(d.len) = Cap
  BY <1>0, <1>2, HeadersTyped
<1> HIDE DEF d
<1>4. Image(media, ctx.wp, d, Zeros, rec_alloc_bytes(d.len))
  BY <1>0, <1>2, <1>3, ProgressEnds
<1>5. /\ C \in Context /\ InArea(C) /\ ~EndZone(C.tail) /\ ~EndZone(C.wp) /\ Sound(media, C)
      /\ C.count = ctx.count /\ C.next = ctx.next /\ C.mounted = ctx.mounted /\ C.wp = 0
  BY <1>0, <1>3, <1>4, MovedWp
<1>6. old'.next = C.next /\ C.mounted /\ C.count * Overhead <= Cap
  BY <1>0, <1>1, <1>2, <1>5
<1> HIDE DEF C
<1>. QED  BY <1>0, <1>1, <1>5, <1>6, PlaceKeeps

\* The record is complete: the new context holds the window with one record more.
LEMMA DataKeeps == IInv /\ DataWritten => IInv'
<1> SUFFICES ASSUME IInv, DataWritten PROVE IInv'
  OBVIOUS
<1> DEFINE d == DataHeader
           t == Total
           C == Appended(ctx, t)
           w == ring_validate_window(media, C)
           R == ring_walk(media, ctx).recs
<1>0. /\ Types /\ Tails /\ Sound(media, ctx) /\ media \in Media /\ ctx \in Context /\ InArea(ctx)
      /\ ~EndZone(ctx.tail) /\ ctx.wp \in Nat /\ ctx.count \in Nat /\ req.v \in Nat
  BY DEF IInv, Types, Tails, Context
<1>1. /\ pc = "data" /\ todo = <<>> /\ media' = media /\ sbA' = sbA /\ sbB' = sbB /\ req' = req
      /\ old' = old /\ calls' = calls
  BY DEF DataWritten
<1>2. /\ ctx.wp = req.base /\ ctx.wp + t <= Cap /\ ctx.next = old.next
      /\ Progress(media, ctx.wp, d, req.v, <<>>)
      /\ Room(media, ctx, t) \/ Overlap(ctx, t)
  BY <1>1 DEF IInv, Placed
<1>3. /\ ctx' = w.c
      /\ \/ w.ok /\ pc' = "sbA" /\ todo' = todo /\ status' = status
         \/ ~w.ok /\ pc' = "idle" /\ todo' = <<>> /\ status' = "CORRUPT"
  BY <1>2, Zenon DEF DataWritten, Return, Appended, Total
<1>4. /\ d \in Headers /\ d.type = "DATA" /\ d.seq = ctx.next /\ d.gen = ctx.gen
      /\ rec_alloc_bytes(d.len) = t /\ t \in Nat /\ t >= Overhead /\ Overhead \in Nat /\ Cap \in Nat
  <2>1. /\ d \in Headers /\ d.type = "DATA" /\ d.seq = ctx.next /\ d.gen = ctx.gen
        /\ d.len = req.len /\ req.len \in Nat
    BY <1>0, HeadersTyped
  <2>2. t \in Nat /\ t >= Overhead /\ Overhead \in Nat /\ Cap \in Nat
    BY <2>1, AllocNat, CapNat DEF Total
  <2>. QED  BY <2>1, <2>2 DEF Total
<1> HIDE DEF d
<1>5. Image(media, ctx.wp, d, req.v, t)
  BY <1>0, <1>2, <1>4, ProgressEnds
<1>6. C \in Context /\ InArea(C) /\ C.tail = ctx.tail /\ C.count = ctx.count + 1
  BY <1>0, <1>2, <1>4, AppendedTyped
<1>7. CASE Room(media, ctx, t)
  <2> DEFINE e == [seq |-> ctx.next, v |-> req.v]
  <2>1. /\ ring_walk(media, ctx).ok /\ Agrees(R, ctx.next) /\ t <= Cap - ring_occupied(ctx)
        /\ (Len(R) + 1) * Overhead <= Cap
    BY <1>7 DEF Room
  <2>2. ring_walk(media, Appended(ctx, rec_alloc_bytes(d.len))) = Passed(R \o <<e>>)
    BY <1>0, <1>2, <1>4, <1>5, <2>1, DataDone
  <2>3. ring_walk(media, C) = Passed(R \o <<e>>)
    BY <1>4, <2>2
  <2>4. R \in Seq(Entries) /\ e \in Entries
    BY <1>0, <2>1, RecordsFit DEF Entries, Context
  <2> HIDE DEF C, R, e
  <2>5. R \o <<e>> \in Seq(Entries) /\ Len(R \o <<e>>) = Len(R) + 1 /\ Last(R \o <<e>>) = e
    BY <2>4 DEF Last
  <2>6. ring_walk(media, C).ok /\ ring_walk(media, C).recs = R \o <<e>>
    BY <2>3 DEF Passed
  <2>7. /\ w.ok /\ w.c \in Context /\ InArea(C) /\ w.c.tail = C.tail
        /\ Validated(media, w.c) /\ ring_walk(media, w.c) = ring_walk(media, C)
    BY <1>0, <1>6, <2>6, Validating DEF SameBut
  <2> HIDE DEF w
  <2>8. /\ InArea(w.c) /\ w.c.count = Len(R) + 1 /\ ring_walk(media, w.c).ok
        /\ Agrees(ring_walk(media, w.c).recs, w.c.next)
    BY <2>5, <2>6, <2>7 DEF Validated
  <2>9. Sound(media, w.c)
    BY <1>0, <2>7, <2>8, GoodSound
  <2>10. ctx' = w.c /\ pc' = "sbA" /\ todo' = <<>> /\ status' = status
    BY <1>1, <1>3, <2>7
  <2>11. w.c.count * Overhead <= Cap
    BY <2>1, <2>8
  <2>12. Types'
    BY <1>0, <1>1, <2>7, <2>8, <2>10, <2>11 DEF Types
  <2>13. Tails'
    BY <1>0, <1>1, <1>6, <2>7, <2>10 DEF Tails
  <2>14. Published'
    <3>1. Live' = ring_walk(media, w.c)
      BY <1>1, <2>10 DEF Live
    <3>2. Live'.ok /\ Last(Live'.recs) = e
      BY <2>5, <2>6, <2>7, <3>1
    <3>3. Candidate' = e
      BY <1>1, <1>2 DEF Candidate, e
    <3>. QED  BY <2>10, <3>2, <3>3 DEF Published
  <2>. QED  BY <1>1, <2>9, <2>10, <2>12, <2>13, <2>14 DEF IInv, Placed, Wrapping, AckedIsDurable
<1>8. CASE Overlap(ctx, t)
  <2>1. ~ring_walk(media, C).ok /\ Sound(media, C)
    <3>1. LET D == Appended(ctx, rec_alloc_bytes(d.len)) IN ~ring_walk(media, D).ok /\ Sound(media, D)
      BY <1>0, <1>2, <1>4, <1>5, <1>8, DataLost DEF Overlap
    <3>. QED  BY <1>4, <3>1
  <2>2. ~w.ok /\ w.c = C
    <3> HIDE DEF C
    <3>. QED  BY <1>0, <1>6, <2>1, Validating
  <2>3. C.count * Overhead <= Cap
    <3>1. C.count = 1
      BY <1>0, <1>6, <1>8 DEF Overlap
    <3>. QED  BY <1>0, <1>2, <1>4, <3>1
  <2>4. ctx' = C /\ pc' = "idle" /\ todo' = <<>> /\ status' = "CORRUPT"
    BY <1>3, <2>2
  <2> HIDE DEF C
  <2>5. Types'
    BY <1>0, <1>1, <1>6, <2>3, <2>4 DEF Types
  <2>6. Tails'
    BY <1>0, <1>1, <1>6, <2>4 DEF Tails
  <2>. QED  BY <1>1, <2>1, <2>4, <2>5, <2>6 DEF IInv, Placed, Wrapping, Published, AckedIsDurable
<1>. QED  BY <1>2, <1>7, <1>8

-----------------------------------------------------------------------------
\* sb_encode writes the context that it is given.
LEMMA EncodedCopy ==
  ASSUME NEW c \in Context, InArea(c)
  PROVE  LET s == sb_encode(c)
         IN  s \in Copy /\ s.ok /\ s.wp = c.wp /\ s.tail = c.tail /\ s.gen = c.gen /\ s.count = c.count
BY DEF sb_encode, Copy, Context, InArea

\* Copy A of the superblock is written, copy B still holds the old window.
LEMMA PublishAKeeps == IInv /\ PublishA => IInv'
<1> SUFFICES ASSUME IInv, PublishA PROVE IInv'
  OBVIOUS
<1>1. /\ pc = "sbA" /\ sbA' = sb_encode(ctx) /\ pc' = "sbB" /\ media' = media /\ sbB' = sbB
      /\ ctx' = ctx /\ todo' = todo /\ req' = req /\ status' = status /\ old' = old /\ calls' = calls
  BY DEF PublishA
<1>2. sb_encode(ctx) \in Copy /\ sb_encode(ctx).tail = ctx.tail
  BY EncodedCopy DEF IInv, Types
<1>3. Types'
  BY <1>1, <1>2 DEF IInv, Types
<1>4. Tails'
  BY <1>1, <1>2 DEF IInv, Tails
<1>5. Published'
  BY <1>1 DEF IInv, Published, Live, Candidate
<1>. QED  BY <1>1, <1>3, <1>4, <1>5 DEF IInv, Placed, Wrapping, AckedIsDurable

\* Copy B is written: the call returns, its window is on the medium.
LEMMA PublishBKeeps == IInv /\ PublishB => IInv'
<1> SUFFICES ASSUME IInv, PublishB PROVE IInv'
  OBVIOUS
<1>1. /\ pc = "sbB" /\ sbB' = sb_encode(ctx) /\ pc' = "idle" /\ todo' = <<>> /\ status' = "OK"
      /\ ctx' = [ctx EXCEPT !.mounted = TRUE]
      /\ media' = media /\ sbA' = sbA /\ req' = req /\ old' = old /\ calls' = calls
  BY DEF PublishB, Return
<1>2. /\ sb_encode(ctx) \in Copy /\ sb_encode(ctx).ok /\ sb_encode(ctx).wp = ctx.wp
      /\ sb_encode(ctx).tail = ctx.tail
      /\ sb_encode(ctx).gen = ctx.gen /\ sb_encode(ctx).count = ctx.count
  BY EncodedCopy DEF IInv, Types
<1>3. /\ ctx' \in Context /\ ctx'.wp = ctx.wp /\ ctx'.tail = ctx.tail /\ ctx'.gen = ctx.gen
      /\ ctx'.count = ctx.count /\ ctx'.next = ctx.next
  BY <1>1 DEF IInv, Types, Context
<1>4. ring_walk(media, ctx') = Live /\ ring_walk(media, sb_encode(ctx)) = Live /\ Sound(media, ctx')
  <2>1. \A c : /\ c.wp = ctx.wp /\ c.tail = ctx.tail /\ c.gen = ctx.gen /\ c.count = ctx.count
               => /\ ring_walk(media, c) = ring_walk(media, ctx)
                  /\ c.next = ctx.next => Sound(media, c)
    BY SameWindow DEF IInv
  <2>. QED  BY <1>2, <1>3, <2>1 DEF Live
<1>5. Live' = Live
  BY <1>1, <1>4 DEF Live
<1>6. Durable' = Live
  <2>1. sbA' = sb_encode(ctx)
    BY <1>1 DEF IInv, Published
  <2>2. load_current_superblock(sbA', sbB') = sb_encode(ctx)
    BY <1>1, <2>1, Trusted
  <2>. QED  BY <1>1, <1>2, <1>4, <2>2 DEF Durable, Recover
<1>7. AckedIsDurable'
  <2>1. Live.ok /\ (req.op = "append" => Last(Live.recs) = Candidate)
    BY <1>1 DEF IInv, Published
  <2>2. Candidate' = Candidate
    BY <1>1 DEF Candidate
  <2>. QED  BY <1>1, <1>5, <1>6, <2>1, <2>2 DEF AckedIsDurable
<1>8. Types'
  BY <1>1, <1>2, <1>3 DEF IInv, Types, InArea
<1>9. Tails'
  BY <1>1, <1>2, <1>3 DEF IInv, Tails
<1>. QED  BY <1>1, <1>4, <1>7, <1>8, <1>9 DEF IInv, Placed, Wrapping, Published

\* nvlog_mount: the window of the trusted copy is adopted only when it validates.
LEMMA MountKeeps == IInv /\ Mount => IInv'
<1> SUFFICES ASSUME IInv, Mount PROVE IInv'
  OBVIOUS
<1> DEFINE s == load_current_superblock(sbA, sbB)
           c == [mounted |-> TRUE, gen |-> s.gen, mseq |-> next_session_value(s.mseq),
                 wp |-> s.wp, tail |-> s.tail, next |-> s.next, count |-> s.count, free |-> s.free]
           w == ring_validate_window(media, c)
<1>1. /\ media' = media /\ sbA' = sbA /\ sbB' = sbB /\ calls' = calls /\ old'.next = ctx.next
      /\ req' = [op |-> "mount", len |-> 0, v |-> 0, base |-> 0]
      /\ pc' = "idle" /\ todo' = <<>>
      /\ \/ ctx' = ctx /\ status' = "CORRUPT"
         \/ s.ok /\ w.ok /\ ctx' = w.c /\ status' = "OK"
  BY Zenon DEF Mount, Begin, Return
<1>2. media \in Media /\ ctx.next \in Nat
  BY DEF IInv, Types, Context
<1>3. CASE ctx' = ctx /\ status' = "CORRUPT"
  <2>1. Types'
    BY <1>1, <1>2, <1>3 DEF IInv, Types
  <2>2. Tails'
    BY <1>1, <1>3 DEF IInv, Tails
  <2>. QED  BY <1>1, <1>3, <2>1, <2>2 DEF IInv, Placed, Wrapping, Published, AckedIsDurable
<1>4. CASE s.ok /\ w.ok /\ ctx' = w.c /\ status' = "OK"
  <2>1. /\ s \in {sbA, sbB} /\ s \in Copy /\ ~EndZone(s.tail)
    <3>1. s \in {sbA, sbB}
      BY Trusted
    <3> HIDE DEF s, w
    <3>. QED  BY <1>4, <3>1 DEF IInv, Types, Tails
  <2>2. s \in [ok : {TRUE}, gen : Nat, mseq : Nat, wp : Cursors, tail : Cursors,
               next : Nat, count : Nat, free : Nat]
    <3>1. s # BadSb
      BY <1>4 DEF BadSb
    <3> HIDE DEF s
    <3>. QED  BY <2>1, <3>1 DEF Copy
  <2>3. /\ c \in Context /\ c.tail = s.tail /\ c.wp = s.wp /\ c.gen = s.gen /\ c.count = s.count
    <3> HIDE DEF s
    <3>1. s.wp \in Nat /\ s.tail \in Nat /\ next_session_value(s.mseq) \in Nat
      BY <2>2, CapNat, SuccessorsNat DEF Cursors
    <3>. QED  BY <2>2, <3>1 DEF Context
  <2> HIDE DEF c
  <2>4. /\ w.c \in Context /\ w.c.tail = c.tail
        /\ Validated(media, w.c) /\ ring_walk(media, w.c) = ring_walk(media, c)
        /\ ring_walk(media, c).ok
    BY <1>2, <1>4, <2>3, Validating DEF SameBut
  <2>5. ring_walk(media, c) = ring_walk(media, s)
    <3> HIDE DEF s
    <3>. QED  BY <2>3, SameWindow
  <2> HIDE DEF w, s
  <2>6. /\ InArea(w.c) /\ ring_walk(media, w.c).ok
        /\ Agrees(ring_walk(media, w.c).recs, w.c.next)
        /\ w.c.count = Len(ring_walk(media, w.c).recs)
    BY <2>4 DEF Validated
  <2>7. Sound(media, w.c)
    BY <1>2, <2>4, <2>6, GoodSound
  <2>8. w.c.count * Overhead <= Cap
    <3>1. /\ w.c.count * Overhead <= ring_occupied(w.c) /\ ring_occupied(w.c) \in 0 .. Cap
          /\ w.c.count \in Nat
      BY <1>2, <2>6, RecordsFit
    <3> DEFINE n == w.c.count * Overhead
    <3>2. n \in Nat
      BY <3>1, CapNat
    <3> HIDE DEF n
    <3>3. n <= ring_occupied(w.c)
      BY <3>1 DEF n
    <3>4. n <= Cap
      BY <3>1, <3>2, <3>3, CapNat
    <3>. QED  BY <3>4 DEF n
  <2>9. Live' = ring_walk(media, s) /\ Durable' = ring_walk(media, s) /\ Live'.ok
    <3>1. Live' = ring_walk(media, w.c)
      BY <1>1, <1>4 DEF Live
    <3>2. Durable' = ring_walk(media, s)
      BY <1>1, <1>4 DEF Durable, Recover, s
    <3>. QED  BY <2>4, <2>5, <3>1, <3>2
  <2>10. AckedIsDurable'
    BY <1>1, <2>9 DEF AckedIsDurable
  <2>11. Types'
    BY <1>1, <1>2, <1>4, <2>4, <2>6, <2>8 DEF IInv, Types
  <2>12. Tails'
    BY <1>1, <1>4, <2>1, <2>3, <2>4 DEF IInv, Tails
  <2>. QED  BY <1>1, <1>4, <2>7, <2>10, <2>11, <2>12 DEF IInv, Placed, Wrapping, Published
<1>. QED  BY <1>1, <1>3, <1>4

\* What an interrupted write leaves.
LEMMA InterruptedKeeps ==
  ASSUME IInv, Interrupted
  PROVE  /\ media' \in Media /\ Sound(media', ctx) /\ sbA' \in {sbA, BadSb} /\ sbB' \in {sbB, BadSb}
<1>1. CASE /\ todo # <<>>
           /\ \E k \in 0 .. Len(Head(todo).cells) : media' = Put(media, Head(todo), k)
           /\ UNCHANGED <<sbA, sbB>>
  <2>1. PICK k \in 0 .. Len(Head(todo).cells) : media' = Put(media, Head(todo), k)
    BY <1>1
  <2>2. Put(media, Head(todo), k) \in Media /\ Sound(Put(media, Head(todo), k), ctx)
    BY <1>1, Writing
  <2>. QED  BY <1>1, <2>1, <2>2
<1>2. CASE /\ media' = media
           /\ sbA' \in {sbA, BadSb} /\ sbB' \in {sbB, BadSb}
  BY <1>2 DEF IInv, Types
<1>. QED  BY <1>1, <1>2 DEF Interrupted, Torn

\* A backend error in the middle of a call: the context stays as it was.
LEMMA IoErrorKeeps == IInv /\ IoError => IInv'
<1> SUFFICES ASSUME IInv, IoError PROVE IInv'
  OBVIOUS
<1>1. /\ media' \in Media /\ Sound(media', ctx) /\ sbA' \in {sbA, BadSb} /\ sbB' \in {sbB, BadSb}
  BY InterruptedKeeps DEF IoError
<1>2. /\ pc' = "idle" /\ todo' = <<>> /\ status' = "IO" /\ calls' = [calls EXCEPT !.faults = @ + 1]
      /\ ctx' = ctx /\ req' = req /\ old' = old
  BY DEF IoError, Return
<1>3. Types'
  <2>1. sbA' \in Copy /\ sbB' \in Copy
    BY <1>1 DEF IInv, Types, Copy
  <2>2. calls' \in [appends : Nat, faults : Nat, formats : Nat]
    BY <1>2 DEF IInv, Types
  <2>. QED  BY <1>1, <1>2, <2>1, <2>2 DEF IInv, Types
<1>4. Tails'
  BY <1>1, <1>2 DEF IInv, Tails, BadSb
<1>. QED  BY <1>1, <1>2, <1>3, <1>4 DEF IInv, Placed, Wrapping, Published, AckedIsDurable

\* A reset in the middle of a call or between two: the context is blank.
LEMMA PowerLossKeeps == IInv /\ PowerLoss => IInv'
<1> SUFFICES ASSUME IInv, PowerLoss PROVE IInv'
  OBVIOUS
<1>1. /\ media' \in Media /\ sbA' \in {sbA, BadSb} /\ sbB' \in {sbB, BadSb}
      /\ calls' \in [appends : Nat, faults : Nat, formats : Nat]
  <2>1. CASE Interrupted /\ calls' = [calls EXCEPT !.faults = @ + 1]
    BY <2>1, InterruptedKeeps DEF IInv, Types
  <2>2. CASE UNCHANGED <<media, sbA, sbB, calls>>
    BY <2>2 DEF IInv, Types
  <2>. QED  BY <2>1, <2>2 DEF PowerLoss
<1>2. /\ pc' = "idle" /\ todo' = <<>> /\ status' = "NONE" /\ ctx' = Blank /\ req' = req /\ old' = old
  BY DEF PowerLoss, Return
<1>3. ctx' \in Context /\ ctx'.wp = 0 /\ ctx'.tail = 0 /\ ctx'.count = 0
  BY <1>2 DEF Blank, Context
<1>4. InArea(ctx') /\ ~EndZone(ctx'.tail) /\ Sound(media', ctx')
  BY <1>1, <1>3, EmptyWindow
<1>5. ctx'.count * Overhead <= Cap
  BY <1>3, CapNat
<1>6. Types'
  BY <1>1, <1>2, <1>3, <1>4, <1>5 DEF IInv, Types, Copy
<1>7. Tails'
  BY <1>1, <1>4 DEF IInv, Tails, BadSb
<1>. QED  BY <1>2, <1>4, <1>6, <1>7 DEF IInv, Placed, Wrapping, Published, AckedIsDurable

-----------------------------------------------------------------------------
\* Every action keeps the inductive invariant.
LEMMA RingStep == IInv /\ [Next]_vars => IInv'
<1> SUFFICES ASSUME IInv, [Next]_vars PROVE IInv'
  OBVIOUS
<1>1. CASE Format
  BY <1>1, FormatKeeps
<1>2. CASE \E len \in Lens : AppendRecord(len)
  BY <1>2, AppendKeeps
<1>3. CASE WriteCells
  BY <1>3, WriteKeeps
<1>4. CASE WrapWritten
  BY <1>4, WrapKeeps
<1>5. CASE DataWritten
  BY <1>5, DataKeeps
<1>6. CASE PublishA
  BY <1>6, PublishAKeeps
<1>7. CASE PublishB
  BY <1>7, PublishBKeeps
<1>8. CASE Mount
  BY <1>8, MountKeeps
<1>9. CASE IoError
  BY <1>9, IoErrorKeeps
<1>10. CASE PowerLoss
  BY <1>10, PowerLossKeeps
<1>11. CASE UNCHANGED vars
  BY <1>11 DEF vars, IInv, Types, Tails, Placed, Wrapping, Published, AckedIsDurable,
               Live, Durable, Candidate, DataHeader, WrapHeader, Total
<1>. QED  BY <1>1, <1>2, <1>3, <1>4, <1>5, <1>6, <1>7, <1>8, <1>9, <1>10, <1>11 DEF Next

\* The inductive invariant of ring mode: wherever the window of the RAM context
\* validates, the next sequence number follows its newest record; the record that
\* nvlog_append is writing lies in free cells; and what ring_publish_superblocks
\* writes is a window that has been validated, with the new record its newest.
THEOREM RingInvariant == Spec => []IInv
<1>. QED  BY RingInit, RingStep, PTL DEF Spec

\* Type correctness of ring mode: the positions that nvlog_append, nvlog_mount and
\* ring_retire_tail_to_free compute stay inside the data area.
THEOREM RingTypeOK == Spec => []TypeOK
<1>1. IInv => TypeOK
  BY CapNat DEF IInv, Types, TypeOK, InArea, Cursors, Media
<1>. QED  BY <1>1, RingInvariant, PTL

\* A call that returned NVLOG_OK left its window on the medium: the mount that a
\* reset would make next finds exactly the context of the caller (nvlog_append,
\* nvlog_ring_format, ring_publish_superblocks).
THEOREM RingAckedIsDurable == Spec => []AckedIsDurable
<1>1. IInv => AckedIsDurable
  BY DEF IInv
<1>. QED  BY <1>1, RingInvariant, PTL
-----------------------------------------------------------------------------
Iterations == [recs : Seq(Entries), ends : BOOLEAN]

\* Padding as nvlog_iter_next sees it: it measures to the end of the region.
IterGap(c, x) == x # 0 /\ RegionSize - x < Overhead /\ c.wp < x

\* One step of the iterator, by a function that is to be the iterator itself.
IterBody(m, c, at, f) ==
  LET cursor  == at[1]
      left    == at[2]
      skipped == at[3]
      r       == verify_record(m, cursor, c.gen, RegionSize)
      next    == wrapped(cursor + rec_alloc_bytes(r.d.len))
  IN  IF left = 0 THEN [recs |-> <<>>, ends |-> TRUE]
      ELSE IF skipped > Cap THEN [recs |-> <<>>, ends |-> FALSE]
      ELSE IF cursor # 0 /\ RegionSize - cursor < Overhead /\ c.wp < cursor
           THEN f[<<0, left, skipped + 1>>]
      ELSE IF r.res # "VALID" THEN [recs |-> <<>>, ends |-> TRUE]
      ELSE IF r.d.type = "WRAP" THEN f[<<next, left, skipped + 1>>]
      ELSE [f[<<next, left - 1, 0>>] EXCEPT !.recs = <<Entry(r)>> \o @]

\* Where a record is found, there is another cursor behind it, and the record is
\* one that can be delivered.
LEMMA FoundEntry ==
  ASSUME NEW m \in Media, NEW g, NEW x \in Nat, Found(m, g, x).res = "VALID"
  PROVE  /\ Found(m, g, x).d \in Headers /\ Entry(Found(m, g, x)) \in Entries
         /\ rec_alloc_bytes(Found(m, g, x).d.len) \in Nat
         /\ x + rec_alloc_bytes(Found(m, g, x).d.len) <= Cap
         /\ wrapped(x + rec_alloc_bytes(Found(m, g, x).d.len)) \in Nat
<1> DEFINE r == Found(m, g, x)
<1>1. r.d \in Headers /\ r.v \in Nat /\ RecordAt(m, Cap, x, r.d, r.v)
  BY CapNat, ValidIsRecord DEF Found, Media
<1> HIDE DEF r
<1>2. r.d.len \in Nat /\ r.d.seq \in Nat /\ Entry(r) \in Entries
  BY <1>1 DEF Headers, Entry, Entries
<1>3. rec_alloc_bytes(r.d.len) \in Nat /\ wrapped(x + rec_alloc_bytes(r.d.len)) \in Nat
  BY <1>2, AllocNat DEF wrapped
<1>4. x + rec_alloc_bytes(r.d.len) <= Cap
  BY <1>1 DEF RecordAt
<1>. QED  BY <1>1, <1>2, <1>3, <1>4 DEF r

\* The iterator is defined at every cursor, for any number of records left.
LEMMA IterUnfolds ==
  ASSUME NEW m \in Media, NEW c \in Context
  PROVE  \A at \in Nat \X Nat \X Nat : iter_from(m, c)[at] = IterBody(m, c, at, iter_from(m, c))
<1> DEFINE D == Nat \X Nat \X Nat
           r(d) == Found(m, c.gen, d[1])
           after(d) == wrapped(d[1] + rec_alloc_bytes(r(d).d.len))
           gap(d) == IterGap(c, d[1])
           wrap(d) == r(d).d.type = "WRAP"
           done == [recs |-> <<>>, ends |-> TRUE]
           lost == [recs |-> <<>>, ends |-> FALSE]
           halts(d) == d[2] = 0 \/ d[3] > Cap \/ (~gap(d) /\ r(d).res # "VALID")
           to(d) == IF gap(d) THEN <<0, d[2], d[3] + 1>>
                    ELSE IF wrap(d) THEN <<after(d), d[2], d[3] + 1>>
                    ELSE <<after(d), d[2] - 1, 0>>
           out(d, v) == IF gap(d) \/ wrap(d) THEN v
                        ELSE [v EXCEPT !.recs = <<Entry(r(d))>> \o @]
           size(d) == d[2] * (Cap + 3) + (IF d[3] > Cap THEN 0 ELSE Cap + 1 - d[3])
           mu == [d \in D |-> size(d)]
           stop == [d \in D |-> halts(d)]
           next == [d \in D |-> to(d)]
           base == [d \in D |-> IF d[2] = 0 THEN done ELSE IF d[3] > Cap THEN lost ELSE done]
           comb == [d \in D |-> [v \in Iterations |-> out(d, v)]]
           Body(f) == [at \in Nat \X Nat \X Nat |-> IterBody(m, c, at, f)]
<1>0. Cap \in Nat
  BY CapNat
<1>1. \A d \in D : d[1] \in Nat /\ d[2] \in Nat /\ d[3] \in Nat
  OBVIOUS
<1>2. ASSUME NEW d \in D, ~halts(d), ~gap(d)
      PROVE  after(d) \in Nat /\ Entry(r(d)) \in Entries /\ r(d).res = "VALID"
  BY <1>1, <1>2, FoundEntry
<1>3. ASSUME NEW d \in D PROVE size(d) \in Nat
  <2>1. d[2] * (Cap + 3) \in Nat
    BY <1>0, <1>1
  <2>2. d[3] > Cap \/ Cap + 1 - d[3] \in Nat
    BY <1>0, <1>1
  <2>. QED  BY <2>1, <2>2
<1>4. ASSUME NEW d \in D, ~halts(d) PROVE to(d) \in D /\ size(to(d)) < size(d)
  <2>0. d[1] \in Nat /\ d[2] \in Nat /\ d[2] # 0 /\ d[3] \in Nat /\ ~(d[3] > Cap)
    BY <1>1, <1>4
  <2>1. ASSUME NEW a \in Nat, to(d) = <<a, d[2], d[3] + 1>>
        PROVE  to(d) \in D /\ size(to(d)) < size(d)
    <3>1. to(d) \in D /\ to(d)[2] = d[2] /\ to(d)[3] = d[3] + 1
      BY <2>0, <2>1
    <3>2. d[2] * (Cap + 3) \in Nat
      BY <1>0, <2>0
    <3> HIDE DEF to
    <3>. QED  BY <1>0, <2>0, <3>1, <3>2
  <2>2. ASSUME NEW a \in Nat, to(d) = <<a, d[2] - 1, 0>>
        PROVE  to(d) \in D /\ size(to(d)) < size(d)
    <3>1. to(d) \in D /\ to(d)[2] = d[2] - 1 /\ to(d)[3] = 0
      BY <2>0, <2>2
    <3>2. (d[2] - 1) * (Cap + 3) = d[2] * (Cap + 3) - (Cap + 3) /\ d[2] * (Cap + 3) \in Nat
      BY <1>0, <2>0
    <3> HIDE DEF to
    <3>. QED  BY <1>0, <2>0, <3>1, <3>2
  <2>3. CASE gap(d)
    BY <2>1, <2>3
  <2>4. CASE ~gap(d)
    <3>1. after(d) \in Nat
      BY <1>2, <1>4, <2>4
    <3> HIDE DEF gap, wrap, after, size, halts
    <3>. QED  BY <2>1, <2>2, <2>4, <3>1
  <2>. QED  BY <2>3, <2>4
<1>5. ASSUME NEW d \in D, ~halts(d), NEW v \in Iterations PROVE out(d, v) \in Iterations
  <2>1. CASE gap(d) \/ wrap(d)
    BY <2>1
  <2>2. CASE ~(gap(d) \/ wrap(d))
    <3> DEFINE e == Entry(r(d))
    <3>1. e \in Entries
      BY <1>2, <1>5, <2>2
    <3> HIDE DEF e
    <3>2. <<e>> \o v.recs \in Seq(Entries)
      BY <1>5, <3>1 DEF Iterations
    <3>3. [v EXCEPT !.recs = <<e>> \o @] \in Iterations
      BY <1>5, <3>2 DEF Iterations
    <3>. QED  BY <2>2, <3>3 DEF e
  <2>. QED  BY <2>1, <2>2
<1>6. done \in Iterations /\ lost \in Iterations
  BY DEF Iterations
<1> HIDE DEF D, r, after, gap, wrap, done, lost, halts, to, out, size
<1>7. IsRecursion(D, Iterations, mu, stop, next, base, comb)
  <2>1. mu \in [D -> Nat]
    BY <1>3
  <2>2. \A d \in D : stop[d] => base[d] \in Iterations
    BY <1>6
  <2>3. \A d \in D : ~stop[d] => next[d] \in D /\ mu[next[d]] < mu[d]
    BY <1>4
  <2>4. \A d \in D : \A v \in Iterations : ~stop[d] => comb[d][v] \in Iterations
    BY <1>5
  <2> HIDE DEF mu, stop, next, base, comb
  <2>. QED  BY <2>1, <2>2, <2>3, <2>4 DEF IsRecursion
<1>8. PICK f \in [D -> Iterations] : Solves(f, D, stop, next, base, comb)
  <2> HIDE DEF mu, stop, next, base, comb
  <2>. QED  BY <1>7, RecursionExists
<1>9. ASSUME NEW d \in D PROVE f[d] = IterBody(m, c, d, f)
  <2>1. f[d] = IF halts(d) THEN base[d] ELSE comb[d][f[to(d)]]
    BY <1>8 DEF Solves
  <2>2. ~halts(d) => comb[d][f[to(d)]] = out(d, f[to(d)])
    <3>1. ~halts(d) => f[to(d)] \in Iterations
      BY <1>4
    <3>. QED  BY <3>1
  <2>3. f[d] = IF halts(d) THEN IF d[2] = 0 THEN done ELSE IF d[3] > Cap THEN lost ELSE done
               ELSE out(d, f[to(d)])
    <3> HIDE DEF comb
    <3>. QED  BY <2>1, <2>2
  <2>4. IterBody(m, c, d, f) =
          IF d[2] = 0 THEN done
          ELSE IF d[3] > Cap THEN lost
          ELSE IF gap(d) THEN f[<<0, d[2], d[3] + 1>>]
          ELSE IF r(d).res # "VALID" THEN done
          ELSE IF wrap(d) THEN f[<<after(d), d[2], d[3] + 1>>]
          ELSE [f[<<after(d), d[2] - 1, 0>>] EXCEPT !.recs = <<Entry(r(d))>> \o @]
    BY Zenon DEF IterBody, IterGap, Found, done, lost, gap, r, wrap, after
  <2>. QED  BY <2>3, <2>4, Zenon DEF halts, to, out
<1>10. f = Body(f)
  <2>1. D = Nat \X Nat \X Nat
    BY DEF D
  <2> HIDE DEF comb, stop, next, base, mu
  <2>. QED  BY <1>8, <1>9, <2>1
<1>11. iter_from(m, c) = CHOOSE e : e = Body(e)
  BY Zenon DEF iter_from, IterBody
<1> HIDE DEF Body
<1>12. iter_from(m, c) = Body(iter_from(m, c))
  BY <1>10, <1>11, Zenon
<1>. QED  BY <1>12 DEF Body

\* What is delivered, and a rest.
Delivers(it, R) == it \in Iterations /\ \E T \in Seq(Entries) : R = it.recs \o T

\* An iterator that has delivered nothing is at the start of every window.
LEMMA DeliversNothing ==
  ASSUME NEW R \in Seq(Entries)
  PROVE  Delivers([recs |-> <<>>, ends |-> TRUE], R) /\ Delivers([recs |-> <<>>, ends |-> FALSE], R)
<1>1. R = <<>> \o R
  OBVIOUS
<1>. QED  BY <1>1 DEF Delivers, Iterations

\* An iterator that delivers the oldest record and then a prefix of the rest
\* delivers a prefix of the whole.
LEMMA DeliversOneMore ==
  ASSUME NEW it, NEW R \in Seq(Entries), NEW e \in Entries, Delivers(it, R)
  PROVE  Delivers([it EXCEPT !.recs = <<e>> \o @], <<e>> \o R)
<1>1. PICK T \in Seq(Entries) : R = it.recs \o T
  BY DEF Delivers
<1>2. it.recs \in Seq(Entries) /\ it \in Iterations
  BY DEF Delivers, Iterations
<1>3. <<e>> \o it.recs \in Seq(Entries)
  BY <1>2
<1>4. [it EXCEPT !.recs = <<e>> \o @] \in Iterations /\ [it EXCEPT !.recs = <<e>> \o @].recs = <<e>> \o it.recs
  BY <1>2, <1>3 DEF Iterations
<1>5. <<e>> \o (it.recs \o T) = (<<e>> \o it.recs) \o T
  <2> DEFINE Q == it.recs
  <2>1. Q \in Seq(Entries) /\ <<e>> \in Seq(Entries)
    BY <1>2
  <2> HIDE DEF Q
  <2>2. (<<e>> \o Q) \o T = <<e>> \o (Q \o T)
    BY <2>1, Prefixed
  <2>. QED  BY <2>2 DEF Q
<1>. QED  BY <1>1, <1>4, <1>5 DEF Delivers

\* It does, and it ends if what it has skipped and the cells ahead fit the area.
Follows(it, R, cells) == Delivers(it, R) /\ (cells <= Cap => it.ends)

\* From a cursor at which the walk holds, with as many records left as it delivers,
\* the iterator delivers them, or the first of them, and its loop ends unless it has
\* skipped more than the cells passed already.
LEMMA IterFollows ==
  ASSUME NEW m \in Media, NEW c \in Context, InArea(c)
  PROVE  \A x \in Cursors, o \in 0 .. Cap :
            Walk(m, c.gen, c.wp, x, o).ok =>
              \A k \in Nat :
                Follows(iter_from(m, c)[<<x, Len(Walk(m, c.gen, c.wp, x, o).recs), k>>],
                        Walk(m, c.gen, c.wp, x, o).recs, k + o)
<1> DEFINE g == c.gen
           w == c.wp
           it(x, n, k) == iter_from(m, c)[<<x, n, k>>]
           P(x, o) == \A k \in Nat :
                        Follows(it(x, Len(Walk(m, g, w, x, o).recs), k), Walk(m, g, w, x, o).recs, k + o)
           S == {d \in Cursors \X (0 .. Cap) : P(d[1], d[2])}
           done == [recs |-> <<>>, ends |-> TRUE]
           lost == [recs |-> <<>>, ends |-> FALSE]
<1>0. /\ w \in Cursors /\ w \in Nat /\ Cap \in Nat /\ RegionSize \in Nat /\ Cap <= RegionSize
      /\ Overhead \in Nat /\ Overhead >= 3
  BY CapNat DEF InArea, Cursors
\* One step of the iterator.
<1>1. ASSUME NEW x \in Nat, NEW n \in Nat, NEW k \in Nat
      PROVE  LET r == Found(m, g, x)
                 next == wrapped(x + rec_alloc_bytes(r.d.len))
             IN  it(x, n, k) =
                   IF n = 0 THEN done
                   ELSE IF k > Cap THEN lost
                   ELSE IF IterGap(c, x) THEN it(0, n, k + 1)
                   ELSE IF r.res # "VALID" THEN done
                   ELSE IF r.d.type = "WRAP" THEN it(next, n, k + 1)
                   ELSE [it(next, n - 1, 0) EXCEPT !.recs = <<Entry(r)>> \o @]
  <2> DEFINE at == <<x, n, k>>
  <2>1. at \in Nat \X Nat \X Nat /\ at[1] = x /\ at[2] = n /\ at[3] = k
    OBVIOUS
  <2>2. it(x, n, k) = IterBody(m, c, at, iter_from(m, c))
    BY <2>1, IterUnfolds
  <2> HIDE DEF at
  <2>. QED  BY <2>1, <2>2, Zenon DEF IterBody, IterGap, Found
<1>2. <<w, 0>> \in S
  <2>1. Walk(m, g, w, w, 0).recs = <<>> /\ Len(<<>>) = 0 /\ <<>> \in Seq(Entries)
    BY <1>0, WalkEnds
  <2>2. ASSUME NEW k \in Nat PROVE it(w, 0, k) = done
    BY <1>0, <1>1
  <2>3. \A k \in Nat : Follows(done, <<>>, k + 0)
    BY <2>1, DeliversNothing DEF Follows
  <2> HIDE DEF it, done
  <2>4. P(w, 0)
    BY <2>1, <2>2, <2>3
  <2> HIDE DEF P
  <2>5. <<w, 0>> \in Cursors \X (0 .. Cap) /\ <<w, 0>>[1] = w /\ <<w, 0>>[2] = 0
    BY <1>0
  <2>. QED  BY <2>4, <2>5
<1>3. ASSUME NEW x \in Cursors, NEW o \in 1 .. Cap, Passes(m, g, w, x, o),
             <<wrapped(x + StepAt(m, g, w, x)), o - StepAt(m, g, w, x)>> \in S
      PROVE  <<x, o>> \in S
  <2> DEFINE s == StepAt(m, g, w, x)
             h == HeldAt(m, g, w, x)
             y == wrapped(x + s)
             rest == Walk(m, g, w, y, o - s).recs
             r == Found(m, g, x)
             n == Len(Walk(m, g, w, x, o).recs)
  <2>0. x \in Nat /\ x < Cap
    BY <1>0 DEF Cursors
  <2>1. /\ s \in 1 .. o /\ s # 0 /\ h \in Seq(Entries) /\ rest \in Seq(Entries)
        /\ Walk(m, g, w, x, o).recs = h \o rest /\ y \in Cursors
    <3>1. /\ s \in 1 .. o /\ h \in Seq(Entries) /\ Walk(m, g, w, y, o - s) \in Walks /\ y \in Cursors
          /\ Walk(m, g, w, x, o) = Passed(h \o rest)
      BY <1>3 DEF Passes
    <3>2. rest \in Seq(Entries)
      BY <3>1 DEF Walks
    <3> HIDE DEF h, rest, s, y
    <3>. QED  BY <3>1, <3>2 DEF Passed
  <2>2. P(y, o - s)
    <3> HIDE DEF P, s
    <3>. QED  BY <1>3 DEF s
  <2>3. \A k \in Nat : Follows(it(y, Len(rest), k), rest, k + (o - s))
    BY <2>2
  <2>4. Len(rest) \in Nat /\ n \in Nat
    <3>1. h \o rest \in Seq(Entries)
      <4> HIDE DEF h, rest
      <4>. QED  BY <2>1
    <3> HIDE DEF rest
    <3>. QED  BY <2>1, <3>1
  <2>5. ASSUME NEW k \in Nat PROVE Follows(it(x, n, k), h \o rest, k + o)
    <3>a. h \o rest \in Seq(Entries)
      <4> HIDE DEF h, rest
      <4>. QED  BY <2>1
    <3>b. Follows(done, h \o rest, k + o) /\ (k > Cap => Follows(lost, h \o rest, k + o))
      <4>1. Delivers(done, h \o rest) /\ Delivers(lost, h \o rest)
        BY <3>a, DeliversNothing
      <4> HIDE DEF h, rest
      <4>. QED  BY <1>0, <4>1 DEF Follows
    <3>f. /\ k + 1 \in Nat /\ o - s \in Nat
          /\ k + 1 + (o - s) <= k + o /\ 0 + (o - s) <= Cap
      <4>1. s \in 1 .. o /\ o \in 1 .. Cap /\ Cap \in Nat
        BY <1>0, <1>3, <2>1
      <4> HIDE DEF s
      <4>. QED  BY <4>1
    <3>c. /\ it(x, n, k) =
               IF n = 0 THEN done
               ELSE IF k > Cap THEN lost
               ELSE IF IterGap(c, x) THEN it(0, n, k + 1)
               ELSE IF r.res # "VALID" THEN done
               ELSE IF r.d.type = "WRAP" THEN it(wrapped(x + rec_alloc_bytes(r.d.len)), n, k + 1)
               ELSE [it(wrapped(x + rec_alloc_bytes(r.d.len)), n - 1, 0) EXCEPT !.recs = <<Entry(r)>> \o @]
      BY <1>1, <2>0, <2>4
    <3>1. CASE in_end_gap(w, x)
      <4>1. h = <<>> /\ x + s = Cap
        BY <1>0, <2>1, <3>1, Block
      <4>2. y = 0
        BY <1>0, <4>1 DEF wrapped
      <4>3. h \o rest = rest
        <5> HIDE DEF rest
        <5>. QED  BY <2>1, <4>1
      <4>4. n = Len(rest)
        BY <2>1, <4>3
      <4>5. r.res # "VALID"
        <5> SUFFICES ASSUME r.res = "VALID" PROVE FALSE
          OBVIOUS
        <5>1. x + rec_alloc_bytes(r.d.len) <= Cap /\ r.d \in Headers
          BY <2>0, FoundEntry
        <5>2. rec_alloc_bytes(r.d.len) >= Overhead /\ rec_alloc_bytes(r.d.len) \in Nat
          BY <5>1, AllocNat DEF Headers
        <5>3. Cap - x < Overhead
          BY <3>1 DEF in_end_gap
        <5> HIDE DEF r
        <5>. QED  BY <1>0, <2>0, <5>1, <5>2, <5>3
      <4>6. Follows(it(0, n, k + 1), h \o rest, k + o)
        <5> HIDE DEF it, s
        <5>1. Follows(it(0, n, k + 1), h \o rest, k + 1 + (o - s))
          BY <2>3, <3>f, <4>2, <4>3, <4>4
        <5>. QED  BY <1>0, <3>f, <5>1 DEF Follows
      <4> HIDE DEF it, done, lost, r, n, h, rest
      <4>. QED  BY <1>0, <3>b, <3>c, <4>5, <4>6
    <3>2. CASE ~in_end_gap(w, x)
      <4>1. /\ r.res = "VALID" /\ s = rec_alloc_bytes(r.d.len) /\ r.d.type \in {"DATA", "WRAP"}
            /\ Entry(r) \in Entries
        <5>1. r.res = "VALID" /\ r.d \in Headers /\ s = rec_alloc_bytes(r.d.len)
          BY <1>0, <2>0, <2>1, <3>2, StepTyped
        <5>2. Entry(r) \in Entries
          BY <2>0, <5>1, FoundEntry
        <5>. QED  BY <5>1, <5>2 DEF Headers
      <4>2. ~IterGap(c, x)
        <5>1. ~(w < x) \/ x = 0 \/ ~(Cap - x < Overhead)
          BY <2>0, <3>2 DEF in_end_gap
        <5>. QED  BY <1>0, <2>0, <5>1 DEF IterGap
      <4>3. CASE r.d.type = "WRAP"
        <5>1. h = <<>>
          BY <4>3 DEF HeldAt, held
        <5>2. h \o rest = rest
          <6> HIDE DEF rest
          <6>. QED  BY <2>1, <5>1
        <5>3. n = Len(rest) /\ k + 1 \in Nat
          <6> HIDE DEF h, rest
          <6>. QED  BY <2>1, <5>2
        <5>4. Follows(it(y, n, k + 1), h \o rest, k + o)
          <6> HIDE DEF it, y, n, h, rest, s
          <6>1. Follows(it(y, n, k + 1), h \o rest, k + 1 + (o - s))
            BY <2>3, <3>f, <5>2, <5>3
          <6>. QED  BY <1>0, <3>f, <6>1 DEF Follows
        <5>5. wrapped(x + rec_alloc_bytes(r.d.len)) = y
          BY <4>1
        <5> HIDE DEF it, done, lost, r, n, h, rest, y
        <5>. QED  BY <1>0, <3>b, <3>c, <4>1, <4>2, <4>3, <5>4, <5>5
      <4>4. CASE r.d.type = "DATA"
        <5>1. h = <<Entry(r)>>
          BY <3>2, <4>4 DEF HeldAt, held
        <5> DEFINE e == Entry(r)
        <5>2. e \in Entries /\ h = <<e>>
          BY <4>1, <5>1
        <5>3. n = Len(rest) + 1
          <6>1. Len(<<e>> \o rest) = Len(rest) + 1
            <7> HIDE DEF e, rest
            <7>. QED  BY <2>1, <5>2
          <6>. QED  BY <2>1, <5>2, <6>1
        <5>4. Follows(it(y, n - 1, 0), rest, 0 + (o - s))
          <6>1. n - 1 = Len(rest)
            BY <2>4, <5>3
          <6> HIDE DEF it, y, n, rest
          <6>. QED  BY <2>3, <6>1
        <5>5. k <= Cap => Follows([it(y, n - 1, 0) EXCEPT !.recs = <<e>> \o @], <<e>> \o rest, k + o)
          <6> HIDE DEF it, y, n, rest, e, s
          <6>1. Delivers([it(y, n - 1, 0) EXCEPT !.recs = <<e>> \o @], <<e>> \o rest)
            BY <2>1, <5>2, <5>4, DeliversOneMore DEF Follows
          <6>2. [it(y, n - 1, 0) EXCEPT !.recs = <<e>> \o @].ends = it(y, n - 1, 0).ends
            BY <5>4 DEF Follows, Delivers, Iterations
          <6>3. k <= Cap => it(y, n - 1, 0).ends
            BY <3>f, <5>4 DEF Follows
          <6>. QED  BY <6>1, <6>2, <6>3 DEF Follows
        <5>6. wrapped(x + rec_alloc_bytes(r.d.len)) = y /\ r.d.type # "WRAP"
          BY <4>1, <4>4
        <5>7. it(x, n, k) = IF n = 0 THEN done ELSE IF k > Cap THEN lost
                            ELSE [it(y, n - 1, 0) EXCEPT !.recs = <<e>> \o @]
          <6> HIDE DEF it, done, lost, n, y
          <6>. QED  BY <3>c, <4>1, <4>2, <5>6, Zenon DEF e
        <5> HIDE DEF it, done, lost, r, n, h, rest, y, e
        <5>. QED  BY <1>0, <3>b, <5>2, <5>5, <5>7
      <4>. QED  BY <4>1, <4>3, <4>4
    <3>. QED  BY <3>1, <3>2
  <2>6. P(x, o)
    <3> HIDE DEF it, h, rest
    <3>. QED  BY <2>1, <2>5
  <2> HIDE DEF P
  <2>. QED  BY <2>6, CapNat
<1> HIDE DEF S, P
<1>4. \A x \in Cursors, o \in 0 .. Cap : Walk(m, g, w, x, o).ok => <<x, o>> \in S
  <2> HIDE DEF g, w
  <2>. QED  BY <1>0, <1>2, <1>3, WalkInduction
<1>5. \A x \in Cursors, o \in 0 .. Cap : Walk(m, g, w, x, o).ok => P(x, o)
  BY <1>4 DEF S
<1>. QED  BY <1>5 DEF P

\* A sequence is a prefix of itself and a rest.
LEMMA PrefixOf ==
  ASSUME NEW Q \in Seq(Entries), NEW T \in Seq(Entries)
  PROVE  IsPrefix(Q, Q \o T)
<1>1. Len(Q) \in Nat /\ Len(T) \in Nat /\ Len(Q \o T) = Len(Q) + Len(T)
  OBVIOUS
<1>2. Len(Q) <= Len(Q \o T)
  BY <1>1
<1>3. \A i \in 1 .. Len(Q) : (Q \o T)[i] = Q[i]
  OBVIOUS
<1>. QED  BY <1>1, <1>2, <1>3 DEF IsPrefix

\* The iterator of ring mode delivers the records of the window from the oldest on,
\* without a gap or a repeat, also when the window spans the end of the area, and
\* its loop over WRAP records and padding ends (nvlog_iter_init, nvlog_iter_next).
THEOREM RingIterationInOrder == Spec => []IterationInOrder
<1>1. IInv => IterationInOrder
  <2> DEFINE iteration == nvlog_iter_next(media, ctx)
  <2> SUFFICES ASSUME IInv, Live.ok, ctx.count = Len(Live.recs)
               PROVE  iteration.ends /\ IsPrefix(iteration.recs, Live.recs)
    BY DEF IterationInOrder
  <2>1. media \in Media /\ ctx \in Context /\ InArea(ctx)
    BY DEF IInv, Types
  <2>2. /\ Live = Walk(media, ctx.gen, ctx.wp, ctx.tail, ring_occupied(ctx))
        /\ ring_occupied(ctx) \in 0 .. Cap /\ ctx.tail \in Cursors
    BY <2>1, WalkOfWindow DEF Live, InArea
  <2>3. Follows(iter_from(media, ctx)[<<ctx.tail, Len(Live.recs), 0>>], Live.recs, 0 + ring_occupied(ctx))
    BY <2>1, <2>2, IterFollows
  <2>4. Follows(iteration, Live.recs, 0 + ring_occupied(ctx))
    BY <2>3 DEF nvlog_iter_next
  <2> HIDE DEF iteration
  <2>5. iteration.ends /\ Delivers(iteration, Live.recs)
    BY <2>2, <2>4, CapNat DEF Follows
  <2>6. PICK T \in Seq(Entries) : Live.recs = iteration.recs \o T
    BY <2>5 DEF Delivers
  <2>7. iteration.recs \in Seq(Entries)
    BY <2>5 DEF Delivers, Iterations
  <2>. QED  BY <2>5, <2>6, <2>7, PrefixOf
<1>. QED  BY <1>1, RingInvariant, PTL
-----------------------------------------------------------------------------
\* A record whose CRC is on the media, under a header of this generation.
OnMedia(m, g, e) ==
  \E i \in Cursors, d \in Headers :
    d.type = "DATA" /\ d.gen = g /\ d.seq = e.seq /\ m[i] = CrcCell(d, e.v)

\* A walk delivers nothing whose CRC it did not read.
LEMMA WalkReads ==
  ASSUME NEW m \in Media, NEW g, NEW w \in Cursors
  PROVE  \A x \in Cursors, o \in 0 .. Cap :
            Walk(m, g, w, x, o).ok =>
              \A j \in 1 .. Len(Walk(m, g, w, x, o).recs) : OnMedia(m, g, Walk(m, g, w, x, o).recs[j])
<1> DEFINE All(R) == \A j \in 1 .. Len(R) : OnMedia(m, g, R[j])
           P(x, o) == All(Walk(m, g, w, x, o).recs)
           S == {d \in Cursors \X (0 .. Cap) : P(d[1], d[2])}
<1>1. <<w, 0>> \in S
  <2>1. Walk(m, g, w, w, 0).recs = <<>>
    BY WalkEnds, CapNat DEF Cursors
  <2>2. w \in Cursors /\ 0 \in 0 .. Cap /\ Len(<<>>) = 0
    BY CapNat
  <2>3. P(w, 0)
    BY <2>1, <2>2
  <2> HIDE DEF P
  <2>. QED  BY <2>2, <2>3
<1>2. ASSUME NEW x \in Cursors, NEW o \in 1 .. Cap, Passes(m, g, w, x, o),
             <<wrapped(x + StepAt(m, g, w, x)), o - StepAt(m, g, w, x)>> \in S
      PROVE  <<x, o>> \in S
  <2> DEFINE s == StepAt(m, g, w, x)
             h == HeldAt(m, g, w, x)
             rest == Walk(m, g, w, wrapped(x + s), o - s)
  <2>1. /\ s \in 1 .. o /\ h \in Seq(Entries) /\ rest.recs \in Seq(Entries)
        /\ Walk(m, g, w, x, o).recs = h \o rest.recs
    BY <1>2 DEF Passes, Walks, Passed
  <2>2. P(wrapped(x + s), o - s)
    <3> HIDE DEF P, s
    <3>. QED  BY <1>2 DEF s
  <2>3. ASSUME NEW e \in Entries, h = <<e>> PROVE OnMedia(m, g, e)
    <3> DEFINE r == Found(m, g, x)
    <3>1. s # 0 /\ x \in Nat /\ w \in Nat
      BY <2>1, CapNat DEF Cursors
    <3>2. ~in_end_gap(w, x) /\ r.d.type = "DATA" /\ e = [seq |-> r.d.seq, v |-> r.v]
      <4>1. h = IF ~in_end_gap(w, x) /\ r.d.type = "DATA" THEN <<Entry(r)>> ELSE <<>>
        BY DEF HeldAt, held
      <4> HIDE DEF h, r
      <4>2. <<>> # <<e>>
        OBVIOUS
      <4>3. ~in_end_gap(w, x) /\ r.d.type = "DATA" /\ <<Entry(r)>> = <<e>>
        BY <2>3, <4>1, <4>2
      <4>. QED  BY <4>3 DEF Entry
    <3>3. r.d \in Headers /\ r.v \in Nat /\ r.d.gen = g /\ RecordAt(m, Cap, x, r.d, r.v)
      BY <3>1, <3>2, StepTyped
    <3> HIDE DEF r
    <3>4. x + HdrCells + r.d.len \in Cursors /\ m[x + HdrCells + r.d.len] = CrcCell(r.d, r.v)
      <4>1. r.d.len \in Nat /\ x + (HdrCells + 2 + r.d.len) <= Cap
        BY <3>3, CapNat DEF Headers, RecordAt, rec_alloc_bytes
      <4>2. x + HdrCells + r.d.len \in Cursors
        BY <3>1, <4>1, CapNat DEF Cursors
      <4>. QED  BY <3>3, <4>2 DEF RecordAt
    <3>. QED  BY <3>2, <3>3, <3>4 DEF OnMedia
  <2>4. h = <<>> \/ \E e \in Entries : h = <<e>>
    <3>1. s # 0 /\ x \in Nat /\ w \in Nat
      BY <2>1, CapNat DEF Cursors
    <3>. QED  BY <3>1, StepTyped
  <2>5. All(rest.recs)
    BY <2>2
  <2> HIDE DEF h, rest, s
  <2>6. All(h \o rest.recs)
    <3> DEFINE R == rest.recs
    <3>1. R \in Seq(Entries) /\ All(R)
      BY <2>1, <2>5
    <3> HIDE DEF R
    <3>2. CASE h = <<>>
      <4>1. h \o R = R
        BY <3>1, <3>2
      <4>. QED  BY <3>1, <4>1 DEF R
    <3>3. ASSUME NEW e \in Entries, h = <<e>> PROVE All(h \o R)
      <4>1. OnMedia(m, g, e)
        BY <2>3, <3>3
      <4>2. Len(h \o R) = 1 + Len(R) /\ (h \o R)[1] = e
            /\ \A j \in 2 .. Len(R) + 1 : (h \o R)[j] = R[j - 1] /\ j - 1 \in 1 .. Len(R)
        BY <3>1, <3>3
      <4>3. ASSUME NEW j \in 1 .. Len(h \o R) PROVE OnMedia(m, g, (h \o R)[j])
        <5>1. CASE j = 1
          BY <4>1, <4>2, <5>1
        <5>2. CASE j # 1
          <6>1. j \in 2 .. Len(R) + 1
            BY <3>1, <4>2, <5>2
          <6>. QED  BY <3>1, <4>2, <6>1
        <5>. QED  BY <5>1, <5>2
      <4>. QED  BY <4>3
    <3>. QED  BY <2>4, <3>2, <3>3 DEF R
  <2>7. P(x, o)
    BY <2>1, <2>6
  <2> HIDE DEF P
  <2>. QED  BY <2>7, CapNat
<1> HIDE DEF S, P
<1>3. \A x \in Cursors, o \in 0 .. Cap : Walk(m, g, w, x, o).ok => <<x, o>> \in S
  BY <1>1, <1>2, WalkInduction
<1>4. \A x \in Cursors, o \in 0 .. Cap : Walk(m, g, w, x, o).ok => P(x, o)
  BY <1>3 DEF S
<1>. QED  BY <1>4 DEF P

-----------------------------------------------------------------------------
\* The DATA record of a header and a payload is in the log, under its generation.
KnownBy(L, d, v) == d.type = "DATA" => [gen |-> d.gen, seq |-> d.seq, v |-> v] \in L

\* Every record whose CRC lies on the media is.
AllKnown(m, L) ==
  \A i \in Cursors, d \in Headers, v \in Nat : m[i] = CrcCell(d, v) => KnownBy(L, d, v)

\* The writes of a known record, stopped anywhere, leave nothing unknown.
LEMMA WritesKnown ==
  ASSUME NEW m, NEW m2, NEW b \in Nat, NEW d \in Headers, NEW v \in Nat, NEW L,
         Written(m, m2, b, d, v), AllKnown(m, L), KnownBy(L, d, v)
  PROVE  AllKnown(m2, L)
<1> SUFFICES ASSUME NEW i \in Cursors, NEW D \in Headers, NEW V \in Nat, m2[i] = CrcCell(D, V)
             PROVE  KnownBy(L, D, V)
  BY DEF AllKnown
<1>1. CASE m2[i] = m[i]
  BY <1>1 DEF AllKnown
<1>2. CASE m2[i] = Erased
  <2>1. CrcCell(D, V) # Erased
    BY DEF CrcCell, Erased
  <2>. QED  BY <1>2, <2>1
<1>3. CASE \E q \in 1 .. rec_alloc_bytes(d.len) : Image(m2, b, d, v, q) /\ i \in b .. b + q - 1
  <2>1. PICK q \in 1 .. rec_alloc_bytes(d.len) : Image(m2, b, d, v, q) /\ i \in b .. b + q - 1
    BY <1>3
  <2>2. q \in Nat /\ i \in Nat
    <3>1. d.len \in Nat /\ rec_alloc_bytes(d.len) \in Nat
      BY CapNat DEF Headers, rec_alloc_bytes
    <3>. QED  BY <2>1, <3>1, CapNat DEF Cursors
  <2>3. i - b \in 0 .. q - 1 /\ b + (i - b) = i
    BY <2>1, <2>2
  <2>4. m2[i] = Img(d, v, i - b)
    BY <2>1, <2>3 DEF Image
  <2>5. \A j \in Nat : Img(d, v, j) = CrcCell(D, V) => d = D /\ v = V
    BY CellKinds DEF Img, CrcCell, HeaderCell, PayloadCell, Commit
  <2>. QED  BY <2>2, <2>3, <2>4, <2>5
<1>. QED  BY <1>1, <1>2, <1>3 DEF Written

-----------------------------------------------------------------------------
\* The generation that a mount would find.
CurrentGen == IF sbA.ok THEN sbA.gen ELSE IF sbB.ok THEN sbB.gen ELSE 0

\* There are fewer formats than the signed comparison of generations can order.
Distinguishable == MaxFormats < Half

\* No generation is beyond the number of formats; copy B is not ahead of copy A,
\* nor of what the context will write to A; and a mounted context is of the
\* generation of copy A, unless that is torn.
Generations ==
  /\ calls.formats <= MaxFormats /\ \A g \in {sbA.gen, sbB.gen, ctx.gen} : g <= calls.formats
  /\ sbA.ok /\ sbB.ok => sbB.gen <= sbA.gen
  /\ sbB.ok /\ (ctx.mounted \/ pc = "sbA") => sbB.gen <= ctx.gen
  /\ sbA.ok /\ ctx.mounted => ctx.gen = sbA.gen
  /\ pc = "sbA" => req.op \in {"append", "format"}
  /\ pc = "sbA" => ctx.mounted \/ (req.op = "format" /\ CurrentGen < ctx.gen)

\* The record under way is in the log.
Logged ==
  pc \in {"wrap", "data"} => [gen |-> ctx.gen, seq |-> old.next, v |-> req.v] \in log

GInv == IInv /\ Generations /\ Logged /\ AllKnown(media, log)

\* The copy a mount takes is of the current generation.
LEMMA CurrentFound ==
  ASSUME Distinguishable, IInv, Generations
  PROVE  LET s == load_current_superblock(sbA, sbB)
         IN  /\ s.ok => s.gen = CurrentGen /\ s \in Copy /\ InArea(s)
             /\ s.ok <=> sbA.ok \/ sbB.ok
<1> DEFINE s == load_current_superblock(sbA, sbB)
<1>1. sbA \in Copy /\ sbB \in Copy
  BY DEF IInv, Types
<1>2. \A c \in Copy : /\ c.gen \in Nat /\ c.ok \in BOOLEAN
                      /\ c.ok => InArea(c)
  <2>1. ASSUME NEW c \in Copy PROVE c.gen \in Nat /\ c.ok \in BOOLEAN /\ (c.ok => InArea(c))
    <3>1. CASE c = BadSb
      BY <3>1 DEF BadSb
    <3>2. CASE c # BadSb
      BY <3>2 DEF Copy, InArea
    <3>. QED  BY <3>1, <3>2
  <2>. QED  BY <2>1
<1>3. CASE sbA.ok /\ sbB.ok
  <2>1. sbB.gen <= sbA.gen /\ sbA.gen <= MaxFormats
    <3>1. sbA.gen \in Nat /\ sbB.gen \in Nat /\ calls.formats \in Nat /\ MaxFormats \in Nat
      BY <1>1, <1>2, RingAssumption DEF IInv, Types
    <3>. QED  BY <1>3, <3>1 DEF Generations, CurrentGen
  <2>2. CASE sbA.gen = sbB.gen
    BY <1>1, <1>2, <1>3, <2>2 DEF load_current_superblock, CurrentGen
  <2>3. CASE sbA.gen # sbB.gen
    <3>1. superblock_is_newer(sbA, sbB)
      <4>1. sbA.gen - sbB.gen > 0 /\ sbA.gen - sbB.gen < Half
        BY <1>1, <1>2, <2>1, <2>3, U32Assumption, RingAssumption DEF Distinguishable, Half
      <4>. QED  BY <1>1, <1>2, <2>1, <2>3, <4>1 DEF superblock_is_newer, u32_is_newer, u32_diff
    <3>. QED  BY <1>1, <1>2, <1>3, <3>1 DEF load_current_superblock, CurrentGen
  <2>. QED  BY <2>2, <2>3
<1>4. CASE ~(sbA.ok /\ sbB.ok)
  BY <1>1, <1>2, <1>4 DEF load_current_superblock, CurrentGen
<1>. QED  BY <1>3, <1>4

\* What a mount finds has been appended in the generation it finds.
LEMMA NothingInvented ==
  ASSUME Distinguishable, GInv
  PROVE  NoInvention
<1> DEFINE s == load_current_superblock(sbA, sbB)
           R == Durable.recs
           IsLogged(e) == [gen |-> s.gen, seq |-> e.seq, v |-> e.v] \in log
<1>1. SUFFICES ASSUME Durable.ok
               PROVE  /\ sbA.ok => s.gen = sbA.gen
                      /\ \A e \in ToSet(R) : IsLogged(e)
  BY DEF NoInvention
<1>2. s.ok
  BY <1>1 DEF Durable, Recover, Failed
<1>3. s.gen = CurrentGen /\ InArea(s)
  BY <1>2, CurrentFound DEF GInv
<1>4. Durable = ring_walk(media, s)
  BY <1>2 DEF Durable, Recover
<1> HIDE DEF s
<1>5. /\ ring_walk(media, s) = Walk(media, s.gen, s.wp, s.tail, ring_occupied(s))
      /\ ring_occupied(s) \in 0 .. Cap /\ s.wp \in Cursors /\ s.tail \in Cursors
  BY <1>3, WalkOfWindow DEF InArea
<1>6. media \in Media
  BY DEF GInv, IInv, Types
<1>7. \A j \in 1 .. Len(R) : OnMedia(media, s.gen, R[j])
  BY <1>1, <1>4, <1>5, <1>6, WalkReads
<1>8. R \in Seq(Entries)
  <2>1. Walk(media, s.gen, s.wp, s.tail, ring_occupied(s)) \in Walks
    <3>1. s.wp \in Nat /\ s.tail \in Nat /\ ring_occupied(s) \in Nat
      BY <1>5, CapNat DEF Cursors
    <3>. QED  BY <1>5, <1>6, <3>1, WalkTyped
  <2>. QED  BY <1>4, <1>5, <2>1 DEF Walks
<1>9. ASSUME NEW j \in 1 .. Len(R) PROVE IsLogged(R[j])
  <2>1. PICK i \in Cursors, d \in Headers :
          /\ d.type = "DATA" /\ d.gen = s.gen /\ d.seq = R[j].seq
          /\ media[i] = CrcCell(d, R[j].v)
    BY <1>7 DEF OnMedia
  <2>2. R[j] \in Entries
    BY <1>8
  <2> HIDE DEF R
  <2>3. R[j].v \in Nat
    BY <2>2 DEF Entries
  <2>4. [gen |-> d.gen, seq |-> d.seq, v |-> R[j].v] \in log
    BY <2>1, <2>3 DEF GInv, AllKnown, KnownBy
  <2>. QED  BY <2>1, <2>4
<1> HIDE DEF IsLogged
<1>10. \A e \in ToSet(R) : IsLogged(e)
  <2> HIDE DEF R
  <2>. QED  BY <1>8, <1>9 DEF ToSet
<1>. QED  BY <1>3, <1>10 DEF CurrentGen

\* A superblock copy carries a generation.
LEMMA CopyGen == \A c \in Copy : c.gen \in Nat
<1> SUFFICES ASSUME NEW c \in Copy PROVE c.gen \in Nat
  OBVIOUS
<1>1. CASE c = BadSb
  BY <1>1 DEF BadSb
<1>2. CASE c # BadSb
  BY <1>2 DEF Copy
<1>. QED  BY <1>1, <1>2

\* A blank region.
LEMMA GenerationsInit == Init => GInv
<1> SUFFICES ASSUME Init PROVE GInv
  OBVIOUS
<1>1. CurrentGen = 0
  BY DEF Init, BadSb, CurrentGen
<1>2. Generations
  BY <1>1, RingAssumption DEF Init, Generations, Blank, BadSb
<1>3. AllKnown(media, log)
  <2>1. \A i \in Cursors : media[i] = Erased
    BY DEF Init, Cursors
  <2>2. \A d, v : CrcCell(d, v) # Erased
    BY DEF CrcCell, Erased
  <2>. QED  BY <2>1, <2>2 DEF AllKnown
<1>. QED  BY <1>2, <1>3, RingInit DEF GInv, Logged, Init

\* nvlog_ring_format takes the generation after the one it finds.
LEMMA FormatGeneration ==
  ASSUME Distinguishable, GInv, Format, IInv'
  PROVE  GInv'
<1> DEFINE s == load_current_superblock(sbA, sbB)
<1>1. /\ calls.formats < MaxFormats /\ media' = media /\ sbA' = sbA /\ sbB' = sbB /\ log' = log
      /\ calls' = [calls EXCEPT !.formats = @ + 1] /\ pc = "idle" /\ pc' = "sbA" /\ req'.op = "format"
      /\ ctx'.gen = (IF s.ok THEN next_generation_value(s.gen) ELSE 1) /\ ctx'.mounted = FALSE
  BY DEF Format, Begin, Blank
<1>2. /\ calls.formats \in Nat /\ calls.faults \in Nat /\ calls'.formats = calls.formats + 1
      /\ calls'.faults = calls.faults /\ MaxFormats \in Nat
  BY <1>1, RingAssumption DEF GInv, IInv, Types
<1>3. CurrentGen' = CurrentGen
  BY <1>1 DEF CurrentGen
<1>4. CurrentGen \in Nat /\ CurrentGen <= calls.formats
  <2>1. sbA.gen \in Nat /\ sbB.gen \in Nat
    BY CopyGen DEF GInv, IInv, Types
  <2>. QED  BY <1>2, <2>1 DEF CurrentGen, GInv, Generations
<1>5. ctx'.gen = CurrentGen + 1
  <2>1. CASE s.ok
    <3>1. s.gen = CurrentGen
      BY <2>1, CurrentFound DEF GInv
    <3>2. CurrentGen # U32 - 1
      BY <1>1, <1>2, <1>4, U32Assumption DEF Distinguishable, Half
    <3> HIDE DEF s
    <3>. QED  BY <1>1, <2>1, <3>1, <3>2 DEF next_generation_value
  <2>2. CASE ~s.ok
    <3>1. CurrentGen = 0
      BY <2>2, CurrentFound DEF GInv, CurrentGen
    <3>. QED  BY <1>1, <2>2, <3>1
  <2>. QED  BY <2>1, <2>2
<1> HIDE DEF s
<1>6. sbA.gen \in Nat /\ sbB.gen \in Nat /\ (sbB.ok => sbB.gen <= CurrentGen)
  <2>1. sbA.gen \in Nat /\ sbB.gen \in Nat
    BY CopyGen DEF GInv, IInv, Types
  <2>. QED  BY <2>1 DEF CurrentGen, GInv, Generations
<1>7. Generations'
  <2>1. \A g \in {sbA.gen, sbB.gen, ctx'.gen} : g <= calls'.formats
    BY <1>1, <1>2, <1>4, <1>5, <1>6 DEF GInv, Generations
  <2>. QED  BY <1>1, <1>2, <1>3, <1>4, <1>5, <1>6, <2>1 DEF GInv, Generations
<1>8. AllKnown(media, log)'
  BY <1>1 DEF GInv
<1>. QED  BY <1>1, <1>7, <1>8 DEF GInv, Logged

\* Making room and starting to write changes neither superblock nor generation.
LEMMA PlaceGeneration ==
  ASSUME media \in Media, NEW c \in Context, InArea(c), ~EndZone(c.tail), Sound(media, c),
         NEW len \in Nat, NEW v, NEW base, Place(c, len, v, base)
  PROVE  /\ ctx'.gen = c.gen /\ ctx'.mounted = c.mounted /\ ctx'.mseq = c.mseq
         /\ media' = media /\ sbA' = sbA /\ sbB' = sbB
         /\ req'.v = v /\ pc' \in {"idle", "data"}
<1> DEFINE r == make_room(media, c, rec_alloc_bytes(len))
<1>1. /\ ctx' = r.c /\ media' = media /\ sbA' = sbA /\ sbB' = sbB /\ req'.v = v
      /\ pc' \in {"idle", "data"}
  BY DEF Place, StartWriting, Return
<1>2. ring_walk(media, c).ok => Agrees(ring_walk(media, c).recs, c.next)
  BY SoundAgrees
<1>3. rec_alloc_bytes(len) \in Nat
  BY AllocNat
<1>4. r.c.gen = c.gen /\ r.c.mounted = c.mounted /\ r.c.mseq = c.mseq
  BY <1>2, <1>3, MakingRoom DEF Retired, SameBut
<1>. QED  BY <1>1, <1>4

\* An append that goes on, with a record that is in the log, leaves the generations.
LEMMA GenerationStays ==
  ASSUME GInv, IInv', ctx.mounted,
         ctx'.gen = ctx.gen, ctx'.mounted, media' = media, sbA' = sbA, sbB' = sbB,
         calls'.formats = calls.formats, calls'.faults = calls.faults,
         pc \notin {"sbA", "sbB"}, pc' \notin {"sbA", "sbB"},
         log \subseteq log',
         pc' \in {"wrap", "data"} => [gen |-> ctx'.gen, seq |-> old'.next, v |-> req'.v] \in log'
  PROVE  GInv'
<1>1. CurrentGen' = CurrentGen
  BY DEF CurrentGen
<1>2. Generations'
  BY <1>1 DEF GInv, Generations
<1>3. AllKnown(media, log)'
  BY <1>1 DEF GInv, AllKnown, KnownBy
<1>. QED  BY <1>2, <1>3 DEF GInv, Logged

\* What the first step of an append changes.
LEMMA AppendEffect ==
  ASSUME IInv, NEW len \in Lens, AppendRecord(len)
  PROVE  /\ ctx.mounted /\ pc = "idle" /\ log' = log \cup {[gen |-> ctx.gen, seq |-> ctx.next, v |-> req'.v]}
         /\ ctx'.gen = ctx.gen /\ ctx'.mounted = ctx.mounted /\ ctx'.mseq = ctx.mseq
         /\ media' = media /\ sbA' = sbA /\ sbB' = sbB /\ pc' \in {"idle", "wrap", "data"}
         /\ calls' = [calls EXCEPT !.appends = @ + 1] /\ old'.next = ctx.next
         /\ calls.appends + calls.formats < MaxCalls
<1> DEFINE v == calls.appends + 1
           C == [ctx EXCEPT !.wp = 0]
<1>1. /\ ctx.mounted /\ pc = "idle" /\ calls' = [calls EXCEPT !.appends = @ + 1]
      /\ log' = log \cup {[gen |-> ctx.gen, seq |-> ctx.next, v |-> v]} /\ old'.next = ctx.next
      /\ calls.appends + calls.formats < MaxCalls
      /\ \/ Place(ctx, len, v, ctx.wp)
         \/ Cap - ctx.wp < Overhead /\ Place(C, len, v, 0)
         \/ /\ pc' = "wrap" /\ req'.v = v /\ ctx' = ctx
            /\ media' = media /\ sbA' = sbA /\ sbB' = sbB
  BY DEF AppendRecord, Begin
<1>2. /\ media \in Media /\ ctx \in Context /\ InArea(ctx) /\ ~EndZone(ctx.tail) /\ Sound(media, ctx)
      /\ len \in Nat
  BY RingAssumption DEF IInv, Types, Tails
<1> HIDE DEF v
<1>3. /\ ctx'.gen = ctx.gen /\ ctx'.mounted = ctx.mounted /\ ctx'.mseq = ctx.mseq
      /\ media' = media /\ sbA' = sbA /\ sbB' = sbB
      /\ req'.v = v /\ pc' \in {"idle", "wrap", "data"}
  <2>1. CASE Place(ctx, len, v, ctx.wp)
    BY <1>2, <2>1, PlaceGeneration
  <2>2. CASE Cap - ctx.wp < Overhead /\ Place(C, len, v, 0)
    <3>1. ctx.wp = 0 \/ EndZone(ctx.wp)
      BY <1>2, <2>2, CapNat DEF EndZone, InArea, Cursors
    <3>2. C \in Context /\ InArea(C) /\ ~EndZone(C.tail) /\ Sound(media, C)
      BY <1>2, <3>1, MovedWp
    <3>3. C.gen = ctx.gen /\ C.mounted = ctx.mounted /\ C.mseq = ctx.mseq
      BY <1>2 DEF Context
    <3> HIDE DEF C
    <3>. QED  BY <1>2, <2>2, <3>2, <3>3, PlaceGeneration
  <2>3. CASE pc' = "wrap" /\ req'.v = v /\ ctx' = ctx /\ media' = media /\ sbA' = sbA /\ sbB' = sbB
    BY <2>3
  <2>. QED  BY <1>1, <2>1, <2>2, <2>3
<1>. QED  BY <1>1, <1>3

\* An append is logged when it begins.
LEMMA AppendLogged ==
  ASSUME GInv, NEW len \in Lens, AppendRecord(len), IInv'
  PROVE  GInv'
<1>1. /\ ctx.mounted /\ pc = "idle" /\ log' = log \cup {[gen |-> ctx.gen, seq |-> ctx.next, v |-> req'.v]}
      /\ ctx'.gen = ctx.gen /\ ctx'.mounted = ctx.mounted
      /\ media' = media /\ sbA' = sbA /\ sbB' = sbB /\ pc' \in {"idle", "wrap", "data"}
      /\ calls' = [calls EXCEPT !.appends = @ + 1] /\ old'.next = ctx.next
  BY AppendEffect DEF GInv
<1>2. [gen |-> ctx'.gen, seq |-> old'.next, v |-> req'.v] \in log'
  BY <1>1
<1>3. calls'.formats = calls.formats /\ calls'.faults = calls.faults
  BY <1>1 DEF GInv, IInv, Types
<1>. QED  BY <1>1, <1>2, <1>3, GenerationStays

\* What the step changes that follows the WRAP record.
LEMMA WrapEffect ==
  ASSUME IInv, WrapWritten
  PROVE  /\ pc = "wrap" /\ ctx.mounted /\ log' = log /\ old' = old /\ calls' = calls
         /\ ctx'.gen = ctx.gen /\ ctx'.mounted = ctx.mounted /\ ctx'.mseq = ctx.mseq
         /\ media' = media /\ sbA' = sbA /\ sbB' = sbB /\ req'.v = req.v /\ pc' \in {"idle", "data"}
<1> DEFINE C == [ctx EXCEPT !.wp = 0]
           d == WrapHeader
<1>1. /\ pc = "wrap" /\ todo = <<>> /\ old' = old /\ calls' = calls /\ log' = log
      /\ Place(C, req.len, req.v, 0)
  BY DEF WrapWritten
<1>2. /\ Types /\ media \in Media /\ ctx \in Context /\ InArea(ctx) /\ ~EndZone(ctx.tail)
      /\ Sound(media, ctx) /\ req.len \in Nat /\ ctx.wp \in Nat
  BY DEF IInv, Types, Tails, Context
<1>3. /\ ctx.mounted /\ Cap - ctx.wp >= Overhead /\ Progress(media, ctx.wp, d, Zeros, <<>>)
  BY <1>1 DEF IInv, Wrapping
<1>4. /\ d \in Headers /\ d.type = "WRAP" /\ d.gen = ctx.gen
      /\ ctx.wp + rec_alloc_bytes(d.len) = Cap
  BY <1>2, <1>3, HeadersTyped
<1> HIDE DEF d
<1>5. Image(media, ctx.wp, d, Zeros, rec_alloc_bytes(d.len))
  BY <1>2, <1>3, <1>4, ProgressEnds
<1>6. C \in Context /\ InArea(C) /\ ~EndZone(C.tail) /\ Sound(media, C)
  BY <1>2, <1>4, <1>5, MovedWp
<1>7. C.gen = ctx.gen /\ C.mounted = ctx.mounted /\ C.mseq = ctx.mseq
  BY <1>2 DEF Context
<1> HIDE DEF C
<1>8. /\ ctx'.gen = ctx.gen /\ ctx'.mounted = ctx.mounted /\ ctx'.mseq = ctx.mseq /\ media' = media
      /\ sbA' = sbA /\ sbB' = sbB /\ req'.v = req.v /\ pc' \in {"idle", "data"}
  BY <1>1, <1>2, <1>6, <1>7, PlaceGeneration
<1>. QED  BY <1>1, <1>3, <1>8

\* The WRAP record is complete.
LEMMA WrapLogged ==
  ASSUME GInv, WrapWritten, IInv'
  PROVE  GInv'
<1>1. /\ pc = "wrap" /\ ctx.mounted /\ log' = log /\ old' = old /\ calls' = calls
      /\ ctx'.gen = ctx.gen /\ ctx'.mounted = ctx.mounted
      /\ media' = media /\ sbA' = sbA /\ sbB' = sbB /\ req'.v = req.v /\ pc' \in {"idle", "data"}
  BY WrapEffect DEF GInv
<1>2. [gen |-> ctx'.gen, seq |-> old'.next, v |-> req'.v] \in log'
  BY <1>1 DEF GInv, Logged
<1>. QED  BY <1>1, <1>2, GenerationStays

\* What the writes of a call leave is known.
LEMMA WritingKnown ==
  ASSUME GInv, todo # <<>>, NEW k \in 0 .. Len(Head(todo).cells)
  PROVE  AllKnown(Put(media, Head(todo), k), log)
<1> DEFINE m2 == Put(media, Head(todo), k)
<1>0. /\ Types /\ media \in Media /\ ctx \in Context /\ InArea(ctx) /\ ctx.wp \in Nat
      /\ pc \in {"wrap", "data"} /\ req.v \in Nat /\ AllKnown(media, log)
  BY DEF GInv, IInv, Types, Context
<1>1. CASE pc = "data"
  <2> DEFINE d == DataHeader
  <2>1. /\ d \in Headers /\ rec_alloc_bytes(d.len) = Total /\ d.seq = ctx.next /\ d.gen = ctx.gen
    BY <1>0, HeadersTyped DEF Total
  <2>2. /\ ctx.mounted /\ ctx.wp + Total <= Cap /\ ctx.next = old.next
        /\ Progress(media, ctx.wp, d, req.v, todo)
    BY <1>1 DEF GInv, IInv, Placed
  <2>3. KnownBy(log, d, req.v)
    BY <1>1, <2>1, <2>2 DEF GInv, Logged, KnownBy
  <2> HIDE DEF d
  <2>4. Written(media, m2, ctx.wp, d, req.v)
    BY <1>0, <2>1, <2>2, WriteEffect
  <2> HIDE DEF m2
  <2>5. AllKnown(m2, log)
    BY <1>0, <2>1, <2>3, <2>4, WritesKnown
  <2>. QED  BY <2>5 DEF m2
<1>2. CASE pc = "wrap"
  <2> DEFINE d == WrapHeader
  <2>1. /\ ctx.mounted /\ Cap - ctx.wp >= Overhead /\ Progress(media, ctx.wp, d, Zeros, todo)
    BY <1>2 DEF GInv, IInv, Wrapping
  <2>2. /\ d \in Headers /\ d.type = "WRAP" /\ d.gen = ctx.gen
        /\ ctx.wp + rec_alloc_bytes(d.len) = Cap /\ Zeros \in Nat /\ Cap \in Nat
    BY <1>0, <2>1, HeadersTyped, CapNat DEF Zeros
  <2>3. KnownBy(log, d, Zeros)
    BY <2>2 DEF KnownBy
  <2> HIDE DEF d
  <2>4. Written(media, m2, ctx.wp, d, Zeros)
    BY <1>0, <2>1, <2>2, WriteEffect
  <2> HIDE DEF m2
  <2>5. AllKnown(m2, log)
    BY <1>0, <2>2, <2>3, <2>4, WritesKnown
  <2>. QED  BY <2>5 DEF m2
<1>. QED  BY <1>0, <1>1, <1>2

\* One write of the record under way.
LEMMA WriteKnown ==
  ASSUME GInv, WriteCells, IInv'
  PROVE  GInv'
<1> DEFINE k == Len(Head(todo).cells)
<1>1. /\ todo # <<>> /\ media' = Put(media, Head(todo), k)
      /\ sbA' = sbA /\ sbB' = sbB /\ ctx' = ctx /\ pc' = pc /\ req' = req /\ old' = old
      /\ log' = log /\ calls' = calls
  BY DEF WriteCells
<1>2. k \in 0 .. k
  <2>1. Types /\ pc \in {"data", "wrap"} /\ Placed /\ Wrapping
    BY <1>1 DEF GInv, IInv, Types
  <2>2. ASSUME NEW b \in Nat, NEW d \in Headers, NEW v \in Nat, Progress(media, b, d, v, todo)
        PROVE  k \in Nat
    BY <1>1, <2>2, HeadCells
  <2>3. Zeros \in Nat
    BY DEF Zeros
  <2>4. k \in Nat
    BY <2>1, <2>2, <2>3, HeadersTyped DEF Placed, Wrapping
  <2>. QED  BY <2>4
<1>3. AllKnown(media', log)
  BY <1>1, <1>2, WritingKnown
<1> HIDE DEF k
<1>4. CurrentGen' = CurrentGen
  BY <1>1 DEF CurrentGen
<1>5. Generations'
  BY <1>1, <1>4 DEF GInv, Generations
<1>. QED  BY <1>1, <1>3, <1>4, <1>5 DEF GInv, Logged, Candidate

\* What the step changes that follows the record.
LEMMA DataEffect ==
  ASSUME IInv, DataWritten
  PROVE  /\ pc = "data" /\ ctx.mounted /\ req.op = "append" /\ media' = media
         /\ sbA' = sbA /\ sbB' = sbB /\ req' = req /\ old' = old
         /\ calls' = calls /\ log' = log /\ pc' \in {"sbA", "idle"}
         /\ ctx'.gen = ctx.gen /\ ctx'.mounted /\ ctx'.mseq = next_session_value(ctx.mseq)
<1> DEFINE C == Appended(ctx, Total)
           w == ring_validate_window(media, C)
<1>1. /\ pc = "data" /\ media' = media /\ sbA' = sbA /\ sbB' = sbB /\ req' = req /\ old' = old
      /\ calls' = calls /\ log' = log /\ pc' \in {"sbA", "idle"}
  BY DEF DataWritten, Return
<1>2. /\ ctx.mounted /\ req.op = "append" /\ ctx.wp = req.base /\ ctx.wp + Total <= Cap
      /\ media \in Media /\ ctx \in Context /\ InArea(ctx) /\ req.len \in Nat
  BY <1>1 DEF IInv, Placed, Types
<1>3. ctx' = w.c
  BY <1>2, Zenon DEF DataWritten, Appended, Total
<1>4. Total \in Nat /\ Total >= Overhead
  BY <1>2, AllocNat DEF Total
<1>5. C \in Context /\ InArea(C)
  BY <1>2, <1>4, AppendedTyped
<1>6. C.gen = ctx.gen /\ C.mounted = ctx.mounted /\ C.mseq = next_session_value(ctx.mseq)
  BY <1>2 DEF Appended, Context
<1> HIDE DEF C
<1>7. w.c.gen = C.gen /\ w.c.mounted = C.mounted /\ w.c.mseq = C.mseq
  <2>1. ring_walk(media, C).ok \/ ~ring_walk(media, C).ok
    OBVIOUS
  <2>. QED  BY <1>2, <1>5, <2>1, Validating DEF SameBut
<1> HIDE DEF w
<1>. QED  BY <1>1, <1>2, <1>3, <1>6, <1>7

\* The record is complete: the context keeps its generation.
LEMMA DataLogged ==
  ASSUME GInv, DataWritten, IInv'
  PROVE  GInv'
<1>1. /\ pc = "data" /\ ctx.mounted /\ req.op = "append" /\ media' = media
      /\ sbA' = sbA /\ sbB' = sbB /\ req' = req /\ old' = old
      /\ calls' = calls /\ log' = log /\ pc' \in {"sbA", "idle"}
      /\ ctx'.gen = ctx.gen /\ ctx'.mounted
  BY DataEffect DEF GInv
<1>2. CurrentGen' = CurrentGen
  BY <1>1 DEF CurrentGen
<1>3. Generations'
  BY <1>1, <1>2 DEF GInv, Generations
<1>4. AllKnown(media, log)'
  BY <1>1, <1>2 DEF GInv
<1>. QED  BY <1>1, <1>3, <1>4 DEF GInv, Logged

\* Copy A takes the generation of the context: the same for an append, the next
\* for a format.
LEMMA PublishAGeneration ==
  ASSUME GInv, PublishA, IInv'
  PROVE  GInv'
<1>1. /\ pc = "sbA" /\ sbA' = sb_encode(ctx) /\ pc' = "sbB" /\ media' = media /\ sbB' = sbB
      /\ ctx' = ctx /\ calls' = calls /\ log' = log
  BY DEF PublishA
<1>2. sbA'.ok /\ sbA'.gen = ctx.gen
  BY <1>1 DEF sb_encode
<1>3. Generations'
  BY <1>1, <1>2 DEF GInv, Generations
<1>. QED  BY <1>1, <1>3 DEF GInv, Logged

\* Copy B follows copy A.
LEMMA PublishBGeneration ==
  ASSUME GInv, PublishB, IInv'
  PROVE  GInv'
<1>1. /\ pc = "sbB" /\ sbB' = sb_encode(ctx) /\ pc' = "idle" /\ sbA' = sbA /\ media' = media
      /\ ctx' = [ctx EXCEPT !.mounted = TRUE] /\ log' = log /\ calls' = calls
  BY DEF PublishB, Return
<1>2. sbA = sb_encode(ctx) /\ ctx'.gen = ctx.gen /\ ctx.gen \in Nat
  BY <1>1 DEF GInv, IInv, Published, Types, Context
<1>3. /\ sbA'.ok /\ sbA'.gen = ctx.gen /\ sbB'.ok /\ sbB'.gen = ctx.gen
  BY <1>1, <1>2 DEF sb_encode
<1>4. Generations'
  BY <1>1, <1>2, <1>3 DEF GInv, Generations
<1>. QED  BY <1>1, <1>4 DEF GInv, Logged

\* What a mount changes: nothing, or the context, which it takes from the copy it
\* finds.
LEMMA MountEffect ==
  ASSUME IInv, Mount
  PROVE  /\ media' = media /\ sbA' = sbA /\ sbB' = sbB /\ calls' = calls /\ log' = log
         /\ pc = "idle" /\ pc' = "idle" /\ req'.op = "mount"
         /\ LET s == load_current_superblock(sbA, sbB)
            IN  ctx' = ctx \/ (s.ok /\ ctx'.gen = s.gen /\ ctx'.mseq = next_session_value(s.mseq))
<1> DEFINE s == load_current_superblock(sbA, sbB)
           c == [mounted |-> TRUE, gen |-> s.gen, mseq |-> next_session_value(s.mseq),
                 wp |-> s.wp, tail |-> s.tail, next |-> s.next, count |-> s.count, free |-> s.free]
           w == ring_validate_window(media, c)
<1>1. /\ media' = media /\ sbA' = sbA /\ sbB' = sbB /\ calls' = calls /\ log' = log
      /\ pc = "idle" /\ pc' = "idle" /\ req'.op = "mount"
      /\ ctx' = ctx \/ (s.ok /\ w.ok /\ ctx' = w.c)
  BY Zenon DEF Mount, Begin, Return
<1>2. media \in Media
  BY DEF IInv, Types
<1>3. ASSUME s.ok, w.ok, ctx' = w.c PROVE ctx'.gen = s.gen /\ ctx'.mseq = next_session_value(s.mseq)
  <2>1. s \in Copy
    <3>1. s \in {sbA, sbB}
      BY Trusted
    <3> HIDE DEF s
    <3>. QED  BY <3>1 DEF IInv, Types
  <2>2. s \in [ok : {TRUE}, gen : Nat, mseq : Nat, wp : Cursors, tail : Cursors,
               next : Nat, count : Nat, free : Nat]
    <3>1. s # BadSb
      BY <1>3 DEF BadSb
    <3> HIDE DEF s
    <3>. QED  BY <2>1, <3>1 DEF Copy
  <2>3. c \in Context /\ c.gen = s.gen /\ c.mseq = next_session_value(s.mseq)
    <3> HIDE DEF s
    <3>1. s.wp \in Nat /\ s.tail \in Nat /\ next_session_value(s.mseq) \in Nat
      BY <2>2, CapNat, SuccessorsNat DEF Cursors
    <3>. QED  BY <2>2, <3>1 DEF Context
  <2> HIDE DEF c
  <2>4. w.c.gen = c.gen /\ w.c.mseq = c.mseq
    <3>1. ring_walk(media, c).ok
      BY <1>2, <1>3, <2>3, Validating
    <3>. QED  BY <1>2, <2>3, <3>1, Validating DEF SameBut
  <2> HIDE DEF w
  <2>. QED  BY <1>3, <2>3, <2>4
<1> HIDE DEF w
<1>. QED  BY <1>1, <1>3

\* A mount takes the generation it finds.
LEMMA MountGeneration ==
  ASSUME Distinguishable, GInv, Mount, IInv'
  PROVE  GInv'
<1> DEFINE s == load_current_superblock(sbA, sbB)
<1>1. /\ media' = media /\ sbA' = sbA /\ sbB' = sbB /\ calls' = calls /\ log' = log
      /\ pc = "idle" /\ pc' = "idle"
      /\ ctx' = ctx \/ (s.ok /\ ctx'.gen = s.gen)
  BY MountEffect DEF GInv
<1>2. s.ok => s.gen = CurrentGen
  BY CurrentFound DEF GInv
<1> HIDE DEF s
<1>3. CurrentGen' = CurrentGen
  BY <1>1 DEF CurrentGen
<1>4. /\ sbA.ok => CurrentGen = sbA.gen
      /\ sbB.ok => sbB.gen <= CurrentGen
      /\ CurrentGen <= calls.formats
  <2>1. sbA.gen \in Nat /\ sbB.gen \in Nat /\ calls.formats \in Nat
    BY CopyGen DEF GInv, IInv, Types
  <2>. QED  BY <2>1 DEF CurrentGen, GInv, Generations
<1>5. Generations'
  <2>1. CASE ctx' = ctx
    BY <1>1, <1>3, <2>1 DEF GInv, Generations
  <2>2. CASE ctx'.gen = CurrentGen
    BY <1>1, <1>3, <1>4, <2>2 DEF GInv, Generations
  <2>. QED  BY <1>1, <1>2, <2>1, <2>2
<1>. QED  BY <1>1, <1>5 DEF GInv, Logged

\* A fault leaves nothing unknown on the media.
LEMMA InterruptedKnown ==
  ASSUME GInv, Interrupted
  PROVE  AllKnown(media', log)
<1>1. CASE todo # <<>> /\ \E k \in 0 .. Len(Head(todo).cells) : media' = Put(media, Head(todo), k)
  <2>1. PICK k \in 0 .. Len(Head(todo).cells) : media' = Put(media, Head(todo), k)
    BY <1>1
  <2>. QED  BY <1>1, <2>1, WritingKnown
<1>2. CASE media' = media
  BY <1>2 DEF GInv
<1>. QED  BY <1>1, <1>2 DEF Interrupted

\* A call that failed, or lost its power, goes nowhere, whatever it tore.
LEMMA FaultGeneration ==
  ASSUME GInv, Interrupted, calls' = [calls EXCEPT !.faults = @ + 1], log' = log,
         ctx' = ctx \/ ctx' = Blank, pc' = "idle", IInv'
  PROVE  GInv'
<1>1. calls'.formats = calls.formats /\ calls.formats \in Nat
  BY DEF GInv, IInv, Types
<1>2. sbA' \in {sbA, BadSb} /\ sbB' \in {sbB, BadSb}
  BY InterruptedKeeps DEF GInv
<1>3. /\ \A g \in {sbA'.gen, sbB'.gen, ctx'.gen} : g <= calls.formats
      /\ sbA'.ok => sbA' = sbA
      /\ sbB'.ok => sbB' = sbB
      /\ ctx'.mounted => ctx' = ctx
  BY <1>1, <1>2 DEF BadSb, Blank, GInv, Generations
<1>4. Generations'
  BY <1>1, <1>3 DEF GInv, Generations
<1>. QED  BY <1>4, InterruptedKnown DEF GInv, Logged

\* Power is lost between two calls.
LEMMA IdleLoss ==
  ASSUME GInv, PowerLoss, UNCHANGED <<media, sbA, sbB, calls>>, IInv'
  PROVE  GInv'
<1>1. ctx' = Blank /\ pc' = "idle" /\ log' = log /\ calls.formats \in Nat
  BY DEF PowerLoss, Return, GInv, IInv, Types
<1>2. Generations'
  BY <1>1 DEF GInv, Generations, Blank
<1>. QED  BY <1>1, <1>2 DEF GInv, Logged

-----------------------------------------------------------------------------
\* Every action keeps what is known of generations and records.
LEMMA GenerationStep == Distinguishable /\ GInv /\ [Next]_vars => GInv'
<1> SUFFICES ASSUME Distinguishable, GInv, [Next]_vars PROVE GInv'
  OBVIOUS
<1>0. IInv'
  BY RingStep DEF GInv
<1>1. CASE Format
  BY <1>0, <1>1, FormatGeneration
<1>2. CASE \E len \in Lens : AppendRecord(len)
  BY <1>0, <1>2, AppendLogged
<1>3. CASE WriteCells
  BY <1>0, <1>3, WriteKnown
<1>4. CASE WrapWritten
  BY <1>0, <1>4, WrapLogged
<1>5. CASE DataWritten
  BY <1>0, <1>5, DataLogged
<1>6. CASE PublishA
  BY <1>0, <1>6, PublishAGeneration
<1>7. CASE PublishB
  BY <1>0, <1>7, PublishBGeneration
<1>8. CASE Mount
  BY <1>0, <1>8, MountGeneration
<1>9. CASE IoError
  BY <1>0, <1>9, FaultGeneration DEF IoError, Return
<1>10. CASE PowerLoss
  <2>1. CASE Interrupted /\ calls' = [calls EXCEPT !.faults = @ + 1]
    BY <1>0, <1>10, <2>1, FaultGeneration DEF PowerLoss, Return
  <2>2. CASE UNCHANGED <<media, sbA, sbB, calls>>
    BY <1>0, <1>10, <2>2, IdleLoss
  <2>. QED  BY <1>10, <2>1, <2>2 DEF PowerLoss
<1>11. CASE UNCHANGED vars
  <2>1. Generations'
    BY <1>11 DEF vars, GInv, Generations, CurrentGen
  <2>. QED  BY <1>0, <1>11, <2>1 DEF vars, GInv, Logged
<1>. QED  BY <1>1, <1>2, <1>3, <1>4, <1>5, <1>6, <1>7, <1>8, <1>9, <1>10, <1>11 DEF Next

\* A mount never delivers what was not appended, however many faults there were
\* and whichever of them tore a record or a superblock copy: every record it finds
\* was begun in the generation of the superblock it trusts, with that payload, and
\* while copy A is readable that generation is copy A's, below the 2^31 formats
\* that u32_is_newer can order.
THEOREM RingNoInvention ==
  ASSUME Distinguishable
  PROVE  Spec => []NoInvention
<1>1. Init => GInv
  BY GenerationsInit
<1>2. GInv /\ [Next]_vars => GInv'
  BY GenerationStep
<1>3. GInv => NoInvention
  BY NothingInvented
<1>. QED  BY <1>1, <1>2, <1>3, PTL DEF Spec
-----------------------------------------------------------------------------
\* The cells of a window are those a walk of it sees.
LEMMA WindowCells ==
  ASSUME NEW c, InArea(c), NEW i \in Cursors, InWindow(i, c.tail, ring_occupied(c))
  PROVE  i \in window(c)
<1> DEFINE o == ring_occupied(c)
           x == c.tail
<1>1. o \in 0 .. Cap /\ x \in Nat /\ x < Cap /\ i \in Nat /\ i < Cap /\ Cap \in Nat /\ Cap > 0
  BY WalkOfWindow, CapNat DEF InArea, Cursors
<1>2. (x <= i /\ i < x + o) \/ i < x + o - Cap
  BY DEF InWindow
<1> HIDE DEF o, x
<1>3. i % Cap = i /\ (i + Cap) % Cap = i
  BY <1>1
<1>4. CASE x <= i /\ i < x + o
  <2>1. i - x \in 0 .. o - 1 /\ x + (i - x) = i
    BY <1>1, <1>4
  <2>2. (x + (i - x)) % Cap = i
    BY <1>3, <2>1
  <2>. QED  BY <2>1, <2>2 DEF window, o, x
<1>5. CASE i < x + o - Cap
  <2>1. i + Cap - x \in 0 .. o - 1 /\ x + (i + Cap - x) = i + Cap
    BY <1>1, <1>5
  <2>2. (x + (i + Cap - x)) % Cap = i
    BY <1>3, <2>1
  <2>. QED  BY <2>1, <2>2 DEF window, o, x
<1>. QED  BY <1>2, <1>4, <1>5

-----------------------------------------------------------------------------
\* None of the n cells from b is in the window.
Clear(b, n, s) ==
  \A i \in Cursors : i \in b .. b + n - 1 => ~InWindow(i, s.tail, ring_occupied(s))

\* The writes of a record, stopped anywhere, leave a window alone that is clear of
\* them.
LEMMA ClearKept ==
  ASSUME NEW m \in Media, NEW m2 \in Media, NEW s, InArea(s), NEW b \in Nat,
         NEW d \in Headers, NEW v, Written(m, m2, b, d, v), Clear(b, rec_alloc_bytes(d.len), s),
         ring_walk(m, s).ok \/ ring_walk(m2, s).ok
  PROVE  ring_walk(m2, s) = ring_walk(m, s)
<1> DEFINE x == s.tail
           o == ring_occupied(s)
           t == rec_alloc_bytes(d.len)
<1>1. /\ ring_walk(m, s) = Walk(m, s.gen, s.wp, x, o) /\ ring_walk(m2, s) = Walk(m2, s.gen, s.wp, x, o)
      /\ o \in 0 .. Cap /\ x \in Cursors /\ s.wp \in Cursors
  BY WalkOfWindow DEF InArea
<1>2. t \in Nat /\ t >= 3
  <2>1. d.len \in Nat
    BY DEF Headers
  <2>. QED  BY <2>1, AllocNat
<1>3. \A i \in Cursors : InWindow(i, x, o) => i \notin b .. b + t - 1
  BY DEF Clear
<1> HIDE DEF x, o, t
<1>4. ASSUME NEW i \in Cursors, InWindow(i, x, o) PROVE m2[i] = m[i]
  <2>1. i \notin b .. b + t - 1
    BY <1>3, <1>4
  <2>2. i # b + t - 1 /\ \A q \in 1 .. t : i \notin b .. b + q - 1
    BY <1>2, <2>1
  <2>. QED  BY <2>2 DEF Written, t
<1>. QED  BY <1>1, <1>4, Untouched

-----------------------------------------------------------------------------
\* An append that goes on at the start of the area takes the records along, as
\* long as they end at the write pointer and none lies at the start.
LEMMA MovedRecs ==
  ASSUME NEW m \in Media, NEW c \in Context, InArea(c), ~EndZone(c.tail), Sound(m, c),
         c.tail < c.wp \/ (c.tail = c.wp /\ c.count = 0), c.tail = 0 => c.wp = 0,
         \/ c.wp = 0
         \/ EndZone(c.wp)
         \/ \E d \in Headers : /\ d.gen = c.gen /\ d.type = "WRAP"
                               /\ c.wp + rec_alloc_bytes(d.len) = Cap
                               /\ Image(m, c.wp, d, Zeros, rec_alloc_bytes(d.len)),
         ring_walk(m, [c EXCEPT !.wp = 0]).ok
  PROVE  ring_walk(m, c).ok /\ ring_walk(m, [c EXCEPT !.wp = 0]).recs = ring_walk(m, c).recs
<1> DEFINE C == [c EXCEPT !.wp = 0]
           g == c.gen
           w == c.wp
           x == c.tail
           o == w - x
<1>0. /\ w \in Cursors /\ x \in Cursors /\ w \in Nat /\ x \in Nat /\ w < Cap /\ Cap \in Nat /\ 0 \in Cursors
      /\ c.count \in Nat
  BY CapNat DEF InArea, Cursors, Context
<1>c. /\ C.wp = 0 /\ C.tail = x /\ C.gen = g /\ InArea(C)
  BY <1>0 DEF InArea, Context
<1>1. CASE w = 0
  <2>1. C = c
    BY <1>1 DEF Context
  <2>. QED  BY <2>1
<1>2. CASE w # 0
  <2>1. ring_walk(m, C) = Walk(m, g, 0, x, Cap - x) /\ x # 0 /\ Cap - x \in 1 .. Cap
    <3>1. x # 0 /\ C.wp < C.tail
      BY <1>0, <1>2, <1>c
    <3> HIDE DEF C
    <3>2. ring_walk(m, C) = Walk(m, C.gen, C.wp, C.tail, ring_occupied(C))
          /\ ring_occupied(C) = Cap - C.tail + C.wp
      BY <1>c, <3>1, WalkOfWindow
    <3>. QED  BY <1>0, <1>c, <3>1, <3>2
  <2>2. ring_walk(m, c) = Walk(m, g, w, x, o) /\ o \in 0 .. Cap
    BY <1>0, WalkOfWindow
  <2>3. ring_walk(m, c).ok
    <3>1. CASE x < w
      <4>1. Starts(m[x])
        BY <1>0, <2>1, NoStart
      <4>. QED  BY <3>1, <4>1 DEF Sound
    <3>2. CASE x = w
      <4>1. Walk(m, g, w, w, 0).ok
        BY <1>0, WalkEnds DEF Passed
      <4>. QED  BY <1>0, <2>2, <3>2, <4>1
    <3>. QED  BY <3>1, <3>2
  <2>4. \/ EndZone(w)
        \/ \E d \in Headers : /\ d.gen = g /\ d.type = "WRAP"
                              /\ w + rec_alloc_bytes(d.len) = Cap
                              /\ Image(m, w, d, Zeros, rec_alloc_bytes(d.len))
    BY <1>2
  <2>5. o + (Cap - w) = Cap - x /\ ~EndZone(x) /\ o + (Cap - w) <= Cap
    BY <1>0
  <2> HIDE DEF C, g, w, x, o
  <2>6. Walk(m, g, 0, x, o + (Cap - w)) = Passed(Walk(m, g, w, x, o).recs)
    BY <1>0, <1>2, <2>2, <2>3, <2>4, <2>5, LeftBehind
  <2>7. ring_walk(m, C) = Passed(ring_walk(m, c).recs)
    BY <2>1, <2>2, <2>5, <2>6
  <2>. QED  BY <2>3, <2>7 DEF Passed, C
<1>. QED  BY <1>1, <1>2

\* Making room leaves the records alone where the new one fits, and where there
\* are none.
LEMMA RecsKept ==
  ASSUME NEW m \in Media, NEW c \in Context, InArea(c), NEW t \in Nat,
         ring_walk(m, c).ok => Agrees(ring_walk(m, c).recs, c.next),
         make_room(m, c, t).ok, t <= Cap - ring_occupied(c) \/ ring_walk(m, c).recs = <<>>
  PROVE  ring_walk(m, make_room(m, c, t).c).recs = ring_walk(m, c).recs
<1> DEFINE w == ring_validate_window(m, c)
           r == make_room(m, c, t)
<1>1. ring_walk(m, c).ok /\ Retired(m, c, t, r)
  BY MakingRoom
<1>2. /\ w.ok /\ w.c.free = Cap - ring_occupied(c) /\ ring_walk(m, w.c) = ring_walk(m, c)
  BY <1>1, Validating
<1>3. CASE t <= Cap - ring_occupied(c)
  <2>1. ~(w.c.free < t)
    <3>1. ring_occupied(c) \in Nat /\ Cap \in Nat
      BY WalkOfWindow, CapNat
    <3> HIDE DEF w
    <3>. QED  BY <1>2, <1>3, <3>1
  <2>2. r = w
    <3> HIDE DEF w
    <3>. QED  BY <2>1 DEF make_room, w
  <2> HIDE DEF w, r
  <2>. QED  BY <1>2, <2>2 DEF r
<1>4. CASE ring_walk(m, c).recs = <<>>
  <2> HIDE DEF r
  <2>1. PICK S \in Seq(Entries) : <<>> = S \o ring_walk(m, r.c).recs
    BY <1>1, <1>4 DEF Retired
  <2>2. ring_walk(m, r.c).recs \in Seq(Entries)
    BY <1>1 DEF Retired, Validated
  <2> DEFINE R == ring_walk(m, r.c).recs
  <2> HIDE DEF R
  <2>3. Len(S \o R) = Len(S) + Len(R) /\ Len(S) \in Nat /\ Len(R) \in Nat /\ Len(<<>>) = 0
    BY <2>2 DEF R
  <2>4. Len(R) = 0
    <3>1. S \o R = <<>>
      BY <2>1 DEF R
    <3>2. Len(S \o R) = 0
      BY <2>3, <3>1
    <3>. QED  BY <2>3, <3>2
  <2>5. R = <<>>
    BY <2>2, <2>4 DEF R
  <2>. QED  BY <1>4, <2>5 DEF R, r
<1>. QED  BY <1>3, <1>4
-----------------------------------------------------------------------------
\* There are fewer calls than the signed comparison of metadata sequence numbers
\* can order: an append advances them by one, a mount before it by another.
Orderable == 2 * MaxCalls + 1 < Half

Started == calls.appends + calls.formats

\* No metadata sequence number is beyond what the calls so far can have made of it.
Numbered ==
  /\ Started <= MaxCalls
  /\ sbA.ok => sbA.mseq <= 2 * Started
  /\ sbB.ok => sbB.mseq <= 2 * Started
  /\ pc = "idle" => ctx.mseq <= 2 * Started + 1
  /\ pc \in {"wrap", "data"} => ctx.mseq <= 2 * Started - 1
  /\ pc \in {"sbA", "sbB"} => ctx.mseq <= 2 * Started

\* A mounted context is not behind a copy of its generation, and ahead of it when
\* it is to be published.
NotBehind(s) ==
  ctx.mounted /\ s.ok /\ s.gen = ctx.gen =>
    s.mseq <= ctx.mseq /\ (pc = "sbA" => s.mseq < ctx.mseq)

\* Copy B is the older one, or the same.
Ordered ==
  /\ sbA.ok /\ sbB.ok /\ sbA.gen = sbB.gen => sbB.mseq < sbA.mseq \/ sbA = sbB
  /\ NotBehind(sbA) /\ NotBehind(sbB)

NInv == Numbered /\ Ordered

\* The numbers are numbers, and below the range.
LEMMA NumberTypes ==
  ASSUME IInv
  PROVE  /\ sbA.mseq \in Nat /\ sbB.mseq \in Nat /\ ctx.mseq \in Nat
         /\ sbA.gen \in Nat /\ sbB.gen \in Nat /\ ctx.gen \in Nat
         /\ calls.appends \in Nat /\ calls.formats \in Nat /\ calls.faults \in Nat /\ Started \in Nat
         /\ MaxCalls \in Nat /\ MaxFormats \in Nat /\ U32 \in Nat /\ Half \in Nat /\ Half < U32
<1>1. \A c \in Copy : c.mseq \in Nat
  <2>1. ASSUME NEW c \in Copy PROVE c.mseq \in Nat
    <3>1. CASE c = BadSb
      BY <3>1 DEF BadSb
    <3>2. CASE c # BadSb
      BY <3>2 DEF Copy
    <3>. QED  BY <3>1, <3>2
  <2>. QED  BY <2>1
<1>2. Half \in Nat /\ Half < U32
  BY U32Assumption DEF Half
<1>3. sbA \in Copy /\ sbB \in Copy /\ ctx \in Context /\ calls \in [appends : Nat, faults : Nat, formats : Nat]
  BY DEF IInv, Types
<1>4. ctx.mseq \in Nat /\ ctx.gen \in Nat
  BY <1>3 DEF Context
<1>5. sbA.mseq \in Nat /\ sbB.mseq \in Nat /\ sbA.gen \in Nat /\ sbB.gen \in Nat
  BY <1>1, <1>3, CopyGen
<1>6. /\ calls.appends \in Nat /\ calls.formats \in Nat /\ calls.faults \in Nat /\ Started \in Nat
  BY <1>3 DEF Started
<1>. QED  BY <1>2, <1>4, <1>5, <1>6, U32Assumption, RingAssumption

\* Copy A is the one recovery trusts, if it can be read.
LEMMA CurrentCopy ==
  ASSUME Distinguishable, Orderable, GInv, NInv
  PROVE  load_current_superblock(sbA, sbB) = IF sbA.ok THEN sbA ELSE sbB
<1>0. /\ sbA.mseq \in Nat /\ sbB.mseq \in Nat /\ sbA.gen \in Nat /\ sbB.gen \in Nat
      /\ calls.formats \in Nat /\ Started \in Nat
      /\ MaxCalls \in Nat /\ MaxFormats \in Nat /\ U32 \in Nat /\ Half \in Nat /\ Half < U32
  BY NumberTypes DEF GInv
<1>1. CASE sbA.ok /\ sbB.ok
  <2>1. sbB.gen <= sbA.gen /\ sbA.gen <= MaxFormats
    BY <1>0, <1>1 DEF GInv, Generations, CurrentGen
  <2>2. sbA.mseq <= 2 * MaxCalls
    BY <1>0, <1>1 DEF NInv, Numbered
  <2>3. CASE sbA.gen # sbB.gen
    <3>1. u32_is_newer(sbA.gen, sbB.gen)
      BY <1>0, <2>1, <2>3 DEF u32_is_newer, u32_diff, Distinguishable
    <3>. QED  BY <1>1, <2>3, <3>1 DEF load_current_superblock, superblock_is_newer
  <2>4. CASE sbA.gen = sbB.gen /\ sbB.mseq < sbA.mseq
    <3>1. u32_is_newer(sbA.mseq, sbB.mseq)
      BY <1>0, <2>2, <2>4 DEF u32_is_newer, u32_diff, Orderable
    <3>. QED  BY <1>1, <2>4, <3>1 DEF load_current_superblock, superblock_is_newer
  <2>5. CASE sbA = sbB
    BY <1>1, <2>5 DEF load_current_superblock
  <2>. QED  BY <1>1, <2>3, <2>4, <2>5 DEF NInv, Ordered
<1>2. CASE ~sbA.ok
  BY <1>2 DEF load_current_superblock
<1>3. CASE sbA.ok /\ ~sbB.ok
  BY <1>3 DEF load_current_superblock
<1>. QED  BY <1>1, <1>2, <1>3

\* In this range the session counters have plain successors.
LEMMA NextNumber ==
  ASSUME Orderable, IInv, NEW n \in Nat, n <= 2 * MaxCalls + 1
  PROVE  next_session_value(n) = n + 1
<1>1. n < U32 - 1
  BY NumberTypes DEF Orderable
<1>. QED  BY <1>1 DEF next_session_value

\* A blank region.
LEMMA NumbersInit == Init => NInv
<1> SUFFICES ASSUME Init PROVE NInv
  OBVIOUS
<1>1. Started = 0
  BY DEF Init, Started
<1>2. Numbered
  BY <1>1, RingAssumption DEF Init, Numbered, BadSb, Blank
<1>. QED  BY <1>2 DEF Init, NInv, Ordered, NotBehind, BadSb, Blank

\* nvlog_ring_format takes two numbers more than it finds.
LEMMA FormatNumbers ==
  ASSUME Distinguishable, Orderable, GInv, NInv, Format, IInv'
  PROVE  NInv'
<1> DEFINE s == load_current_superblock(sbA, sbB)
<1>0. /\ sbA.mseq \in Nat /\ sbB.mseq \in Nat /\ Started \in Nat /\ MaxCalls \in Nat
      /\ calls.appends \in Nat /\ calls.formats \in Nat
  BY NumberTypes DEF GInv
<1>1. /\ Started < MaxCalls /\ sbA' = sbA /\ sbB' = sbB
      /\ calls' = [calls EXCEPT !.formats = @ + 1] /\ pc = "idle" /\ pc' = "sbA" /\ ctx'.mounted = FALSE
      /\ ctx'.mseq = (IF s.ok THEN next_session_value(next_session_value(s.mseq))
                              ELSE next_session_value(0))
  BY DEF Format, Begin, Blank, Started
<1>2. /\ Started' = Started + 1 /\ calls'.faults = calls.faults
  BY <1>0, <1>1 DEF Started, GInv, IInv, Types
<1>3. ctx'.mseq <= 2 * Started + 2
  <2>1. CASE s.ok
    <3>1. s = IF sbA.ok THEN sbA ELSE sbB
      BY CurrentCopy
    <3>2. s.mseq \in Nat /\ s.mseq <= 2 * Started
      BY <1>0, <2>1, <3>1 DEF NInv, Numbered
    <3> HIDE DEF s
    <3>3. s.mseq + 1 \in Nat /\ s.mseq + 1 <= 2 * MaxCalls + 1 /\ s.mseq <= 2 * MaxCalls + 1
      BY <1>0, <1>1, <3>2
    <3>4. next_session_value(s.mseq) = s.mseq + 1
          /\ next_session_value(s.mseq + 1) = s.mseq + 2
      <4>1. s.mseq + 1 + 1 = s.mseq + 2
        BY <3>2
      <4>. QED  BY <3>2, <3>3, <4>1, NextNumber DEF GInv
    <3>. QED  BY <1>0, <1>1, <2>1, <3>2, <3>4
  <2>2. CASE ~s.ok
    <3>1. next_session_value(0) = 1
      BY <1>0, NextNumber DEF GInv
    <3> HIDE DEF s
    <3>. QED  BY <1>0, <1>1, <2>2, <3>1
  <2>. QED  BY <2>1, <2>2
<1> HIDE DEF s
<1>4. Numbered'
  BY <1>0, <1>1, <1>2, <1>3 DEF NInv, Numbered
<1>. QED  BY <1>1, <1>2, <1>4 DEF NInv, Ordered, NotBehind

\* A step of an append before it publishes that leaves the number as it is.
LEMMA NumbersStay ==
  ASSUME NInv, IInv, IInv', sbA' = sbA, sbB' = sbB, ctx'.mseq = ctx.mseq, ctx'.gen = ctx.gen,
         ctx'.mounted = ctx.mounted, calls'.faults = calls.faults,
         pc \notin {"sbA", "sbB"}, pc' \notin {"sbA", "sbB"},
         \/ Started' = Started /\ (pc' = pc \/ pc # "idle")
         \/ Started' = Started + 1 /\ Started < MaxCalls
  PROVE  NInv'
<1>0. /\ sbA.mseq \in Nat /\ sbB.mseq \in Nat /\ Started \in Nat /\ MaxCalls \in Nat
      /\ ctx.mseq \in Nat
  BY NumberTypes
<1>1. pc \in {"idle", "wrap", "data"} /\ pc' \in {"idle", "wrap", "data"}
  BY DEF IInv, Types
<1>2. ctx.mseq <= 2 * Started + 1 /\ (pc # "idle" => ctx.mseq <= 2 * Started - 1)
  BY <1>0, <1>1 DEF NInv, Numbered
<1>3. CASE Started' = Started
  BY <1>0, <1>1, <1>2, <1>3 DEF NInv, Numbered, Ordered, NotBehind
<1>4. CASE Started' = Started + 1 /\ Started < MaxCalls
  <2>1. /\ Started' <= MaxCalls /\ 2 * Started' = 2 * Started + 2
        /\ ctx'.mseq <= 2 * Started' - 1 /\ ctx'.mseq <= 2 * Started' + 1
    BY <1>0, <1>2, <1>4
  <2>2. Numbered'
    BY <1>0, <1>1, <2>1 DEF NInv, Numbered
  <2>. QED  BY <2>2 DEF NInv, Ordered, NotBehind
<1>. QED  BY <1>3, <1>4

\* The steps of an append.
LEMMA AppendNumbers ==
  ASSUME GInv, NInv, NEW len \in Lens, AppendRecord(len), IInv'
  PROVE  NInv'
<1>1. /\ pc = "idle" /\ ctx'.gen = ctx.gen /\ ctx'.mounted = ctx.mounted /\ ctx'.mseq = ctx.mseq
      /\ sbA' = sbA /\ sbB' = sbB /\ pc' \in {"idle", "wrap", "data"}
      /\ calls' = [calls EXCEPT !.appends = @ + 1] /\ Started < MaxCalls
  BY AppendEffect DEF GInv, Started
<1>2. Started' = Started + 1 /\ calls'.faults = calls.faults
  BY <1>1 DEF Started, GInv, IInv, Types
<1>. QED  BY <1>1, <1>2, NumbersStay DEF GInv

\* One write of the record under way.
LEMMA WriteNumbers ==
  ASSUME GInv, NInv, WriteCells, IInv'
  PROVE  NInv'
<1>1. sbA' = sbA /\ sbB' = sbB /\ ctx' = ctx /\ pc' = pc /\ calls' = calls /\ pc \in {"wrap", "data"}
  BY DEF WriteCells, GInv, IInv, Types
<1>2. Started' = Started
  BY <1>1 DEF Started
<1>. QED  BY <1>1, <1>2, NumbersStay DEF GInv

\* The WRAP record is complete.
LEMMA WrapNumbers ==
  ASSUME GInv, NInv, WrapWritten, IInv'
  PROVE  NInv'
<1>1. /\ pc = "wrap" /\ calls' = calls /\ sbA' = sbA /\ sbB' = sbB /\ pc' \in {"idle", "data"}
      /\ ctx'.gen = ctx.gen /\ ctx'.mounted = ctx.mounted /\ ctx'.mseq = ctx.mseq
  BY WrapEffect DEF GInv
<1>2. Started' = Started
  BY <1>1 DEF Started
<1>. QED  BY <1>1, <1>2, NumbersStay DEF GInv

\* The record is complete: the context is one ahead of the copies.
LEMMA DataNumbers ==
  ASSUME Orderable, GInv, NInv, DataWritten, IInv'
  PROVE  NInv'
<1>0. /\ sbA.mseq \in Nat /\ sbB.mseq \in Nat /\ Started \in Nat /\ MaxCalls \in Nat
      /\ ctx.mseq \in Nat
  BY NumberTypes DEF GInv
<1>1. /\ pc = "data" /\ ctx.mounted /\ calls' = calls /\ sbA' = sbA /\ sbB' = sbB
      /\ pc' \in {"sbA", "idle"}
      /\ ctx'.gen = ctx.gen /\ ctx'.mounted /\ ctx'.mseq = next_session_value(ctx.mseq)
  BY DataEffect DEF GInv
<1>2. Started' = Started
  BY <1>1 DEF Started
<1>3. ctx.mseq <= 2 * Started - 1 /\ Started <= MaxCalls
  BY <1>1 DEF NInv, Numbered
<1>4. ctx'.mseq = ctx.mseq + 1
  <2>1. ctx.mseq <= 2 * MaxCalls + 1
    BY <1>0, <1>3
  <2>. QED  BY <1>0, <1>1, <2>1, NextNumber DEF GInv
<1>5. Numbered'
  BY <1>0, <1>1, <1>2, <1>3, <1>4 DEF NInv, Numbered
<1>6. NotBehind(sbA)' /\ NotBehind(sbB)'
  BY <1>0, <1>1, <1>4 DEF NInv, Ordered, NotBehind
<1>. QED  BY <1>1, <1>5, <1>6 DEF NInv, Ordered

\* Copy A takes the number of the context, beyond that of copy B.
LEMMA PublishANumbers ==
  ASSUME GInv, NInv, PublishA, IInv'
  PROVE  NInv'
<1>0. /\ sbA.mseq \in Nat /\ sbB.mseq \in Nat /\ Started \in Nat /\ ctx.mseq \in Nat
      /\ ctx.gen \in Nat /\ sbA.gen \in Nat /\ sbB.gen \in Nat
  BY NumberTypes DEF GInv
<1>1. /\ pc = "sbA" /\ sbA' = sb_encode(ctx) /\ pc' = "sbB" /\ sbB' = sbB
      /\ ctx' = ctx /\ calls' = calls
  BY DEF PublishA
<1>2. sbA'.ok /\ sbA'.gen = ctx.gen /\ sbA'.mseq = ctx.mseq /\ Started' = Started
  BY <1>1 DEF sb_encode, Started
<1>3. ctx.mseq <= 2 * Started
  BY <1>1 DEF NInv, Numbered
<1>4. sbB.ok /\ sbB.gen = ctx.gen => sbB.mseq < ctx.mseq
  <2>1. CASE ctx.mounted
    BY <1>1, <2>1 DEF NInv, Ordered, NotBehind
  <2>2. CASE ~ctx.mounted
    <3>1. CurrentGen < ctx.gen
      BY <1>1, <2>2 DEF GInv, Generations
    <3>2. sbB.ok => sbB.gen <= CurrentGen
      BY <1>0 DEF GInv, Generations, CurrentGen
    <3>3. CurrentGen \in Nat
      BY <1>0 DEF CurrentGen
    <3>. QED  BY <1>0, <3>1, <3>2, <3>3
  <2>. QED  BY <2>1, <2>2
<1>5. Numbered'
  BY <1>0, <1>1, <1>2, <1>3 DEF NInv, Numbered
<1>6. NotBehind(sbA)' /\ NotBehind(sbB)'
  BY <1>0, <1>1, <1>2, <1>4 DEF NotBehind
<1>. QED  BY <1>1, <1>2, <1>4, <1>5, <1>6 DEF NInv, Ordered

\* Copy B takes the same.
LEMMA PublishBNumbers ==
  ASSUME GInv, NInv, PublishB, IInv'
  PROVE  NInv'
<1>0. Started \in Nat /\ ctx.mseq \in Nat
  BY NumberTypes DEF GInv
<1>1. /\ pc = "sbB" /\ sbB' = sb_encode(ctx) /\ pc' = "idle" /\ sbA' = sbA
      /\ ctx' = [ctx EXCEPT !.mounted = TRUE] /\ calls' = calls
  BY DEF PublishB, Return
<1>2. sbA = sb_encode(ctx) /\ ctx'.gen = ctx.gen /\ ctx'.mseq = ctx.mseq /\ Started' = Started
  BY <1>1 DEF GInv, IInv, Published, Types, Context, Started
<1>3. sbA.mseq = ctx.mseq /\ ctx.mseq <= 2 * Started
  BY <1>1, <1>2 DEF sb_encode, NInv, Numbered
<1>4. Numbered'
  BY <1>0, <1>1, <1>2, <1>3 DEF NInv, Numbered
<1>. QED  BY <1>0, <1>1, <1>2, <1>3, <1>4 DEF NInv, Ordered, NotBehind

\* A mount is one ahead of the copy it found, which is the newer one.
LEMMA MountNumbers ==
  ASSUME Distinguishable, Orderable, GInv, NInv, Mount, IInv'
  PROVE  NInv'
<1> DEFINE s == IF sbA.ok THEN sbA ELSE sbB
<1>0. /\ sbA.mseq \in Nat /\ sbB.mseq \in Nat /\ Started \in Nat /\ MaxCalls \in Nat
      /\ ctx.mseq \in Nat
  BY NumberTypes DEF GInv
<1>1. /\ sbA' = sbA /\ sbB' = sbB /\ calls' = calls /\ pc = "idle" /\ pc' = "idle"
      /\ ctx' = ctx \/ (s.ok /\ ctx'.gen = s.gen /\ ctx'.mseq = next_session_value(s.mseq))
  <2>1. load_current_superblock(sbA, sbB) = s
    BY CurrentCopy
  <2> HIDE DEF s
  <2>. QED  BY <2>1, MountEffect DEF GInv
<1>2. Started' = Started /\ Started <= MaxCalls
  BY <1>1 DEF Started, NInv, Numbered
<1>3. CASE ctx' = ctx
  BY <1>1, <1>2, <1>3 DEF NInv, Numbered, Ordered, NotBehind
<1>4. CASE s.ok /\ ctx'.gen = s.gen /\ ctx'.mseq = next_session_value(s.mseq)
  <2>1. s.mseq \in Nat /\ s.mseq <= 2 * Started
    BY <1>0, <1>4 DEF NInv, Numbered
  <2>2. \A c \in {sbA, sbB} : c.ok /\ c.gen = s.gen => c.mseq <= s.mseq
    BY <1>0, <1>4 DEF NInv, Ordered
  <2> HIDE DEF s
  <2>3. ctx'.mseq = s.mseq + 1
    <3>1. s.mseq <= 2 * MaxCalls + 1
      BY <1>0, <1>2, <2>1
    <3>. QED  BY <1>4, <2>1, <3>1, NextNumber DEF GInv
  <2>4. Numbered'
    BY <1>0, <1>1, <1>2, <2>1, <2>3 DEF NInv, Numbered
  <2>5. NotBehind(sbA)' /\ NotBehind(sbB)'
    BY <1>0, <1>1, <1>4, <2>1, <2>2, <2>3 DEF NotBehind
  <2>. QED  BY <1>1, <2>4, <2>5 DEF NInv, Ordered
<1>. QED  BY <1>1, <1>3, <1>4

\* A call that failed, or lost its power.
LEMMA FaultNumbers ==
  ASSUME GInv, NInv, Interrupted, calls' = [calls EXCEPT !.faults = @ + 1],
         ctx' = ctx \/ ctx' = Blank, pc' = "idle", IInv'
  PROVE  NInv'
<1>0. /\ sbA.mseq \in Nat /\ sbB.mseq \in Nat /\ Started \in Nat /\ ctx.mseq \in Nat
      /\ calls.faults \in Nat
  BY NumberTypes DEF GInv
<1>1. Started' = Started
  BY <1>0 DEF Started, GInv, IInv, Types
<1>2. sbA' \in {sbA, BadSb} /\ sbB' \in {sbB, BadSb}
  BY InterruptedKeeps DEF GInv
<1>3. ctx.mseq <= 2 * Started + 1
  <2>1. pc \in {"idle", "wrap", "data", "sbA", "sbB"}
    BY DEF GInv, IInv, Types
  <2>2. \/ ctx.mseq <= 2 * Started + 1 \/ ctx.mseq <= 2 * Started - 1 \/ ctx.mseq <= 2 * Started
    BY <2>1 DEF NInv, Numbered
  <2>. QED  BY <1>0, <2>2
<1>4. ctx'.mseq <= 2 * Started + 1
  BY <1>0, <1>3 DEF Blank
<1>5. Numbered'
  BY <1>0, <1>1, <1>2, <1>4 DEF NInv, Numbered, BadSb
<1>6. NotBehind(sbA)' /\ NotBehind(sbB)'
  BY <1>2 DEF NInv, Ordered, NotBehind, BadSb, Blank
<1>. QED  BY <1>1, <1>2, <1>5, <1>6 DEF NInv, Ordered, BadSb

\* Power is lost between two calls.
LEMMA IdleNumbers ==
  ASSUME GInv, NInv, PowerLoss, UNCHANGED <<media, sbA, sbB, calls>>, IInv'
  PROVE  NInv'
<1>0. Started \in Nat /\ calls.faults \in Nat
  BY NumberTypes DEF GInv
<1>1. ctx' = Blank /\ pc' = "idle" /\ Started' = Started
  BY DEF PowerLoss, Return, Started
<1>2. Numbered'
  BY <1>0, <1>1 DEF NInv, Numbered, Blank
<1>. QED  BY <1>0, <1>1, <1>2 DEF NInv, Ordered, NotBehind, Blank

-----------------------------------------------------------------------------
\* Every action keeps the order of the copies.
LEMMA NumbersStep ==
  ASSUME Distinguishable, Orderable, GInv, NInv, [Next]_vars, IInv'
  PROVE  NInv'
<1>1. CASE Format
  BY <1>1, FormatNumbers
<1>2. CASE \E len \in Lens : AppendRecord(len)
  BY <1>2, AppendNumbers
<1>3. CASE WriteCells
  BY <1>3, WriteNumbers
<1>4. CASE WrapWritten
  BY <1>4, WrapNumbers
<1>5. CASE DataWritten
  BY <1>5, DataNumbers
<1>6. CASE PublishA
  BY <1>6, PublishANumbers
<1>7. CASE PublishB
  BY <1>7, PublishBNumbers
<1>8. CASE Mount
  BY <1>8, MountNumbers
<1>9. CASE IoError
  BY <1>9, FaultNumbers DEF IoError, Return
<1>10. CASE PowerLoss
  <2>1. CASE Interrupted /\ calls' = [calls EXCEPT !.faults = @ + 1]
    BY <1>10, <2>1, FaultNumbers DEF PowerLoss, Return
  <2>2. CASE UNCHANGED <<media, sbA, sbB, calls>>
    BY <1>10, <2>2, IdleNumbers
  <2>. QED  BY <1>10, <2>1, <2>2 DEF PowerLoss
<1>11. CASE UNCHANGED vars
  BY <1>11 DEF vars, NInv, Numbered, Ordered, NotBehind, Started
<1>. QED  BY <1>1, <1>2, <1>3, <1>4, <1>5, <1>6, <1>7, <1>8, <1>9, <1>10, <1>11 DEF Next
-----------------------------------------------------------------------------
\* The free cells behind the write pointer are those that are clear.
LEMMA ClearRoom ==
  ASSUME NEW c, InArea(c), NEW t \in Nat, t >= 1, c.wp + t <= Cap, Clear(c.wp, t, c)
  PROVE  t <= Cap - ring_occupied(c)
<1> DEFINE o == ring_occupied(c)
           w == c.wp
           x == c.tail
<1>0. /\ w \in Cursors /\ x \in Cursors /\ w \in Nat /\ x \in Nat /\ w < Cap /\ x < Cap /\ Cap \in Nat
      /\ o \in 0 .. Cap
  BY CapNat, WalkOfWindow DEF InArea, Cursors
<1>1. /\ w = x => o = Cap \/ o = 0
      /\ w > x => o = w - x
      /\ w < x => o = Cap - x + w
  BY WalkOfWindow
<1>2. \A i \in Cursors : i \in w .. w + t - 1 => ~InWindow(i, x, o)
  BY DEF Clear
<1> HIDE DEF o, w, x
<1>3. CASE w = x
  <2>1. o # Cap
    BY <1>0, <1>2, <1>3 DEF InWindow
  <2>. QED  BY <1>0, <1>1, <1>3, <2>1 DEF o, w
<1>4. CASE w > x
  BY <1>0, <1>1, <1>4 DEF o, w
<1>5. CASE w < x
  <2>1. x \notin w .. w + t - 1
    BY <1>0, <1>1, <1>2, <1>5 DEF InWindow
  <2>. QED  BY <1>0, <1>1, <1>5, <2>1 DEF o, w
<1>. QED  BY <1>0, <1>3, <1>4, <1>5

\* And the other way round: where a record fits, its cells are clear.
LEMMA RoomClear ==
  ASSUME NEW c, InArea(c), NEW t \in Nat, c.wp + t <= Cap, t <= Cap - ring_occupied(c)
  PROVE  Clear(c.wp, t, c)
<1> DEFINE o == ring_occupied(c)
           w == c.wp
           x == c.tail
<1>0. /\ w \in Nat /\ x \in Nat /\ w < Cap /\ x < Cap /\ Cap \in Nat /\ o \in 0 .. Cap
      /\ \A i \in Cursors : i \in Nat /\ i < Cap
  BY CapNat, WalkOfWindow DEF InArea, Cursors
<1>1. /\ w = x => o = Cap \/ o = 0
      /\ w > x => o = w - x
      /\ w < x => o = Cap - x + w
  BY WalkOfWindow
<1> SUFFICES ASSUME NEW i \in Cursors, i \in w .. w + t - 1, InWindow(i, x, o) PROVE FALSE
  BY DEF Clear
<1>2. t <= Cap - o /\ w + t <= Cap
  OBVIOUS
<1> HIDE DEF o, w, x
<1>. QED  BY <1>0, <1>1, <1>2 DEF InWindow

\* Where the cells up to the data limit and the first ones of the area are clear, the
\* window lies between, or there is none.
LEMMA ClearOrder ==
  ASSUME NEW c, InArea(c), c.count \in Nat, NEW t \in Nat, t >= 1,
         Clear(c.wp, Cap - c.wp, c), Clear(0, t, c)
  PROVE  /\ c.tail < c.wp \/ (c.tail = c.wp /\ c.count = 0)
         /\ c.tail = 0 => c.wp = 0
         /\ c.tail < c.wp => t <= c.tail
<1> DEFINE o == ring_occupied(c)
           w == c.wp
           x == c.tail
<1>0. /\ w \in Cursors /\ x \in Cursors /\ w \in Nat /\ x \in Nat /\ w < Cap /\ x < Cap /\ Cap \in Nat
      /\ o \in 0 .. Cap
  BY CapNat, WalkOfWindow DEF InArea, Cursors
<1>1. /\ w = x /\ c.count > 0 => o = Cap
      /\ w > x => o = w - x
      /\ w < x => o = Cap - x + w
  BY WalkOfWindow
<1>2. /\ \A i \in Cursors : i \in w .. w + (Cap - w) - 1 => ~InWindow(i, x, o)
      /\ \A i \in Cursors : i \in 0 .. 0 + t - 1 => ~InWindow(i, x, o)
  BY DEF Clear
<1> HIDE DEF o, w, x
<1>3. ~(w < x)
  <2> SUFFICES ASSUME w < x PROVE FALSE
    OBVIOUS
  <2>1. x \in w .. w + (Cap - w) - 1 /\ InWindow(x, x, o)
    BY <1>0, <1>1 DEF InWindow
  <2>. QED  BY <1>0, <1>2, <2>1
<1>4. w = x => c.count = 0
  <2> SUFFICES ASSUME w = x, c.count # 0 PROVE FALSE
    OBVIOUS
  <2>1. w \in w .. w + (Cap - w) - 1 /\ InWindow(w, x, o)
    BY <1>0, <1>1 DEF InWindow
  <2>. QED  BY <1>0, <1>2, <2>1
<1>5. w > x => t <= x
  <2> SUFFICES ASSUME w > x, t > x PROVE FALSE
    BY <1>0
  <2>1. x \in 0 .. 0 + t - 1 /\ InWindow(x, x, o)
    BY <1>0, <1>1 DEF InWindow
  <2>. QED  BY <1>0, <1>2, <2>1
<1>. QED  BY <1>0, <1>3, <1>4, <1>5 DEF w, x
\* An append that goes on at the start of the area, in cells outside the window,
\* takes the records along: no room needs to be made, unless there are none.
LEMMA MovedKept ==
  ASSUME NEW m \in Media, NEW c \in Context, InArea(c), ~EndZone(c.tail), Sound(m, c),
         NEW t \in Nat, t >= 1, Clear(c.wp, Cap - c.wp, c), Clear(0, t, c),
         \/ c.wp = 0
         \/ EndZone(c.wp)
         \/ \E d \in Headers : /\ d.gen = c.gen /\ d.type = "WRAP"
                               /\ c.wp + rec_alloc_bytes(d.len) = Cap
                               /\ Image(m, c.wp, d, Zeros, rec_alloc_bytes(d.len))
  PROVE  LET C == [c EXCEPT !.wp = 0]
         IN  ring_walk(m, C).ok =>
               /\ ring_walk(m, c).ok /\ ring_walk(m, C).recs = ring_walk(m, c).recs
               /\ t <= Cap - ring_occupied(C) \/ ring_walk(m, C).recs = <<>>
<1> DEFINE C == [c EXCEPT !.wp = 0]
<1> SUFFICES ASSUME ring_walk(m, C).ok
             PROVE  /\ ring_walk(m, c).ok /\ ring_walk(m, C).recs = ring_walk(m, c).recs
                    /\ t <= Cap - ring_occupied(C) \/ ring_walk(m, C).recs = <<>>
  OBVIOUS
<1>0. /\ c.wp \in Cursors /\ c.tail \in Cursors /\ c.wp \in Nat /\ c.tail \in Nat /\ c.count \in Nat
      /\ c.gen \in Nat /\ Cap \in Nat /\ 0 \in Cursors
  BY CapNat DEF InArea, Cursors, Context
<1>1. /\ c.tail < c.wp \/ (c.tail = c.wp /\ c.count = 0)
      /\ c.tail = 0 => c.wp = 0
      /\ c.tail < c.wp => t <= c.tail
  BY <1>0, ClearOrder
<1>2. ring_walk(m, c).ok /\ ring_walk(m, C).recs = ring_walk(m, c).recs
  BY <1>1, MovedRecs
<1>3. C.wp = 0 /\ C.tail = c.tail /\ InArea(C)
  BY <1>0 DEF InArea, Context
<1>4. CASE c.tail < c.wp
  <2>1. C.wp < C.tail
    BY <1>0, <1>1, <1>3, <1>4
  <2> HIDE DEF C
  <2>2. ring_occupied(C) = Cap - C.tail + C.wp
    BY <1>3, <2>1, WalkOfWindow
  <2>. QED  BY <1>0, <1>1, <1>2, <1>3, <1>4, <2>2
<1>5. CASE c.tail = c.wp /\ c.count = 0
  <2>1. ring_walk(m, c) = Walk(m, c.gen, c.wp, c.tail, 0)
    BY <1>0, <1>5, WalkOfWindow
  <2>2. ring_walk(m, c).recs = <<>>
    BY <1>0, <2>1, WalkEnds
  <2>. QED  BY <1>2, <2>2
<1>. QED  BY <1>1, <1>4, <1>5

-----------------------------------------------------------------------------
\* The copy that recovery trusts, and the records after the running call.
Current == load_current_superblock(sbA, sbB)
Added == IF req.op = "append" THEN Append(old.live, Candidate) ELSE <<>>

\* How far a call that writes outside the windows has come.  Until it publishes, the
\* durable records are the old ones; from the first copy on, they are the new ones.
\* Its writes lie outside the window of the trusted copy and, while the WRAP record
\* is written, outside that of the context; that of the context holds the live
\* records, and then the new one behind them.
Aside ==
  old.apart =>
    /\ pc \in {"wrap", "data", "sbA"} => Durable = Passed(old.durable)
    /\ pc = "wrap" => /\ Clear(ctx.wp, Cap - ctx.wp, Current) /\ Clear(0, Total, Current)
                      /\ Clear(ctx.wp, Cap - ctx.wp, ctx) /\ Clear(0, Total, ctx)
                      /\ Live.ok => Live.recs = old.live
    /\ pc = "data" => /\ Clear(ctx.wp, Total, Current)
                      /\ Room(media, ctx, Total) => Live.recs = old.live
    /\ pc \in {"sbA", "sbB"} => Live.recs = Added
    /\ pc = "sbB" => Durable = Live /\ req.op \in {"append", "format"}
    /\ pc = "idle" => OldOrNew

\* A window that recovery finds is that of the trusted copy.
LEMMA DurableForm ==
  ASSUME GInv, Durable.ok
  PROVE  /\ Current.ok /\ Current \in Copy /\ InArea(Current)
         /\ Durable = ring_walk(media, Current) /\ Durable = Passed(Durable.recs)
<1>1. Current.ok /\ Durable = ring_walk(media, Current)
  BY DEF Durable, Current, Recover, Failed
<1>2. Current \in Copy /\ InArea(Current)
  <2>1. sbA \in Copy /\ sbB \in Copy
    BY DEF GInv, IInv, Types
  <2>2. Current \in {sbA, sbB}
    BY Trusted DEF Current
  <2>3. ASSUME NEW c \in Copy, c.ok PROVE InArea(c)
    <3>1. c # BadSb
      BY <2>3 DEF BadSb
    <3>. QED  BY <2>3, <3>1 DEF Copy, InArea
  <2>. QED  BY <1>1, <2>1, <2>2, <2>3
<1>3. Durable \in Walks
  <2>1. /\ Durable = Walk(media, Current.gen, Current.wp, Current.tail, ring_occupied(Current))
        /\ ring_occupied(Current) \in Nat /\ Current.wp \in Nat /\ Current.tail \in Nat
    BY <1>1, <1>2, WalkOfWindow DEF InArea, Cursors
  <2>2. media \in Media
    BY DEF GInv, IInv, Types
  <2>. QED  BY <2>1, <2>2, WalkTyped
<1>. QED  BY <1>1, <1>2, <1>3 DEF Walks, Passed

\* What a call starts from, and what it writes to outside the windows.
LEMMA Beginning ==
  ASSUME GInv, NEW touched, Begin(touched)
  PROVE  /\ pc = "idle" /\ old'.next = ctx.next
         /\ ctx.mounted => old'.live = Live.recs
         /\ old'.apart =>
              /\ Durable = Passed(old'.durable) /\ Durable.ok /\ InArea(Current)
              /\ \A i \in Cursors : i \in touched =>
                   /\ ~InWindow(i, Current.tail, ring_occupied(Current))
                   /\ ~InWindow(i, ctx.tail, ring_occupied(ctx))
<1>1. /\ pc = "idle" /\ old'.next = ctx.next /\ old'.durable = Durable.recs
      /\ ctx.mounted => old'.live = Live.recs
      /\ old'.apart => /\ Durable.ok /\ touched \cap window(Current) = {}
                       /\ touched \cap window(ctx) = {}
  BY DEF Begin, Current
<1>2. InArea(ctx)
  BY DEF GInv, IInv, Types
<1>3. CASE Durable.ok
  <2>1. InArea(Current) /\ Durable = Passed(Durable.recs)
    BY <1>3, DurableForm
  <2>2. ASSUME old'.apart, NEW i \in Cursors, i \in touched
        PROVE  /\ ~InWindow(i, Current.tail, ring_occupied(Current))
               /\ ~InWindow(i, ctx.tail, ring_occupied(ctx))
    BY <1>1, <1>2, <2>1, <2>2, WindowCells
  <2>. QED  BY <1>1, <1>3, <2>1, <2>2
<1>4. CASE ~Durable.ok
  BY <1>1, <1>4
<1>. QED  BY <1>3, <1>4

-----------------------------------------------------------------------------
\* A call that returns with the old records on the media.
LEMMA BackToOld ==
  ASSUME pc' = "idle", old'.apart => Durable' = Passed(old'.durable)
  PROVE  Aside'
BY DEF Aside, OldOrNew, Passed

\* The middle of an append: the record takes free cells, and the tail stays.
LEMMA PlaceAside ==
  ASSUME media \in Media,
         NEW c \in Context, InArea(c), ~EndZone(c.tail), ~EndZone(c.wp), Sound(media, c),
         c.count * Overhead <= Cap, NEW len \in Nat, NEW v, Place(c, len, v, c.wp),
         old'.apart =>
           /\ Durable = Passed(old'.durable) /\ Clear(c.wp, rec_alloc_bytes(len), Current)
           /\ ring_walk(media, c).ok /\ c.wp + rec_alloc_bytes(len) <= Cap =>
                /\ ring_walk(media, c).recs = old'.live
                /\ \/ rec_alloc_bytes(len) <= Cap - ring_occupied(c)
                   \/ ring_walk(media, c).recs = <<>>
  PROVE  Aside'
<1> DEFINE t == rec_alloc_bytes(len)
           r == make_room(media, c, t)
<1>1. /\ media' = media /\ sbA' = sbA /\ sbB' = sbB /\ ctx' = r.c /\ req'.len = len
      /\ pc' = "idle" \/ (pc' = "data" /\ r.ok /\ Cap - c.wp >= t)
  BY DEF Place, StartWriting, Return
<1>2. Durable' = Durable /\ Current' = Current
  BY <1>1 DEF Durable, Recover, Current
<1>3. CASE pc' = "idle"
  BY <1>2, <1>3, BackToOld
<1>4. CASE pc' = "data" /\ r.ok /\ Cap - c.wp >= t
  <2> SUFFICES ASSUME old'.apart
               PROVE  /\ Durable' = Passed(old'.durable) /\ Clear(ctx.wp, Total, Current)'
                      /\ Live'.recs = old'.live
    BY <1>4 DEF Aside
  <2>1. t \in Nat /\ c.wp \in Nat /\ Cap \in Nat
    BY AllocNat, CapNat DEF Context
  <2>2. r.c.wp = c.wp
    BY Placing
  <2>3. ring_walk(media, c).ok => Agrees(ring_walk(media, c).recs, c.next)
    BY SoundAgrees
  <2>4. ring_walk(media, c).ok
    BY <1>4, <2>1, <2>3, MakingRoom
  <2>5. c.wp + t <= Cap
    BY <1>4, <2>1
  <2>6. /\ ring_walk(media, c).recs = old'.live
        /\ t <= Cap - ring_occupied(c) \/ ring_walk(media, c).recs = <<>>
    BY <2>4, <2>5
  <2>7. ring_walk(media, r.c).recs = ring_walk(media, c).recs
    BY <1>4, <2>1, <2>3, <2>6, RecsKept
  <2>8. Live' = ring_walk(media, r.c)
    BY <1>1 DEF Live
  <2>9. Clear(ctx.wp, Total, Current)'
    <3>1. ctx'.wp = c.wp /\ Total' = t
      BY <1>1, <2>2 DEF Total
    <3>. QED  BY <1>2, <3>1 DEF Clear
  <2>. QED  BY <1>2, <2>6, <2>7, <2>8, <2>9
<1>. QED  BY <1>1, <1>3, <1>4

-----------------------------------------------------------------------------
\* nvlog_ring_format: nothing is live in the context it has set up.
LEMMA FormatAside ==
  ASSUME GInv, Format, IInv'
  PROVE  Aside'
<1>1. /\ Begin({}) /\ media' = media /\ sbA' = sbA /\ sbB' = sbB /\ pc' = "sbA" /\ req'.op = "format"
      /\ ctx'.wp = 0 /\ ctx'.tail = 0 /\ ctx'.count = 0
  BY DEF Format, Blank
<1>2. old'.apart => Durable = Passed(old'.durable)
  BY <1>1, Beginning
<1>3. Durable' = Durable
  BY <1>1 DEF Durable, Recover
<1>4. Live'.recs = <<>>
  <2>1. media \in Media
    BY DEF GInv, IInv, Types
  <2>2. ring_walk(media, ctx') = Passed(<<>>)
    BY <1>1, <2>1, EmptyWindow
  <2>. QED  BY <1>1, <2>2 DEF Live, Passed
<1>5. Added' = <<>>
  BY <1>1 DEF Added
<1>. QED  BY <1>1, <1>2, <1>3, <1>4, <1>5 DEF Aside

\* nvlog_append up to its first write.
LEMMA AppendAside ==
  ASSUME GInv, NEW len \in Lens, AppendRecord(len), IInv'
  PROVE  Aside'
<1> DEFINE v == calls.appends + 1
           t == rec_alloc_bytes(len)
           gap == Cap - ctx.wp
           fits == gap >= t
           touched == IF fits THEN ctx.wp .. ctx.wp + t - 1 ELSE 0 .. t - 1 \cup ctx.wp .. Cap - 1
<1>0. /\ media \in Media /\ ctx \in Context /\ InArea(ctx) /\ ~EndZone(ctx.tail) /\ Sound(media, ctx)
      /\ ctx.count * Overhead <= Cap /\ ctx.wp \in Nat /\ ctx.wp < Cap /\ ctx.count \in Nat
  <2>1. /\ media \in Media /\ ctx \in Context /\ InArea(ctx) /\ ~EndZone(ctx.tail) /\ Sound(media, ctx)
        /\ ctx.count * Overhead <= Cap
    BY DEF GInv, IInv, Types, Tails
  <2>2. ctx.wp \in Cursors /\ ctx.count \in Nat
    BY <2>1 DEF InArea, Context
  <2>. QED  BY <2>1, <2>2, CapNat DEF Cursors
<1>1. /\ ctx.mounted /\ Begin(touched)
      /\ \/ fits /\ Place(ctx, len, v, ctx.wp)
         \/ ~fits /\ gap < Overhead /\ Place([ctx EXCEPT !.wp = 0], len, v, 0)
         \/ /\ ~fits /\ gap >= Overhead /\ pc' = "wrap"
            /\ req' = [op |-> "append", len |-> len, v |-> v, base |-> 0]
            /\ UNCHANGED <<media, sbA, sbB, ctx, status>>
  BY DEF AppendRecord
<1>2. len \in Nat /\ t \in Nat /\ t >= Overhead /\ t >= 1 /\ Overhead \in Nat /\ Cap \in Nat
  BY RingAssumption, AllocNat, CapNat
<1>3. old'.apart =>
        /\ Durable = Passed(old'.durable) /\ Durable.ok /\ InArea(Current) /\ old'.live = Live.recs
        /\ \A i \in Cursors : i \in touched =>
             /\ ~InWindow(i, Current.tail, ring_occupied(Current))
             /\ ~InWindow(i, ctx.tail, ring_occupied(ctx))
  BY <1>1, Beginning
<1>4. CASE fits /\ Place(ctx, len, v, ctx.wp)
  <2>1. old'.apart => Clear(ctx.wp, t, Current) /\ Clear(ctx.wp, t, ctx)
    BY <1>3, <1>4 DEF Clear
  <2>2. old'.apart => t <= Cap - ring_occupied(ctx)
    BY <1>0, <1>2, <1>4, <2>1, ClearRoom
  <2>3. ~EndZone(ctx.wp)
    BY <1>0, <1>2, <1>4 DEF EndZone
  <2> HIDE DEF v, fits, touched
  <2>4. old'.apart =>
          /\ Durable = Passed(old'.durable) /\ Clear(ctx.wp, rec_alloc_bytes(len), Current)
          /\ ring_walk(media, ctx).ok /\ ctx.wp + rec_alloc_bytes(len) <= Cap =>
               /\ ring_walk(media, ctx).recs = old'.live
               /\ \/ rec_alloc_bytes(len) <= Cap - ring_occupied(ctx)
                  \/ ring_walk(media, ctx).recs = <<>>
    BY <1>3, <2>1, <2>2 DEF Live
  <2> HIDE DEF t
  <2>. QED  BY <1>0, <1>2, <1>4, <2>3, <2>4, PlaceAside
<1>5. old'.apart /\ ~fits =>
        /\ Clear(ctx.wp, Cap - ctx.wp, Current) /\ Clear(0, t, Current)
        /\ Clear(ctx.wp, Cap - ctx.wp, ctx) /\ Clear(0, t, ctx)
  BY <1>0, <1>2, <1>3 DEF Clear
<1>6. CASE ~fits /\ gap < Overhead /\ Place([ctx EXCEPT !.wp = 0], len, v, 0)
  <2> DEFINE C == [ctx EXCEPT !.wp = 0]
  <2>1. ctx.wp = 0 \/ EndZone(ctx.wp)
    BY <1>6 DEF EndZone
  <2>2. /\ C \in Context /\ InArea(C) /\ ~EndZone(C.tail) /\ ~EndZone(C.wp) /\ Sound(media, C)
        /\ C.count = ctx.count /\ C.wp = 0
    BY <1>0, <2>1, MovedWp
  <2>3. old'.apart /\ ring_walk(media, C).ok =>
          /\ ring_walk(media, C).recs = ring_walk(media, ctx).recs
          /\ t <= Cap - ring_occupied(C) \/ ring_walk(media, C).recs = <<>>
    BY <1>0, <1>2, <1>5, <1>6, <2>1, MovedKept
  <2>4. Place(C, len, v, C.wp)
    BY <1>6, <2>2
  <2>5. old'.apart =>
          /\ Durable = Passed(old'.durable) /\ Clear(C.wp, rec_alloc_bytes(len), Current)
          /\ ring_walk(media, C).ok /\ C.wp + rec_alloc_bytes(len) <= Cap =>
               /\ ring_walk(media, C).recs = old'.live
               /\ \/ rec_alloc_bytes(len) <= Cap - ring_occupied(C)
                  \/ ring_walk(media, C).recs = <<>>
    <3> HIDE DEF C
    <3>. QED  BY <1>3, <1>5, <1>6, <2>2, <2>3 DEF Live
  <2> HIDE DEF v, t, C, fits, touched
  <2>. QED  BY <1>0, <1>2, <2>2, <2>4, <2>5, PlaceAside
<1>7. CASE /\ ~fits /\ gap >= Overhead /\ pc' = "wrap"
           /\ req' = [op |-> "append", len |-> len, v |-> v, base |-> 0]
           /\ UNCHANGED <<media, sbA, sbB, ctx, status>>
  <2>1. Durable' = Durable /\ Current' = Current /\ Live' = Live /\ Total' = t /\ ctx' = ctx
    BY <1>7 DEF Durable, Recover, Current, Live, Total
  <2>2. old'.apart /\ ~fits =>
          /\ Clear(ctx.wp, Cap - ctx.wp, Current)' /\ Clear(0, Total, Current)'
          /\ Clear(ctx.wp, Cap - ctx.wp, ctx)' /\ Clear(0, Total, ctx)'
    BY <1>5, <2>1 DEF Clear
  <2>. QED  BY <1>3, <1>7, <2>1, <2>2 DEF Aside
<1>. QED  BY <1>1, <1>4, <1>6, <1>7

-----------------------------------------------------------------------------
\* What a write of the running call, whole or in part, leaves of the windows.
LEMMA WritingAside ==
  ASSUME GInv, Aside, old.apart, todo # <<>>, NEW k \in 0 .. Len(Head(todo).cells)
  PROVE  LET m2 == Put(media, Head(todo), k)
         IN  /\ Recover(m2, Current) = Durable /\ Durable = Passed(old.durable)
             /\ pc = "wrap" /\ ring_walk(m2, ctx).ok => ring_walk(m2, ctx).recs = old.live
             /\ pc = "data" /\ Room(m2, ctx, Total) => ring_walk(m2, ctx).recs = old.live
<1> DEFINE m2 == Put(media, Head(todo), k)
<1>0. /\ Types /\ media \in Media /\ ctx \in Context /\ InArea(ctx) /\ pc \in {"wrap", "data"}
      /\ ctx.wp \in Nat
  BY DEF GInv, IInv, Types, Context
<1>1. Durable = Passed(old.durable)
  BY <1>0 DEF Aside
<1>2. Current.ok /\ InArea(Current) /\ Durable = ring_walk(media, Current) /\ Durable.ok
  <2>1. Durable.ok
    BY <1>1 DEF Passed
  <2>. QED  BY <2>1, DurableForm
<1>3. ASSUME NEW d \in Headers, NEW v \in Nat, Written(media, m2, ctx.wp, d, v), m2 \in Media,
             Clear(ctx.wp, rec_alloc_bytes(d.len), Current)
      PROVE  Recover(m2, Current) = Durable
  <2> HIDE DEF m2
  <2>1. ring_walk(m2, Current) = ring_walk(media, Current)
    BY <1>0, <1>2, <1>3, ClearKept
  <2>. QED  BY <1>2, <2>1 DEF Recover
<1>4. CASE pc = "data"
  <2> DEFINE d == DataHeader
  <2>1. /\ d \in Headers /\ req.v \in Nat /\ rec_alloc_bytes(d.len) = Total /\ Total \in Nat
        /\ ctx.wp + rec_alloc_bytes(d.len) <= Cap /\ Progress(media, ctx.wp, d, req.v, todo)
    BY <1>0, <1>4, HeadersTyped DEF GInv, IInv, Placed, Total
  <2> HIDE DEF d
  <2>2. m2 \in Media /\ Written(media, m2, ctx.wp, d, req.v)
    BY <1>0, <2>1, WriteEffect
  <2>3. Clear(ctx.wp, Total, Current) /\ (Room(media, ctx, Total) => Live.recs = old.live)
    BY <1>4 DEF Aside
  <2>4. Recover(m2, Current) = Durable
    BY <1>3, <2>1, <2>2, <2>3
  <2> HIDE DEF m2
  <2>5. ASSUME Room(m2, ctx, Total) PROVE ring_walk(m2, ctx).recs = old.live
    <3>1. Clear(ctx.wp, Total, ctx)
      BY <1>0, <2>1, <2>5, RoomClear DEF Room
    <3>2. ring_walk(m2, ctx) = ring_walk(media, ctx)
      BY <1>0, <2>1, <2>2, <2>5, <3>1, ClearKept DEF Room
    <3>. QED  BY <2>3, <2>5, <3>2 DEF Room, Live
  <2>. QED  BY <1>1, <1>4, <2>4, <2>5 DEF m2
<1>5. CASE pc = "wrap"
  <2> DEFINE d == WrapHeader
  <2>1. /\ d \in Headers /\ Zeros \in Nat /\ ctx.wp + rec_alloc_bytes(d.len) = Cap
        /\ ctx.wp + rec_alloc_bytes(d.len) <= Cap /\ Progress(media, ctx.wp, d, Zeros, todo)
    BY <1>0, <1>5, HeadersTyped, CapNat DEF GInv, IInv, Wrapping, Zeros
  <2> HIDE DEF d
  <2>2. m2 \in Media /\ Written(media, m2, ctx.wp, d, Zeros)
    BY <1>0, <2>1, WriteEffect
  <2>3. /\ Clear(ctx.wp, Cap - ctx.wp, Current) /\ Clear(ctx.wp, Cap - ctx.wp, ctx)
        /\ Live.ok => Live.recs = old.live
    BY <1>5 DEF Aside
  <2>4. Cap - ctx.wp = rec_alloc_bytes(d.len)
    <3>1. rec_alloc_bytes(d.len) \in Nat
      BY <2>1, AllocNat DEF Headers
    <3>. QED  BY <1>0, <2>1, <3>1
  <2>5. Recover(m2, Current) = Durable
    BY <1>3, <2>1, <2>2, <2>3, <2>4
  <2> HIDE DEF m2
  <2>6. ASSUME ring_walk(m2, ctx).ok PROVE ring_walk(m2, ctx).recs = old.live
    <3>1. ring_walk(m2, ctx) = ring_walk(media, ctx)
      BY <1>0, <2>1, <2>2, <2>3, <2>4, <2>6, ClearKept
    <3>. QED  BY <2>3, <2>6, <3>1 DEF Live
  <2>. QED  BY <1>1, <1>5, <2>5, <2>6 DEF m2
<1>. QED  BY <1>0, <1>4, <1>5

\* One write of the record under way.
LEMMA WriteAside ==
  ASSUME GInv, Aside, WriteCells, IInv'
  PROVE  Aside'
<1> DEFINE n == Len(Head(todo).cells)
           m2 == Put(media, Head(todo), n)
<1>1. /\ todo # <<>> /\ media' = m2 /\ sbA' = sbA /\ sbB' = sbB /\ ctx' = ctx /\ pc' = pc /\ req' = req
      /\ old' = old /\ pc \in {"wrap", "data"}
  BY DEF WriteCells, GInv, IInv, Types
<1> SUFFICES ASSUME old.apart PROVE Aside'
  BY <1>1 DEF Aside
<1>2. n \in 0 .. n
  <2>1. n \in Nat
    <3>1. /\ pc = "data" => Progress(media, ctx.wp, DataHeader, req.v, todo)
          /\ pc = "wrap" => Progress(media, ctx.wp, WrapHeader, Zeros, todo) /\ Cap - ctx.wp >= Overhead
      BY DEF GInv, IInv, Placed, Wrapping
    <3>2. /\ DataHeader \in Headers /\ req.v \in Nat /\ ctx.wp \in Nat /\ Zeros \in Nat
          /\ Cap - ctx.wp >= Overhead => WrapHeader \in Headers
      BY HeadersTyped DEF GInv, IInv, Zeros
    <3>. QED  BY <1>1, <3>1, <3>2, HeadCells
  <2> HIDE DEF n
  <2>. QED  BY <2>1
<1>3. /\ Recover(m2, Current) = Durable /\ Durable = Passed(old.durable)
      /\ pc = "wrap" /\ ring_walk(m2, ctx).ok => ring_walk(m2, ctx).recs = old.live
      /\ pc = "data" /\ Room(m2, ctx, Total) => ring_walk(m2, ctx).recs = old.live
  BY <1>1, <1>2, WritingAside
<1> HIDE DEF m2
<1>4. /\ Current' = Current /\ Total' = Total /\ Live' = ring_walk(m2, ctx)
      /\ Durable' = Recover(m2, Current)
  BY <1>1 DEF Current, Total, Live, Durable
<1>5. Room(media, ctx, Total)' <=> Room(m2, ctx, Total)
  BY <1>1, <1>4 DEF Room
<1>6. pc = "wrap" =>
        /\ Clear(ctx.wp, Cap - ctx.wp, Current)' /\ Clear(0, Total, Current)'
        /\ Clear(ctx.wp, Cap - ctx.wp, ctx)' /\ Clear(0, Total, ctx)'
  BY <1>1, <1>4 DEF Aside, Clear
<1>7. pc = "data" => Clear(ctx.wp, Total, Current)'
  BY <1>1, <1>4 DEF Aside, Clear
<1>. QED  BY <1>1, <1>3, <1>4, <1>5, <1>6, <1>7 DEF Aside

\* The WRAP record is complete.
LEMMA WrapAside ==
  ASSUME GInv, Aside, WrapWritten, IInv'
  PROVE  Aside'
<1> DEFINE C == [ctx EXCEPT !.wp = 0]
           d == WrapHeader
<1>0. /\ Types /\ media \in Media /\ ctx \in Context /\ InArea(ctx) /\ ~EndZone(ctx.tail)
      /\ Sound(media, ctx) /\ ctx.count * Overhead <= Cap /\ ctx.wp \in Nat /\ req.len \in Nat
  BY DEF GInv, IInv, Types, Tails, Context
<1>1. pc = "wrap" /\ todo = <<>> /\ old' = old /\ Place(C, req.len, req.v, 0)
  BY DEF WrapWritten
<1>2. Cap - ctx.wp >= Overhead /\ Progress(media, ctx.wp, d, Zeros, <<>>)
  BY <1>1 DEF GInv, IInv, Wrapping
<1>3. d \in Headers /\ d.type = "WRAP" /\ d.gen = ctx.gen /\ ctx.wp + rec_alloc_bytes(d.len) = Cap
  BY <1>0, <1>2, HeadersTyped
<1> HIDE DEF d
<1>4. Image(media, ctx.wp, d, Zeros, rec_alloc_bytes(d.len))
  BY <1>0, <1>2, <1>3, ProgressEnds
<1>5. /\ C \in Context /\ InArea(C) /\ ~EndZone(C.tail) /\ ~EndZone(C.wp) /\ Sound(media, C)
      /\ C.count = ctx.count /\ C.wp = 0
  BY <1>0, <1>3, <1>4, MovedWp
<1>6. Total \in Nat /\ Total >= 1 /\ Total = rec_alloc_bytes(req.len)
  BY <1>0, AllocNat DEF Total
<1>7. old.apart =>
        /\ Durable = Passed(old.durable) /\ Clear(0, Total, Current)
        /\ Clear(ctx.wp, Cap - ctx.wp, ctx) /\ Clear(0, Total, ctx)
        /\ ring_walk(media, ctx).ok => ring_walk(media, ctx).recs = old.live
  BY <1>1 DEF Aside, Live
<1>8. old.apart /\ ring_walk(media, C).ok =>
        /\ ring_walk(media, ctx).ok /\ ring_walk(media, C).recs = ring_walk(media, ctx).recs
        /\ Total <= Cap - ring_occupied(C) \/ ring_walk(media, C).recs = <<>>
  BY <1>0, <1>3, <1>4, <1>6, <1>7, MovedKept
<1>9. Place(C, req.len, req.v, C.wp)
  BY <1>1, <1>5
<1> HIDE DEF C
<1>10. old'.apart =>
         /\ Durable = Passed(old'.durable) /\ Clear(C.wp, rec_alloc_bytes(req.len), Current)
         /\ ring_walk(media, C).ok /\ C.wp + rec_alloc_bytes(req.len) <= Cap =>
              /\ ring_walk(media, C).recs = old'.live
              /\ \/ rec_alloc_bytes(req.len) <= Cap - ring_occupied(C)
                 \/ ring_walk(media, C).recs = <<>>
  BY <1>1, <1>5, <1>6, <1>7, <1>8
<1>11. C.count * Overhead <= Cap
  BY <1>0, <1>5
<1>. QED  BY <1>0, <1>5, <1>9, <1>10, <1>11, PlaceAside

\* The window of a context that is to be published holds the new record behind
\* those it held.
LEMMA DataGrew ==
  ASSUME IInv, DataWritten, pc' = "sbA"
  PROVE  /\ Room(media, ctx, Total) /\ Live.recs \in Seq(Entries)
         /\ Live'.recs = Append(Live.recs, Candidate)
<1> DEFINE d == DataHeader
           t == Total
           C == Appended(ctx, t)
           w == ring_validate_window(media, C)
           R == ring_walk(media, ctx).recs
           e == [seq |-> ctx.next, v |-> req.v]
<1>0. /\ Types /\ Tails /\ media \in Media /\ ctx \in Context /\ InArea(ctx)
      /\ ~EndZone(ctx.tail) /\ ctx.next \in Nat /\ req.v \in Nat /\ ctx.wp \in Nat
  BY DEF IInv, Types, Tails, Context
<1>1. pc = "data" /\ todo = <<>> /\ media' = media
  BY DEF DataWritten
<1>2. /\ ctx.wp = req.base /\ ctx.wp + t <= Cap /\ ctx.next = old.next
      /\ Progress(media, ctx.wp, d, req.v, <<>>)
      /\ Room(media, ctx, t) \/ Overlap(ctx, t)
  BY <1>1 DEF IInv, Placed
<1>3. ctx' = w.c /\ w.ok
  BY <1>2, Zenon DEF DataWritten, Return, Appended, Total
<1>4. /\ d \in Headers /\ d.type = "DATA" /\ d.seq = ctx.next /\ d.gen = ctx.gen
      /\ rec_alloc_bytes(d.len) = t /\ t \in Nat
  BY <1>0, HeadersTyped DEF Total
<1> HIDE DEF d
<1>5. Image(media, ctx.wp, d, req.v, t)
  BY <1>0, <1>2, <1>4, ProgressEnds
<1>6. C \in Context /\ C = Appended(ctx, rec_alloc_bytes(d.len))
  BY <1>0, <1>2, <1>4, AppendedTyped
<1>7. ring_walk(media, C).ok
  <2> HIDE DEF C
  <2>. QED  BY <1>0, <1>3, <1>6, Validating
<1>8. Room(media, ctx, t)
  <2>1. CASE Overlap(ctx, t)
    <3>1. LET D == Appended(ctx, rec_alloc_bytes(d.len)) IN ~ring_walk(media, D).ok
      BY <1>0, <1>2, <1>4, <1>5, <2>1, DataLost DEF Overlap
    <3>. QED  BY <1>6, <1>7, <3>1
  <2>. QED  BY <1>2, <2>1
<1>9. ring_walk(media, C) = Passed(R \o <<e>>)
  <2>1. ring_walk(media, Appended(ctx, rec_alloc_bytes(d.len))) = Passed(R \o <<e>>)
    BY <1>0, <1>2, <1>4, <1>5, <1>8, DataDone DEF Room
  <2>. QED  BY <1>6, <2>1
<1>10. R \in Seq(Entries) /\ e \in Entries
  BY <1>0, <1>8, RecordsFit DEF Room, Entries
<1>11. ring_walk(media, w.c) = ring_walk(media, C)
  <2> HIDE DEF C
  <2>. QED  BY <1>0, <1>6, <1>7, Validating
<1>12. Live'.recs = R \o <<e>>
  <2> HIDE DEF w, C, R, e
  <2>. QED  BY <1>1, <1>3, <1>9, <1>11 DEF Live, Passed
<1>13. R \o <<e>> = Append(R, e)
  <2> HIDE DEF R, e
  <2>. QED  BY <1>10
<1>14. Candidate = e
  BY <1>2 DEF Candidate
<1>. QED  BY <1>8, <1>10, <1>12, <1>13, <1>14 DEF Live

\* The record is complete: the context is one record ahead of the media.
LEMMA DataAside ==
  ASSUME GInv, Aside, DataWritten, IInv'
  PROVE  Aside'
<1>1. /\ pc = "data" /\ req.op = "append" /\ media' = media /\ sbA' = sbA /\ sbB' = sbB /\ req' = req
      /\ old' = old /\ pc' \in {"sbA", "idle"}
  BY DataEffect DEF GInv
<1>2. Durable' = Durable
  BY <1>1 DEF Durable, Recover
<1>3. old'.apart => Durable' = Passed(old'.durable)
  BY <1>1, <1>2 DEF Aside
<1>4. CASE pc' = "idle"
  BY <1>3, <1>4, BackToOld
<1>5. CASE pc' = "sbA"
  <2>1. Room(media, ctx, Total) /\ Live'.recs = Append(Live.recs, Candidate)
    BY <1>5, DataGrew DEF GInv
  <2>2. old.apart => Live'.recs = Append(old.live, Candidate)
    BY <1>1, <2>1 DEF Aside
  <2>3. Added' = Append(old.live, Candidate)
    BY <1>1 DEF Added, Candidate
  <2>. QED  BY <1>1, <1>3, <1>5, <2>2, <2>3 DEF Aside
<1>. QED  BY <1>1, <1>4, <1>5

-----------------------------------------------------------------------------
\* Copy A is the one recovery trusts, if it can be read.
LEMMA CurrentIs ==
  Distinguishable /\ Orderable /\ GInv /\ NInv => Current = IF sbA.ok THEN sbA ELSE sbB
BY CurrentCopy DEF Current

\* The same, primed.
LEMMA CurrentNext ==
  (Distinguishable /\ Orderable /\ GInv /\ NInv => Current = IF sbA.ok THEN sbA ELSE sbB)'
BY CurrentIs, PTL

\* A copy that the context was written to describes its window.
LEMMA CopyOfContext ==
  ASSUME NEW c \in Context, InArea(c), NEW m
  PROVE  Recover(m, sb_encode(c)) = ring_walk(m, c)
<1> DEFINE s == sb_encode(c)
<1>1. s.ok /\ s.wp = c.wp /\ s.tail = c.tail /\ s.gen = c.gen /\ s.count = c.count
  BY EncodedCopy
<1> HIDE DEF s
<1>2. ring_walk(m, s) = ring_walk(m, c)
  BY <1>1, SameWindow
<1>. QED  BY <1>1, <1>2 DEF Recover, s

\* Copy A is written: a mount finds the records of the context.
LEMMA PublishAAside ==
  ASSUME Distinguishable, Orderable, GInv, NInv, Aside, PublishA, GInv', NInv'
  PROVE  Aside'
<1>1. /\ pc = "sbA" /\ sbA' = sb_encode(ctx) /\ pc' = "sbB" /\ media' = media
      /\ ctx' = ctx /\ req' = req /\ old' = old
  BY DEF PublishA
<1>2. ctx \in Context /\ InArea(ctx)
  BY DEF GInv, IInv, Types
<1>3. sbA'.ok
  BY <1>1, <1>2, EncodedCopy
<1>4. Current' = sb_encode(ctx)
  BY <1>1, <1>3, CurrentNext
<1>5. Durable' = Live' /\ Live' = Live
  <2>1. Durable' = Recover(media', Current')
    BY DEF Durable, Current
  <2>. QED  BY <1>1, <1>2, <1>4, <2>1, CopyOfContext DEF Live
<1>6. Added' = Added /\ req.op \in {"append", "format"}
  BY <1>1 DEF Added, Candidate, GInv, Generations
<1>. QED  BY <1>1, <1>5, <1>6 DEF Aside

\* Copy B says the same.
LEMMA PublishBAside ==
  ASSUME GInv, Aside, PublishB, IInv'
  PROVE  Aside'
<1>1. /\ pc = "sbB" /\ sbB' = sb_encode(ctx) /\ pc' = "idle" /\ sbA' = sbA /\ media' = media
      /\ req' = req /\ old' = old
  BY DEF PublishB, Return
<1>2. ctx \in Context /\ InArea(ctx) /\ sbA = sb_encode(ctx) /\ Live.ok
  BY <1>1 DEF GInv, IInv, Types, Published
<1>3. Durable' = Live
  <2>1. load_current_superblock(sbA, sbB)' = sb_encode(ctx)
    BY <1>1, <1>2, Trusted
  <2>. QED  BY <1>1, <1>2, <2>1, CopyOfContext DEF Durable, Live
<1>4. old.apart => Live.recs = Added /\ req.op \in {"append", "format"}
  BY <1>1 DEF Aside
<1>5. OldOrNew'
  BY <1>1, <1>2, <1>3, <1>4 DEF OldOrNew, Added, Candidate
<1>. QED  BY <1>1, <1>5 DEF Aside

\* nvlog_ring_mount leaves the media as they are.
LEMMA MountAside ==
  ASSUME GInv, Mount, IInv'
  PROVE  Aside'
<1>1. Begin({}) /\ media' = media /\ sbA' = sbA /\ sbB' = sbB /\ pc' = "idle"
  BY DEF Mount, Return
<1>2. Durable' = Durable
  BY <1>1 DEF Durable, Recover
<1>3. old'.apart => Durable = Passed(old'.durable)
  BY <1>1, Beginning
<1>. QED  BY <1>1, <1>2, <1>3, BackToOld

\* Copy B is copy A after a call that returned NVLOG_OK, and if it backs a call it
\* is the trusted copy until that call publishes.
Backed ==
  /\ pc = "idle" /\ status = "OK" /\ req.op # "mount" => sbA = sbB
  /\ old.backed /\ pc \in {"wrap", "data", "sbA"} => sbB = Current

\* A call that begins finds out whether copy B backs it.
LEMMA BackedBegins ==
  ASSUME Backed, NEW touched, Begin(touched), sbA' = sbA, sbB' = sbB
  PROVE  old'.backed => sbB' = Current'
<1>1. pc = "idle" /\ (old'.backed => sbB = Current \/ (status = "OK" /\ req.op # "mount"))
  BY DEF Begin, Current
<1>2. sbA = sbB => sbB = Current
  BY Trusted DEF Current
<1>3. Current' = Current
  BY DEF Current
<1>. QED  BY <1>1, <1>2, <1>3 DEF Backed

\* Every action keeps that.
LEMMA BackedStep ==
  ASSUME IInv, Backed, [Next]_vars
  PROVE  Backed'
<1>1. CASE Format
  <2>1. Begin({}) /\ sbA' = sbA /\ sbB' = sbB /\ pc' = "sbA"
    BY <1>1 DEF Format
  <2>. QED  BY <2>1, BackedBegins DEF Backed
<1>2. ASSUME NEW len \in Lens, AppendRecord(len) PROVE Backed'
  <2>1. \E touched : Begin(touched)
    BY <1>2 DEF AppendRecord
  <2>2. sbA' = sbA /\ sbB' = sbB /\ (pc' = "idle" => status' # "OK")
    BY <1>2 DEF AppendRecord, Place, StartWriting, Return
  <2>. QED  BY <2>1, <2>2, BackedBegins DEF Backed
<1>3. CASE WriteCells
  BY <1>3 DEF WriteCells, Backed, Current, IInv, Types
<1>4. CASE WrapWritten
  <2>1. /\ pc = "wrap" /\ sbA' = sbA /\ sbB' = sbB /\ old' = old
        /\ pc' = "idle" => status' # "OK"
    BY <1>4 DEF WrapWritten, Place, StartWriting, Return
  <2>. QED  BY <2>1 DEF Backed, Current
<1>5. CASE DataWritten
  <2>1. /\ pc = "data" /\ sbA' = sbA /\ sbB' = sbB /\ old' = old
        /\ pc' = "idle" => status' # "OK"
    BY <1>5 DEF DataWritten, Return
  <2>. QED  BY <2>1 DEF Backed, Current
<1>6. CASE PublishA
  BY <1>6 DEF PublishA, Backed
<1>7. CASE PublishB
  <2>1. sbB' = sb_encode(ctx) /\ sbA' = sbA /\ pc' = "idle" /\ sbA = sb_encode(ctx)
    BY <1>7 DEF PublishB, Return, IInv, Published
  <2>. QED  BY <2>1 DEF Backed
<1>8. CASE Mount
  BY <1>8 DEF Mount, Return, Backed
<1>9. CASE IoError
  BY <1>9 DEF IoError, Return, Backed
<1>10. CASE PowerLoss
  BY <1>10 DEF PowerLoss, Return, Backed
<1>11. CASE UNCHANGED vars
  BY <1>11 DEF vars, Backed, Current
<1>. QED  BY <1>1, <1>2, <1>3, <1>4, <1>5, <1>6, <1>7, <1>8, <1>9, <1>10, <1>11 DEF Next

\* What an interrupted write leaves of the durable records: those that were there
\* before it, unless it tears copy A and copy B does not back the call.
LEMMA InterruptedAside ==
  ASSUME GInv, Backed, Aside, old.apart, Interrupted
  PROVE  /\ old.backed \/ sbA'.ok => Durable' = Durable
         /\ pc = "sbB" \/ Durable = Passed(old.durable)
         /\ pc = "sbB" => Durable = Live /\ Live.ok
<1>1. CASE /\ todo # <<>>
           /\ \E k \in 0 .. Len(Head(todo).cells) : media' = Put(media, Head(todo), k)
           /\ UNCHANGED <<sbA, sbB>>
  <2>1. PICK k \in 0 .. Len(Head(todo).cells) : media' = Put(media, Head(todo), k)
    BY <1>1
  <2>2. Recover(media', Current) = Durable /\ Durable = Passed(old.durable)
    BY <1>1, <2>1, WritingAside
  <2>3. Durable' = Recover(media', Current)
    BY <1>1 DEF Durable, Current
  <2>4. pc # "sbB"
    BY <1>1 DEF GInv, IInv, Types
  <2>. QED  BY <2>2, <2>3, <2>4
<1>2. CASE pc = "sbA" /\ media' = media /\ sbB' = sbB /\ sbA' \in {sbA, BadSb}
  <2>1. Durable = Passed(old.durable)
    BY <1>2 DEF Aside
  <2>2. CASE sbA' = sbA
    <3>1. Durable' = Durable
      BY <1>2, <2>2 DEF Durable, Recover
    <3>. QED  BY <1>2, <2>1, <3>1
  <2>3. CASE sbA' = BadSb
    <3>1. ~sbA'.ok /\ load_current_superblock(sbA, sbB)' = sbB
      BY <1>2, <2>3 DEF load_current_superblock, BadSb
    <3>2. old.backed => load_current_superblock(sbA, sbB) = sbB
      BY <1>2 DEF Backed, Current
    <3>3. old.backed => Durable' = Durable
      BY <1>2, <3>1, <3>2 DEF Durable
    <3>. QED  BY <1>2, <2>1, <3>1, <3>3
  <2>. QED  BY <1>2, <2>2, <2>3
<1>3. CASE pc = "sbB" /\ media' = media /\ sbA' = sbA /\ sbB' \in {sbB, BadSb}
  <2>1. Durable = Live /\ Live.ok /\ sbA = sb_encode(ctx)
    BY <1>3 DEF Aside, GInv, IInv, Published
  <2>2. CASE sbB' = sbB
    <3>1. Durable' = Durable
      BY <1>3, <2>2 DEF Durable, Recover
    <3>. QED  BY <1>3, <2>1, <3>1
  <2>3. CASE sbB' = BadSb
    <3>1. load_current_superblock(sbA, sbB)' = sbA
      BY <1>3, <2>1, <2>3 DEF load_current_superblock, BadSb, sb_encode
    <3>2. ctx \in Context /\ InArea(ctx)
      BY DEF GInv, IInv, Types
    <3>3. Durable' = Live
      BY <1>3, <2>1, <3>1, <3>2, CopyOfContext DEF Durable, Live
    <3>. QED  BY <1>3, <2>1, <3>3
  <2>. QED  BY <1>3, <2>2, <2>3
<1>. QED  BY <1>1, <1>2, <1>3 DEF Interrupted, Torn

\* A call that failed, or lost its power, has left one or the other.
LEMMA FaultAside ==
  ASSUME GInv, Backed, Aside, Interrupted, pc' = "idle", UNCHANGED <<req, old>>
  PROVE  Aside'
<1> SUFFICES ASSUME old.apart, old.backed \/ sbA'.ok PROVE OldOrNew'
  BY DEF Aside, OldOrNew
<1>1. /\ Durable' = Durable
      /\ pc = "sbB" \/ Durable = Passed(old.durable)
      /\ pc = "sbB" => Durable = Live /\ Live.ok
  BY InterruptedAside
<1>2. CASE pc = "sbB"
  <2>1. Live.recs = Added /\ req.op \in {"append", "format"}
    BY <1>2 DEF Aside
  <2>. QED  BY <1>1, <1>2, <2>1 DEF OldOrNew, Added, Candidate
<1>3. CASE Durable = Passed(old.durable)
  BY <1>1, <1>3 DEF OldOrNew, Passed
<1>. QED  BY <1>1, <1>2, <1>3

-----------------------------------------------------------------------------
\* Every action keeps the account of a call that writes outside the windows.
LEMMA AsideStep ==
  ASSUME Distinguishable, Orderable, GInv, NInv, Backed, Aside, [Next]_vars, GInv', NInv'
  PROVE  Aside'
<1>0. IInv'
  BY DEF GInv
<1>1. CASE Format
  BY <1>0, <1>1, FormatAside
<1>2. CASE \E len \in Lens : AppendRecord(len)
  BY <1>0, <1>2, AppendAside
<1>3. CASE WriteCells
  BY <1>0, <1>3, WriteAside
<1>4. CASE WrapWritten
  BY <1>0, <1>4, WrapAside
<1>5. CASE DataWritten
  BY <1>0, <1>5, DataAside
<1>6. CASE PublishA
  BY <1>6, PublishAAside
<1>7. CASE PublishB
  BY <1>0, <1>7, PublishBAside
<1>8. CASE Mount
  BY <1>0, <1>8, MountAside
<1>9. CASE IoError
  BY <1>9, FaultAside DEF IoError, Return
<1>10. CASE PowerLoss
  <2>1. pc' = "idle" /\ UNCHANGED <<req, old>>
    BY <1>10 DEF PowerLoss, Return
  <2>2. CASE Interrupted
    BY <2>1, <2>2, FaultAside
  <2>3. CASE pc = "idle" /\ UNCHANGED <<media, sbA, sbB>>
    <3>1. Durable' = Durable
      BY <2>3 DEF Durable, Recover
    <3>. QED  BY <2>1, <2>3, <3>1 DEF Aside, OldOrNew, Candidate
  <2>. QED  BY <1>10, <2>2, <2>3 DEF PowerLoss
<1>11. CASE UNCHANGED vars
  <2>1. /\ Durable' = Durable /\ Live' = Live /\ Current' = Current /\ Total' = Total /\ Added' = Added
        /\ Room(media, ctx, Total)' <=> Room(media, ctx, Total)
        /\ ctx' = ctx /\ pc' = pc /\ old' = old /\ req' = req
    BY <1>11 DEF vars, Durable, Recover, Live, Current, Total, Added, Candidate, Room
  <2>2. OldOrNew' <=> OldOrNew
    BY <1>11, <2>1 DEF vars, OldOrNew, Candidate
  <2>. QED  BY <2>1, <2>2 DEF Aside, Clear
<1>. QED  BY <1>1, <1>2, <1>3, <1>4, <1>5, <1>6, <1>7, <1>8, <1>9, <1>10, <1>11 DEF Next

\* While such a call runs, the media hold its old records or its new ones.
LEMMA AsideSafe ==
  ASSUME IInv, Aside
  PROVE  OldOrNew
<1> SUFFICES ASSUME old.apart PROVE OldOrNew
  BY DEF OldOrNew
<1>1. pc \in {"idle", "wrap", "data", "sbA", "sbB"}
  BY DEF IInv, Types
<1>2. CASE pc \in {"wrap", "data", "sbA"}
  BY <1>2 DEF Aside, OldOrNew, Passed
<1>3. CASE pc = "sbB"
  <2>1. Live.ok
    BY <1>3 DEF IInv, Published
  <2>. QED  BY <1>3, <2>1 DEF Aside, OldOrNew, Added
<1>4. CASE pc = "idle"
  BY <1>4 DEF Aside
<1>. QED  BY <1>1, <1>2, <1>3, <1>4

\* Crash safety of ring mode: a format, a mount, or an append that writes outside the
\* windows of the context and of the trusted superblock (one that overwrites no live
\* record) leaves, wherever an error or a power loss stops it, a region that mounts
\* with the records it held or with those and the new one (nvlog_append,
\* nvlog_ring_format, ring_publish_superblocks, load_current_superblock).  Any number
\* of faults may come before it, and each, its own included, may tear the record or
\* the copy being written; left out is only the call that tears copy A while copy B
\* is still what an unfinished publication left.  There are no more formats and
\* calls than the signed 32-bit comparisons of generations and
\* metadata sequence numbers can order.
THEOREM RingOldOrNew ==
  ASSUME Distinguishable, Orderable
  PROVE  Spec => []OldOrNew
<1> DEFINE Inv == GInv /\ NInv /\ Backed /\ Aside
<1>1. Init => Inv
  <2>1. Init => Aside
    BY DEF Init, Aside
  <2>2. Init => Backed
    BY DEF Init, Backed
  <2>. QED  BY <2>1, <2>2, GenerationsInit, NumbersInit
<1>2. Inv /\ [Next]_vars => Inv'
  <2> SUFFICES ASSUME Inv, [Next]_vars PROVE Inv'
    OBVIOUS
  <2>1. GInv'
    BY GenerationStep
  <2>2. NInv'
    BY <2>1, NumbersStep DEF GInv
  <2>3. Backed'
    BY BackedStep DEF GInv
  <2>4. Aside'
    BY <2>1, <2>2, AsideStep
  <2>. QED  BY <2>1, <2>2, <2>3, <2>4
<1>3. Inv => OldOrNew
  BY AsideSafe DEF GInv
<1> HIDE DEF Inv
<1>. QED  BY <1>1, <1>2, <1>3, PTL DEF Spec
-----------------------------------------------------------------------------
\* Records of one size, with too little room behind the last that fits for a WRAP
\* record.
Unit == rec_alloc_bytes(TheLen)
Most == Cap \div Unit
Uniform == OneSize /\ Cap % Unit < Overhead

\* Where such records lie, and where the last ends.
Slots == {j * Unit : j \in 0 .. Most}
End == Most * Unit

\* Nothing else was ever written.
AllAlike(m) ==
  \A i \in Cursors, d \in Headers : m[i] = HeaderCell(d, 1) => d.type = "DATA" /\ d.len = TheLen

\* The area holds Most records, and less than an overhead is left.
LEMMA UniformTypes ==
  ASSUME Uniform
  PROVE  /\ TheLen \in Nat /\ Lens = {TheLen} /\ Unit \in Nat /\ Unit >= Overhead /\ Overhead \in Nat
         /\ Overhead >= 3 /\ Cap \in Nat /\ Cap > 0
         /\ Most \in Nat /\ End \in Nat /\ End <= Cap /\ Cap < End + Unit /\ Cap - End < Overhead
<1>1. Lens = {TheLen}
  BY DEF Uniform, OneSize
<1>2. TheLen \in Nat
  BY <1>1, RingAssumption
<1>3. /\ Unit \in Nat /\ Unit >= Overhead /\ Overhead \in Nat /\ Overhead >= 3
  BY <1>2, AllocNat DEF Unit
<1>4. Cap \in Nat /\ Cap > 0
  BY CapNat
<1>5. ASSUME NEW a \in Nat, NEW b \in Nat, b > 0
      PROVE  a \div b \in Nat /\ a = b * (a \div b) + (a % b) /\ a % b \in Nat /\ a % b < b
  BY <1>5
<1>6. Most \in Nat /\ Cap = Unit * Most + (Cap % Unit) /\ Cap % Unit \in Nat /\ Cap % Unit < Unit
  <2>1. Unit > 0
    BY <1>3
  <2>. QED  BY <1>3, <1>4, <1>5, <2>1 DEF Most
<1>7. Unit * Most = End /\ End \in Nat
  <2> DEFINE a == Unit
             b == Most
  <2>1. a \in Nat /\ b \in Nat
    BY <1>3, <1>6
  <2> HIDE DEF a, b
  <2>2. a * b = b * a /\ a * b \in Nat
    BY <2>1
  <2>. QED  BY <2>2 DEF a, b, End
<1>8. Cap % Unit < Overhead
  BY DEF Uniform
<1>9. End <= Cap /\ Cap < End + Unit /\ Cap - End < Overhead
  <2> DEFINE r == Cap % Unit
  <2>1. Cap = End + r /\ r \in Nat /\ r < Unit /\ r < Overhead
    BY <1>6, <1>7, <1>8
  <2> HIDE DEF r
  <2>. QED  BY <1>3, <1>4, <1>7, <2>1
<1>. QED  BY <1>1, <1>2, <1>3, <1>4, <1>6, <1>7, <1>9

\* Multiples of the unit.
LEMMA Multiples ==
  ASSUME Uniform, NEW i \in Nat, NEW j \in Nat
  PROVE  /\ i * Unit \in Nat /\ (i + 1) * Unit = i * Unit + Unit
         /\ i <= j => i * Unit <= j * Unit
         /\ i * Unit < j * Unit => i < j
<1> DEFINE u == Unit
<1>1. u \in Nat /\ u > 0
  BY UniformTypes
<1> HIDE DEF u
<1>2. i * u \in Nat /\ j * u \in Nat /\ (i + 1) * u = i * u + u
  BY <1>1
<1>3. i <= j => i * u <= j * u
  <2> SUFFICES ASSUME i <= j PROVE i * u <= j * u
    OBVIOUS
  <2>1. PICK k \in Nat : j = i + k
    <3>1. j - i \in Nat /\ j = i + (j - i)
      OBVIOUS
    <3>. QED  BY <3>1
  <2>2. (i + k) * u = i * u + k * u /\ k * u \in Nat
    BY <1>1
  <2>. QED  BY <1>2, <2>1, <2>2
<1>4. j <= i => j * u <= i * u
  <2> SUFFICES ASSUME j <= i PROVE j * u <= i * u
    OBVIOUS
  <2>1. PICK k \in Nat : i = j + k
    <3>1. i - j \in Nat /\ i = j + (i - j)
      OBVIOUS
    <3>. QED  BY <3>1
  <2>2. (j + k) * u = j * u + k * u /\ k * u \in Nat
    BY <1>1
  <2>. QED  BY <1>2, <2>1, <2>2
<1>. QED  BY <1>2, <1>3, <1>4 DEF u

\* A slot is followed by a slot, or it is where the last record ends.
LEMMA SlotMoves ==
  ASSUME Uniform, NEW x \in Slots
  PROVE  /\ x \in Nat /\ 0 \in Slots
         /\ x + Unit <= Cap => x + Unit \in Slots
         /\ Cap < x + Unit => x = End
<1>1. PICK j \in 0 .. Most : x = j * Unit
  BY DEF Slots
<1>2. /\ j \in Nat /\ Most \in Nat /\ 0 \in 0 .. Most /\ Unit \in Nat /\ End \in Nat /\ Cap \in Nat
      /\ Cap < End + Unit /\ End <= Cap
  BY UniformTypes
<1>3. x \in Nat /\ (j + 1) * Unit = x + Unit
  BY <1>1, <1>2, Multiples
<1>4. 0 \in Slots
  <2>1. 0 * Unit = 0
    BY <1>2
  <2>. QED  BY <1>2, <2>1 DEF Slots
<1>5. x <= End
  BY <1>1, <1>2, Multiples DEF End
<1>6. CASE j < Most
  <2>1. j + 1 \in 0 .. Most /\ j + 1 \in Nat /\ j + 1 <= Most
    BY <1>2, <1>6
  <2>2. x + Unit \in Slots
    BY <1>3, <2>1 DEF Slots
  <2>3. x + Unit <= End
    <3>1. (j + 1) * Unit <= Most * Unit
      BY <1>2, <2>1, Multiples
    <3>. QED  BY <1>3, <3>1 DEF End
  <2>. QED  BY <1>2, <1>3, <1>4, <2>2, <2>3
<1>7. CASE j = Most
  <2>1. x = End
    BY <1>1, <1>7 DEF End
  <2>. QED  BY <1>2, <1>3, <1>4, <2>1
<1>. QED  BY <1>2, <1>6, <1>7

\* A walk over slots passes over a record, or over the few cells behind the last.
LEMMA SlotPassed ==
  ASSUME Uniform, NEW m \in Media, AllAlike(m), NEW g, NEW w \in Cursors, NEW x \in Cursors,
         x \in Slots, StepAt(m, g, w, x) # 0
  PROVE  LET s == StepAt(m, g, w, x)
             h == HeldAt(m, g, w, x)
         IN  /\ wrapped(x + s) \in Slots
             /\ \/ s = Unit /\ Len(h) = 1 /\ ~in_end_gap(w, x) /\ Found(m, g, x).d.type = "DATA"
                \/ x = End /\ s = Cap - End /\ h = <<>> /\ x + s = Cap /\ in_end_gap(w, x)
<1> DEFINE s == StepAt(m, g, w, x)
           h == HeldAt(m, g, w, x)
           f == Found(m, g, x)
<1>1. /\ x \in Nat /\ w \in Nat /\ x < Cap /\ Cap \in Nat /\ Unit \in Nat /\ End \in Nat
      /\ Unit >= Overhead /\ Overhead \in Nat /\ 0 \in Slots
  BY UniformTypes, SlotMoves, CapNat DEF Cursors
<1>2. s \in 1 .. Cap /\ x + s <= Cap
  BY Block
<1>3. CASE in_end_gap(w, x)
  <2>1. x + s = Cap /\ h = <<>>
    BY <1>3, Block
  <2>2. Cap - x < Overhead
    BY <1>3 DEF in_end_gap
  <2> HIDE DEF s, h
  <2>3. Cap < x + Unit
    BY <1>1, <2>2
  <2>4. x = End
    BY <2>3, SlotMoves
  <2>5. wrapped(x + s) = 0 /\ s = Cap - End
    BY <1>1, <1>2, <2>1, <2>4 DEF wrapped
  <2>. QED  BY <1>1, <1>3, <2>1, <2>4, <2>5 DEF s, h
<1>4. CASE ~in_end_gap(w, x)
  <2>1. /\ f.d \in Headers /\ f.v \in Nat /\ RecordAt(m, Cap, x, f.d, f.v)
        /\ s = rec_alloc_bytes(f.d.len)
    BY <1>1, <1>4, StepTyped
  <2>2. m[x] = HeaderCell(f.d, 1)
    <3> HIDE DEF f
    <3>1. 1 \in 1 .. HdrCells /\ x + 1 - 1 = x
      BY <1>1, CapNat
    <3>2. m[x + 1 - 1] = HeaderCell(f.d, 1)
      BY <2>1, <3>1 DEF RecordAt, HeaderAt
    <3>. QED  BY <3>1, <3>2
  <2>3. f.d.type = "DATA" /\ f.d.len = TheLen
    <3> HIDE DEF f
    <3>. QED  BY <2>1, <2>2 DEF AllAlike
  <2>4. s = Unit
    BY <2>1, <2>3 DEF Unit
  <2>5. h = <<Entry(f)>>
    BY <1>4, <2>3 DEF HeldAt, held
  <2>6. Len(h) = 1
    BY <2>5
  <2> HIDE DEF s, h
  <2>7. wrapped(x + s) \in Slots
    BY <1>1, <1>2, <2>4, SlotMoves DEF wrapped
  <2>. QED  BY <1>4, <2>3, <2>4, <2>6, <2>7 DEF s, h
<1>. QED  BY <1>3, <1>4

\* n records and, where they reach the data limit, the cells behind the last slot.
Fills(n, x, o) == n * Unit <= o /\ o <= n * Unit + (IF x + o >= Cap THEN Cap - End ELSE 0)

\* One record or the padding more.
LEMMA FillsGrows ==
  ASSUME Uniform, NEW n \in Nat, NEW l \in Nat, NEW x \in Cursors, NEW o \in 1 .. Cap,
         NEW s \in 1 .. o, x + s <= Cap, Fills(n, wrapped(x + s), o - s),
         \/ s = Unit /\ l = 1
         \/ s = Cap - End /\ l = 0 /\ x + s = Cap
  PROVE  Fills(l + n, x, o)
<1> DEFINE u == n * Unit
           e == Cap - End
           y == wrapped(x + s)
<1>0. Cap \in Nat /\ Unit \in Nat /\ End \in Nat /\ End <= Cap
  BY UniformTypes
<1>1. /\ x \in Nat /\ x < Cap /\ Cap \in Nat /\ Unit \in Nat /\ u \in Nat /\ e \in Nat
      /\ (n + 1) * Unit = u + Unit /\ o \in Nat /\ o <= Cap /\ s \in Nat /\ s > 0 /\ s <= o
  <2>1. u \in Nat /\ (n + 1) * Unit = u + Unit
    BY Multiples
  <2>2. x \in Nat /\ x < Cap /\ e \in Nat
    BY <1>0 DEF Cursors
  <2>3. o \in Nat /\ o <= Cap /\ s \in Nat /\ s > 0 /\ s <= o
    BY <1>0
  <2>. QED  BY <1>0, <2>1, <2>2, <2>3
<1>2. /\ u <= o - s /\ o - s <= u + (IF y + (o - s) >= Cap THEN e ELSE 0)
  BY DEF Fills
<1>3. /\ x + s = Cap => y = 0
      /\ x + s < Cap => y = x + s
  BY <1>1 DEF wrapped
<1> DEFINE k == (l + n) * Unit
<1>4. l = 1 => k = u + Unit
  BY <1>1
<1>5. l = 0 => k = u
  OBVIOUS
<1> HIDE DEF u, e, y, k
<1>6. k <= o /\ o <= k + (IF x + o >= Cap THEN e ELSE 0)
  <2>1. CASE x + s = Cap
    <3>1. o - s <= u /\ x + o >= Cap
      BY <1>1, <1>2, <1>3, <2>1
    <3>2. CASE s = Unit /\ l = 1
      <4>1. k = u + Unit
        BY <1>4, <3>2
      <4>. QED  BY <1>1, <1>2, <3>1, <3>2, <4>1
    <3>3. CASE s = Cap - End /\ l = 0
      <4>1. k = u /\ s = e
        BY <1>5, <3>3 DEF e
      <4>. QED  BY <1>1, <1>2, <3>1, <4>1
    <3>. QED  BY <3>2, <3>3
  <2>2. CASE x + s < Cap
    <3>1. y + (o - s) = x + o /\ s = Unit /\ k = u + Unit
      BY <1>1, <1>3, <1>4, <2>2
    <3>. QED  BY <1>1, <1>2, <3>1
  <2>. QED  BY <1>1, <2>1, <2>2
<1>. QED  BY <1>6 DEF Fills, e, k

\* A walk over slots delivers as many records as lie there.
LEMMA WalkFills ==
  ASSUME Uniform, NEW m \in Media, AllAlike(m), NEW g, NEW w \in Cursors
  PROVE  \A x \in Cursors, o \in 0 .. Cap :
            Walk(m, g, w, x, o).ok /\ x \in Slots => Fills(Len(Walk(m, g, w, x, o).recs), x, o)
<1> DEFINE P(x, o) == x \in Slots => Fills(Len(Walk(m, g, w, x, o).recs), x, o)
           S == {d \in Cursors \X (0 .. Cap) : P(d[1], d[2])}
<1>1. <<w, 0>> \in S
  <2>1. Walk(m, g, w, w, 0).recs = <<>>
    BY WalkEnds, CapNat DEF Cursors
  <2>2. Len(<<>>) = 0 /\ 0 * Unit = 0 /\ w \in Cursors /\ 0 \in 0 .. Cap /\ Cap - End >= 0
        /\ w + 0 < Cap /\ w \in Nat
    BY CapNat, UniformTypes DEF Cursors
  <2>3. P(w, 0)
    BY <2>1, <2>2, UniformTypes DEF Fills
  <2> HIDE DEF P
  <2>. QED  BY <2>2, <2>3
<1>2. ASSUME NEW x \in Cursors, NEW o \in 1 .. Cap, Passes(m, g, w, x, o),
             <<wrapped(x + StepAt(m, g, w, x)), o - StepAt(m, g, w, x)>> \in S
      PROVE  <<x, o>> \in S
  <2> DEFINE s == StepAt(m, g, w, x)
             h == HeldAt(m, g, w, x)
             rest == Walk(m, g, w, wrapped(x + s), o - s)
  <2>1. /\ s \in 1 .. o /\ x + s <= Cap /\ h \in Seq(Entries) /\ rest.recs \in Seq(Entries)
        /\ Walk(m, g, w, x, o).recs = h \o rest.recs
    BY <1>2 DEF Passes, Walks, Passed
  <2>2. P(wrapped(x + s), o - s)
    <3> HIDE DEF P, s
    <3>. QED  BY <1>2 DEF s
  <2>3. ASSUME x \in Slots
        PROVE  Fills(Len(Walk(m, g, w, x, o).recs), x, o)
    <3>1. s # 0
      BY <2>1
    <3>2. /\ wrapped(x + s) \in Slots
          /\ \/ s = Unit /\ Len(h) = 1
             \/ s = Cap - End /\ h = <<>> /\ x + s = Cap
      BY <2>3, <3>1, SlotPassed
    <3>3. Fills(Len(rest.recs), wrapped(x + s), o - s)
      BY <2>2, <3>2
    <3> HIDE DEF s, h, rest
    <3>4. Len(h \o rest.recs) = Len(h) + Len(rest.recs) /\ Len(rest.recs) \in Nat /\ Len(h) \in Nat
          /\ (h = <<>> => Len(h) = 0)
      BY <2>1
    <3>5. Fills(Len(h) + Len(rest.recs), x, o)
      BY <2>1, <3>2, <3>3, <3>4, FillsGrows
    <3>. QED  BY <2>1, <3>4, <3>5
  <2>4. P(x, o)
    BY <2>3, Zenon
  <2> HIDE DEF P
  <2>. QED  BY <2>4, CapNat
<1> HIDE DEF S, P
<1>3. \A x \in Cursors, o \in 0 .. Cap : Walk(m, g, w, x, o).ok => <<x, o>> \in S
  BY <1>1, <1>2, WalkInduction
<1>4. \A x \in Cursors, o \in 0 .. Cap : Walk(m, g, w, x, o).ok => P(x, o)
  BY <1>3 DEF S
<1>. QED  BY <1>4 DEF P
-----------------------------------------------------------------------------
\* The pointers of a context lie between records.
InSlots(c) == InArea(c) /\ c.wp \in Slots /\ c.tail \in Slots

\* A window over slots holds at most Most records; it is full with them, and where
\* it has none its pointers are equal.
LEMMA WindowFills ==
  ASSUME Uniform, NEW m \in Media, AllAlike(m), NEW c, InSlots(c), ring_walk(m, c).ok
  PROVE  LET n == Len(ring_walk(m, c).recs)
             o == ring_occupied(c)
         IN  /\ n \in Nat /\ n <= Most /\ o \in Nat /\ o <= Cap
             /\ Cap - o < Unit => n >= Most
             /\ n = 0 /\ ~EndZone(c.tail) => c.tail = c.wp
<1> DEFINE n == Len(ring_walk(m, c).recs)
           o == ring_occupied(c)
           x == c.tail
           e == Cap - End
           u == n * Unit
<1>1. /\ ring_walk(m, c) = Walk(m, c.gen, c.wp, x, o) /\ o \in 0 .. Cap
      /\ c.wp \in Cursors /\ x \in Cursors /\ x \in Slots
  BY WalkOfWindow DEF InSlots, InArea
<1>2. n \in Nat
  BY RecordsFit DEF InSlots
<1>3. Fills(n, x, o)
  BY <1>1, WalkFills
<1>4. /\ x \in Nat /\ x < Cap /\ o \in Nat /\ o <= Cap /\ Cap \in Nat /\ Unit \in Nat /\ Unit >= Overhead
      /\ Overhead \in Nat /\ Overhead >= 3 /\ Most \in Nat /\ End \in Nat /\ End <= Cap /\ Cap < End + Unit
      /\ Cap - End < Overhead /\ e \in Nat
  <2>1. x \in Nat /\ x < Cap /\ o \in Nat /\ o <= Cap
    BY <1>1, CapNat DEF Cursors
  <2> HIDE DEF x, o
  <2>. QED  BY <2>1, UniformTypes
<1>5. u \in Nat /\ (n + 1) * Unit = u + Unit
  BY <1>2, Multiples
<1>6. u <= o /\ o <= u + (IF x + o >= Cap THEN e ELSE 0)
  BY <1>3 DEF Fills
<1>7. n <= Most
  <2>1. (Most + 1) * Unit = End + Unit
    BY <1>4, Multiples DEF End
  <2>2. u < (Most + 1) * Unit
    <3> HIDE DEF u, o, e
    <3>. QED  BY <1>4, <1>5, <1>6, <2>1
  <2>3. n < Most + 1
    BY <1>2, <1>4, <2>2, Multiples
  <2>. QED  BY <1>2, <1>4, <2>3
<1>8. ASSUME Cap - o < Unit PROVE n >= Most
  <2> SUFFICES ASSUME n < Most PROVE FALSE
    BY <1>2, <1>4
  <2>1. (n + 1) * Unit <= End
    <3>1. n + 1 <= Most /\ n + 1 \in Nat
      BY <1>2, <1>4
    <3> HIDE DEF n
    <3>. QED  BY <1>4, <3>1, Multiples DEF End
  <2> HIDE DEF u, o, n, x
  <2>2. o <= u + e
    BY <1>4, <1>5, <1>6
  <2>. QED  BY <1>4, <1>5, <1>8, <2>1, <2>2
<1>9. ASSUME n = 0, ~EndZone(x) PROVE x = c.wp
  <2>1. u = 0
    BY <1>4, <1>9
  <2>2. CASE o = 0
    <3>1. Walk(m, c.gen, c.wp, x, 0).ok
      BY <1>1, <2>2
    <3>2. c.wp \in Nat
      BY <1>1, CapNat DEF Cursors
    <3>. QED  BY <1>4, <3>1, <3>2, WalkEnds
  <2>3. CASE o # 0
    <3> HIDE DEF u, n, o
    <3>1. x + o >= Cap /\ o <= e
      BY <1>4, <1>6, <2>1, <2>3
    <3>2. x >= End
      <4> HIDE DEF x
      <4>. QED  BY <1>4, <3>1 DEF e
    <3>3. Cap - x < Overhead
      <4> HIDE DEF x
      <4>. QED  BY <1>4, <3>2
    <3>4. x = 0
      BY <1>9, <3>3 DEF EndZone
    <3>5. o = Cap
      <4> HIDE DEF x
      <4>. QED  BY <1>4, <3>1, <3>4
    <3>6. CASE c.wp > c.tail
      <4>1. o = c.wp - c.tail
        BY <3>6, WalkOfWindow DEF InSlots, o
      <4>2. c.wp \in Nat /\ c.wp < Cap
        BY <1>1, <1>4 DEF Cursors
      <4> HIDE DEF x
      <4>. QED  BY <1>4, <3>4, <3>5, <4>1, <4>2 DEF x
    <3>7. CASE ~(c.wp > c.tail)
      <4>1. c.wp \in Nat /\ c.tail = 0
        BY <1>1, <1>4, <3>4 DEF Cursors
      <4>. QED  BY <3>7, <4>1
    <3>. QED  BY <3>6, <3>7
  <2>. QED  BY <2>2, <2>3
<1>. QED  BY <1>2, <1>4, <1>7, <1>8, <1>9

\* What is found between such records is one of them.
LEMMA FoundAlike ==
  ASSUME Uniform, NEW m \in Media, AllAlike(m), NEW g, NEW x \in Nat, Found(m, g, x).res = "VALID"
  PROVE  LET d == Found(m, g, x).d
         IN  /\ d \in Headers /\ d.type = "DATA" /\ rec_alloc_bytes(d.len) = Unit /\ x + Unit <= Cap
             /\ Entry(Found(m, g, x)) \in Entries
<1> DEFINE f == Found(m, g, x)
<1>1. f.d \in Headers /\ RecordAt(m, Cap, x, f.d, f.v)
  BY CapNat, ValidIsRecord DEF Found, Media
<1>2. Entry(f) \in Entries /\ x + rec_alloc_bytes(f.d.len) <= Cap
  BY FoundEntry
<1> HIDE DEF f
<1>3. m[x] = HeaderCell(f.d, 1)
  <2>1. 1 \in 1 .. HdrCells /\ x + 1 - 1 = x
    BY CapNat
  <2>2. m[x + 1 - 1] = HeaderCell(f.d, 1)
    BY <1>1, <2>1 DEF RecordAt, HeaderAt
  <2>. QED  BY <2>1, <2>2
<1>4. x \in Cursors
  <2>1. rec_alloc_bytes(f.d.len) \in Nat /\ rec_alloc_bytes(f.d.len) >= 3
    BY <1>1, AllocNat DEF Headers
  <2>. QED  BY <1>2, <2>1, CapNat DEF Cursors
<1>5. f.d.type = "DATA" /\ f.d.len = TheLen
  BY <1>1, <1>3, <1>4 DEF AllAlike
<1>. QED  BY <1>1, <1>2, <1>5 DEF Unit, f

\* The writes of such a record, stopped anywhere, leave such records only.
LEMMA WritesAlike ==
  ASSUME NEW m, NEW m2, NEW b \in Nat, NEW d \in Headers, NEW v \in Nat,
         Written(m, m2, b, d, v), AllAlike(m), d.type = "DATA", d.len = TheLen
  PROVE  AllAlike(m2)
<1> SUFFICES ASSUME NEW i \in Cursors, NEW D \in Headers, m2[i] = HeaderCell(D, 1)
             PROVE  D.type = "DATA" /\ D.len = TheLen
  BY DEF AllAlike
<1>1. CASE m2[i] = m[i]
  BY <1>1 DEF AllAlike
<1>2. CASE m2[i] = Erased
  BY <1>2, CellKinds
<1>3. CASE \E q \in 1 .. rec_alloc_bytes(d.len) : Image(m2, b, d, v, q) /\ i \in b .. b + q - 1
  <2>1. PICK q \in 1 .. rec_alloc_bytes(d.len) : Image(m2, b, d, v, q) /\ i \in b .. b + q - 1
    BY <1>3
  <2>2. q \in Nat /\ i \in Nat
    <3>1. d.len \in Nat /\ rec_alloc_bytes(d.len) \in Nat
      BY CapNat DEF Headers, rec_alloc_bytes
    <3>. QED  BY <2>1, <3>1, CapNat DEF Cursors
  <2>3. i - b \in 0 .. q - 1 /\ b + (i - b) = i
    BY <2>1, <2>2
  <2>4. m2[i] = Img(d, v, i - b)
    BY <2>1, <2>3 DEF Image
  <2>5. \A j \in Nat : Img(d, v, j) = HeaderCell(D, 1) => d = D
    BY CellKinds DEF Img, CrcCell, HeaderCell, PayloadCell, Commit
  <2>6. d = D
    BY <2>2, <2>3, <2>4, <2>5
  <2>. QED  BY <2>6
<1>. QED  BY <1>1, <1>2, <1>3 DEF Written
-----------------------------------------------------------------------------
\* An append that does not fit before the data limit goes on at the start of the
\* area, and takes all records along.
LEMMA MovesOn ==
  ASSUME Uniform, NEW m \in Media, AllAlike(m), NEW c, Validated(m, c), InSlots(c), ~EndZone(c.tail),
         Cap < c.wp + Unit
  PROVE  LET C == [c EXCEPT !.wp = 0]
         IN  /\ Validated(m, C) /\ InSlots(C) /\ ~EndZone(C.tail) /\ ~EndZone(C.wp)
             /\ ring_walk(m, C).recs = ring_walk(m, c).recs
             /\ C.next = c.next /\ C.mounted = c.mounted /\ C.gen = c.gen /\ C.wp = 0
             /\ C.mseq = c.mseq
<1> DEFINE C == [c EXCEPT !.wp = 0]
           w == c.wp
           x == c.tail
           o == ring_occupied(c)
           R == ring_walk(m, c).recs
<1>1. /\ c \in Context /\ InArea(c) /\ ring_walk(m, c).ok /\ R \in Seq(Entries) /\ c.count = Len(R)
      /\ Agrees(R, c.next)
  BY DEF Validated
<1>2. /\ C \in Context /\ C.wp = 0 /\ C.tail = x /\ C.next = c.next /\ C.count = c.count /\ C.gen = c.gen
      /\ C.mounted = c.mounted /\ C.mseq = c.mseq
  BY <1>1 DEF Context
<1> HIDE DEF C
<1>3. /\ w \in Cursors /\ x \in Cursors /\ w \in Slots /\ x \in Slots /\ w \in Nat /\ x \in Nat
      /\ w < Cap /\ x < Cap /\ Cap \in Nat /\ Cap > 0 /\ Unit \in Nat /\ Unit >= Overhead
      /\ Overhead \in Nat /\ End \in Nat /\ Cap - End < Overhead /\ c.count \in Nat
  <2>1. w \in Cursors /\ x \in Cursors /\ w \in Slots /\ x \in Slots
    BY DEF InSlots, InArea
  <2>2. w \in Nat /\ x \in Nat /\ w < Cap /\ x < Cap
    BY <2>1, CapNat DEF Cursors
  <2>3. c.count \in Nat
    BY <1>1 DEF Context
  <2>. QED  BY <2>1, <2>2, <2>3, UniformTypes
<1>4. 0 \in Cursors /\ 0 \in Slots
  BY <1>3, SlotMoves DEF Cursors
<1>5. InSlots(C) /\ ~EndZone(C.tail) /\ ~EndZone(C.wp)
  BY <1>2, <1>3, <1>4 DEF InSlots, InArea, EndZone
<1>6. w = End
  BY <1>3, SlotMoves
<1>7. ring_walk(m, C) = Passed(R)
  <2>1. ring_walk(m, c) = Passed(R)
    <3>1. ring_walk(m, c) \in Walks
      BY <1>1, <1>3, WalkOfWindow, WalkTyped, CapNat
    <3>. QED  BY <1>1, <3>1 DEF Walks, Passed
  <2>2. CASE w = 0
    <3>1. ring_walk(m, C) = ring_walk(m, c)
      BY <1>2, <2>2, SameWindow
    <3>. QED  BY <2>1, <3>1
  <2>3. CASE w # 0
    <3>1. EndZone(w)
      BY <1>3, <1>6, <2>3 DEF EndZone
    <3>2. x < w
      <4>1. x # w
        BY <3>1
      <4>2. x > End => Cap < x + Unit
        <5>1. Cap < End + Unit
          BY UniformTypes
        <5>. QED  BY <1>3, <5>1
      <4>3. ~(x > End)
        BY <1>3, <4>2, SlotMoves
      <4>. QED  BY <1>3, <1>6, <4>1, <4>3
    <3>3. o = w - x
      BY <1>1, <3>2, WalkOfWindow
    <3>4. Walk(m, c.gen, w, x, o).ok /\ Walk(m, c.gen, w, x, o).recs = R /\ o \in 0 .. Cap
      BY <1>1, WalkOfWindow
    <3>5. o + (Cap - w) <= Cap /\ o + (Cap - w) = Cap - x
      BY <1>3, <3>2, <3>3
    <3>6. Walk(m, c.gen, 0, x, Cap - x) = Passed(R)
      <4>1. Walk(m, c.gen, 0, x, o + (Cap - w)) = Passed(Walk(m, c.gen, w, x, o).recs)
        BY <1>3, <2>3, <3>1, <3>4, <3>5, LeftBehind
      <4>. QED  BY <3>4, <3>5, <4>1
    <3>7. c.count # 0
      <4>1. Len(R) # 0
        BY <1>1, <1>3, <3>2, WindowFills
      <4>. QED  BY <1>1, <4>1
    <3>8. ring_occupied(C) = Cap - x
      <4>1. C.wp = 0 /\ C.tail = x /\ C.count = c.count
        BY <1>2
      <4> HIDE DEF x
      <4>2. CASE x = 0
        BY <1>3, <3>7, <4>1, <4>2 DEF ring_occupied
      <4>3. CASE x # 0
        BY <1>3, <4>1, <4>3 DEF ring_occupied
      <4>. QED  BY <4>2, <4>3
    <3>9. ring_walk(m, C) = Walk(m, C.gen, C.wp, C.tail, ring_occupied(C))
      BY <1>5, WalkOfWindow DEF InSlots
    <3>. QED  BY <1>2, <3>6, <3>8, <3>9
  <2>. QED  BY <2>2, <2>3
<1>8. ring_walk(m, C).ok /\ ring_walk(m, C).recs = R
  BY <1>7 DEF Passed
<1>9. Validated(m, C)
  BY <1>1, <1>2, <1>5, <1>8 DEF Validated, InSlots
<1>. QED  BY <1>2, <1>5, <1>8, <1>9 DEF C
-----------------------------------------------------------------------------
\* Context z holds the newest records of c; where one is missing, there was no
\* room for it and another.
Kept(m, c, z) ==
  /\ InSlots(z)
  /\ \E S \in Seq(Entries) :
       /\ ring_walk(m, c).recs = S \o ring_walk(m, z).recs
       /\ S = <<>> \/ Len(ring_walk(m, z).recs) + 1 >= Most

\* Retiring the tail drops records only while the area is full.
LEMMA RetiringAlike ==
  ASSUME Uniform, NEW m \in Media, AllAlike(m)
  PROVE  \A c \in Context :
            Validated(m, c) /\ InSlots(c) /\ (c.free = Cap - ring_occupied(c) \/ c.count = 0) =>
              Kept(m, c, ring_retire_tail_to_free(m, c, Unit).c)
<1> DEFINE q == Unit
           R(c) == ring_retire_tail_to_free(m, c, q)
           Good(c) == Validated(m, c) /\ InSlots(c) /\ (c.free = Cap - ring_occupied(c) \/ c.count = 0)
           T == {n \in Nat : \E c \in Context : Good(c) /\ ring_occupied(c) = n /\ ~Kept(m, c, R(c).c)}
<1>0. q \in Nat
  BY UniformTypes
<1>1. ASSUME NEW c \in Context, Good(c),
             \A d \in Context : Good(d) /\ ring_occupied(d) < ring_occupied(c) => Kept(m, d, R(d).c)
      PROVE  Kept(m, c, R(c).c)
  <2> DEFINE r == AtTail(m, c)
             D == Without(m, c)
             v == ring_validate_window(m, D)
             w == ring_walk(m, c)
  <2>0. /\ c.wp \in Nat /\ c.tail \in Nat /\ c.free \in Nat /\ c.count \in Nat
        /\ ring_occupied(c) \in 0 .. Cap /\ InArea(c)
        /\ w.ok /\ w.recs \in Seq(Entries) /\ c.count = Len(w.recs) /\ Agrees(w.recs, c.next)
    <3>1. InArea(c) /\ w.ok /\ w.recs \in Seq(Entries) /\ c.count = Len(w.recs) /\ Agrees(w.recs, c.next)
      BY <1>1 DEF Validated
    <3>. QED  BY <3>1, WalkOfWindow DEF Context
  <2>1. R(c) = RetireBody(m, q, c, retire_from(m, q))
    BY <1>0, RetireUnfolds DEF ring_retire_tail_to_free
  <2>2. CASE c.free >= q \/ c.count = 0
    <3> DEFINE u == ring_validate_window(m, c)
    <3>1. R(c) = u
      BY <2>1, <2>2 DEF RetireBody
    <3>2. /\ SameBut(c, u.c) /\ u.c.tail = c.tail /\ ring_walk(m, u.c) = w
      BY <1>1, ValidatedTwice
    <3>3. InSlots(u.c)
      BY <1>1, <3>2 DEF InSlots, InArea, SameBut
    <3>4. <<>> \in Seq(Entries) /\ w.recs = <<>> \o w.recs
      <4> HIDE DEF w
      <4>. QED  BY <2>0
    <3>5. ring_walk(m, c).recs = <<>> \o ring_walk(m, u.c).recs
      <4>1. ring_walk(m, u.c).recs = w.recs
        BY <3>2
      <4>. QED  BY <3>4, <4>1
    <3> HIDE DEF u
    <3>6. Kept(m, c, u.c)
      BY <3>3, <3>4, <3>5 DEF Kept
    <3>. QED  BY <3>1, <3>6
  <2>3. CASE ~(c.free >= q \/ c.count = 0)
    <3>1. /\ r.res = "VALID" /\ D \in Context /\ InArea(D)
          /\ D.wp = c.wp /\ D.gen = c.gen /\ D.next = c.next
          /\ ring_walk(m, D).ok /\ D.count = Len(ring_walk(m, D).recs) /\ D.count <= c.count
          /\ ring_occupied(D) < ring_occupied(c)
          /\ ring_walk(m, D).recs \in Seq(Entries)
          /\ ring_walk(m, D).recs # <<>> => Last(ring_walk(m, D).recs) = Last(w.recs)
          /\ w.recs = (IF r.d.type = "DATA" THEN <<Entry(r)>> ELSE <<>>) \o ring_walk(m, D).recs
      BY <2>0, <2>3, Dropping DEF AtTail, Without
    <3>2. R(c) = IF v.ok THEN R(v.c) ELSE v
      BY <2>1, <2>3, <3>1, Zenon DEF RetireBody, AtTail, Without, Found, ring_retire_tail_to_free
    <3>3. Agrees(ring_walk(m, D).recs, D.next)
      <4>1. ring_walk(m, D).recs # <<>> => w.recs # <<>>
        <5>1. Len(ring_walk(m, D).recs) <= Len(w.recs)
          BY <2>0, <3>1
        <5> HIDE DEF w, D
        <5>. QED  BY <2>0, <3>1, <5>1
      <4> HIDE DEF w, D
      <4>. QED  BY <2>0, <3>1, <4>1 DEF Agrees
    <3>4. Validated(m, D)
      <4> HIDE DEF D
      <4>. QED  BY <3>1, <3>3 DEF Validated
    <3>5. /\ v.ok /\ SameBut(D, v.c) /\ v.c.tail = D.tail
          /\ v.c.free = Cap - ring_occupied(D)
          /\ Validated(m, v.c) /\ ring_walk(m, v.c) = ring_walk(m, D)
          /\ ring_occupied(v.c) = ring_occupied(D)
      BY <3>4, ValidatedTwice
    <3>6. D.tail \in Slots /\ r.d.type = "DATA" /\ Entry(r) \in Entries
      <4> DEFINE t == ring_normalize_tail_cursor(c, c.tail)
      <4>1. t \in Slots
        <5>1. c.tail \in Slots
          BY <1>1 DEF InSlots
        <5>2. 0 \in Slots
          BY <5>1, SlotMoves
        <5>. QED  BY <5>1, <5>2 DEF ring_normalize_tail_cursor
      <4>2. t \in Nat
        BY <4>1, SlotMoves
      <4>3. r = Found(m, c.gen, t)
        BY DEF AtTail
      <4>4. r.d.type = "DATA" /\ rec_alloc_bytes(r.d.len) = Unit /\ t + Unit <= Cap /\ Entry(r) \in Entries
        BY <3>1, <4>2, <4>3, FoundAlike
      <4>5. wrapped(t + Unit) \in Slots
        BY <4>1, <4>4, SlotMoves DEF wrapped
      <4>6. D.tail = ring_normalize_tail_cursor(c, wrapped(t + Unit))
        <5> HIDE DEF r, t
        <5>. QED  BY <4>4 DEF Without, dropped, t, r, Context
      <4>7. D.tail \in Slots
        BY <4>1, <4>5, <4>6, SlotMoves DEF ring_normalize_tail_cursor
      <4>. QED  BY <4>4, <4>7
    <3> HIDE DEF v, D
    <3>7. v.c \in Context /\ Good(v.c) /\ ring_occupied(v.c) < ring_occupied(c)
      <4>1. InSlots(v.c)
        BY <1>1, <3>1, <3>5, <3>6 DEF InSlots, InArea, SameBut
      <4>. QED  BY <3>1, <3>5, <4>1 DEF SameBut
    <3>8. Kept(m, v.c, R(v.c).c)
      <4> HIDE DEF Good, R
      <4>. QED  BY <1>1, <3>7
    <3> DEFINE z == R(v.c)
               Z == ring_walk(m, z.c).recs
               h == <<Entry(r)>>
    <3>9. R(c) = z
      BY <3>2, <3>5
    <3>10. PICK S \in Seq(Entries) : /\ ring_walk(m, v.c).recs = S \o Z
                                     /\ S = <<>> \/ Len(Z) + 1 >= Most
      BY <3>8 DEF Kept
    <3>11. h \in Seq(Entries) /\ Len(h) = 1
      <4> HIDE DEF r
      <4>. QED  BY <3>6
    <3>12. w.recs = h \o (S \o Z)
      <4>1. w.recs = h \o ring_walk(m, D).recs
        BY <3>1, <3>6
      <4> HIDE DEF w, h, Z
      <4>. QED  BY <3>5, <3>10, <4>1
    <3>13. ring_walk(m, z.c).recs \in Seq(Entries)
      <4>1. Retired(m, v.c, q, z)
        <5>1. Validated(m, v.c) /\ (v.c.free = Cap - ring_occupied(v.c) \/ v.c.count = 0)
          BY <3>7
        <5> HIDE DEF R, Good, q
        <5>. QED  BY <1>0, <3>7, <5>1, Retiring DEF R
      <4>. QED  BY <4>1 DEF Retired, Validated
    <3> HIDE DEF h, z, Good
    <3>14. h \o S \in Seq(Entries) /\ h \o (S \o Z) = (h \o S) \o Z /\ Z \in Seq(Entries)
      <4> HIDE DEF Z
      <4>1. Z \in Seq(Entries)
        BY <3>13 DEF Z
      <4>2. S \in Seq(Entries) /\ h \in Seq(Entries)
        BY <3>10, <3>11
      <4>3. h \o S \in Seq(Entries) /\ h \o (S \o Z) = (h \o S) \o Z
        BY <4>1, <4>2
      <4>. QED  BY <4>1, <4>3
    <3>15. Len(Z) + 1 >= Most
      <4>1. CASE S # <<>>
        BY <3>10, <4>1
      <4>2. CASE S = <<>>
        <5>1. c.free = Cap - ring_occupied(c)
          BY <1>1, <2>3 DEF Good
        <5>2. Cap - ring_occupied(c) < Unit
          BY <2>0, <2>3, <5>1, <1>0
        <5>3. Len(w.recs) >= Most
          <6>1. InSlots(c)
            BY <1>1 DEF Good
          <6>. QED  BY <2>0, <5>2, <6>1, WindowFills
        <5>4. Len(w.recs) = Len(Z) + 1
          <6> HIDE DEF w, Z
          <6>1. Z \in Seq(Entries) /\ h \in Seq(Entries)
            BY <3>11, <3>14
          <6>2. <<>> \o Z = Z
            BY <6>1
          <6>4. Len(h \o Z) = Len(h) + Len(Z) /\ Len(Z) \in Nat
            BY <6>1
          <6>3. w.recs = h \o Z
            BY <3>12, <4>2, <6>2
          <6>. QED  BY <3>11, <6>3, <6>4
        <5>. QED  BY <5>3, <5>4
      <4>. QED  BY <4>1, <4>2
    <3>16. w.recs = (h \o S) \o Z
      BY <3>12, <3>14
    <3>17. Kept(m, c, z.c)
      <4>1. InSlots(z.c)
        BY <3>8 DEF Kept, z
      <4>. QED  BY <3>14, <3>15, <3>16, <4>1 DEF Kept
    <3>. QED  BY <3>9, <3>17
  <2>. QED  BY <2>2, <2>3
<1>2. \A c \in Context : Good(c) => ring_occupied(c) \in Nat
  <2> SUFFICES ASSUME NEW c \in Context, Good(c) PROVE ring_occupied(c) \in Nat
    OBVIOUS
  <2>1. InArea(c)
    BY DEF Validated
  <2>. QED  BY <2>1, WalkOfWindow, CapNat
<1> HIDE DEF Good, R
<1>3. T = {}
  <2> SUFFICES ASSUME T # {} PROVE FALSE
    OBVIOUS
  <2>1. T \subseteq Nat
    OBVIOUS
  <2> HIDE DEF T
  <2>2. PICK n \in T : \A j \in T : n <= j
    BY <2>1, LeastNat
  <2>3. PICK c \in Context : Good(c) /\ ring_occupied(c) = n /\ ~Kept(m, c, R(c).c)
    BY <2>2 DEF T
  <2>4. PICK d \in Context : Good(d) /\ ring_occupied(d) < ring_occupied(c) /\ ~Kept(m, d, R(d).c)
    BY <1>1, <2>3
  <2>5. ring_occupied(d) \in T /\ ring_occupied(d) \in Nat /\ n \in Nat
    BY <1>2, <2>1, <2>2, <2>4 DEF T
  <2>. QED  BY <2>2, <2>3, <2>4, <2>5
<1>4. ASSUME NEW c \in Context, Good(c) PROVE Kept(m, c, R(c).c)
  <2>1. ring_occupied(c) \in Nat
    BY <1>2, <1>4
  <2>. QED  BY <1>3, <1>4, <2>1
<1>. QED  BY <1>4 DEF Good, R

\* Making room for a record drops no more than that: the record then fits.
LEMMA MakingRoomAlike ==
  ASSUME Uniform, NEW m \in Media, AllAlike(m), NEW c, Validated(m, c), InSlots(c),
         ~EndZone(c.tail), ~EndZone(c.wp)
  PROVE  LET r == make_room(m, c, Unit)
         IN  /\ r.ok /\ Retired(m, c, Unit, r) /\ Kept(m, c, r.c) /\ ~EndZone(r.c.tail)
             /\ r.c.count = 0 => r.c.tail = r.c.wp
<1> DEFINE r == make_room(m, c, Unit)
           v == ring_validate_window(m, c)
           R == ring_retire_tail_to_free(m, v.c, Unit)
<1>1. /\ c \in Context /\ ring_walk(m, c).ok /\ Agrees(ring_walk(m, c).recs, c.next) /\ Unit \in Nat
      /\ ring_walk(m, c).recs \in Seq(Entries)
  BY UniformTypes DEF Validated
<1>2. r.ok /\ Retired(m, c, Unit, r)
  <2>1. Unit \in Nat
    BY <1>1
  <2>. QED  BY <1>1, <2>1, MakingRoom
<1>3. ~EndZone(r.c.tail)
  BY <1>2 DEF Retired
<1>4. /\ v.ok /\ SameBut(c, v.c) /\ v.c.tail = c.tail /\ v.c.free = Cap - ring_occupied(c)
      /\ Validated(m, v.c) /\ ring_walk(m, v.c) = ring_walk(m, c) /\ ring_occupied(v.c) = ring_occupied(c)
  BY ValidatedTwice
<1>5. InSlots(v.c) /\ v.c \in Context
  BY <1>4 DEF InSlots, InArea, SameBut
<1>6. r = IF v.ok /\ v.c.free < Unit THEN R ELSE v
  BY DEF make_room
<1>7. Kept(m, c, r.c)
  <2>1. CASE v.c.free < Unit
    <3>1. r = R
      BY <1>4, <1>6, <2>1
    <3>2. v.c.free = Cap - ring_occupied(v.c)
      <4> HIDE DEF v
      <4>. QED  BY <1>4
    <3>3. Kept(m, v.c, R.c)
      <4> HIDE DEF v
      <4>. QED  BY <1>4, <1>5, <3>2, RetiringAlike
    <3> HIDE DEF v, R, r
    <3>. QED  BY <1>4, <3>1, <3>3 DEF Kept
  <2>2. CASE ~(v.c.free < Unit)
    <3>1. r = v
      BY <1>6, <2>2
    <3> HIDE DEF v, R, r
    <3>2. ring_walk(m, c).recs = <<>> \o ring_walk(m, r.c).recs /\ <<>> \in Seq(Entries)
      <4>1. ring_walk(m, r.c).recs = ring_walk(m, c).recs
        BY <1>4, <3>1
      <4>2. <<>> \o ring_walk(m, c).recs = ring_walk(m, c).recs
        BY <1>1
      <4>. QED  BY <4>1, <4>2
    <3>. QED  BY <1>5, <3>1, <3>2 DEF Kept
  <2>. QED  BY <2>1, <2>2
<1>8. ASSUME r.c.count = 0 PROVE r.c.tail = r.c.wp
  <2>1. Validated(m, r.c) /\ InSlots(r.c)
    BY <1>2, <1>7 DEF Retired, Kept
  <2> HIDE DEF r
  <2>2. ring_walk(m, r.c).ok /\ Len(ring_walk(m, r.c).recs) = 0
    BY <1>8, <2>1 DEF Validated
  <2>. QED  BY <1>3, <2>1, <2>2, WindowFills
<1>. QED  BY <1>2, <1>3, <1>7, <1>8
-----------------------------------------------------------------------------
\* recs are the newest of all, and where one is missing the area is full of them.
Newest(all, recs) ==
  \E S \in Seq(Entries) : all = S \o recs /\ (S = <<>> \/ Len(recs) >= Most)

\* Everything lies in slots, no append writes a WRAP record, and but for the moment
\* between the two publications the copies are the same.
Regular ==
  /\ AllAlike(media)
  /\ InSlots(ctx) /\ (sbA.ok => InSlots(sbA))
  /\ pc # "wrap" /\ (req.op = "append" => req.len = TheLen)
  /\ pc # "sbB" => sbA = sbB
  /\ ctx.mounted => sbA.ok

\* Between calls the context holds what a mount would find.
AtRest ==
  pc = "idle" =>
    /\ ctx.mounted => Validated(media, ctx) /\ Live = Durable
    /\ sbA.ok => Durable.ok /\ status # "CORRUPT"
    /\ status = "OK" /\ req.op = "append" =>
         ctx.mounted /\ Newest(Append(old.live, Candidate), Live.recs)

\* During a call it holds the newest of the records there were, and then the new one.
Underway ==
  /\ pc = "data" =>
       /\ Room(media, ctx, Total)
       /\ \E S \in Seq(Entries) :
            old.live = S \o Live.recs /\ (S = <<>> \/ Len(Live.recs) + 1 >= Most)
  /\ pc \in {"sbA", "sbB"} =>
       /\ Validated(media, ctx) /\ req.op \in {"append", "format"}
       /\ req.op = "append" => Newest(Append(old.live, Candidate), Live.recs)
       /\ req.op = "format" => Live.recs = <<>>

\* What the last call made of the durable records.
Outcome ==
  /\ old.durable \in Seq(Entries) /\ Len(old.durable) <= Most
  /\ pc \in {"data", "sbA", "sbB"} /\ req.op = "append" =>
       old.live = old.durable /\ req.v \in 1 .. MaxCalls
  /\ pc = "idle" =>
       \/ Durable.recs \in {old.durable, <<>>}
       \/ \E e \in Entries : /\ e.v \in 1 .. MaxCalls
                             /\ Newest(Append(old.durable, e), Durable.recs)

\* Without errors and power losses inside a call, ring mode with records of one size.
UInv == calls.faults = 0 => Regular /\ AtRest /\ Underway /\ Outcome
-----------------------------------------------------------------------------
\* While the copies are the same, a mount takes either.
LEMMA SameCopies ==
  ASSUME sbA = sbB
  PROVE  load_current_superblock(sbA, sbB) = sbA /\ Durable = Recover(media, sbA)
BY Trusted DEF Durable

\* A region to begin with.
LEMMA UniformInit ==
  ASSUME Uniform, Init
  PROVE  UInv
<1>1. /\ sbA = BadSb /\ sbB = BadSb /\ ctx = Blank /\ pc = "idle" /\ status = "NONE"
      /\ old.durable = <<>> /\ req.op = "none" /\ \A i \in Cursors : media[i] = Erased
  BY DEF Init, Cursors
<1>2. AllAlike(media)
  <2>1. \A d \in Headers : HeaderCell(d, 1) # Erased
    BY CellKinds
  <2>. QED  BY <1>1, <2>1 DEF AllAlike
<1>3. InSlots(ctx)
  <2>1. 0 \in Slots
    <3>1. 0 \in 0 .. Most /\ 0 * Unit = 0
      BY UniformTypes
    <3>. QED  BY <3>1 DEF Slots
  <2>. QED  BY <1>1, <2>1, CapNat DEF InSlots, InArea, Cursors, Blank
<1>4. Durable = Failed
  <2>1. Durable = Recover(media, sbA)
    BY <1>1, SameCopies
  <2>. QED  BY <1>1, <2>1 DEF Recover, BadSb
<1>5. Regular
  BY <1>1, <1>2, <1>3 DEF Regular, BadSb, Blank
<1>6. AtRest
  BY <1>1 DEF AtRest, BadSb, Blank
<1>7. Underway
  BY <1>1 DEF Underway
<1>8. Outcome
  <2>1. Most \in Nat /\ <<>> \in Seq(Entries) /\ Len(<<>>) = 0
    BY UniformTypes
  <2>. QED  BY <1>1, <1>4, <2>1 DEF Outcome, Failed
<1>. QED  BY <1>5, <1>6, <1>7, <1>8 DEF UInv

\* A window in the area is walked to an end.
LEMMA WindowWalked ==
  ASSUME NEW m \in Media, NEW c, InArea(c)
  PROVE  ring_walk(m, c) \in Walks
<1>1. ring_walk(m, c) = Walk(m, c.gen, c.wp, c.tail, ring_occupied(c)) /\ ring_occupied(c) \in 0 .. Cap
  BY WalkOfWindow
<1>2. c.wp \in Nat /\ c.tail \in Nat /\ ring_occupied(c) \in Nat
  BY <1>1, CapNat DEF InArea, Cursors
<1>3. Walk(m, c.gen, c.wp, c.tail, ring_occupied(c)) \in Walks
  BY <1>2, WalkTyped
<1>. QED  BY <1>1, <1>3

\* The middle of an append: it starts writing the record, in room that was made for
\* it, or the area holds no record at all.
LEMMA PlaceAlike ==
  ASSUME Uniform, media \in Media, AllAlike(media), NEW c, Validated(media, c), InSlots(c),
         ~EndZone(c.tail), ~EndZone(c.wp), NEW v, Place(c, TheLen, v, c.wp),
         c.wp = 0 \/ c.wp + Unit <= Cap
  PROVE  /\ media' = media /\ sbA' = sbA /\ sbB' = sbB
         /\ req' = [op |-> "append", len |-> TheLen, v |-> v, base |-> c.wp]
         /\ ctx'.mounted = c.mounted /\ InSlots(ctx') /\ Validated(media, ctx')
         /\ \/ /\ pc' = "data" /\ Room(media, ctx', Unit)
               /\ Kept(media, c, ctx')
            \/ /\ pc' = "idle" /\ status' = "FULL"
               /\ ring_walk(media, ctx') = ring_walk(media, c)
<1> DEFINE r == make_room(media, c, Unit)
<1>1. /\ media' = media /\ sbA' = sbA /\ sbB' = sbB /\ ctx' = r.c
      /\ req' = [op |-> "append", len |-> TheLen, v |-> v, base |-> c.wp]
      /\ \/ ~r.ok
         \/ r.ok /\ Cap - c.wp < Unit /\ pc' = "idle" /\ status' = "FULL"
         \/ r.ok /\ Cap - c.wp >= Unit /\ pc' = "data"
  BY DEF Place, StartWriting, Return, Unit
<1>2. /\ r.ok /\ Retired(media, c, Unit, r) /\ Kept(media, c, r.c) /\ ~EndZone(r.c.tail)
      /\ r.c.count = 0 => r.c.tail = r.c.wp
  BY MakingRoomAlike
<1> HIDE DEF r
<1>3. Validated(media, r.c) /\ SameBut(c, r.c) /\ InSlots(r.c)
  BY <1>2 DEF Retired, Kept
<1>4. /\ TheLen \in Nat /\ Unit \in Nat /\ Cap \in Nat /\ Most \in Nat /\ End \in Nat
      /\ Cap < End + Unit /\ Unit >= Overhead /\ Overhead \in Nat /\ Overhead >= 3 /\ End <= Cap
  BY UniformTypes
<1>5. c \in Context /\ InArea(c) /\ ring_walk(media, c).ok /\ Agrees(ring_walk(media, c).recs, c.next)
      /\ c.count = Len(ring_walk(media, c).recs)
  BY DEF Validated
<1>6. CASE r.ok /\ Cap - c.wp >= Unit /\ pc' = "data"
  <2>1. Sound(media, c)
    BY <1>5, GoodSound
  <2>2. c.count * Overhead <= Cap
    <3>1. c.count * Overhead <= ring_occupied(c) /\ ring_occupied(c) \in 0 .. Cap /\ c.count \in Nat
      BY <1>5, RecordsFit
    <3>2. c.count * Overhead \in Nat
      BY <1>4, <3>1
    <3> DEFINE n == c.count * Overhead
    <3> HIDE DEF n
    <3>3. n <= ring_occupied(c) /\ n \in Nat
      BY <3>1, <3>2 DEF n
    <3>4. n <= Cap
      BY <1>4, <3>1, <3>3
    <3>. QED  BY <3>4 DEF n
  <2>3. Room(media, r.c, Unit) \/ Overlap(r.c, Unit)
    <3>1. Unit = rec_alloc_bytes(TheLen)
      BY DEF Unit
    <3>. QED  BY <1>4, <1>5, <1>6, <2>1, <2>2, <3>1, Placing DEF r
  <2>4. ~Overlap(r.c, Unit)
    <3> SUFFICES ASSUME Overlap(r.c, Unit) PROVE FALSE
      OBVIOUS
    <3>1. r.c.tail = r.c.wp /\ r.c.wp < r.c.tail
      BY <1>2 DEF Overlap
    <3>2. r.c.wp \in Nat
      BY <1>3, CapNat DEF InSlots, InArea, Cursors
    <3>. QED  BY <3>1, <3>2
  <2>. QED  BY <1>1, <1>2, <1>3, <1>6, <2>3, <2>4 DEF SameBut
<1>7. CASE r.ok /\ Cap - c.wp < Unit /\ pc' = "idle" /\ status' = "FULL"
  <2>1. c.wp = 0 /\ Cap < Unit
    <3>1. c.wp \in Nat
      BY <1>5, CapNat DEF InArea, Cursors
    <3>. QED  BY <1>4, <1>7, <3>1
  <2>2. Most = 0
    <3> SUFFICES ASSUME Most # 0 PROVE FALSE
      OBVIOUS
    <3>1. 1 * Unit <= Most * Unit /\ 1 * Unit = Unit
      BY <1>4, Multiples
    <3>. QED  BY <1>4, <2>1, <3>1 DEF End
  <2>3. ASSUME NEW d, Validated(media, d), InSlots(d)
        PROVE  ring_walk(media, d) = Passed(<<>>)
    <3>1. d.count \in Nat /\ ring_walk(media, d).ok /\ d.count = Len(ring_walk(media, d).recs)
          /\ ring_walk(media, d).recs \in Seq(Entries)
      BY <2>3 DEF Validated, Context
    <3>2. Len(ring_walk(media, d).recs) <= 0
      BY <2>2, <2>3, <3>1, WindowFills
    <3> DEFINE L == ring_walk(media, d).recs
    <3>3. L = <<>>
      <4>1. L \in Seq(Entries) /\ Len(L) <= 0
        BY <3>1, <3>2
      <4> HIDE DEF L
      <4>. QED  BY <4>1
    <3>4. ring_walk(media, d) \in Walks
      BY <2>3, WindowWalked DEF InSlots
    <3>. QED  BY <3>1, <3>3, <3>4 DEF Walks, Passed
  <2>. QED  BY <1>1, <1>3, <1>7, <2>3 DEF SameBut
<1>. QED  BY <1>1, <1>2, <1>6, <1>7
-----------------------------------------------------------------------------
\* What a call starts from: there are never more durable records than the area has
\* slots.
LEMMA Starting ==
  ASSUME Uniform, media \in Media, Regular, AtRest, NEW touched, Begin(touched)
  PROVE  /\ pc = "idle" /\ sbA = sbB /\ Durable = Recover(media, sbA)
         /\ old'.durable = Durable.recs /\ old'.next = ctx.next
         /\ old'.durable \in Seq(Entries) /\ Len(old'.durable) <= Most
         /\ ctx.mounted => old'.live = Live.recs /\ Live = Durable /\ Validated(media, ctx) /\ sbA.ok
<1>1. pc = "idle" /\ old'.durable = Durable.recs /\ old'.next = ctx.next
      /\ (ctx.mounted => old'.live = Live.recs)
  BY DEF Begin
<1>2. sbA = sbB
  BY <1>1 DEF Regular
<1>3. ctx.mounted => Live = Durable /\ Validated(media, ctx) /\ sbA.ok
  BY <1>1 DEF AtRest, Regular
<1>4. Durable = Recover(media, sbA)
  BY <1>2, SameCopies
<1>5. Durable.recs \in Seq(Entries) /\ Len(Durable.recs) <= Most
  <2>1. CASE ~sbA.ok
    <3>1. Durable.recs = <<>> /\ Most \in Nat
      BY <1>4, <2>1, UniformTypes DEF Recover, Failed
    <3>2. <<>> \in Seq(Entries) /\ Len(<<>>) = 0
      OBVIOUS
    <3>. QED  BY <3>1, <3>2
  <2>2. CASE sbA.ok
    <3>1. Durable = ring_walk(media, sbA) /\ Durable.ok
      BY <1>1, <1>4, <2>2 DEF Recover, AtRest
    <3>2. InSlots(sbA) /\ InArea(sbA) /\ AllAlike(media)
      BY <2>2 DEF Regular, InSlots
    <3>3. Len(ring_walk(media, sbA).recs) <= Most
      BY <3>1, <3>2, WindowFills
    <3>4. ring_walk(media, sbA) \in Walks
      BY <3>2, WindowWalked
    <3>. QED  BY <3>1, <3>3, <3>4 DEF Walks
  <2>. QED  BY <2>1, <2>2
<1>. QED  BY <1>1, <1>2, <1>3, <1>4, <1>5

\* nvlog_ring_format sets up an empty window.
LEMMA FormatAlike ==
  ASSUME Uniform, IInv, UInv, Format, IInv'
  PROVE  UInv'
<1> SUFFICES ASSUME calls'.faults = 0
             PROVE  Regular' /\ AtRest' /\ Underway' /\ Outcome'
  BY DEF UInv
<1>1. /\ Begin({}) /\ media' = media /\ sbA' = sbA /\ sbB' = sbB /\ pc' = "sbA" /\ req'.op = "format"
      /\ ctx'.wp = 0 /\ ctx'.tail = 0 /\ ctx'.count = 0 /\ ~ctx'.mounted
      /\ calls' = [calls EXCEPT !.formats = @ + 1]
  BY DEF Format, Blank
<1>2. calls.faults = 0
  <2>1. calls \in [appends : Nat, faults : Nat, formats : Nat]
    BY DEF IInv, Types
  <2>. QED  BY <1>1, <2>1
<1>3. Regular /\ AtRest
  BY <1>2 DEF UInv
<1>4. media \in Media /\ ctx' \in Context
  BY DEF IInv, Types
<1>5. InArea(ctx') /\ ring_walk(media, ctx') = Passed(<<>>)
  BY <1>1, <1>4, EmptyWindow
<1>6. Validated(media, ctx')
  <2>1. <<>> \in Seq(Entries) /\ Len(<<>>) = 0
    OBVIOUS
  <2>. QED  BY <1>1, <1>4, <1>5, <2>1 DEF Validated, Passed, Agrees
<1>7. InSlots(ctx')
  <2>1. 0 \in Slots
    BY <1>3, SlotMoves DEF Regular, InSlots
  <2>. QED  BY <1>1, <1>5, <2>1 DEF InSlots
<1>8. Regular'
  <2>1. pc = "idle"
    BY <1>1 DEF Begin
  <2>2. InSlots(ctx)' /\ AllAlike(media)' /\ (sbA.ok => InSlots(sbA))'
    BY <1>1, <1>3, <1>7 DEF Regular, InSlots, InArea
  <2>. QED  BY <1>1, <1>3, <2>1, <2>2 DEF Regular
<1>9. AtRest'
  BY <1>1 DEF AtRest
<1>10. Underway'
  <2>1. Validated(media, ctx)' /\ Live'.recs = <<>>
    BY <1>1, <1>5, <1>6 DEF Validated, Live, Passed
  <2>. QED  BY <1>1, <2>1 DEF Underway
<1>11. Outcome'
  BY <1>1, <1>3, <1>4, Starting DEF Outcome
<1>. QED  BY <1>8, <1>9, <1>10, <1>11

\* The record an append adds, when it has begun to write it or there is no room for
\* any.
LEMMA PlacedAlike ==
  ASSUME Uniform, IInv, Regular, AtRest, Outcome, IInv', NEW touched, Begin(touched), ctx.mounted,
         calls.faults = 0, calls.appends + calls.formats < MaxCalls,
         NEW c, Validated(media, c), InSlots(c), ~EndZone(c.tail), ~EndZone(c.wp), c.mounted,
         ring_walk(media, c).recs = ring_walk(media, ctx).recs,
         c.wp = 0 \/ c.wp + Unit <= Cap, Place(c, TheLen, calls.appends + 1, c.wp)
  PROVE  Regular' /\ AtRest' /\ Underway' /\ Outcome'
<1> DEFINE v == calls.appends + 1
<1>0. media \in Media /\ AllAlike(media) /\ v \in 1 .. MaxCalls
  <2>1. media \in Media /\ calls \in [appends : Nat, faults : Nat, formats : Nat]
    BY DEF IInv, Types
  <2>2. MaxCalls \in Nat
    BY RingAssumption
  <2>. QED  BY <2>1, <2>2 DEF Regular
<1>1. /\ media' = media /\ sbA' = sbA /\ sbB' = sbB
      /\ req' = [op |-> "append", len |-> TheLen, v |-> v, base |-> c.wp]
      /\ ctx'.mounted /\ InSlots(ctx') /\ Validated(media, ctx')
      /\ \/ /\ pc' = "data" /\ Room(media, ctx', Unit)
            /\ Kept(media, c, ctx')
         \/ /\ pc' = "idle" /\ status' = "FULL"
            /\ ring_walk(media, ctx') = ring_walk(media, c)
  <2> HIDE DEF v
  <2>1. Place(c, TheLen, v, c.wp)
    BY DEF v
  <2>. QED  BY <1>0, <2>1, PlaceAlike
<1> HIDE DEF v
<1>2. /\ pc = "idle" /\ sbA = sbB /\ Durable = Recover(media, sbA) /\ old'.durable = Durable.recs
      /\ old'.live = Live.recs /\ Live = Durable /\ sbA.ok
      /\ old'.durable \in Seq(Entries) /\ Len(old'.durable) <= Most
  BY <1>0, Starting
<1>3. Durable' = Durable
  BY <1>1 DEF Durable, Recover
<1>4. Live' = ring_walk(media, ctx')
  BY <1>1 DEF Live
<1>5. Regular'
  <2>1. InSlots(ctx)' /\ AllAlike(media)' /\ (sbA.ok => InSlots(sbA))'
    BY <1>1 DEF Regular, InSlots, InArea
  <2>. QED  BY <1>1, <1>2, <2>1 DEF Regular
<1>6. old'.live = ring_walk(media, c).recs
  BY <1>2 DEF Live
<1>7. CASE /\ pc' = "data" /\ Room(media, ctx', Unit)
           /\ Kept(media, c, ctx')
  <2>1. Room(media, ctx, Total)'
    <3>1. Total' = Unit
      BY <1>1 DEF Total, Unit
    <3>. QED  BY <1>1, <1>7, <3>1 DEF Room
  <2>2. \E S \in Seq(Entries) :
          old'.live = S \o Live'.recs /\ (S = <<>> \/ Len(Live'.recs) + 1 >= Most)
    BY <1>4, <1>6, <1>7 DEF Kept
  <2>3. Underway'
    BY <1>7, <2>1, <2>2 DEF Underway
  <2>4. Outcome'
    BY <1>0, <1>1, <1>2, <1>7 DEF Outcome
  <2>. QED  BY <1>5, <1>7, <2>3, <2>4 DEF AtRest
<1>8. CASE /\ pc' = "idle" /\ status' = "FULL"
           /\ ring_walk(media, ctx') = ring_walk(media, c)
  <2>1. Live' = Durable'
    <3>1. ring_walk(media, c) \in Walks /\ ring_walk(media, ctx) \in Walks
      <4>1. InArea(c) /\ InArea(ctx)
        BY DEF InSlots, IInv, Types
      <4>. QED  BY <1>0, <4>1, WindowWalked
    <3>2. ring_walk(media, c).ok /\ ring_walk(media, ctx).ok
      <4>1. Validated(media, ctx)
        BY <1>2 DEF AtRest
      <4>. QED  BY <4>1 DEF Validated
    <3>3. ring_walk(media, c) = ring_walk(media, ctx)
      BY <3>1, <3>2 DEF Walks
    <3>. QED  BY <1>2, <1>3, <1>4, <1>8, <3>3 DEF Live
  <2>2. Durable.ok
    BY <1>2 DEF AtRest
  <2>3. AtRest'
    <3>1. Validated(media, ctx)'
      BY <1>1 DEF Validated
    <3>. QED  BY <1>3, <1>8, <2>1, <2>2, <3>1 DEF AtRest
  <2>4. Underway'
    BY <1>8 DEF Underway
  <2>5. Outcome'
    BY <1>2, <1>3, <1>8 DEF Outcome
  <2>. QED  BY <1>5, <2>3, <2>4, <2>5
<1>. QED  BY <1>1, <1>7, <1>8

\* nvlog_append up to its first write: there is never room for a WRAP record.
LEMMA AppendAlike ==
  ASSUME Uniform, IInv, UInv, NEW len \in Lens, AppendRecord(len), IInv'
  PROVE  UInv'
<1> SUFFICES ASSUME calls'.faults = 0
             PROVE  Regular' /\ AtRest' /\ Underway' /\ Outcome'
  BY DEF UInv
<1> DEFINE v == calls.appends + 1
           gap == Cap - ctx.wp
           fits == gap >= Unit
           touched == IF fits THEN ctx.wp .. ctx.wp + Unit - 1
                      ELSE 0 .. Unit - 1 \cup ctx.wp .. Cap - 1
           C == [ctx EXCEPT !.wp = 0]
<1>0. len = TheLen
  BY UniformTypes
<1>1. /\ ctx.mounted /\ Begin(touched) /\ calls.appends + calls.formats < MaxCalls
      /\ calls' = [calls EXCEPT !.appends = @ + 1]
      /\ \/ fits /\ Place(ctx, TheLen, v, ctx.wp)
         \/ ~fits /\ gap < Overhead /\ Place(C, TheLen, v, 0)
         \/ ~fits /\ gap >= Overhead
  BY <1>0 DEF AppendRecord, Unit
<1> HIDE DEF touched
<1>2. calls.faults = 0
  <2>1. calls \in [appends : Nat, faults : Nat, formats : Nat]
    BY DEF IInv, Types
  <2>. QED  BY <1>1, <2>1
<1>3. Regular /\ AtRest /\ Outcome
  BY <1>2 DEF UInv
<1>4. Validated(media, ctx) /\ InSlots(ctx) /\ ~EndZone(ctx.tail) /\ media \in Media /\ AllAlike(media)
  <2>1. media \in Media
    BY DEF IInv, Types
  <2>2. Validated(media, ctx)
    BY <1>1, <1>3, <2>1, Starting
  <2>. QED  BY <1>3, <2>1, <2>2 DEF IInv, Tails, Regular
<1>5. /\ ctx.wp \in Nat /\ ctx.wp < Cap /\ Cap \in Nat /\ Unit \in Nat /\ Unit >= Overhead /\ Overhead \in Nat
      /\ End \in Nat /\ Cap - End < Overhead
  <2>1. ctx.wp \in Nat /\ ctx.wp < Cap
    BY <1>4, CapNat DEF InSlots, InArea, Cursors
  <2>. QED  BY <2>1, UniformTypes
<1>6. CASE fits /\ Place(ctx, TheLen, v, ctx.wp)
  <2>1. ~EndZone(ctx.wp) /\ ctx.wp + Unit <= Cap
    BY <1>5, <1>6 DEF EndZone
  <2> HIDE DEF fits, gap
  <2>. QED  BY <1>1, <1>2, <1>3, <1>4, <1>6, <2>1, PlacedAlike
<1>7. ~fits => Cap < ctx.wp + Unit
  BY <1>5
<1>8. CASE ~fits /\ gap < Overhead /\ Place(C, TheLen, v, 0)
  <2> HIDE DEF C
  <2>1. /\ Validated(media, C) /\ InSlots(C) /\ ~EndZone(C.tail) /\ ~EndZone(C.wp)
        /\ ring_walk(media, C).recs = ring_walk(media, ctx).recs
        /\ C.mounted = ctx.mounted /\ C.wp = 0
    BY <1>4, <1>7, <1>8, MovesOn DEF C
  <2>2. Place(C, TheLen, v, C.wp)
    BY <1>8, <2>1
  <2> HIDE DEF fits, gap
  <2>. QED  BY <1>1, <1>2, <1>3, <2>1, <2>2, PlacedAlike
<1>9. CASE ~fits /\ gap >= Overhead
  <2>1. ctx.wp = End
    BY <1>4, <1>7, <1>9, SlotMoves DEF InSlots
  <2>. QED  BY <1>5, <1>9, <2>1
<1>. QED  BY <1>1, <1>6, <1>8, <1>9
-----------------------------------------------------------------------------
\* Appending to the second of two sequences.
LEMMA AppendJoined ==
  ASSUME NEW S \in Seq(Entries), NEW L \in Seq(Entries), NEW e \in Entries
  PROVE  Append(S \o L, e) = S \o Append(L, e) /\ Len(Append(L, e)) = Len(L) + 1
<1>1. Append(L, e) = L \o <<e>> /\ <<e>> \in Seq(Entries)
  OBVIOUS
<1>2. S \o L \in Seq(Entries)
  OBVIOUS
<1>3. Append(S \o L, e) = (S \o L) \o <<e>>
  BY <1>2
<1>4. (S \o L) \o <<e>> = S \o (L \o <<e>>)
  BY <1>1
<1>5. Len(Append(L, e)) = Len(L) + 1
  OBVIOUS
<1>. QED  BY <1>1, <1>3, <1>4, <1>5

\* One write of the record under way.
LEMMA WriteAlike ==
  ASSUME Uniform, IInv, UInv, WriteCells, IInv'
  PROVE  UInv'
<1> SUFFICES ASSUME calls'.faults = 0
             PROVE  Regular' /\ AtRest' /\ Underway' /\ Outcome'
  BY DEF UInv
<1> DEFINE n == Len(Head(todo).cells)
           m2 == Put(media, Head(todo), n)
           d == DataHeader
<1>1. /\ todo # <<>> /\ media' = m2 /\ sbA' = sbA /\ sbB' = sbB /\ ctx' = ctx /\ pc' = pc /\ req' = req
      /\ old' = old /\ calls' = calls /\ status' = status
  BY DEF WriteCells
<1>2. Regular /\ Underway /\ Outcome
  BY <1>1 DEF UInv
<1>3. pc = "data" /\ Types /\ media \in Media /\ ctx \in Context /\ InArea(ctx) /\ ctx.wp \in Nat
      /\ ctx.count \in Nat
  <2>1. pc \in {"wrap", "data"} /\ Types /\ media \in Media /\ ctx \in Context /\ InArea(ctx)
    BY <1>1 DEF IInv, Types
  <2>2. pc # "wrap"
    BY <1>2 DEF Regular
  <2>. QED  BY <2>1, <2>2 DEF Context
<1>4. /\ d \in Headers /\ req.v \in Nat /\ rec_alloc_bytes(d.len) = Total /\ Total \in Nat
      /\ ctx.wp + rec_alloc_bytes(d.len) <= Cap /\ Progress(media, ctx.wp, d, req.v, todo)
      /\ d.type = "DATA" /\ d.len = TheLen
  <2>1. req.len = TheLen
    BY <1>2, <1>3 DEF Regular, IInv, Placed
  <2>. QED  BY <1>3, <2>1, HeadersTyped DEF IInv, Placed, Total
<1> HIDE DEF d
<1>5. n \in Nat
  BY <1>1, <1>3, <1>4, HeadCells
<1>6. m2 \in Media /\ Written(media, m2, ctx.wp, d, req.v)
  <2>1. n \in 0 .. Len(Head(todo).cells)
    BY <1>5
  <2>. QED  BY <1>1, <1>3, <1>4, <2>1, WriteEffect
<1> HIDE DEF m2
<1>7. AllAlike(m2)
  BY <1>2, <1>3, <1>4, <1>6, WritesAlike DEF Regular
<1>8. Room(media, ctx, Total)
  BY <1>2, <1>3 DEF Underway
<1>9. Room(m2, ctx, Total)
  BY <1>3, <1>4, <1>6, <1>8, RoomKept
<1>10. ring_walk(m2, ctx) = ring_walk(media, ctx)
  <2>1. Clear(ctx.wp, Total, ctx)
    BY <1>3, <1>4, <1>8, RoomClear DEF Room
  <2>. QED  BY <1>3, <1>4, <1>6, <1>8, <2>1, ClearKept DEF Room
<1>11. Live' = Live /\ Room(media, ctx, Total)'
  BY <1>1, <1>9, <1>10 DEF Live, Room, Total
<1>12. Regular'
  BY <1>1, <1>2, <1>7 DEF Regular, AllAlike, InSlots, InArea
<1>13. Underway'
  BY <1>1, <1>2, <1>3, <1>11 DEF Underway
<1>14. Outcome'
  BY <1>1, <1>2, <1>3 DEF Outcome
<1>. QED  BY <1>1, <1>3, <1>12, <1>13, <1>14 DEF AtRest

\* The record is complete: the window with it holds.
LEMMA DataAlike ==
  ASSUME Uniform, IInv, UInv, DataWritten, IInv'
  PROVE  UInv'
<1> SUFFICES ASSUME calls'.faults = 0
             PROVE  Regular' /\ AtRest' /\ Underway' /\ Outcome'
  BY DEF UInv
<1> DEFINE d == DataHeader
           t == Total
           C == Appended(ctx, t)
           w == ring_validate_window(media, C)
<1>0. /\ Types /\ Tails /\ media \in Media /\ ctx \in Context /\ InArea(ctx)
      /\ ~EndZone(ctx.tail) /\ ctx.wp \in Nat /\ req.v \in Nat
  BY DEF IInv, Types, Tails, Context
<1>1. /\ pc = "data" /\ todo = <<>> /\ media' = media /\ sbA' = sbA /\ sbB' = sbB /\ req' = req
      /\ old' = old /\ calls' = calls
  BY DEF DataWritten
<1>2. /\ ctx.mounted /\ req.op = "append" /\ ctx.wp = req.base /\ ctx.wp + t <= Cap
      /\ Progress(media, ctx.wp, d, req.v, <<>>)
  BY <1>1 DEF IInv, Placed
<1>3. Regular /\ Underway /\ Outcome
  BY <1>1 DEF UInv
<1>4. Room(media, ctx, t) /\ req.len = TheLen /\ t = Unit
  BY <1>1, <1>2, <1>3 DEF Underway, Regular, Total, Unit
<1>5. /\ ctx' = w.c
      /\ \/ w.ok /\ pc' = "sbA" /\ todo' = todo /\ status' = status
         \/ ~w.ok /\ pc' = "idle"
  BY <1>2, Zenon DEF DataWritten, Return, Appended, Total
<1>6. /\ d \in Headers /\ d.type = "DATA" /\ d.seq = ctx.next /\ d.gen = ctx.gen
      /\ rec_alloc_bytes(d.len) = t /\ t \in Nat
  BY <1>0, HeadersTyped DEF Total
<1> HIDE DEF d
<1>7. Image(media, ctx.wp, d, req.v, t)
  BY <1>0, <1>2, <1>6, ProgressEnds
<1>8. /\ C \in Context /\ InArea(C) /\ C.tail = ctx.tail /\ C.wp = wrapped(ctx.wp + t)
      /\ C.mounted = ctx.mounted
  BY <1>0, <1>2, <1>6, AppendedTyped
<1>9. ring_walk(media, C).ok
  <2>1. ring_walk(media, Appended(ctx, rec_alloc_bytes(d.len)))
          = Passed(ring_walk(media, ctx).recs \o <<[seq |-> ctx.next, v |-> req.v]>>)
    BY <1>0, <1>2, <1>4, <1>6, <1>7, DataDone DEF Room
  <2>2. C = Appended(ctx, rec_alloc_bytes(d.len))
    BY <1>6
  <2> HIDE DEF C
  <2>. QED  BY <2>1, <2>2 DEF Passed
<1> HIDE DEF C
<1>10. /\ w.ok /\ SameBut(C, w.c) /\ w.c.tail = C.tail /\ Validated(media, w.c)
  BY <1>0, <1>8, <1>9, Validating
<1> HIDE DEF w
<1>11. ctx' = w.c /\ pc' = "sbA"
  BY <1>5, <1>10
<1>12. Live.recs \in Seq(Entries) /\ Live'.recs = Append(Live.recs, Candidate)
  BY <1>11, DataGrew
<1>13. InSlots(ctx')
  <2>1. wrapped(ctx.wp + t) \in Slots
    <3>1. ctx.wp \in Slots
      BY <1>3 DEF Regular, InSlots
    <3>. QED  BY <1>2, <1>4, <3>1, SlotMoves DEF wrapped
  <2>2. ctx.tail \in Slots
    BY <1>3 DEF Regular, InSlots
  <2>. QED  BY <1>8, <1>10, <1>11, <2>1, <2>2 DEF InSlots, InArea, SameBut
<1>14. Regular'
  <2>1. InSlots(ctx)' /\ AllAlike(media)' /\ (sbA.ok => InSlots(sbA))'
    BY <1>1, <1>3, <1>13 DEF Regular, InSlots, InArea, AllAlike
  <2>2. sbA.ok /\ sbA = sbB
    BY <1>1, <1>2, <1>3 DEF Regular
  <2>. QED  BY <1>1, <1>3, <1>11, <2>1, <2>2 DEF Regular
<1>15. Newest(Append(old.live, Candidate), Live'.recs)
  <2> DEFINE L == Live.recs
             e == Candidate
  <2>1. PICK S \in Seq(Entries) : old.live = S \o L /\ (S = <<>> \/ Len(L) + 1 >= Most)
    BY <1>1, <1>3 DEF Underway
  <2>2. e \in Entries /\ L \in Seq(Entries)
    <3>1. old.next \in Nat
      BY <1>0 DEF Types
    <3>. QED  BY <1>0, <1>12, <3>1 DEF Candidate, Entries
  <2> HIDE DEF e, L
  <2>3. Append(S \o L, e) = S \o Append(L, e) /\ Len(Append(L, e)) = Len(L) + 1
    BY <2>1, <2>2, AppendJoined
  <2>. QED  BY <1>12, <2>1, <2>3 DEF Newest, L, e
<1>16. Underway'
  <2>1. Validated(media, ctx)'
    BY <1>1, <1>10, <1>11 DEF Validated
  <2>2. Candidate' = Candidate
    BY <1>1 DEF Candidate
  <2>. QED  BY <1>1, <1>2, <1>11, <1>15, <2>1, <2>2 DEF Underway
<1>17. Outcome'
  BY <1>1, <1>2, <1>3, <1>11 DEF Outcome
<1>. QED  BY <1>11, <1>14, <1>16, <1>17 DEF AtRest

\* Copy A is written.
LEMMA PublishAAlike ==
  ASSUME Uniform, IInv, UInv, PublishA, IInv'
  PROVE  UInv'
<1> SUFFICES ASSUME calls'.faults = 0
             PROVE  Regular' /\ AtRest' /\ Underway' /\ Outcome'
  BY DEF UInv
<1>1. /\ pc = "sbA" /\ pc' = "sbB" /\ sbA' = sb_encode(ctx) /\ sbB' = sbB /\ media' = media
      /\ ctx' = ctx /\ req' = req /\ old' = old /\ calls' = calls
  BY DEF PublishA
<1>2. Regular /\ Underway /\ Outcome
  BY <1>1 DEF UInv
<1>3. sbA'.ok /\ InSlots(sbA')
  <2>1. InSlots(ctx) /\ ctx \in Context
    BY <1>2 DEF Regular, IInv, Types
  <2>2. LET s == sb_encode(ctx) IN s.ok /\ s.wp = ctx.wp /\ s.tail = ctx.tail
    BY <2>1, EncodedCopy DEF InSlots
  <2>. QED  BY <1>1, <2>1, <2>2 DEF InSlots, InArea
<1>4. Regular'
  <2>1. InSlots(ctx)' /\ AllAlike(media)' /\ (sbA.ok => InSlots(sbA))'
    BY <1>1, <1>2, <1>3 DEF Regular, InSlots, InArea, AllAlike
  <2>. QED  BY <1>1, <1>2, <1>3, <2>1 DEF Regular
<1>5. Underway'
  BY <1>1, <1>2 DEF Underway, Validated, Live, Candidate
<1>6. Outcome'
  BY <1>1, <1>2 DEF Outcome
<1>. QED  BY <1>1, <1>4, <1>5, <1>6 DEF AtRest

\* Copy B is written: the call returns, and a mount would find its window.
LEMMA PublishBAlike ==
  ASSUME Uniform, IInv, UInv, PublishB, IInv'
  PROVE  UInv'
<1> SUFFICES ASSUME calls'.faults = 0
             PROVE  Regular' /\ AtRest' /\ Underway' /\ Outcome'
  BY DEF UInv
<1>1. /\ pc = "sbB" /\ pc' = "idle" /\ status' = "OK" /\ sbB' = sb_encode(ctx) /\ sbA' = sbA
      /\ media' = media /\ ctx' = [ctx EXCEPT !.mounted = TRUE] /\ req' = req /\ old' = old /\ calls' = calls
  BY DEF PublishB, Return
<1>2. Regular /\ Underway /\ Outcome
  BY <1>1 DEF UInv
<1>3. ctx \in Context /\ InArea(ctx) /\ sbA = sb_encode(ctx) /\ media \in Media /\ Candidate \in Entries
  BY <1>1 DEF IInv, Types, Published, Candidate, Entries
<1>4. /\ ctx' \in Context /\ ctx'.mounted /\ ctx'.wp = ctx.wp /\ ctx'.tail = ctx.tail
      /\ ctx'.gen = ctx.gen /\ ctx'.count = ctx.count /\ ctx'.next = ctx.next
  BY <1>1, <1>3 DEF Context
<1>5. ring_walk(media, ctx') = ring_walk(media, ctx)
  BY <1>4, SameWindow
<1>6. Live' = Live /\ Durable' = Live
  <2>1. load_current_superblock(sbA, sbB)' = sb_encode(ctx)
    BY <1>1, <1>3, Trusted
  <2>. QED  BY <1>1, <1>3, <1>5, <2>1, CopyOfContext DEF Durable, Live
<1>7. Validated(media, ctx) /\ Live.ok /\ req.op \in {"append", "format"}
      /\ (req.op = "append" => Newest(Append(old.live, Candidate), Live.recs))
      /\ (req.op = "format" => Live.recs = <<>>)
  BY <1>1, <1>2 DEF Underway, Validated, Live
<1>8. Validated(media, ctx)'
  BY <1>1, <1>4, <1>5, <1>7 DEF Validated, InArea
<1>9. Regular'
  <2>1. InSlots(ctx)' /\ AllAlike(media)' /\ (sbA.ok => InSlots(sbA))'
    BY <1>1, <1>2, <1>4 DEF Regular, InSlots, InArea, AllAlike
  <2>2. sbA'.ok
    BY <1>1, <1>3, EncodedCopy
  <2>. QED  BY <1>1, <1>2, <1>3, <2>1, <2>2 DEF Regular
<1>10. Candidate' = Candidate
  BY <1>1 DEF Candidate
<1>11. AtRest'
  BY <1>1, <1>4, <1>6, <1>7, <1>8, <1>10 DEF AtRest
<1>12. Outcome'
  <2>1. CASE req.op = "format"
    BY <1>1, <1>2, <1>6, <1>7, <2>1 DEF Outcome
  <2>2. CASE req.op = "append"
    <3>1. old.live = old.durable /\ req.v \in 1 .. MaxCalls
      BY <1>1, <1>2, <2>2 DEF Outcome
    <3>2. Candidate.v = req.v
      BY DEF Candidate
    <3>3. Candidate.v \in 1 .. MaxCalls /\ Newest(Append(old.durable, Candidate), Live.recs)
      BY <1>7, <2>2, <3>1, <3>2
    <3>. QED  BY <1>1, <1>2, <1>3, <1>6, <3>3 DEF Outcome
  <2>. QED  BY <1>7, <2>1, <2>2
<1>13. Underway'
  BY <1>1 DEF Underway
<1>. QED  BY <1>9, <1>11, <1>12, <1>13
-----------------------------------------------------------------------------
\* nvlog_ring_mount: where the copies hold a superblock, its window holds, and the
\* context takes it over.
LEMMA MountAlike ==
  ASSUME Uniform, IInv, UInv, Mount, IInv'
  PROVE  UInv'
<1> SUFFICES ASSUME calls'.faults = 0
             PROVE  Regular' /\ AtRest' /\ Underway' /\ Outcome'
  BY DEF UInv
<1> DEFINE s == load_current_superblock(sbA, sbB)
           c == [mounted |-> TRUE, gen |-> s.gen, mseq |-> next_session_value(s.mseq),
                 wp |-> s.wp, tail |-> s.tail, next |-> s.next, count |-> s.count, free |-> s.free]
           w == ring_validate_window(media, c)
<1>1. /\ media' = media /\ sbA' = sbA /\ sbB' = sbB /\ calls' = calls
      /\ Begin({}) /\ req'.op = "mount" /\ pc' = "idle"
      /\ \/ ~s.ok /\ ctx' = ctx /\ status' = "CORRUPT"
         \/ s.ok /\ ~w.ok /\ ctx' = ctx /\ status' = "CORRUPT"
         \/ s.ok /\ w.ok /\ ctx' = w.c /\ status' = "OK"
  BY Zenon DEF Mount, Return
<1>2. Regular /\ AtRest
  BY <1>1 DEF UInv
<1>3. media \in Media /\ sbA \in Copy
  BY DEF IInv, Types
<1>4. /\ pc = "idle" /\ sbA = sbB /\ s = sbA /\ Durable = Recover(media, sbA) /\ old'.durable = Durable.recs
      /\ old'.durable \in Seq(Entries) /\ Len(old'.durable) <= Most
  BY <1>1, <1>2, <1>3, Starting, SameCopies
<1>5. Durable' = Durable
  BY <1>1 DEF Durable, Recover
<1>6. Underway' /\ Outcome'
  BY <1>1, <1>4, <1>5 DEF Underway, Outcome
<1>7. AllAlike(media)' /\ (sbA.ok => InSlots(sbA))'
  BY <1>1, <1>2 DEF Regular, InSlots, InArea, AllAlike
<1>8. CASE ~s.ok /\ ctx' = ctx /\ status' = "CORRUPT"
  <2> HIDE DEF s
  <2>1. ~sbA.ok /\ ~ctx.mounted
    BY <1>2, <1>4, <1>8 DEF Regular
  <2>2. InSlots(ctx)'
    BY <1>2, <1>8 DEF Regular, InSlots, InArea
  <2>3. Regular'
    BY <1>1, <1>4, <1>7, <1>8, <2>1, <2>2 DEF Regular
  <2>4. AtRest'
    BY <1>1, <1>8, <2>1 DEF AtRest
  <2>. QED  BY <1>6, <2>3, <2>4
<1>9. CASE s.ok
  <2>1. s \in [ok : {TRUE}, gen : Nat, mseq : Nat, wp : Cursors, tail : Cursors,
               next : Nat, count : Nat, free : Nat]
    <3>1. s # BadSb
      BY <1>9 DEF BadSb
    <3> HIDE DEF s
    <3>. QED  BY <1>3, <1>4, <3>1 DEF Copy
  <2>2. /\ c \in Context /\ c.tail = s.tail /\ c.wp = s.wp /\ c.gen = s.gen /\ c.count = s.count
        /\ c.mounted
    <3> HIDE DEF s
    <3>1. s.wp \in Nat /\ s.tail \in Nat /\ next_session_value(s.mseq) \in Nat
      BY <2>1, CapNat, SuccessorsNat DEF Cursors
    <3>. QED  BY <2>1, <3>1 DEF Context
  <2> HIDE DEF c
  <2>3. ring_walk(media, c) = ring_walk(media, sbA)
    <3> HIDE DEF s
    <3>. QED  BY <1>4, <2>2, SameWindow
  <2>4. Durable = ring_walk(media, sbA) /\ Durable.ok /\ InSlots(sbA)
    <3> HIDE DEF s
    <3>. QED  BY <1>2, <1>4, <1>9 DEF AtRest, Regular, Recover
  <2>5. /\ w.ok /\ w.c.tail = c.tail /\ Validated(media, w.c) /\ SameBut(c, w.c)
        /\ ring_walk(media, w.c) = ring_walk(media, c)
    BY <1>3, <2>2, <2>3, <2>4, Validating
  <2>6. ctx' = w.c /\ status' = "OK"
    BY <1>1, <1>9, <2>5
  <2> HIDE DEF w
  <2>7. ctx'.mounted /\ InSlots(ctx')
    <3> HIDE DEF s
    <3>. QED  BY <1>4, <2>2, <2>4, <2>5, <2>6 DEF SameBut, InSlots, InArea
  <2>8. Live' = Durable' /\ Durable'.ok /\ Validated(media, ctx)'
    BY <1>1, <1>5, <2>3, <2>4, <2>5, <2>6 DEF Live, Validated
  <2>9. InSlots(ctx)' /\ sbA'.ok
    <3> HIDE DEF s
    <3>. QED  BY <1>1, <1>4, <1>9, <2>7 DEF InSlots, InArea
  <2>10. Regular'
    BY <1>1, <1>4, <1>7, <2>9 DEF Regular
  <2>11. AtRest'
    BY <1>1, <2>6, <2>8 DEF AtRest
  <2>. QED  BY <1>6, <2>10, <2>11
<1>. QED  BY <1>1, <1>8, <1>9

\* Power is lost between two calls: the context goes, the region stays.
LEMMA PowerAlike ==
  ASSUME Uniform, IInv, UInv, pc = "idle", ctx' = Blank, Return("NONE"),
         UNCHANGED <<media, sbA, sbB, calls, req, old, log>>
  PROVE  UInv'
<1> SUFFICES ASSUME calls'.faults = 0
             PROVE  Regular' /\ AtRest' /\ Underway' /\ Outcome'
  BY DEF UInv
<1>1. Regular /\ AtRest /\ Outcome /\ pc' = "idle" /\ status' = "NONE" /\ ~ctx'.mounted
  BY DEF UInv, Return, Blank
<1>2. Durable' = Durable
  BY DEF Durable, Recover
<1>3. InSlots(ctx)'
  <2>1. 0 \in Slots
    BY <1>1, SlotMoves DEF Regular, InSlots
  <2>. QED  BY <2>1, CapNat DEF InSlots, InArea, Cursors, Blank
<1>4. AllAlike(media)' /\ (sbA.ok => InSlots(sbA))'
  BY <1>1 DEF Regular, InSlots, InArea, AllAlike
<1>5. Regular'
  BY <1>1, <1>3, <1>4 DEF Regular
<1>6. AtRest'
  BY <1>1, <1>2 DEF AtRest
<1>7. Underway' /\ Outcome'
  BY <1>1, <1>2 DEF Underway, Outcome
<1>. QED  BY <1>5, <1>6, <1>7

\* Every step keeps the invariant: one with an error or a power loss inside a call
\* trivially, and no step writes a WRAP record.
LEMMA UniformStep ==
  ASSUME Uniform, IInv, UInv, [Next]_vars, IInv'
  PROVE  UInv'
<1>1. CASE Format
  BY <1>1, FormatAlike
<1>2. CASE \E len \in Lens : AppendRecord(len)
  BY <1>2, AppendAlike
<1>3. CASE WriteCells
  BY <1>3, WriteAlike
<1>4. CASE WrapWritten
  BY <1>4 DEF WrapWritten, UInv, Regular
<1>5. CASE DataWritten
  BY <1>5, DataAlike
<1>6. CASE PublishA
  BY <1>6, PublishAAlike
<1>7. CASE PublishB
  BY <1>7, PublishBAlike
<1>8. CASE Mount
  BY <1>8, MountAlike
<1>9. ASSUME calls' = [calls EXCEPT !.faults = @ + 1] PROVE UInv'
  <2>1. calls \in [appends : Nat, faults : Nat, formats : Nat]
    BY DEF IInv, Types
  <2>2. calls'.faults = calls.faults + 1 /\ calls.faults \in Nat
    BY <1>9, <2>1
  <2>3. calls'.faults # 0
    BY <2>2
  <2>. QED  BY <2>3 DEF UInv
<1>10. CASE IoError
  BY <1>9, <1>10 DEF IoError
<1>11. CASE PowerLoss
  BY <1>9, <1>11, PowerAlike DEF PowerLoss
<1>12. CASE UNCHANGED vars
  BY <1>12 DEF vars, UInv, Regular, AtRest, Underway, Outcome, Validated, Live, Durable, Recover, Room,
                Total, Candidate, InSlots, AllAlike, InArea
<1>. QED  BY <1>1, <1>2, <1>3, <1>4, <1>5, <1>6, <1>7, <1>8, <1>10, <1>11, <1>12 DEF Next
-----------------------------------------------------------------------------
\* The invariant of records of one size holds throughout.
THEOREM RingUniform ==
  ASSUME Uniform
  PROVE  Spec => []UInv
<1>1. Init => UInv
  BY UniformInit
<1>2. IInv /\ IInv' /\ UInv /\ [Next]_vars => UInv'
  BY UniformStep
<1>. QED  BY <1>1, <1>2, RingInvariant, PTL DEF Spec

\* A formatted ring is never found corrupt while the HAL works and no call is
\* interrupted: neither nvlog_append nor nvlog_ring_mount returns NVLOG_ERR_CORRUPT,
\* however often power is lost between calls.
THEOREM RingHealthy ==
  ASSUME Uniform
  PROVE  Spec => []HealthyRing
<1>1. UInv => HealthyRing
  BY DEF UInv, AtRest, HealthyRing
<1>. QED  BY <1>1, RingUniform, PTL

\* The second part of a sequence is a suffix of it.
LEMMA JoinedSuffix ==
  ASSUME NEW S \in Seq(Entries), NEW L \in Seq(Entries)
  PROVE  IsSuffix(L, S \o L)
<1> DEFINE T == S \o L
           n == Len(L)
           A == [i \in 1 .. n |-> L[(n - i) + 1]]
           B == [i \in 1 .. Len(T) |-> T[(Len(T) - i) + 1]]
<1>1. T \in Seq(Entries) /\ Len(T) = Len(S) + n /\ n \in Nat /\ Len(S) \in Nat /\ n <= Len(T)
  OBVIOUS
<1>2. \A i \in 1 .. n : T[Len(S) + i] = L[i]
  OBVIOUS
<1> HIDE DEF T, n
<1>3. \A i \in 1 .. n : L[(n - i) + 1] \in Entries
  <2>1. \A j \in 1 .. n : L[j] \in Entries
    BY DEF n
  <2>2. \A i \in 1 .. n : (n - i) + 1 \in 1 .. n
    BY <1>1
  <2>. QED  BY <2>1, <2>2
<1>4. \A i \in 1 .. Len(T) : T[(Len(T) - i) + 1] \in Entries
  <2>1. \A i \in 1 .. Len(T) : (Len(T) - i) + 1 \in 1 .. Len(T)
    BY <1>1
  <2>. QED  BY <1>1, <2>1
<1>5. A \in Seq(Entries) /\ Len(A) = n
  BY <1>1, <1>3
<1>6. B \in Seq(Entries) /\ Len(B) = Len(T)
  BY <1>1, <1>4
<1>7. \A i \in 1 .. n : A[i] = B[i]
  <2> TAKE i \in 1 .. n
  <2>1. A[i] = L[(n - i) + 1] /\ (n - i) + 1 \in 1 .. n
    BY <1>1
  <2>2. B[i] = T[(Len(T) - i) + 1]
    BY <1>1
  <2>3. (Len(T) - i) + 1 = Len(S) + ((n - i) + 1)
    BY <1>1
  <2>. QED  BY <1>2, <2>1, <2>2, <2>3
<1>8. Reverse(L) = A /\ Reverse(T) = B
  BY DEF Reverse, n
<1> HIDE DEF A, B
<1>9. SubSeq(A, 1, n) = SubSeq(B, 1, n)
  BY <1>1, <1>5, <1>6, <1>7
<1>. QED  BY <1>1, <1>5, <1>6, <1>8, <1>9 DEF IsSuffix, IsPrefix, T

\* What an acknowledged append kept: all records, or as many of the newest as fit.
LEMMA NewestKept ==
  ASSUME Uniform, UInv, calls.faults = 0
  PROVE  KeepsNewest
<1> SUFFICES ASSUME pc = "idle", status = "OK", req.op = "append"
             PROVE  LET all == Append(old.live, Candidate)
                    IN  \/ Live.recs = all
                        \/ /\ IsSuffix(Live.recs, all)
                           /\ (Len(Live.recs) + 1) * rec_alloc_bytes(req.len) > Cap
  BY DEF KeepsNewest
<1> DEFINE L == Live.recs
           all == Append(old.live, Candidate)
<1>1. ctx.mounted /\ Newest(all, L) /\ Validated(media, ctx) /\ req.len = TheLen
  BY DEF UInv, AtRest, Regular
<1>2. L \in Seq(Entries)
  BY <1>1 DEF Validated, Live
<1> HIDE DEF all, L
<1>3. PICK S \in Seq(Entries) : all = S \o L /\ (S = <<>> \/ Len(L) >= Most)
  BY <1>1 DEF Newest
<1>4. CASE S = <<>>
  BY <1>2, <1>3, <1>4 DEF all, L
<1>5. CASE Len(L) >= Most
  <2>1. IsSuffix(L, all)
    BY <1>2, <1>3, JoinedSuffix
  <2>2. Len(L) \in Nat /\ Most \in Nat /\ Unit \in Nat /\ End \in Nat /\ Cap \in Nat /\ Cap < End + Unit
    BY <1>2, UniformTypes
  <2> DEFINE k == Len(L)
  <2>3. k \in Nat /\ Most <= k
    BY <1>5, <2>2
  <2> HIDE DEF k
  <2>4. Most * Unit <= k * Unit /\ (k + 1) * Unit = k * Unit + Unit /\ k * Unit \in Nat
    BY <2>2, <2>3, Multiples
  <2>5. (k + 1) * Unit > Cap
    <3> DEFINE a == k * Unit
    <3>1. End <= a /\ a \in Nat
      BY <2>4 DEF End
    <3>2. (k + 1) * Unit = a + Unit
      BY <2>4
    <3> HIDE DEF a
    <3>. QED  BY <2>2, <3>1, <3>2
  <2>. QED  BY <1>1, <2>1, <2>5 DEF k, Unit, all, L
<1>. QED  BY <1>3, <1>4, <1>5

\* Retirement is minimal: as long as the HAL has worked and no call was interrupted,
\* nvlog_append keeps all records, or as many of the newest as the area can hold
\* (ring_retire_tail_to_free).
THEOREM RingKeepsNewest ==
  ASSUME Uniform
  PROVE  Spec => [](calls.faults = 0 => KeepsNewest)
<1>1. UInv => (calls.faults = 0 => KeepsNewest)
  BY NewestKept
<1>. QED  BY <1>1, RingUniform, PTL
-----------------------------------------------------------------------------
\* The payloads of some records.
Values(recs) == [i \in DOMAIN recs |-> recs[i].v]

\* Each record has its payload.
LEMMA ValuesTyped ==
  ASSUME NEW R \in Seq(Entries)
  PROVE  /\ Values(R) \in Seq(Nat) /\ Len(Values(R)) = Len(R)
         /\ \A i \in 1 .. Len(R) : Values(R)[i] = R[i].v
<1>1. DOMAIN R = 1 .. Len(R) /\ Len(R) \in Nat
  OBVIOUS
<1>2. \A i \in 1 .. Len(R) : R[i].v \in Nat
  <2>1. \A i \in 1 .. Len(R) : R[i] \in Entries
    OBVIOUS
  <2>. QED  BY <2>1 DEF Entries
<1>3. Values(R) = [i \in 1 .. Len(R) |-> R[i].v]
  BY <1>1 DEF Values
<1>. QED  BY <1>1, <1>2, <1>3

\* The payloads with one record more.
LEMMA ValuesAppend ==
  ASSUME NEW R \in Seq(Entries), NEW e \in Entries
  PROVE  Values(Append(R, e)) = Append(Values(R), e.v)
<1> DEFINE A == Append(R, e)
           W == Values(R)
           V == Values(A)
<1>1. A \in Seq(Entries) /\ Len(A) = Len(R) + 1 /\ A[Len(A)] = e /\ \A i \in 1 .. Len(R) : A[i] = R[i]
  OBVIOUS
<1>2. W \in Seq(Nat) /\ Len(W) = Len(R) /\ \A i \in 1 .. Len(R) : W[i] = R[i].v
  BY ValuesTyped
<1> HIDE DEF A
<1>3. V \in Seq(Nat) /\ Len(V) = Len(A) /\ \A i \in 1 .. Len(A) : V[i] = A[i].v
  BY <1>1, ValuesTyped
<1> HIDE DEF V, W
<1>4. e.v \in Nat /\ Len(R) \in Nat
  BY DEF Entries
<1>5. /\ Append(W, e.v) \in Seq(Nat) /\ Len(Append(W, e.v)) = Len(R) + 1
      /\ \A i \in 1 .. Len(R) : Append(W, e.v)[i] = W[i]
      /\ Append(W, e.v)[Len(R) + 1] = e.v
  BY <1>2, <1>4
<1>6. \A i \in 1 .. Len(V) : V[i] = Append(W, e.v)[i]
  <2> DEFINE n == Len(R)
  <2>1. V[n + 1] = Append(W, e.v)[n + 1]
    BY <1>1, <1>3, <1>4, <1>5
  <2>2. \A i \in 1 .. n : V[i] = Append(W, e.v)[i]
    <3> TAKE i \in 1 .. n
    <3>1. i \in 1 .. Len(A)
      BY <1>1, <1>4
    <3>2. V[i] = A[i].v
      BY <1>3, <3>1
    <3>. QED  BY <1>1, <1>2, <1>5, <3>2
  <2>3. Len(V) = n + 1 /\ n \in Nat
    BY <1>1, <1>3, <1>4
  <2> HIDE DEF n
  <2>4. \A i \in 1 .. Len(V) : i = n + 1 \/ i \in 1 .. n
    BY <2>3
  <2>. QED  BY <2>1, <2>2, <2>4
<1>. QED  BY <1>1, <1>3, <1>5, <1>6 DEF V, W, A

\* Sequences with the same elements are the same.
LEMMA SameSequence ==
  ASSUME NEW s \in Seq(Nat), NEW t \in Seq(Nat), Len(t) = Len(s), \A i \in 1 .. Len(s) : s[i] = t[i]
  PROVE  s = t
<1>1. s = [i \in 1 .. Len(s) |-> s[i]] /\ t = [i \in 1 .. Len(t) |-> t[i]]
  OBVIOUS
<1> DEFINE n == Len(s)
<1>2. [i \in 1 .. n |-> s[i]] = [i \in 1 .. n |-> t[i]]
  OBVIOUS
<1>. QED  BY <1>1, <1>2

\* The payloads without those of the first records.
LEMMA ValuesTail ==
  ASSUME NEW D \in Seq(Entries), NEW A \in Seq(Entries), Len(A) = Len(D) + 1,
         \A i \in 1 .. Len(D) : A[i + 1] = D[i]
  PROVE  Values(D) = Tail(Values(A))
<1> DEFINE W == Values(A)
           V == Values(D)
<1>1. W \in Seq(Nat) /\ Len(W) = Len(A) /\ \A i \in 1 .. Len(A) : W[i] = A[i].v
  BY ValuesTyped
<1>2. V \in Seq(Nat) /\ Len(V) = Len(D) /\ \A i \in 1 .. Len(D) : V[i] = D[i].v
  BY ValuesTyped
<1> HIDE DEF V, W
<1>3. Len(D) \in Nat /\ W # <<>>
  BY <1>1
<1>4. Tail(W) \in Seq(Nat) /\ Len(Tail(W)) = Len(D) /\ \A i \in 1 .. Len(D) : Tail(W)[i] = W[i + 1]
  BY <1>1, <1>3
<1>5. \A i \in 1 .. Len(V) : V[i] = Tail(W)[i]
  <2> TAKE i \in 1 .. Len(V)
  <2>1. i \in 1 .. Len(D) /\ i + 1 \in 1 .. Len(A)
    BY <1>2, <1>3
  <2>. QED  BY <1>1, <1>2, <1>4, <2>1
<1>6. V = Tail(W)
  BY <1>2, <1>4, <1>5, SameSequence
<1>. QED  BY <1>6 DEF V, W

\* What one append made of the durable records is what RingLog's append makes of their
\* payloads: one record more and, if it is one too many, the oldest gone.
LEMMA NewestRefines ==
  ASSUME Uniform, NEW O \in Seq(Entries), NEW D \in Seq(Entries), NEW e \in Entries,
         Len(O) <= Most, Len(D) <= Most, Newest(Append(O, e), D)
  PROVE  Values(D) = LET s == Append(Values(O), e.v) IN IF Len(s) > Most THEN Tail(s) ELSE s
<1> DEFINE A == Append(O, e)
           s == Append(Values(O), e.v)
<1>1. PICK S \in Seq(Entries) : A = S \o D /\ (S = <<>> \/ Len(D) >= Most)
  BY DEF Newest
<1>2. A \in Seq(Entries) /\ Len(A) = Len(O) + 1
  OBVIOUS
<1>3. s = Values(A) /\ Len(s) = Len(A)
  BY <1>2, ValuesAppend, ValuesTyped
<1>4. Most \in Nat /\ Len(D) \in Nat /\ Len(O) \in Nat /\ Len(S) \in Nat /\ Len(S \o D) = Len(S) + Len(D)
  BY UniformTypes
<1>5. \A i \in 1 .. Len(D) : (S \o D)[Len(S) + i] = D[i]
  OBVIOUS
<1> HIDE DEF A, s
<1>6. CASE S = <<>>
  <2>1. A = D
    BY <1>1, <1>6
  <2>2. ~(Len(s) > Most)
    BY <1>3, <1>4, <2>1
  <2>. QED  BY <1>3, <2>1, <2>2 DEF s
<1>7. CASE S # <<>>
  <2>1. Len(S) # 0
    BY <1>7
  <2>2. Len(S) = 1 /\ Len(D) = Most /\ Len(A) = Len(D) + 1
    <3>1. Len(D) >= Most /\ Len(S) + Len(D) = Len(O) + 1
      BY <1>1, <1>2, <1>4, <1>7
    <3> DEFINE a == Len(S)
               b == Len(D)
               o == Len(O)
    <3>2. /\ a \in Nat /\ b \in Nat /\ o \in Nat /\ Most \in Nat /\ a # 0 /\ b >= Most /\ a + b = o + 1
          /\ o <= Most
      BY <1>4, <2>1, <3>1
    <3> HIDE DEF a, b, o
    <3>3. a = 1 /\ b = Most /\ o + 1 = b + 1
      BY <3>2
    <3>. QED  BY <1>2, <3>3 DEF a, b, o
  <2>3. \A i \in 1 .. Len(D) : A[i + 1] = D[i]
    BY <1>1, <1>4, <1>5, <2>2
  <2>4. Values(D) = Tail(s)
    BY <1>2, <1>3, <2>2, <2>3, ValuesTail
  <2>5. Len(s) > Most
    BY <1>3, <1>4, <2>2
  <2>. QED  BY <2>4, <2>5 DEF s
<1>. QED  BY <1>6, <1>7

\* As a call begins, RingLog takes the step of the call before it.
LEMMA BeginRefines ==
  ASSUME Uniform, IInv, UInv, calls.faults = 0, NEW touched, Begin(touched)
  PROVE  [RingLog!Next]_Visible
<1> DEFINE O == old.durable
           D == Durable.recs
<1>1. Regular /\ AtRest /\ Outcome /\ media \in Media /\ pc = "idle"
  BY DEF UInv, IInv, Types, Begin
<1>2. old'.durable = D /\ D \in Seq(Entries) /\ Len(D) <= Most
  BY <1>1, Starting
<1>3. O \in Seq(Entries) /\ Len(O) <= Most
  BY <1>1 DEF Outcome
<1>4. Visible = Values(O) /\ Visible' = Values(D)
  BY <1>2 DEF Visible, Values
<1>5. \/ D = O
      \/ D = <<>>
      \/ \E e \in Entries : e.v \in 1 .. MaxCalls /\ Newest(Append(O, e), D)
  BY <1>1 DEF Outcome
<1> HIDE DEF O, D
<1>6. CASE D = O
  BY <1>4, <1>6
<1>7. CASE D = <<>>
  <2>1. Values(D) = <<>>
    <3>1. Len(Values(D)) = 0 /\ Values(D) \in Seq(Nat)
      BY <1>2, <1>7, ValuesTyped
    <3>. QED  BY <3>1
  <2>. QED  BY <1>4, <2>1 DEF RingLog!Next, RingLog!Format
<1>8. ASSUME NEW e \in Entries, e.v \in 1 .. MaxCalls, Newest(Append(O, e), D)
      PROVE  RingLog!Next
  <2>1. Values(D) = LET s == Append(Values(O), e.v) IN IF Len(s) > Most THEN Tail(s) ELSE s
    BY <1>2, <1>3, <1>8, NewestRefines
  <2>2. RingLog!Append1(e.v)
    BY <1>4, <2>1 DEF RingLog!Append1, RingLog!Newest, Most, Unit
  <2>. QED  BY <1>8, <2>2 DEF RingLog!Next
<1>. QED  BY <1>5, <1>6, <1>7, <1>8

\* Every other step leaves what a mount would have found.
LEMMA StepRefinesRingLog ==
  ASSUME Uniform, IInv, UInv, calls.faults = 0, [Next]_vars
  PROVE  [RingLog!Next]_Visible
<1>1. CASE old' = old
  BY <1>1 DEF Visible
<1>2. CASE Format
  BY <1>2, BeginRefines DEF Format
<1>3. CASE \E len \in Lens : AppendRecord(len)
  BY <1>3, BeginRefines DEF AppendRecord
<1>4. CASE Mount
  BY <1>4, BeginRefines, Zenon DEF Mount
<1>5. CASE WriteCells \/ WrapWritten \/ DataWritten \/ PublishA \/ PublishB \/ IoError \/ PowerLoss
           \/ UNCHANGED vars
  BY <1>1, <1>5 DEF WriteCells, WrapWritten, DataWritten, PublishA, PublishB, IoError, PowerLoss, vars
<1>. QED  BY <1>2, <1>3, <1>4, <1>5 DEF Next

\* While no fault is allowed there is none.
LEMMA NoFaults ==
  ASSUME MaxFaults = 0, IInv, calls.faults = 0, [Next]_vars
  PROVE  calls'.faults = 0
<1>1. calls \in [appends : Nat, faults : Nat, formats : Nat] /\ ~(calls.faults < MaxFaults)
  BY DEF IInv, Types
<1>2. ~IoError
  BY <1>1 DEF IoError
<1>3. PowerLoss => calls' = calls
  BY <1>1 DEF PowerLoss
<1>4. CASE Format \/ \E len \in Lens : AppendRecord(len)
  BY <1>1, <1>4 DEF Format, AppendRecord
<1>5. CASE WriteCells \/ WrapWritten \/ DataWritten \/ PublishA \/ PublishB \/ Mount \/ UNCHANGED vars
  BY <1>5 DEF WriteCells, WrapWritten, DataWritten, PublishA, PublishB, Mount, vars
<1>. QED  BY <1>2, <1>3, <1>4, <1>5 DEF Next

\* Ring mode with records of one size implements RingLog while the HAL works and power
\* is lost only between calls: to whoever mounts, nvlog_append is atomic, and evicts
\* the oldest record and no other when the area is full.
THEOREM RingIsRingLog ==
  ASSUME Uniform, MaxFaults = 0
  PROVE  Spec => ImplementsRingLog
<1> DEFINE F == calls.faults = 0
<1>1. Init => F /\ RingLog!Init
  <2>1. ASSUME Init PROVE RingLog!Init
    <3>1. old.durable = <<>>
      BY <2>1 DEF Init
    <3>2. Visible = Values(<<>>) /\ <<>> \in Seq(Entries)
      BY <3>1 DEF Visible, Values
    <3>3. Len(Values(<<>>)) = 0 /\ Values(<<>>) \in Seq(Nat)
      BY <3>2, ValuesTyped
    <3>. QED  BY <3>2, <3>3 DEF RingLog!Init
  <2>. QED  BY <2>1 DEF Init
<1>2. F /\ IInv /\ [Next]_vars => F'
  BY NoFaults
<1>3. F /\ IInv /\ UInv /\ [Next]_vars => [RingLog!Next]_Visible
  BY StepRefinesRingLog
<1>. QED  BY <1>1, <1>2, <1>3, RingInvariant, RingUniform, PTL DEF Spec, ImplementsRingLog, RingLog!Spec

=============================================================================
