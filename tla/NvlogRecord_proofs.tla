------------------------- MODULE NvlogRecord_proofs -------------------------
(***************************************************************************)
(* The record format of NvlogRecord, for every record area: what a write   *)
(* of cells leaves where it did not reach, what verify_record makes of a   *)
(* complete record, of the remains of one and of erased cells.             *)
(*                                                                         *)
(* Induction over the record area, which has no bound here, goes through   *)
(* sets of cursors: a nonempty set of naturals has a least element.        *)
(***************************************************************************)
EXTENDS NvlogRecord, TLAPS, WellFoundedInduction

-----------------------------------------------------------------------------
\* A nonempty set of natural numbers has a least element.
LEMMA LeastNat ==
  ASSUME NEW T, T \subseteq Nat, T # {}
  PROVE  \E x \in T : \A y \in T : x <= y
<1> DEFINE R == OpToRel(<, Nat)
<1>1. IsWellFoundedOn(R, Nat)
  BY NatLessThanWellFounded
<1>2. \A x, y \in Nat : x < y => <<x, y>> \in R
  BY SMT DEF OpToRel
<1> HIDE DEF R
<1>3. PICK x \in T : \A y \in T : ~ (<<y, x>> \in R)
  BY <1>1, WFMin, Zenon
<1>4. ASSUME NEW y \in T PROVE x <= y
  <2>1. x \in Nat /\ y \in Nat
    OBVIOUS
  <2>2. ~(y < x)
    BY <1>2, <1>3, <2>1
  <2>. QED  BY <2>1, <2>2
<1>. QED  BY <1>4

\* Induction downwards: a set that holds n + 1 and with every number the one
\* below it holds 1.
LEMMA DownToOne ==
  ASSUME NEW n \in Nat, NEW S, n + 1 \in S, \A i \in 1 .. n : i + 1 \in S => i \in S
  PROVE  1 \in S
<1> DEFINE T == {i \in 1 .. n + 1 : i \in S}
<1>1. PICK i \in T : \A j \in T : i <= j
  <2>1. T \subseteq Nat /\ T # {}
    OBVIOUS
  <2> HIDE DEF T
  <2>. QED  BY <2>1, LeastNat
<1>2. CASE i = 1
  BY <1>2
<1>3. CASE i # 1
  <2>1. i - 1 \in 1 .. n /\ (i - 1) + 1 = i
    BY <1>3
  <2>2. i - 1 \in S
    BY <2>1
  <2>. QED  BY <1>1, <2>1, <2>2
<1>. QED  BY <1>2, <1>3

UpFrom(k) == {c \in Nat : c >= k}

\* A walk that moves forward at every step and stops beyond n.
IsWalk(n, V, stop, next, base, comb) ==
  /\ n \in Nat
  /\ \A c \in Nat : c > n => stop[c]
  /\ \A c \in Nat : stop[c] => base[c] \in V
  /\ \A c \in Nat : ~stop[c] => next[c] \in UpFrom(c + 1)
  /\ \A c \in Nat : \A v \in V : ~stop[c] => comb[c][v] \in V

IsResult(g, V, stop, next, base, comb) ==
  /\ g \in [Nat -> V]
  /\ \A c \in Nat : g[c] = IF stop[c] THEN base[c] ELSE comb[c][g[next[c]]]

\* Such a walk defines a function: what it returns from each cursor on.
LEMMA WalkExists ==
  ASSUME NEW n, NEW V, NEW stop, NEW next, NEW base, NEW comb,
         IsWalk(n, V, stop, next, base, comb)
  PROVE  \E g : IsResult(g, V, stop, next, base, comb)
<1> USE DEF IsWalk, IsResult
<1> DEFINE Solves(g, k) ==
             \A c \in UpFrom(k) : g[c] = IF stop[c] THEN base[c] ELSE comb[c][g[next[c]]]
           P(k) == \E g \in [UpFrom(k) -> V] : Solves(g, k)
           T == {k \in 0 .. n + 1 : ~P(n + 1 - k)}
<1>1. SUFFICES ASSUME ~P(0) PROVE FALSE
  <2>1. UpFrom(0) = Nat
    BY DEF UpFrom
  <2>. QED  BY <2>1, Zenon
<1> HIDE DEF P
<1>2. n + 1 \in T
  <2>1. (n + 1) - (n + 1) = 0
    OBVIOUS
  <2>. QED  BY <1>1, <2>1
<1>3. PICK k \in T : \A j \in T : k <= j
  <2>1. T \subseteq Nat /\ T # {}
    BY <1>2
  <2> HIDE DEF T
  <2>. QED  BY <2>1, LeastNat
<1> DEFINE c0 == n + 1 - k
<1>4. k \in 0 .. n + 1 /\ ~P(c0) /\ c0 \in 0 .. n + 1
  BY <1>3
<1>5. CASE k = 0
  <2> DEFINE g == [c \in UpFrom(c0) |-> base[c]]
  <2>1. \A c \in UpFrom(c0) : c \in Nat /\ stop[c]
    BY <1>4, <1>5 DEF UpFrom
  <2>2. g \in [UpFrom(c0) -> V] /\ Solves(g, c0)
    BY <2>1
  <2> HIDE DEF g
  <2>. QED  BY <1>4, <2>2 DEF P
<1>6. CASE k # 0
  <2>1. PICK h \in [UpFrom(c0 + 1) -> V] : Solves(h, c0 + 1)
    <3>1. k - 1 \in 0 .. n + 1 /\ k - 1 < k /\ n + 1 - (k - 1) = c0 + 1
      BY <1>4, <1>6
    <3>2. k - 1 \notin T
      BY <1>3, <1>4, <3>1
    <3>3. P(n + 1 - (k - 1))
      BY <3>1, <3>2
    <3>. QED  BY <3>1, <3>3 DEF P
  <2> DEFINE v0 == IF stop[c0] THEN base[c0] ELSE comb[c0][h[next[c0]]]
             g == [c \in UpFrom(c0) |-> IF c = c0 THEN v0 ELSE h[c]]
  <2>2. c0 \in Nat /\ UpFrom(c0) \subseteq Nat /\ UpFrom(c0 + 1) \subseteq UpFrom(c0)
        /\ \A c \in UpFrom(c0) : c # c0 => c \in UpFrom(c0 + 1)
    BY <1>4 DEF UpFrom
  <2>3. v0 \in V
    <3>1. CASE stop[c0]
      BY <2>2, <3>1
    <3>2. CASE ~stop[c0]
      <4>1. h[next[c0]] \in V
        BY <2>2, <3>2
      <4>. QED  BY <2>2, <3>2, <4>1
    <3>. QED  BY <3>1, <3>2
  <2> HIDE DEF v0
  <2>4. g \in [UpFrom(c0) -> V]
    BY <2>2, <2>3
  <2>5. Solves(g, c0)
    <3> SUFFICES ASSUME NEW c \in UpFrom(c0)
                 PROVE  g[c] = IF stop[c] THEN base[c] ELSE comb[c][g[next[c]]]
      OBVIOUS
    <3>1. c \in Nat /\ c0 \in Nat /\ c >= c0
      BY <2>2 DEF UpFrom
    <3>2. ~stop[c] => next[c] \in UpFrom(c0) /\ next[c] # c0
      BY <3>1 DEF UpFrom
    <3>3. ~stop[c] => g[next[c]] = h[next[c]]
      BY <3>2
    <3>4. CASE c = c0
      BY <3>3, <3>4, <2>2 DEF v0
    <3>5. CASE c # c0
      <4>1. c \in UpFrom(c0 + 1)
        BY <2>2, <3>5
      <4>2. h[c] = IF stop[c] THEN base[c] ELSE comb[c][h[next[c]]]
        BY <2>1, <4>1
      <4>. QED  BY <3>3, <3>5, <4>2
    <3>. QED  BY <3>4, <3>5
  <2>. QED  BY <1>4, <2>4, <2>5 DEF P
<1>. QED  BY <1>5, <1>6

-----------------------------------------------------------------------------
\* A recursion over any set, with a measure that every step makes smaller.
IsRecursion(D, V, mu, stop, next, base, comb) ==
  /\ mu \in [D -> Nat]
  /\ \A d \in D : stop[d] => base[d] \in V
  /\ \A d \in D : ~stop[d] => next[d] \in D /\ mu[next[d]] < mu[d]
  /\ \A d \in D : \A v \in V : ~stop[d] => comb[d][v] \in V

Solves(g, E, stop, next, base, comb) ==
  \A d \in E : g[d] = IF stop[d] THEN base[d] ELSE comb[d][g[next[d]]]

Under(D, mu, n) == {d \in D : mu[d] < n}

\* Up to every value of the measure there is a solution.
LEMMA BoundedRecursion ==
  ASSUME NEW D, NEW V, NEW mu, NEW stop, NEW next, NEW base, NEW comb,
         IsRecursion(D, V, mu, stop, next, base, comb), NEW n \in Nat
  PROVE  \E g \in [Under(D, mu, n) -> V] :
            Solves(g, Under(D, mu, n), stop, next, base, comb)
<1> DEFINE Below(k) == {d \in D : mu[d] < k}
           P(k) == \E g \in [Below(k) -> V] : Solves(g, Below(k), stop, next, base, comb)
           T == {k \in Nat : ~P(k)}
<1>0. \A d \in D : mu[d] \in Nat
  BY DEF IsRecursion
<1>1. P(0)
  <2>1. Below(0) = {}
    BY <1>0
  <2>2. [d \in {} |-> 0] \in [{} -> V]
    OBVIOUS
  <2>. QED  BY <2>1, <2>2 DEF Solves
<1>2. ASSUME NEW k \in Nat, P(k) PROVE P(k + 1)
  <2>1. PICK h \in [Below(k) -> V] : Solves(h, Below(k), stop, next, base, comb)
    BY <1>2
  <2> DEFINE g == [d \in Below(k + 1) |-> IF stop[d] THEN base[d] ELSE comb[d][h[next[d]]]]
  <2>2. \A d \in Below(k + 1) : d \in D /\ (~stop[d] => next[d] \in Below(k))
    BY <1>0 DEF IsRecursion
  <2>3. g \in [Below(k + 1) -> V]
    <3> SUFFICES ASSUME NEW d \in Below(k + 1)
                 PROVE  (IF stop[d] THEN base[d] ELSE comb[d][h[next[d]]]) \in V
      OBVIOUS
    <3>1. ~stop[d] => h[next[d]] \in V
      BY <2>2
    <3> HIDE DEF Below
    <3>. QED  BY <2>2, <3>1 DEF IsRecursion
  <2>4. \A d \in Below(k) : d \in Below(k + 1) /\ h[d] = g[d]
    BY <1>0, <2>1 DEF Solves
  <2> HIDE DEF Below
  <2>5. Solves(g, Below(k + 1), stop, next, base, comb)
    <3> SUFFICES ASSUME NEW d \in Below(k + 1)
                 PROVE  g[d] = IF stop[d] THEN base[d] ELSE comb[d][g[next[d]]]
      BY DEF Solves
    <3>1. ~stop[d] => h[next[d]] = g[next[d]]
      BY <2>2, <2>4
    <3>. QED  BY <3>1
  <2>. QED  BY <2>3, <2>5
<1> HIDE DEF P
<1>3. T = {}
  <2> SUFFICES ASSUME T # {} PROVE FALSE
    OBVIOUS
  <2>1. T \subseteq Nat
    OBVIOUS
  <2> HIDE DEF T
  <2>2. PICK k \in T : \A j \in T : k <= j
    BY <2>1, LeastNat
  <2>3. k \in Nat /\ ~P(k) /\ k # 0
    BY <1>1, <2>2 DEF T
  <2>4. k - 1 \in Nat /\ k - 1 \notin T /\ (k - 1) + 1 = k
    BY <2>1, <2>2, <2>3
  <2>. QED  BY <1>2, <2>3, <2>4 DEF T
<1>4. P(n)
  BY <1>3
<1>. QED  BY <1>4 DEF P, Under

\* Two solutions agree where both are solutions.
LEMMA SolutionsAgree ==
  ASSUME NEW D, NEW V, NEW mu, NEW stop, NEW next, NEW base, NEW comb,
         IsRecursion(D, V, mu, stop, next, base, comb),
         NEW j \in Nat, NEW n \in Nat, NEW g, NEW h,
         Solves(g, Under(D, mu, j), stop, next, base, comb),
         Solves(h, Under(D, mu, n), stop, next, base, comb)
  PROVE  \A d \in D : mu[d] < j /\ mu[d] < n => g[d] = h[d]
<1> DEFINE T == {k \in Nat : \E d \in D : mu[d] = k /\ k < j /\ k < n /\ g[d] # h[d]}
<1>0. \A d \in D : mu[d] \in Nat
  BY DEF IsRecursion
<1>1. T = {}
  <2> SUFFICES ASSUME T # {} PROVE FALSE
    OBVIOUS
  <2>1. T \subseteq Nat
    OBVIOUS
  <2> HIDE DEF T
  <2>2. PICK k \in T : \A i \in T : k <= i
    BY <2>1, LeastNat
  <2>3. PICK d \in D : mu[d] = k /\ k < j /\ k < n /\ g[d] # h[d]
    BY <2>2 DEF T
  <2>4. /\ g[d] = IF stop[d] THEN base[d] ELSE comb[d][g[next[d]]]
        /\ h[d] = IF stop[d] THEN base[d] ELSE comb[d][h[next[d]]]
    BY <2>3 DEF Solves, Under
  <2>5. ~stop[d] /\ g[next[d]] # h[next[d]]
    BY <2>3, <2>4
  <2>6. next[d] \in D /\ mu[next[d]] \in Nat /\ mu[next[d]] < k
    BY <1>0, <2>3, <2>5 DEF IsRecursion
  <2>7. k \in Nat
    BY <2>1, <2>2
  <2>8. mu[next[d]] \in T
    BY <2>3, <2>5, <2>6, <2>7 DEF T
  <2>. QED  BY <2>2, <2>6, <2>7, <2>8
<1>. QED  BY <1>0, <1>1

\* Such a recursion defines a function.
LEMMA RecursionExists ==
  ASSUME NEW D, NEW V, NEW mu, NEW stop, NEW next, NEW base, NEW comb,
         IsRecursion(D, V, mu, stop, next, base, comb)
  PROVE  \E g \in [D -> V] : Solves(g, D, stop, next, base, comb)
<1> DEFINE Good(h, k) == h \in [Under(D, mu, k) -> V]
                         /\ Solves(h, Under(D, mu, k), stop, next, base, comb)
           G == [k \in Nat |-> CHOOSE h : Good(h, k)]
           g == [d \in D |-> G[mu[d] + 1][d]]
<1>0. \A d \in D : mu[d] \in Nat /\ mu[d] + 1 \in Nat /\ mu[d] < mu[d] + 1
  BY DEF IsRecursion
<1>1. \A k \in Nat : Good(G[k], k)
  <2> SUFFICES ASSUME NEW k \in Nat PROVE Good(G[k], k)
    OBVIOUS
  <2>1. \E h : Good(h, k)
    BY BoundedRecursion, Zenon
  <2> HIDE DEF Good
  <2>. QED  BY <2>1
<1> HIDE DEF G
<1>2. \A d \in D : d \in Under(D, mu, mu[d] + 1)
  BY <1>0 DEF Under
<1>3. g \in [D -> V]
  BY <1>0, <1>1, <1>2
<1>4. ASSUME NEW d \in D PROVE g[d] = IF stop[d] THEN base[d] ELSE comb[d][g[next[d]]]
  <2> DEFINE h == G[mu[d] + 1]
  <2>1. Good(h, mu[d] + 1)
    BY <1>0, <1>1
  <2>2. g[d] = h[d] /\ h[d] = IF stop[d] THEN base[d] ELSE comb[d][h[next[d]]]
    BY <1>2, <2>1 DEF Solves
  <2>3. CASE stop[d]
    BY <2>2, <2>3
  <2>4. CASE ~stop[d]
    <3> DEFINE e == next[d]
    <3>1. e \in D /\ mu[e] \in Nat /\ mu[e] < mu[d]
      BY <1>0, <2>4 DEF IsRecursion
    <3>2. Good(G[mu[e] + 1], mu[e] + 1) /\ mu[e] + 1 \in Nat
      BY <1>0, <1>1, <3>1
    <3> HIDE DEF h, e, g
    <3>3. h[e] = G[mu[e] + 1][e]
      BY <1>0, <2>1, <3>1, <3>2, SolutionsAgree
    <3>4. g[e] = G[mu[e] + 1][e]
      BY <3>1 DEF g
    <3>. QED  BY <2>2, <2>4, <3>3, <3>4 DEF e
  <2>. QED  BY <2>3, <2>4
<1>. QED  BY <1>3, <1>4 DEF Solves

-----------------------------------------------------------------------------

ErasedFrom(m, n, b) == \A i \in b .. n - 1 : m[i] = Erased

HeaderAt(m, b, d) == \A k \in 1 .. HdrCells : m[b + k - 1] = HeaderCell(d, k)

BodyAt(m, b, d, p) == \A k \in 1 .. d.len : m[b + HdrCells + k - 1] = PayloadCell(p)

\* A record with header d and payload p lies complete at b.
RecordAt(m, n, b, d, p) ==
  /\ b + rec_alloc_bytes(d.len) <= n
  /\ HeaderAt(m, b, d) /\ BodyAt(m, b, d, p)
  /\ m[b + HdrCells + d.len] = CrcCell(d, p)
  /\ m[b + HdrCells + d.len + 1] = Commit

\* Cells of different kinds differ.
LEMMA CellKinds ==
  ASSUME NEW d, NEW k, NEW p
  PROVE  /\ HeaderCell(d, k) # Erased /\ CrcCell(d, p) # Erased /\ Commit # Erased
         /\ PayloadCell(p) # Erased
         /\ HeaderCell(d, k)[1] = "header" /\ HeaderCell(d, k)[2] = k
         /\ HeaderCell(d, k)[3] = d
         /\ CrcCell(d, p)[1] = "crc" /\ CrcCell(d, p)[2] = d /\ CrcCell(d, p)[3] = p
BY DEF HeaderCell, CrcCell, Erased, Commit, PayloadCell

\* Where nothing is written, recovery finds the end of the log.
LEMMA VerifyEnd ==
  ASSUME NEW n \in Nat, NEW c \in Nat, NEW m, DOMAIN m = 0 .. n - 1, NEW gen,
         c + Overhead <= n, ErasedFrom(m, n, c)
  PROVE  verify_record(m, c, gen, n).res = "END"
<1> DEFINE raw == [k \in 1 .. HdrCells |-> At(m, c + k - 1)]
<1>1. \A k \in 1 .. HdrCells : raw[k] = Erased
  BY HdrCellsAssumption DEF At, ErasedFrom, Overhead
<1>. QED  BY <1>1, Zenon DEF verify_record

\* A header whose commit marker is not there: the record is incomplete.
LEMMA VerifyIncomplete ==
  ASSUME NEW n \in Nat, NEW c \in Nat, NEW m, DOMAIN m = 0 .. n - 1,
         NEW d, d.len \in Nat,
         c + rec_alloc_bytes(d.len) <= n, HeaderAt(m, c, d),
         m[c + HdrCells + d.len + 1] = Erased
  PROVE  /\ verify_record(m, c, d.gen, n).res = "INCOMPLETE"
         /\ verify_record(m, c, d.gen, n).d = d
<1> DEFINE raw == [k \in 1 .. HdrCells |-> At(m, c + k - 1)]
           marker == At(m, c + HdrCells + d.len + 1)
<1>1. \A k \in 1 .. HdrCells : raw[k] = HeaderCell(d, k)
  BY HdrCellsAssumption DEF At, HeaderAt, rec_alloc_bytes, Overhead
<1>2. 1 \in 1 .. HdrCells
  BY HdrCellsAssumption
<1> HIDE DEF raw
<1>3. raw[1] = HeaderCell(d, 1)
  BY <1>1, <1>2, Zenon
<1>4. /\ raw[1][1] = "header" /\ raw[1][2] = 1 /\ raw[1][3] = d
      /\ ~ \A k \in 1 .. HdrCells : raw[k] = Erased
  <2>1. /\ HeaderCell(d, 1) # Erased
        /\ HeaderCell(d, 1)[1] = "header" /\ HeaderCell(d, 1)[2] = 1
        /\ HeaderCell(d, 1)[3] = d
    BY CellKinds
  <2>. QED  BY <1>2, <1>3, <2>1
<1>5. ~ \E k \in 2 .. HdrCells : raw[k] # HeaderCell(d, k)
  BY <1>1, HdrCellsAssumption
<1>6. marker = Erased
  BY HdrCellsAssumption DEF At, rec_alloc_bytes, Overhead
<1>7. ~(c + rec_alloc_bytes(d.len) > n)
  BY HdrCellsAssumption DEF rec_alloc_bytes, Overhead
<1> HIDE DEF marker
<1>. QED  BY <1>4, <1>5, <1>6, <1>7 DEF verify_record, raw, marker

\* A complete record verifies, and proves the payload it carries.
LEMMA VerifyValid ==
  ASSUME NEW n \in Nat, NEW c \in Nat, NEW m, DOMAIN m = 0 .. n - 1,
         NEW d, d.len \in Nat, NEW p, RecordAt(m, n, c, d, p)
  PROVE  verify_record(m, c, d.gen, n) = [res |-> "VALID", d |-> d, v |-> p]
<1> DEFINE raw == [k \in 1 .. HdrCells |-> At(m, c + k - 1)]
           crc == At(m, c + HdrCells + d.len)
           marker == At(m, c + HdrCells + d.len + 1)
           body == {At(m, c + HdrCells + k) : k \in 0 .. d.len - 1}
<1>1. HdrCells \in Nat /\ c + HdrCells + d.len + 2 <= n
  BY HdrCellsAssumption DEF RecordAt, rec_alloc_bytes, Overhead
<1>2. \A k \in 1 .. HdrCells : raw[k] = HeaderCell(d, k)
  BY <1>1 DEF At, HeaderAt, RecordAt
<1>3. 1 \in 1 .. HdrCells
  BY HdrCellsAssumption
<1> HIDE DEF raw
<1>4. raw[1] = HeaderCell(d, 1)
  BY <1>2, <1>3, Zenon
<1>5. /\ raw[1][1] = "header" /\ raw[1][2] = 1 /\ raw[1][3] = d
      /\ ~ \A k \in 1 .. HdrCells : raw[k] = Erased
  <2>1. /\ HeaderCell(d, 1) # Erased
        /\ HeaderCell(d, 1)[1] = "header" /\ HeaderCell(d, 1)[2] = 1
        /\ HeaderCell(d, 1)[3] = d
    BY CellKinds
  <2>. QED  BY <1>3, <1>4, <2>1
<1>6. ~ \E k \in 2 .. HdrCells : raw[k] # HeaderCell(d, k)
  BY <1>2, <1>1
<1>7. marker = Commit /\ crc = CrcCell(d, p)
  BY <1>1 DEF At, RecordAt
<1>8. ~(c + rec_alloc_bytes(d.len) > n)
  BY <1>1 DEF rec_alloc_bytes, Overhead
<1> HIDE DEF marker, crc
<1>9. marker # Erased /\ crc # Erased /\ crc[1] = "crc" /\ crc[2] = d /\ crc[3] = p
  BY <1>7 DEF CrcCell, Commit, Erased
<1>10. crc_matches(crc, d, body)
  <2>1. \A k \in 0 .. d.len - 1 : At(m, c + HdrCells + k) = PayloadCell(p)
    <3> SUFFICES ASSUME NEW k \in 0 .. d.len - 1
                 PROVE  At(m, c + HdrCells + k) = PayloadCell(p)
      OBVIOUS
    <3>1. k + 1 \in 1 .. d.len /\ c + HdrCells + (k + 1) - 1 = c + HdrCells + k
          /\ c + HdrCells + k \in 0 .. n - 1
      BY <1>1
    <3>. QED  BY <3>1 DEF At, RecordAt, BodyAt
  <2>2. body = {PayloadCell(p) : k \in 1 .. d.len}
    <3>1. \A k \in 0 .. d.len - 1 : k + 1 \in 1 .. d.len
      OBVIOUS
    <3>2. \A k \in 1 .. d.len : k - 1 \in 0 .. d.len - 1
      OBVIOUS
    <3>. QED  BY <2>1, <3>1, <3>2
  <2>. QED  BY <1>9, <2>2 DEF crc_matches
<1> HIDE DEF body
<1>. QED  BY <1>5, <1>6, <1>7, <1>8, <1>10, <1>9 DEF verify_record, raw, marker, body, crc

-----------------------------------------------------------------------------
\* What can lie in a cell, where payloads are from P.
Headers == [type : {"DATA", "WRAP"}, seq : Nat, len : Nat, gen : Nat]

Cells(P) ==
  {Erased, Commit} \cup {HeaderCell(d, k) : d \in Headers, k \in 1 .. HdrCells}
    \cup {PayloadCell(p) : p \in P} \cup {CrcCell(d, p) : d \in Headers, p \in P}

\* A header cell carries a header, a CRC cell the payload it was computed over.
LEMMA CellTypes ==
  ASSUME NEW P, NEW x \in Cells(P)
  PROVE  /\ x[1] = "header" => x[3] \in Headers
         /\ x[1] = "crc" => x[3] \in P
BY DEF Cells, Erased, Commit, HeaderCell, PayloadCell, CrcCell

\* Whatever lies on the media, a header that recovery reads has a length, so that
\* a step over its record moves forward; and a record that verifies has a payload.
LEMMA VerifyTyped ==
  ASSUME NEW P, NEW n \in Nat, NEW m \in [0 .. n - 1 -> Cells(P)], NEW c \in Nat, NEW gen
  PROVE  LET r == verify_record(m, c, gen, n)
         IN  /\ r.d # <<>> => r.d \in Headers
             /\ r.res = "VALID" => r.d \in Headers /\ r.v \in P
<1> DEFINE raw == [k \in 1 .. HdrCells |-> At(m, c + k - 1)]
           hasMagic == raw[1][1] = "header" /\ raw[1][2] = 1
           d == raw[1][3]
           crc == At(m, c + HdrCells + d.len)
           r == verify_record(m, c, gen, n)
<1>1. Erased \in Cells(P)
  BY DEF Cells
<1>2. \A i : At(m, i) \in Cells(P)
  BY <1>1 DEF At
<1>3. raw[1] \in Cells(P)
  BY <1>2, HdrCellsAssumption
<1>4. crc \in Cells(P)
  BY <1>2
<1> HIDE DEF raw, crc
<1>5. hasMagic => d \in Headers
  BY <1>3, CellTypes
<1>6. crc[1] = "crc" => crc[3] \in P
  BY <1>4, CellTypes
<1>7. r.d = IF hasMagic THEN d ELSE <<>>
  BY DEF verify_record, raw
<1>8. r.res = "VALID" => hasMagic /\ crc[1] = "crc" /\ r.v = crc[3]
  BY DEF verify_record, raw, crc
<1> HIDE DEF r, hasMagic, d
<1>9. /\ r.d # <<>> => r.d \in Headers
      /\ r.res = "VALID" => r.d \in Headers /\ r.v \in P
  BY <1>5, <1>6, <1>7, <1>8
<1>. QED  BY <1>9, Zenon DEF r

\* A step over a record that does not verify moves forward, too: the length its
\* header holds is a natural number or too large for the addition.
LEMMA RawLenTyped ==
  ASSUME NEW P, NEW n \in Nat, NEW m \in [0 .. n - 1 -> Cells(P)], NEW c \in Nat
  PROVE  raw_len(m, c) # NoLen => raw_len(m, c) \in Nat
<1>1. At(m, c + HdrCells - 1) \in Cells(P)
  BY DEF At, Cells
<1>. QED  BY <1>1, CellTypes DEF raw_len, Headers

\* Where the whole header is there, that length is its payload length.
LEMMA RawLenOfHeader ==
  ASSUME NEW n \in Nat, NEW m, DOMAIN m = 0 .. n - 1, NEW b \in Nat, NEW d,
         b + HdrCells <= n, HeaderAt(m, b, d)
  PROVE  raw_len(m, b) = d.len
<1>1. HdrCells \in 1 .. HdrCells /\ b + HdrCells - 1 \in DOMAIN m
  BY HdrCellsAssumption
<1>2. At(m, b + HdrCells - 1) = HeaderCell(d, HdrCells)
  BY <1>1 DEF At, HeaderAt
<1>. QED  BY <1>2 DEF raw_len, HeaderCell

\* What verifies is a record: header, payload, CRC and commit marker are those
\* of one record of this generation, and inside the cells there are.
LEMMA ValidIsRecord ==
  ASSUME NEW P, NEW n \in Nat, NEW size \in Nat, n <= size,
         NEW m \in [0 .. n - 1 -> Cells(P)], NEW c \in Nat, NEW gen,
         verify_record(m, c, gen, size).res = "VALID"
  PROVE  LET r == verify_record(m, c, gen, size)
         IN  /\ r.d \in Headers /\ r.v \in P /\ r.d.gen = gen
             /\ RecordAt(m, n, c, r.d, r.v)
<1> DEFINE raw == [k \in 1 .. HdrCells |-> At(m, c + k - 1)]
           hasMagic == raw[1][1] = "header" /\ raw[1][2] = 1
           d == raw[1][3]
           crc == At(m, c + HdrCells + d.len)
           marker == At(m, c + HdrCells + d.len + 1)
           body == {At(m, c + HdrCells + k) : k \in 0 .. d.len - 1}
           r == verify_record(m, c, gen, size)
<1>1. \A i : At(m, i) \in Cells(P) /\ (At(m, i) # Erased => i \in 0 .. n - 1 /\ At(m, i) = m[i])
  BY DEF At, Cells
<1>2. \A k \in 1 .. HdrCells : raw[k] = At(m, c + k - 1)
  OBVIOUS
<1>3. 1 \in 1 .. HdrCells /\ HdrCells \in Nat
  BY HdrCellsAssumption
<1>4. hasMagic => d \in Headers
  <2>1. raw[1] \in Cells(P)
    BY <1>1, <1>3
  <2> HIDE DEF raw
  <2>. QED  BY <2>1, CellTypes
<1> HIDE DEF raw, crc, marker, body
<1>5. /\ hasMagic /\ d.gen = gen /\ r.d = d /\ r.v = crc[3]
      /\ ~ \E k \in 2 .. HdrCells : raw[k] # HeaderCell(d, k)
      /\ crc # Erased /\ crc[1] = "crc" /\ crc_matches(crc, d, body) /\ marker = Commit
  BY DEF verify_record, raw, crc, marker, body
<1> HIDE DEF r
<1>6. d \in Headers /\ d.len \in Nat
  BY <1>4, <1>5 DEF Headers
<1>7. /\ c + HdrCells + d.len + 1 \in 0 .. n - 1
      /\ m[c + HdrCells + d.len + 1] = Commit /\ m[c + HdrCells + d.len] = crc
      /\ crc \in Cells(P)
  <2>1. marker # Erased
    BY <1>5 DEF Commit, Erased
  <2>2. c + HdrCells + d.len + 1 \in 0 .. n - 1 /\ m[c + HdrCells + d.len + 1] = Commit
    BY <1>1, <1>5, <2>1 DEF marker
  <2>. QED  BY <1>1, <1>5, <2>2 DEF crc
<1>8. crc = CrcCell(d, crc[3]) /\ crc[3] \in P
  <2>1. PICK e \in Headers, p \in P : crc = CrcCell(e, p)
    BY <1>5, <1>7 DEF Cells, Erased, Commit, HeaderCell, PayloadCell
  <2>. QED  BY <1>5, <2>1 DEF crc_matches, CrcCell
<1> DEFINE p == crc[3]
<1>9. HeaderAt(m, c, d)
  <2> SUFFICES ASSUME NEW k \in 1 .. HdrCells PROVE m[c + k - 1] = HeaderCell(d, k)
    BY DEF HeaderAt
  <2>1. raw[k] = At(m, c + k - 1) /\ c + k - 1 \in 0 .. n - 1
    BY <1>2, <1>3, <1>6, <1>7
  <2>2. raw[k] = m[c + k - 1]
    BY <2>1 DEF At
  <2>3. raw[k] = HeaderCell(d, k)
    <3>1. CASE k = 1
      <4>1. raw[1] \in Cells(P)
        BY <1>1, <1>2, <1>3
      <4>2. PICK e \in Headers, j \in 1 .. HdrCells : raw[1] = HeaderCell(e, j)
        BY <1>5, <4>1 DEF Cells, Erased, Commit, CrcCell, PayloadCell
      <4>. QED  BY <1>5, <3>1, <4>2 DEF HeaderCell
    <3>2. CASE k # 1
      <4>1. k \in 2 .. HdrCells
        BY <3>2
      <4>. QED  BY <1>5, <4>1
    <3>. QED  BY <3>1, <3>2
  <2>. QED  BY <2>2, <2>3
<1>10. BodyAt(m, c, d, p)
  <2> SUFFICES ASSUME NEW k \in 1 .. d.len PROVE m[c + HdrCells + k - 1] = PayloadCell(p)
    BY DEF BodyAt
  <2>1. k - 1 \in 0 .. d.len - 1 /\ c + HdrCells + (k - 1) = c + HdrCells + k - 1
        /\ c + HdrCells + k - 1 \in 0 .. n - 1
    BY <1>3, <1>6, <1>7
  <2>2. At(m, c + HdrCells + (k - 1)) \in body
    BY <2>1 DEF body
  <2>3. At(m, c + HdrCells + (k - 1)) = m[c + HdrCells + k - 1]
    BY <2>1 DEF At
  <2>4. body = {PayloadCell(p) : j \in 1 .. d.len}
    BY <1>5 DEF crc_matches
  <2>. QED  BY <2>2, <2>3, <2>4
<1>11. c + rec_alloc_bytes(d.len) <= n
  BY <1>3, <1>6, <1>7 DEF rec_alloc_bytes, Overhead
<1>12. /\ d \in Headers /\ p \in P /\ d.gen = gen /\ r.d = d /\ r.v = p
       /\ RecordAt(m, n, c, d, p)
  BY <1>5, <1>6, <1>7, <1>8, <1>9, <1>10, <1>11 DEF RecordAt
<1>. QED  BY <1>12 DEF r

\* A complete record verifies in a larger region, too.
LEMMA RecordIsValid ==
  ASSUME NEW n \in Nat, NEW size \in Nat, n <= size, NEW c \in Nat, NEW m, DOMAIN m = 0 .. n - 1,
         NEW d, d.len \in Nat, NEW p, RecordAt(m, n, c, d, p)
  PROVE  verify_record(m, c, d.gen, size) = [res |-> "VALID", d |-> d, v |-> p]
<1>1. verify_record(m, c, d.gen, n) = [res |-> "VALID", d |-> d, v |-> p]
  BY VerifyValid
<1>2. ~(c + rec_alloc_bytes(d.len) > n) /\ ~(c + rec_alloc_bytes(d.len) > size)
  BY HdrCellsAssumption DEF RecordAt, rec_alloc_bytes, Overhead
<1>. QED  BY <1>1, <1>2 DEF verify_record

-----------------------------------------------------------------------------
\* The HAL writes of one record.
ClearWrite(b, d)  == HalWrite(b + HdrCells + d.len + 1, <<Erased>>)
HeaderWrite(b, d) == HalWrite(b, [k \in 1 .. HdrCells |-> HeaderCell(d, k)])
BodyWrite(b, d, p) == HalWrite(b + HdrCells, [k \in 1 .. d.len |-> PayloadCell(p)])
CrcWrite(b, d, p) == HalWrite(b + HdrCells + d.len, <<CrcCell(d, p)>>)
CommitWrite(b, d) == HalWrite(b + HdrCells + d.len + 1, <<Commit>>)

\* The HAL writes of an append, in order, with the clearing of the old marker.
LEMMA Joined ==
  ASSUME NEW P, NEW k \in P, NEW a \in P, NEW b \in P, NEW c \in P, NEW d \in P
  PROVE  /\ <<k>> \o (<<a>> \o <<b>> \o <<c, d>>) = <<k, a, b, c, d>>
         /\ <<k>> \o (<<a>> \o <<>> \o <<c, d>>) = <<k, a, c, d>>
<1> DEFINE x == <<k>> \o (<<a>> \o <<b>> \o <<c, d>>)
           y == <<k>> \o (<<a>> \o <<>> \o <<c, d>>)
<1>1. /\ x \in Seq(P) /\ Len(x) = 5
      /\ x[1] = k /\ x[2] = a /\ x[3] = b /\ x[4] = c /\ x[5] = d
  OBVIOUS
<1>2. /\ y \in Seq(P) /\ Len(y) = 4
      /\ y[1] = k /\ y[2] = a /\ y[3] = c /\ y[4] = d
  OBVIOUS
<1> HIDE DEF x, y
<1>3. x = <<k, a, b, c, d>>
  BY <1>1
<1>4. y = <<k, a, c, d>>
  BY <1>2
<1>. QED  BY <1>3, <1>4 DEF x, y

\* The writes of a record, one by one.
LEMMA WireWrites ==
  ASSUME NEW b, NEW d, d.len \in Nat, NEW p
  PROVE  LET Clr == ClearWrite(b, d)
             Hdr == HeaderWrite(b, d)
             Bod == BodyWrite(b, d, p)
             Crc == CrcWrite(b, d, p)
             Com == CommitWrite(b, d)
         IN  write_record_wire(b, d, p)
               = IF d.len > 0 THEN <<Clr, Hdr, Bod, Crc, Com>> ELSE <<Clr, Hdr, Crc, Com>>
<1> DEFINE Clr == ClearWrite(b, d)
           Hdr == HeaderWrite(b, d)
           Bod == BodyWrite(b, d, p)
           Crc == CrcWrite(b, d, p)
           Com == CommitWrite(b, d)
           P == {Clr, Hdr, Bod, Crc, Com}
<1>2. write_record_wire(b, d, p)
        = <<Clr>> \o (<<Hdr>> \o (IF d.len > 0 THEN <<Bod>> ELSE <<>>) \o <<Crc, Com>>)
  BY Zenon DEF write_record_wire, record_writes, ClearWrite, HeaderWrite, BodyWrite, CrcWrite,
               CommitWrite
<1>3. Clr \in P /\ Hdr \in P /\ Bod \in P /\ Crc \in P /\ Com \in P
  OBVIOUS
<1> HIDE DEF Clr, Hdr, Bod, Crc, Com, P
<1>4. /\ <<Clr>> \o (<<Hdr>> \o <<Bod>> \o <<Crc, Com>>) = <<Clr, Hdr, Bod, Crc, Com>>
      /\ <<Clr>> \o (<<Hdr>> \o <<>> \o <<Crc, Com>>) = <<Clr, Hdr, Crc, Com>>
  BY <1>3, Joined
<1>5. CASE d.len > 0
  <2>1. write_record_wire(b, d, p) = <<Clr>> \o (<<Hdr>> \o <<Bod>> \o <<Crc, Com>>)
    BY <1>2, <1>5, Zenon
  <2>. QED  BY <1>4, <1>5, <2>1 DEF Clr, Hdr, Bod, Crc, Com
<1>6. CASE ~(d.len > 0)
  <2>1. write_record_wire(b, d, p) = <<Clr>> \o (<<Hdr>> \o <<>> \o <<Crc, Com>>)
    BY <1>2, <1>6, Zenon
  <2>. QED  BY <1>4, <1>6, <2>1 DEF Clr, Hdr, Bod, Crc, Com
<1>. QED  BY <1>5, <1>6

\* The first of at most five HAL writes, and the others.
LEMMA HeadAndTail ==
  ASSUME NEW a, NEW x
  PROVE  /\ Head(<<a>>) = a /\ Tail(<<a>>) = <<>>
         /\ \A b, c, d, e : /\ Head(<<a, b>>) = a /\ Tail(<<a, b>>) = <<b>>
                            /\ Head(<<a, b, c>>) = a /\ Tail(<<a, b, c>>) = <<b, c>>
                            /\ Head(<<a, b, c, d>>) = a /\ Tail(<<a, b, c, d>>) = <<b, c, d>>
                            /\ Head(<<a, b, c, d, e>>) = a
                            /\ Tail(<<a, b, c, d, e>>) = <<b, c, d, e>>
OBVIOUS
=============================================================================
