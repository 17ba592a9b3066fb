------------------------- MODULE NvlogLinear_proofs -------------------------
(***************************************************************************)
(* The linear log of NvlogLinear, for a record area of any size, any       *)
(* payload lengths and any number of appends, HAL errors and power losses. *)
(*                                                                         *)
(* The media hold a chain of complete records from the start of the area,  *)
(* and behind it the tail of at most one append.  Both walks over the      *)
(* media deliver the chain, whatever that tail is; every HAL write of an   *)
(* append, torn or not, leaves such media.                                 *)
(***************************************************************************)
EXTENDS NvlogLinear, NvlogRecord_proofs

-----------------------------------------------------------------------------
Payloads == 1 .. MaxAppends

Media == [0 .. Cap - 1 -> Cells(Payloads)]

\* The record area is longer than the overhead of a record (rec_alloc_bytes of an
\* empty payload).
LEMMA CapNat == Cap \in Nat /\ Cap > Overhead /\ HdrCells \in Nat /\ HdrCells >= 1 /\ Overhead = HdrCells + 2
BY LinearAssumption, HdrCellsAssumption DEF Overhead

\* A record that verifies moves a walk forward.
LEMMA StepsForward ==
  ASSUME NEW c \in Nat, NEW len \in Nat
  PROVE  c + rec_alloc_bytes(len) \in UpFrom(c + 1)
BY CapNat DEF UpFrom, rec_alloc_bytes

\* What the scan returns from a cursor, by what lies there.
ScanStep(m, gen, c, rest) ==
  LET r == verify_record(m, c, gen, Cap)
      Stop(ok) == [ok |-> ok, wp |-> c, next |-> 0, recs |-> <<>>]
  IN  IF Cap < c + Overhead THEN Stop(TRUE)
      ELSE IF r.res = "VALID"
      THEN [rest[c + rec_alloc_bytes(r.d.len)] EXCEPT
              !.next = IF @ = 0 THEN r.d.seq + 1 ELSE @, !.recs = <<r.v>> \o @]
      ELSE Stop(r.res \in {"END", "INCOMPLETE"})

\* The scan of nvlog_mount takes one step, or stops, at every cursor: the recursive
\* function that models its loop is defined there.
LEMMA ScanUnfolds ==
  ASSUME NEW m \in Media, NEW gen
  PROVE  \A c \in Nat : scan_from(m, gen)[c] = ScanStep(m, gen, c, scan_from(m, gen))
<1> DEFINE r(c) == verify_record(m, c, gen, Cap)
           V == [ok : BOOLEAN, wp : Nat, next : Nat, recs : Seq(Payloads)]
           stop == [c \in Nat |-> Cap < c + Overhead \/ r(c).res # "VALID"]
           next == [c \in Nat |-> c + rec_alloc_bytes(r(c).d.len)]
           base == [c \in Nat |->
                      [ok |-> Cap < c + Overhead \/ r(c).res \in {"END", "INCOMPLETE"},
                       wp |-> c, next |-> 0, recs |-> <<>>]]
           comb == [c \in Nat |-> [v \in V |->
                      [v EXCEPT !.next = IF @ = 0 THEN r(c).d.seq + 1 ELSE @,
                                !.recs = <<r(c).v>> \o @]]]
           Body(h) == [c \in Nat |-> ScanStep(m, gen, c, h)]
<1>1. \A c \in Nat : r(c).res = "VALID" => r(c).d \in Headers /\ r(c).v \in Payloads
  BY VerifyTyped, CapNat DEF Media
<1>2. \A c \in Nat : c > Cap => Cap < c + Overhead
  BY CapNat
<1> HIDE DEF r
<1>3. \A c \in Nat : stop[c] <=> (Cap < c + Overhead \/ r(c).res # "VALID")
  BY Zenon
<1>4. Cap \in Nat /\ \A c \in Nat : c > Cap => stop[c]
  BY <1>2, <1>3, CapNat, Zenon
<1>5. \A c \in Nat : stop[c] => base[c] \in V
  OBVIOUS
<1> HIDE DEF stop
<1>6. \A c \in Nat : ~stop[c] => next[c] \in UpFrom(c + 1)
  <2> SUFFICES ASSUME NEW c \in Nat, ~stop[c] PROVE next[c] \in UpFrom(c + 1)
    OBVIOUS
  <2>1. r(c).d.len \in Nat
    BY <1>1, <1>3 DEF Headers
  <2>. QED  BY <2>1, StepsForward
<1>7. \A c \in Nat : \A v \in V : ~stop[c] => comb[c][v] \in V
  <2> SUFFICES ASSUME NEW c \in Nat, NEW v \in V, ~stop[c] PROVE comb[c][v] \in V
    OBVIOUS
  <2>1. r(c).d.seq + 1 \in Nat /\ <<r(c).v>> \o v.recs \in Seq(Payloads)
    BY <1>1, <1>3 DEF Headers
  <2>. QED  BY <2>1
<1> HIDE DEF next, base, comb, V
<1>8. IsWalk(Cap, V, stop, next, base, comb)
  BY <1>4, <1>5, <1>6, <1>7, Zenon DEF IsWalk
<1>9. PICK g : IsResult(g, V, stop, next, base, comb)
  BY <1>8, WalkExists, Zenon
<1>10. \A c \in Nat : g[c] = ScanStep(m, gen, c, g)
  <2> SUFFICES ASSUME NEW c \in Nat PROVE g[c] = ScanStep(m, gen, c, g)
    OBVIOUS
  <2>1. ~stop[c] => g[next[c]] \in V
    BY <1>6, <1>9 DEF UpFrom, IsResult
  <2>2. CASE stop[c]
    <3>1. g[c] = base[c]
      BY <1>9, <2>2 DEF IsResult
    <3>2. CASE Cap < c + Overhead
      BY <3>1, <3>2 DEF base, ScanStep
    <3>3. CASE ~(Cap < c + Overhead)
      BY <1>3, <2>2, <3>1, <3>3 DEF base, ScanStep, r
    <3>. QED  BY <3>2, <3>3
  <2>3. CASE ~stop[c]
    <3>1. g[c] = comb[c][g[next[c]]]
      BY <1>9, <2>3 DEF IsResult
    <3>. QED  BY <1>3, <2>1, <2>3, <3>1 DEF next, comb, ScanStep, r
  <2>. QED  BY <2>2, <2>3
<1>11. g = Body(g)
  BY <1>9, <1>10 DEF IsResult
<1>12. scan_from(m, gen) = CHOOSE h : h = Body(h)
  BY Zenon DEF scan_from, ScanStep
<1> HIDE DEF Body
<1>13. scan_from(m, gen) = Body(scan_from(m, gen))
  BY <1>11, <1>12, Zenon
<1>. QED  BY <1>13 DEF Body

\* The same for the walk of nvlog_iter_next.
IterStep(m, gen, c, rest) ==
  LET r == verify_record(m, c, gen, Cap)
      Stop(ok) == [ok |-> ok, recs |-> <<>>]
  IN  IF Cap < c + Overhead THEN Stop(TRUE)
      ELSE IF r.res = "VALID"
      THEN [rest[c + rec_alloc_bytes(r.d.len)] EXCEPT !.recs = <<r.v>> \o @]
      ELSE IF r.res # "END" /\ steps_over(r, gen, raw_len(m, c))
      THEN rest[c + rec_alloc_bytes(raw_len(m, c))]
      ELSE Stop(r.res = "END")

\* The same of the loop of nvlog_iter_next.
LEMMA IterUnfolds ==
  ASSUME NEW m \in Media, NEW gen
  PROVE  \A c \in Nat : iter_from(m, gen)[c] = IterStep(m, gen, c, iter_from(m, gen))
<1> DEFINE r(c) == verify_record(m, c, gen, Cap)
           V == [ok : BOOLEAN, recs : Seq(Payloads)]
           halts(c) == \/ Cap < c + Overhead
                       \/ /\ r(c).res # "VALID"
                          /\ ~(r(c).res # "END" /\ steps_over(r(c), gen, raw_len(m, c)))
           len(c) == IF r(c).res = "VALID" THEN r(c).d.len ELSE raw_len(m, c)
           stop == [c \in Nat |-> halts(c)]
           next == [c \in Nat |-> c + rec_alloc_bytes(len(c))]
           base == [c \in Nat |->
                      [ok |-> Cap < c + Overhead \/ r(c).res = "END", recs |-> <<>>]]
           comb == [c \in Nat |-> [v \in V |->
                      IF r(c).res = "VALID" THEN [v EXCEPT !.recs = <<r(c).v>> \o @] ELSE v]]
           Body(h) == [c \in Nat |-> IterStep(m, gen, c, h)]
<1>1. \A c \in Nat : /\ r(c).d # <<>> => r(c).d \in Headers
                     /\ r(c).res = "VALID" => r(c).d \in Headers /\ r(c).v \in Payloads
  BY VerifyTyped, CapNat DEF Media
<1>2. \A c \in Nat : c > Cap => halts(c)
  BY CapNat
<1> HIDE DEF r
<1>3. \A c \in Nat : ~halts(c) => len(c) \in Nat
  <2> SUFFICES ASSUME NEW c \in Nat, ~halts(c) PROVE len(c) \in Nat
    OBVIOUS
  <2>1. raw_len(m, c) # NoLen => raw_len(m, c) \in Nat
    BY RawLenTyped, CapNat DEF Media
  <2>. QED  BY <1>1, <2>1 DEF steps_over, Headers
<1> HIDE DEF halts
<1>4. \A c \in Nat : stop[c] <=> halts(c)
  BY Zenon
<1>5. IsWalk(Cap, V, stop, next, base, comb)
  <2>1. Cap \in Nat /\ \A c \in Nat : c > Cap => stop[c]
    BY <1>2, <1>4, CapNat, Zenon
  <2>2. \A c \in Nat : stop[c] => base[c] \in V
    OBVIOUS
  <2> HIDE DEF stop
  <2>3. \A c \in Nat : ~stop[c] => next[c] \in UpFrom(c + 1)
    BY <1>3, <1>4, StepsForward
  <2>4. \A c \in Nat : \A v \in V : ~stop[c] => comb[c][v] \in V
    <3> SUFFICES ASSUME NEW c \in Nat, NEW v \in V PROVE comb[c][v] \in V
      OBVIOUS
    <3>1. CASE r(c).res = "VALID"
      <4>1. <<r(c).v>> \o v.recs \in Seq(Payloads)
        BY <1>1, <3>1
      <4>. QED  BY <3>1, <4>1
    <3>2. CASE r(c).res # "VALID"
      BY <3>2
    <3>. QED  BY <3>1, <3>2
  <2> HIDE DEF next, base, comb, V
  <2>. QED  BY <2>1, <2>2, <2>3, <2>4, Zenon DEF IsWalk
<1> HIDE DEF stop, next, base, comb, V
<1>6. PICK g : IsResult(g, V, stop, next, base, comb)
  BY <1>5, WalkExists, Zenon
<1>7. \A c \in Nat : g[c] = IterStep(m, gen, c, g)
  <2> SUFFICES ASSUME NEW c \in Nat PROVE g[c] = IterStep(m, gen, c, g)
    OBVIOUS
  <2>1. ~stop[c] => g[next[c]] \in V
    BY <1>5, <1>6 DEF UpFrom, IsResult, IsWalk
  <2>2. CASE stop[c]
    <3>1. g[c] = base[c]
      BY <1>6, <2>2 DEF IsResult
    <3>2. CASE Cap < c + Overhead
      BY <3>1, <3>2 DEF base, IterStep
    <3>3. CASE ~(Cap < c + Overhead)
      BY <1>4, <2>2, <3>1, <3>3 DEF halts, base, IterStep, r
    <3>. QED  BY <3>2, <3>3
  <2>3. CASE ~stop[c]
    <3>1. g[c] = comb[c][g[next[c]]]
      BY <1>6, <2>3 DEF IsResult
    <3>. QED  BY <1>4, <2>1, <2>3, <3>1 DEF halts, next, comb, IterStep, r
  <2>. QED  BY <2>2, <2>3
<1>8. g = Body(g)
  BY <1>6, <1>7 DEF IsResult
<1>9. iter_from(m, gen) = CHOOSE h : h = Body(h)
  BY Zenon DEF iter_from, IterStep
<1> HIDE DEF Body
<1>10. iter_from(m, gen) = Body(iter_from(m, gen))
  BY <1>8, <1>9, Zenon
<1>. QED  BY <1>10 DEF Body

-----------------------------------------------------------------------------
\* The s-th record of generation gen lies complete in the cells b .. e - 1.
Rec(m, gen, b, e, s, p) ==
  \E len \in 0 .. Cap : /\ e = b + rec_alloc_bytes(len)
                       /\ RecordAt(m, Cap, b, Header("DATA", s, len, gen), p)

\* n records, one after the other from the start of the area.
Chain(m, gen, n, pos, v) ==
  /\ pos \in [1 .. n + 1 -> 0 .. Cap] /\ pos[1] = 0
  /\ v \in [1 .. n -> Payloads]
  /\ \A i \in 1 .. n : Rec(m, gen, pos[i], pos[i + 1], i - 1, v[i])

\* What the walks return where they stop, and what they make of the rest of the log
\* where they pass the s-th record.
ScanResult(w, next, log) == [ok |-> TRUE, wp |-> w, next |-> next, recs |-> log]
IterResult(log) == [ok |-> TRUE, recs |-> log]
ScanStop(c) == ScanResult(c, 0, <<>>)
IterStop == IterResult(<<>>)
Prepend(p, s) == <<p>> \o s
ScanPass(rest, s, p) ==
  [rest EXCEPT !.next = IF @ = 0 THEN s + 1 ELSE @, !.recs = Prepend(p, @)]
IterPass(rest, p) == [rest EXCEPT !.recs = Prepend(p, @)]

\* Both walks pass a complete record and take its payload along.
LEMMA WalksPassRecord ==
  ASSUME NEW m \in Media, NEW gen, NEW b \in Nat, NEW e, NEW s, NEW p,
         Rec(m, gen, b, e, s, p)
  PROVE  /\ scan_from(m, gen)[b] =
              ScanPass(scan_from(m, gen)[e], s, p)
         /\ iter_from(m, gen)[b] = IterPass(iter_from(m, gen)[e], p)
<1>1. PICK len \in 0 .. Cap : /\ e = b + rec_alloc_bytes(len)
                         /\ RecordAt(m, Cap, b, Header("DATA", s, len, gen), p)
  BY DEF Rec
<1> DEFINE d == Header("DATA", s, len, gen)
<1>2. d.len = len /\ d.gen = gen /\ d.seq = s
  BY DEF Header
<1>3. ~(Cap < b + Overhead)
  BY <1>1, <1>2, CapNat DEF RecordAt, rec_alloc_bytes
<1>4. DOMAIN m = 0 .. Cap - 1 /\ Cap \in Nat
  BY CapNat DEF Media
<1> HIDE DEF d
<1>5. verify_record(m, b, gen, Cap) = [res |-> "VALID", d |-> d, v |-> p]
  <2>1. RecordAt(m, Cap, b, d, p) /\ d.len \in Nat
    BY <1>1, <1>2 DEF d
  <2>2. verify_record(m, b, d.gen, Cap) = [res |-> "VALID", d |-> d, v |-> p]
    BY <1>4, <2>1, VerifyValid
  <2>. QED  BY <1>2, <2>2
<1>6. LET r == verify_record(m, b, gen, Cap)
      IN  r.res = "VALID" /\ r.v = p /\ r.d.seq = s /\ b + rec_alloc_bytes(r.d.len) = e
  BY <1>1, <1>2, <1>5
<1>7. ScanStep(m, gen, b, scan_from(m, gen)) =
              ScanPass(scan_from(m, gen)[e], s, p)
  BY <1>3, <1>6 DEF ScanStep, ScanPass, Prepend
<1>8. IterStep(m, gen, b, iter_from(m, gen)) =
              IterPass(iter_from(m, gen)[e], p)
  BY <1>3, <1>6 DEF IterStep, IterPass, Prepend
<1>. QED  BY <1>7, <1>8, ScanUnfolds, IterUnfolds

\* The end of a sequence, taken element by element.
LEMMA SubSeqCons ==
  ASSUME NEW n \in Nat, NEW v \in [1 .. n -> Payloads]
  PROVE  /\ v \in Seq(Payloads) /\ Len(v) = n
         /\ SubSeq(v, n + 1, n) = <<>> /\ SubSeq(v, 1, n) = v
         /\ \A i \in 1 .. n : <<v[i]>> \o SubSeq(v, i + 1, n) = SubSeq(v, i, n)
<1>1. v \in Seq(Payloads) /\ Len(v) = n
  OBVIOUS
<1>2. SubSeq(v, n + 1, n) = <<>> /\ SubSeq(v, 1, n) = v
  BY <1>1
<1>3. ASSUME NEW i \in 1 .. n
      PROVE  <<v[i]>> \o SubSeq(v, i + 1, n) = SubSeq(v, i, n)
  <2> DEFINE a == <<v[i]>> \o SubSeq(v, i + 1, n)
             c == SubSeq(v, i, n)
  <2>1. SubSeq(v, i + 1, n) \in Seq(Payloads) /\ Len(SubSeq(v, i + 1, n)) = n - i
    BY <1>1
  <2>2. \A k \in 1 .. n - i : SubSeq(v, i + 1, n)[k] = v[i + k]
    BY <1>1
  <2>3. a \in Seq(Payloads) /\ Len(a) = n - i + 1
    BY <2>1
  <2>4. \A k \in 1 .. n - i + 1 : a[k] = v[i + k - 1]
    BY <2>1, <2>2
  <2>5. c \in Seq(Payloads) /\ Len(c) = n - i + 1 /\ \A k \in 1 .. n - i + 1 : c[k] = v[i + k - 1]
    BY <1>1
  <2>. QED  BY <2>3, <2>4, <2>5
<1>. QED  BY <1>1, <1>2, <1>3

\* The updates of a walk's result, field by field.
LEMMA ResultUpdates ==
  ASSUME NEW ok, NEW w, NEW x, NEW y, NEW log, NEW l
  PROVE  /\ [[ok |-> ok, wp |-> w, next |-> x, recs |-> log] EXCEPT !.next = y, !.recs = l]
              = [ok |-> ok, wp |-> w, next |-> y, recs |-> l]
         /\ [[ok |-> ok, recs |-> log] EXCEPT !.recs = l] = [ok |-> ok, recs |-> l]
<1>1. [[ok |-> ok, wp |-> w, next |-> x, recs |-> log] EXCEPT !.next = y, !.recs = l]
        = [ok |-> ok, wp |-> w, next |-> y, recs |-> l]
  <2> DEFINE r == [ok |-> ok, wp |-> w, next |-> x, recs |-> log]
  <2>1. [r EXCEPT !.next = y, !.recs = l] = [[r EXCEPT !.next = y] EXCEPT !.recs = l]
    OBVIOUS
  <2>2. [r EXCEPT !.next = y] = [ok |-> ok, wp |-> w, next |-> y, recs |-> log]
    OBVIOUS
  <2>3. [[ok |-> ok, wp |-> w, next |-> y, recs |-> log] EXCEPT !.recs = l]
          = [ok |-> ok, wp |-> w, next |-> y, recs |-> l]
    OBVIOUS
  <2>. QED  BY <2>1, <2>2, <2>3, Zenon
<1>2. [[ok |-> ok, recs |-> log] EXCEPT !.recs = l] = [ok |-> ok, recs |-> l]
  OBVIOUS
<1>. QED  BY <1>1, <1>2

\* What passing a record makes of the result of the rest: of the scan the sequence
\* number after the last record, of both walks the payload in front.
LEMMA PassResults ==
  ASSUME NEW w, NEW x, NEW s, NEW p, NEW log
  PROVE  /\ ScanPass(ScanResult(w, x, log), s, p)
              = ScanResult(w, IF x = 0 THEN s + 1 ELSE x, Prepend(p, log))
         /\ IterPass(IterResult(log), p) = IterResult(Prepend(p, log))
<1>1. /\ ScanResult(w, x, log).next = x /\ ScanResult(w, x, log).recs = log
      /\ IterResult(log).recs = log
  BY DEF ScanResult, IterResult
<1>2. ScanPass(ScanResult(w, x, log), s, p)
        = [ScanResult(w, x, log) EXCEPT !.next = IF x = 0 THEN s + 1 ELSE x, !.recs = Prepend(p, log)]
  BY <1>1, Zenon DEF ScanPass
<1>3. IterPass(IterResult(log), p) = [IterResult(log) EXCEPT !.recs = Prepend(p, log)]
  BY <1>1, Zenon DEF IterPass
<1>. QED  BY <1>2, <1>3, ResultUpdates, Zenon DEF ScanResult, IterResult

\* What the scan and an iteration make of a chain, if they stop at its end.
LEMMA WalksOfChain ==
  ASSUME NEW m \in Media, NEW gen, NEW n \in Nat, NEW pos, NEW v,
         Chain(m, gen, n, pos, v),
         scan_from(m, gen)[pos[n + 1]] = ScanStop(pos[n + 1]),
         iter_from(m, gen)[pos[n + 1]] = IterStop
  PROVE  /\ scan(m, gen) = ScanResult(pos[n + 1], n, v)
         /\ nvlog_iter_next(m, gen) = IterResult(v)
<1> DEFINE sf == scan_from(m, gen)
           it == iter_from(m, gen)
           e == pos[n + 1]
           next == [i \in 1 .. n + 1 |-> IF i = n + 1 THEN 0 ELSE n]
           tail == [i \in 1 .. n + 1 |-> SubSeq(v, i, n)]
           Q(i) == /\ sf[pos[i]] = ScanResult(e, next[i], tail[i])
                   /\ it[pos[i]] = IterResult(tail[i])
           S == {i \in 1 .. n + 1 : Q(i)}
<1>1. v \in [1 .. n -> Payloads] /\ pos[1] = 0 /\ pos \in [1 .. n + 1 -> 0 .. Cap]
  BY DEF Chain
<1>2. sf[e] = ScanStop(e) /\ it[e] = IterStop
  OBVIOUS
<1>3. /\ tail[n + 1] = <<>> /\ tail[1] = v
      /\ \A i \in 1 .. n : Prepend(v[i], tail[i + 1]) = tail[i]
  <2>1. tail[n + 1] = <<>> /\ tail[1] = v
    BY <1>1, SubSeqCons
  <2>2. ASSUME NEW i \in 1 .. n PROVE Prepend(v[i], tail[i + 1]) = tail[i]
    <3>1. <<v[i]>> \o SubSeq(v, i + 1, n) = SubSeq(v, i, n)
      BY <1>1, SubSeqCons
    <3>2. tail[i + 1] = SubSeq(v, i + 1, n) /\ tail[i] = SubSeq(v, i, n)
      <4>1. i \in 1 .. n + 1 /\ i + 1 \in 1 .. n + 1
        OBVIOUS
      <4>. QED  BY <4>1, Zenon
    <3> HIDE DEF tail
    <3>. QED  BY <3>1, <3>2, Zenon DEF Prepend
  <2>. QED  BY <2>1, <2>2
<1>4. /\ next[n + 1] = 0 /\ next[1] = n
      /\ \A i \in 1 .. n : (IF next[i + 1] = 0 THEN (i - 1) + 1 ELSE next[i + 1]) = next[i]
  OBVIOUS
<1>5. \A i \in 1 .. n : /\ sf[pos[i]] = ScanPass(sf[pos[i + 1]], i - 1, v[i])
                        /\ it[pos[i]] = IterPass(it[pos[i + 1]], v[i])
  <2> SUFFICES ASSUME NEW i \in 1 .. n
               PROVE  /\ sf[pos[i]] = ScanPass(sf[pos[i + 1]], i - 1, v[i])
                      /\ it[pos[i]] = IterPass(it[pos[i + 1]], v[i])
    OBVIOUS
  <2>1. Rec(m, gen, pos[i], pos[i + 1], i - 1, v[i])
    BY DEF Chain
  <2>2. pos[i] \in Nat
    BY <1>1, CapNat
  <2>. QED  BY <2>1, <2>2, WalksPassRecord
<1>6. scan(m, gen) = sf[0] /\ nvlog_iter_next(m, gen) = it[0]
  BY DEF scan, nvlog_iter_next
<1> HIDE DEF sf, it, e, next, tail
<1>7. n + 1 \in S
  <2>1. Q(n + 1)
    BY <1>2, <1>3, <1>4 DEF ScanStop, IterStop, e
  <2>. QED  BY <2>1
<1>8. ASSUME NEW i \in 1 .. n, i + 1 \in S PROVE i \in S
  <2>1. Q(i + 1)
    BY <1>8
  <2>2. /\ ScanPass(sf[pos[i + 1]], i - 1, v[i])
             = ScanResult(e, IF next[i + 1] = 0 THEN (i - 1) + 1 ELSE next[i + 1],
                          Prepend(v[i], tail[i + 1]))
        /\ IterPass(it[pos[i + 1]], v[i]) = IterResult(Prepend(v[i], tail[i + 1]))
    BY <2>1, PassResults
  <2>3. Q(i)
    BY <1>3, <1>4, <1>5, <2>2
  <2>. QED  BY <2>3
<1> HIDE DEF S
<1>9. 1 \in S
  BY <1>7, <1>8, DownToOne
<1>10. Q(1)
  BY <1>9 DEF S
<1>. QED  BY <1>1, <1>3, <1>4, <1>6, <1>10 DEF e

-----------------------------------------------------------------------------
\* What may lie at b, behind the records a mount finds: nothing, or the header of
\* one record of len payload cells that lacks its commit marker.
Remains(m, gen, b, s, len) ==
  /\ b + rec_alloc_bytes(len) <= Cap
  /\ HeaderAt(m, b, Header("DATA", s, len, gen))
  /\ ErasedFrom(m, Cap, b + rec_alloc_bytes(len))

Headed(m, gen, b, s, len) ==
  Remains(m, gen, b, s, len) /\ m[b + HdrCells + len + 1] = Erased

Uncommitted(m, gen, b, s, len) == ErasedFrom(m, Cap, b) \/ Headed(m, gen, b, s, len)

\* At an uncommitted tail the scan stops, and an iteration ends.
LEMMA WalksStop ==
  ASSUME NEW m \in Media, NEW gen, NEW b \in 0 .. Cap, NEW s, NEW len \in Nat,
         Uncommitted(m, gen, b, s, len)
  PROVE  /\ scan_from(m, gen)[b] = ScanStop(b)
         /\ iter_from(m, gen)[b] = IterStop
<1>1. DOMAIN m = 0 .. Cap - 1 /\ Cap \in Nat /\ b \in Nat
  BY CapNat DEF Media
<1>2. ASSUME NEW c \in 0 .. Cap, ErasedFrom(m, Cap, c)
      PROVE  /\ scan_from(m, gen)[c] = ScanStop(c)
             /\ iter_from(m, gen)[c] = IterStop
  <2>1. c \in Nat
    BY CapNat
  <2>2. CASE Cap < c + Overhead
    <3>1. /\ ScanStep(m, gen, c, scan_from(m, gen)) = ScanStop(c)
          /\ IterStep(m, gen, c, iter_from(m, gen)) = IterStop
      BY <2>2 DEF ScanStep, IterStep, ScanStop, IterStop, ScanResult, IterResult
    <3>. QED  BY <2>1, <3>1, ScanUnfolds, IterUnfolds
  <2>3. CASE ~(Cap < c + Overhead)
    <3>1. verify_record(m, c, gen, Cap).res = "END"
      <4>1. c + Overhead <= Cap
        BY <2>3, CapNat
      <4>. QED  BY <1>1, <1>2, <2>1, <4>1, VerifyEnd
    <3>2. /\ ScanStep(m, gen, c, scan_from(m, gen)) = ScanStop(c)
          /\ IterStep(m, gen, c, iter_from(m, gen)) = IterStop
      BY <2>3, <3>1 DEF ScanStep, IterStep, ScanStop, IterStop, ScanResult, IterResult
    <3>. QED  BY <2>1, <3>2, ScanUnfolds, IterUnfolds
  <2>. QED  BY <2>2, <2>3
<1>3. CASE ErasedFrom(m, Cap, b)
  BY <1>2, <1>3
<1>4. CASE Remains(m, gen, b, s, len) /\ m[b + HdrCells + len + 1] = Erased
  <2> DEFINE d == Header("DATA", s, len, gen)
             e == b + rec_alloc_bytes(len)
  <2>1. d.len = len /\ d.gen = gen
    BY DEF Header
  <2>2. e \in 0 .. Cap /\ ErasedFrom(m, Cap, e) /\ ~(Cap < b + Overhead)
    BY <1>1, <1>4, CapNat DEF Remains, rec_alloc_bytes
  <2>3. d # <<>>
    BY DEF Header
  <2>4. HeaderAt(m, b, d)
    BY <1>4 DEF Remains
  <2> HIDE DEF d
  <2>5. verify_record(m, b, gen, Cap).res = "INCOMPLETE" /\ verify_record(m, b, gen, Cap).d = d
    <3>1. d.len \in Nat /\ b + rec_alloc_bytes(d.len) <= Cap
          /\ m[b + HdrCells + d.len + 1] = Erased
      BY <1>4, <2>1 DEF Remains
    <3>2. /\ verify_record(m, b, d.gen, Cap).res = "INCOMPLETE"
          /\ verify_record(m, b, d.gen, Cap).d = d
      BY <1>1, <2>1, <2>4, <3>1, VerifyIncomplete, SMTT(30)
    <3>. QED  BY <2>1, <3>2
  <2>6. ScanStep(m, gen, b, scan_from(m, gen)) = ScanStop(b)
    BY <2>2, <2>5 DEF ScanStep, ScanStop, ScanResult
  <2>7. IterStep(m, gen, b, iter_from(m, gen)) = iter_from(m, gen)[e]
    <3>1. raw_len(m, b) = len
      <4>1. b + HdrCells <= Cap
        BY <1>1, <2>2, CapNat
      <4>. QED  BY <1>1, <2>1, <2>4, <4>1, RawLenOfHeader
    <3>2. len # NoLen
      BY DEF NoLen
    <3>. QED  BY <2>1, <2>2, <2>3, <2>5, <3>1, <3>2 DEF IterStep, steps_over
  <2>8. iter_from(m, gen)[e] = IterStop
    BY <1>2, <2>2
  <2>. QED  BY <1>1, <2>6, <2>7, <2>8, ScanUnfolds, IterUnfolds
<1>. QED  BY <1>3, <1>4 DEF Uncommitted, Headed

\* So a mount finds the records of the chain, and an iteration delivers them.
LEMMA MountFindsChain ==
  ASSUME NEW m \in Media, NEW gen, NEW n \in Nat, NEW pos, NEW v, NEW len \in Nat,
         Chain(m, gen, n, pos, v), Uncommitted(m, gen, pos[n + 1], n, len)
  PROVE  /\ scan(m, gen) = ScanResult(pos[n + 1], n, v)
         /\ nvlog_iter_next(m, gen) = IterResult(v)
<1>1. pos[n + 1] \in 0 .. Cap
  BY DEF Chain
<1>2. /\ scan_from(m, gen)[pos[n + 1]] = ScanStop(pos[n + 1])
      /\ iter_from(m, gen)[pos[n + 1]] = IterStop
  BY <1>1, WalksStop
<1>. QED  BY <1>1, <1>2, WalksOfChain

-----------------------------------------------------------------------------
\* Behind the chain: the record of an append whose outcome nobody was told.
InDoubt(m, gen, b, s, len, p) ==
  /\ RecordAt(m, Cap, b, Header("DATA", s, len, gen), p)
  /\ ErasedFrom(m, Cap, b + rec_alloc_bytes(len))

Doubtful(m, gen, b, s, len) == \E p \in Payloads : InDoubt(m, gen, b, s, len, p)

\* How far the append of payload p has come, and what the media then hold.
Writing(m, gen, b, s, len, p, left) ==
  LET d == Header("DATA", s, len, gen)
      Clr == ClearWrite(b, d)
      Hdr == HeaderWrite(b, d)
      Bod == BodyWrite(b, d, p)
      Crc == CrcWrite(b, d, p)
      Com == CommitWrite(b, d)
  IN  /\ b + rec_alloc_bytes(len) <= Cap
      /\ \/ /\ left = IF len > 0 THEN <<Clr, Hdr, Bod, Crc, Com>> ELSE <<Clr, Hdr, Crc, Com>>
            /\ Uncommitted(m, gen, b, s, len) \/ Doubtful(m, gen, b, s, len)
         \/ /\ left = IF len > 0 THEN <<Hdr, Bod, Crc, Com>> ELSE <<Hdr, Crc, Com>>
            /\ Uncommitted(m, gen, b, s, len)
         \/ left = <<Bod, Crc, Com>> /\ len > 0 /\ Headed(m, gen, b, s, len)
         \/ left = <<Crc, Com>> /\ Headed(m, gen, b, s, len) /\ BodyAt(m, b, d, p)
         \/ /\ left = <<Com>> /\ Headed(m, gen, b, s, len) /\ BodyAt(m, b, d, p)
            /\ m[b + HdrCells + len] = CrcCell(d, p)
         \/ left = <<>> /\ InDoubt(m, gen, b, s, len, p)

\* The inductive invariant: the records that a mount or a completed append has
\* told of form a chain, the context stands behind it, and what else is on the
\* media is what an append left behind it.
Types ==
  /\ media \in Media
  /\ sbA \in [ok : BOOLEAN, gen : Nat, mseq : Nat]
  /\ sbB \in [ok : BOOLEAN, gen : Nat, mseq : Nat]
  /\ ctx \in Context
  /\ pc \in {"idle", "data", "sbA", "sbB"} /\ (pc # "data" => todo = <<>>)
  /\ req \in [len : Nat, v : 0 .. MaxAppends]
  /\ status \in {"NONE", "OK", "FULL", "CORRUPT", "IO"}
  /\ acked \in Nat
  /\ calls \in [appends : 0 .. MaxAppends, formats : Nat, faults : Nat]

Running ==
  /\ ctx.mounted => Current.ok /\ ctx.gen = Current.gen /\ ctx.next = acked /\ ctx.count = acked
  /\ pc = "data" => ctx.mounted /\ req.v \in Payloads
  /\ ~ctx.mounted => ctx.wp = 0 /\ ctx.next = 0 /\ ctx.count = 0
  /\ pc \in {"sbA", "sbB"} => ~ctx.mounted
  /\ pc = "sbB" => sbA = Sb(ctx.gen, ctx.mseq)

NothingWritten ==
  pc \in {"sbA", "sbB"} \/ ~Current.ok => ErasedFrom(media, Cap, 0) /\ acked = 0

Stored(pos, v) ==
  LET b == pos[acked + 1]
  IN  /\ Chain(media, Current.gen, acked, pos, v)
      /\ ctx.mounted => ctx.wp = b
      /\ pc = "data" => Writing(media, Current.gen, b, acked, req.len, req.v, todo)
      /\ pc # "data" =>
           \/ Uncommitted(media, Current.gen, b, acked, req.len)
           \/ /\ Doubtful(media, Current.gen, b, acked, req.len)
              /\ ctx.mounted => status = "IO"

IInv ==
  /\ Types /\ Running /\ NothingWritten
  /\ \E pos \in [1 .. acked + 1 -> 0 .. Cap], v \in [1 .. acked -> Payloads] : Stored(pos, v)

-----------------------------------------------------------------------------
\* The fields of the header that nvlog_append writes.
LEMMA HeaderFields ==
  ASSUME NEW s, NEW len, NEW gen
  PROVE  LET d == Header("DATA", s, len, gen)
         IN  d.len = len /\ d.gen = gen /\ d.seq = s /\ d.type = "DATA"
BY DEF Header

\* A record depends on its own cells only.
LEMMA RecordKept ==
  ASSUME NEW m, NEW m2, NEW b \in Nat, NEW d, NEW p, d.len \in Nat,
         RecordAt(m, Cap, b, d, p),
         \A i \in b .. b + rec_alloc_bytes(d.len) - 1 : m2[i] = m[i]
  PROVE  RecordAt(m2, Cap, b, d, p)
<1> USE CapNat DEF rec_alloc_bytes
<1>1. HeaderAt(m2, b, d)
  <2> SUFFICES ASSUME NEW k \in 1 .. HdrCells PROVE m2[b + k - 1] = HeaderCell(d, k)
    BY DEF HeaderAt
  <2>1. b + k - 1 \in b .. b + rec_alloc_bytes(d.len) - 1
    OBVIOUS
  <2>. QED  BY <2>1 DEF RecordAt, HeaderAt
<1>2. BodyAt(m2, b, d, p)
  <2> SUFFICES ASSUME NEW k \in 1 .. d.len PROVE m2[b + HdrCells + k - 1] = PayloadCell(p)
    BY DEF BodyAt
  <2>1. b + HdrCells + k - 1 \in b .. b + rec_alloc_bytes(d.len) - 1
    OBVIOUS
  <2>. QED  BY <2>1 DEF RecordAt, BodyAt
<1>3. /\ b + HdrCells + d.len \in b .. b + rec_alloc_bytes(d.len) - 1
      /\ b + HdrCells + d.len + 1 \in b .. b + rec_alloc_bytes(d.len) - 1
  OBVIOUS
<1>. QED  BY <1>1, <1>2, <1>3 DEF RecordAt

\* The records of a chain lie below its end.
LEMMA ChainRises ==
  ASSUME NEW m, NEW gen, NEW n \in Nat, NEW pos, NEW v, Chain(m, gen, n, pos, v)
  PROVE  \A i \in 1 .. n + 1 : pos[i] <= pos[n + 1]
<1> DEFINE S == {i \in 1 .. n + 1 : \A j \in i .. n + 1 : pos[j] <= pos[n + 1]}
<1>1. pos \in [1 .. n + 1 -> 0 .. Cap] /\ Cap \in Nat
  BY CapNat DEF Chain
<1>2. n + 1 \in S
  BY <1>1
<1>3. ASSUME NEW i \in 1 .. n, i + 1 \in S PROVE i \in S
  <2>1. pos[i] <= pos[i + 1]
    <3>1. Rec(m, gen, pos[i], pos[i + 1], i - 1, v[i])
      BY DEF Chain
    <3>2. PICK len \in 0 .. Cap : pos[i + 1] = pos[i] + rec_alloc_bytes(len)
      BY <3>1 DEF Rec
    <3>. QED  BY <1>1, <3>2, CapNat DEF rec_alloc_bytes
  <2>2. pos[i + 1] <= pos[n + 1]
    BY <1>3
  <2>3. pos[i] <= pos[n + 1]
    BY <1>1, <2>1, <2>2
  <2>. QED  BY <1>3, <2>3
<1>4. 1 \in S
  <2> HIDE DEF S
  <2>. QED  BY <1>2, <1>3, DownToOne
<1>. QED  BY <1>4

\* A chain depends on the cells up to its end only.
LEMMA ChainKept ==
  ASSUME NEW m, NEW m2, NEW gen, NEW n \in Nat, NEW pos, NEW v,
         Chain(m, gen, n, pos, v), \A i \in 0 .. pos[n + 1] - 1 : m2[i] = m[i]
  PROVE  Chain(m2, gen, n, pos, v)
<1>1. ASSUME NEW i \in 1 .. n PROVE Rec(m2, gen, pos[i], pos[i + 1], i - 1, v[i])
  <2>1. \A j \in 1 .. n + 1 : pos[j] <= pos[n + 1]
    BY ChainRises
  <2>2. pos[i] \in 0 .. Cap /\ pos[i + 1] \in 0 .. Cap /\ pos[n + 1] \in 0 .. Cap
        /\ pos[i + 1] <= pos[n + 1]
    BY <2>1 DEF Chain
  <2>3. Rec(m, gen, pos[i], pos[i + 1], i - 1, v[i])
    BY DEF Chain
  <2>4. PICK len \in 0 .. Cap :
          /\ pos[i + 1] = pos[i] + rec_alloc_bytes(len)
          /\ RecordAt(m, Cap, pos[i], Header("DATA", i - 1, len, gen), v[i])
    BY <2>3 DEF Rec
  <2> DEFINE d == Header("DATA", i - 1, len, gen)
  <2>5. d.len = len
    BY HeaderFields
  <2> HIDE DEF d
  <2>6. \A j \in pos[i] .. pos[i] + rec_alloc_bytes(d.len) - 1 : m2[j] = m[j]
    BY <2>2, <2>4, <2>5, CapNat DEF rec_alloc_bytes
  <2>7. RecordAt(m2, Cap, pos[i], d, v[i])
    <3>1. RecordAt(m, Cap, pos[i], d, v[i])
      BY <2>4 DEF d
    <3>2. pos[i] \in Nat /\ d.len \in Nat
      BY <2>2, <2>5, CapNat
    <3>. QED  BY <2>6, <3>1, <3>2, RecordKept
  <2>. QED  BY <2>4, <2>7 DEF Rec, d
<1>. QED  BY <1>1 DEF Chain

\* n + 1 records that end at e, with nothing written behind them.
Longer(m, gen, n, e, v) ==
  \E pos : Chain(m, gen, n + 1, pos, v) /\ pos[n + 2] = e /\ ErasedFrom(m, Cap, pos[n + 2])

\* A complete record behind a chain makes a longer one.
LEMMA ChainGrows ==
  ASSUME NEW m, NEW gen, NEW n \in Nat, NEW pos, NEW v, NEW len \in Nat, NEW p \in Payloads,
         NEW b, b = pos[n + 1], Chain(m, gen, n, pos, v), InDoubt(m, gen, b, n, len, p)
  PROVE  Longer(m, gen, n, b + rec_alloc_bytes(len), Append(v, p))
<1> DEFINE e == pos[n + 1] + rec_alloc_bytes(len)
           pos2 == [i \in 1 .. n + 2 |-> IF i = n + 2 THEN e ELSE pos[i]]
           v2 == [i \in 1 .. n + 1 |-> IF i = n + 1 THEN p ELSE v[i]]
<1>1. pos \in [1 .. n + 1 -> 0 .. Cap] /\ v \in [1 .. n -> Payloads] /\ pos[1] = 0
  BY DEF Chain
<1>2. RecordAt(m, Cap, pos[n + 1], Header("DATA", n, len, gen), p) /\ ErasedFrom(m, Cap, e)
  BY DEF InDoubt
<1>3. e \in 0 .. Cap /\ len \in 0 .. Cap
  <2>1. e <= Cap
    BY <1>2, HeaderFields DEF RecordAt
  <2>. QED  BY <1>1, <2>1, CapNat DEF rec_alloc_bytes
<1>4. pos2 \in [1 .. n + 2 -> 0 .. Cap] /\ pos2[1] = 0 /\ pos2[n + 2] = e
  BY <1>1, <1>3
<1>5. v2 \in [1 .. n + 1 -> Payloads]
  BY <1>1
<1>6. ASSUME NEW i \in 1 .. n + 1 PROVE Rec(m, gen, pos2[i], pos2[i + 1], i - 1, v2[i])
  <2>1. CASE i = n + 1
    <3>1. pos2[i] = pos[n + 1] /\ pos2[i + 1] = e /\ v2[i] = p /\ i - 1 = n
      BY <2>1
    <3>2. Rec(m, gen, pos[n + 1], e, n, p)
      BY <1>2, <1>3 DEF Rec
    <3> HIDE DEF pos2, v2, e
    <3>. QED  BY <3>1, <3>2
  <2>2. CASE i # n + 1
    <3>1. pos2[i] = pos[i] /\ pos2[i + 1] = pos[i + 1] /\ v2[i] = v[i] /\ i \in 1 .. n
      BY <2>2
    <3>2. Rec(m, gen, pos[i], pos[i + 1], i - 1, v[i])
      BY <3>1 DEF Chain
    <3> HIDE DEF pos2, v2, e
    <3>. QED  BY <3>1, <3>2
  <2>. QED  BY <2>1, <2>2
<1>7. v2 = Append(v, p)
  <2>1. v \in Seq(Payloads) /\ Len(v) = n
    BY <1>1, SubSeqCons
  <2>2. v2 \in Seq(Payloads) /\ Len(v2) = n + 1
    BY <1>5, SubSeqCons
  <2>3. \A i \in 1 .. n + 1 : v2[i] = Append(v, p)[i]
    BY <2>1
  <2>4. Append(v, p) \in Seq(Payloads) /\ Len(Append(v, p)) = n + 1
    BY <2>1
  <2> DEFINE w == Append(v, p)
  <2> HIDE DEF v2, w
  <2>5. v2 = w
    BY <2>2, <2>3, <2>4 DEF w
  <2>. QED  BY <2>5 DEF w
<1> HIDE DEF pos2, v2, e
<1>8. (n + 1) + 1 = n + 2
  OBVIOUS
<1>9. Chain(m, gen, n + 1, pos2, v2)
  BY <1>4, <1>5, <1>6, <1>8 DEF Chain
<1>10. Longer(m, gen, n, e, v2)
  BY <1>2, <1>4, <1>9 DEF Longer
<1>. QED  BY <1>7, <1>10 DEF e

\* Where nothing is written, the only chain is the empty one, of any generation.
LEMMA ChainOfNothing ==
  ASSUME NEW m, ErasedFrom(m, Cap, 0), NEW gen
  PROVE  /\ \E pos \in [1 .. 1 -> 0 .. Cap], v \in [1 .. 0 -> Payloads] :
              Chain(m, gen, 0, pos, v)
         /\ \A n \in Nat : \A pos, v : Chain(m, gen, n, pos, v) => n = 0
<1>1. Chain(m, gen, 0, [i \in 1 .. 1 |-> 0], [i \in 1 .. 0 |-> 1])
  BY CapNat DEF Chain
<1>2. ASSUME NEW n \in Nat, NEW pos, NEW v, Chain(m, gen, n, pos, v), n # 0
      PROVE  FALSE
  <2>1. Rec(m, gen, pos[1], pos[2], 0, v[1]) /\ pos[1] = 0
    BY <1>2 DEF Chain
  <2>2. PICK len \in 0 .. Cap : RecordAt(m, Cap, 0, Header("DATA", 0, len, gen), v[1])
    BY <2>1 DEF Rec
  <2>3. m[0] = HeaderCell(Header("DATA", 0, len, gen), 1)
    BY <2>2, CapNat DEF RecordAt, HeaderAt
  <2>4. m[0] = Erased
    BY CapNat DEF ErasedFrom
  <2>. QED  BY <2>3, <2>4 DEF HeaderCell, Erased
<1>3. /\ [i \in 1 .. 1 |-> 0] \in [1 .. 1 -> 0 .. Cap]
      /\ [i \in 1 .. 0 |-> 1] \in [1 .. 0 -> Payloads]
  BY CapNat
<1>. QED  BY <1>1, <1>2, <1>3

-----------------------------------------------------------------------------
\* The writes of a record, one by one.
LEMMA WritesOfRecord ==
  ASSUME NEW b, NEW s, NEW len \in Nat, NEW gen, NEW p
  PROVE  LET d == Header("DATA", s, len, gen)
             Clr == ClearWrite(b, d)
             Hdr == HeaderWrite(b, d)
             Bod == BodyWrite(b, d, p)
             Crc == CrcWrite(b, d, p)
             Com == CommitWrite(b, d)
         IN  write_record_wire(b, d, p)
               = IF len > 0 THEN <<Clr, Hdr, Bod, Crc, Com>> ELSE <<Clr, Hdr, Crc, Com>>
<1> DEFINE d == Header("DATA", s, len, gen)
<1>1. d.len = len
  BY HeaderFields
<1> HIDE DEF d
<1>2. write_record_wire(b, d, p)
        = IF d.len > 0
          THEN <<ClearWrite(b, d), HeaderWrite(b, d), BodyWrite(b, d, p), CrcWrite(b, d, p), CommitWrite(b, d)>>
          ELSE <<ClearWrite(b, d), HeaderWrite(b, d), CrcWrite(b, d, p), CommitWrite(b, d)>>
  BY <1>1, WireWrites
<1>. QED  BY <1>1, <1>2 DEF d

\* What a HAL write leaves in each cell, when its first k cells arrive.
LEMMA PutCells ==
  ASSUME NEW m \in Media, NEW at \in Nat, NEW cells, NEW k \in Nat,
         \A j \in 1 .. k : cells[j] \in Cells(Payloads)
  PROVE  LET m2 == Put(m, HalWrite(at, cells), k)
         IN  /\ m2 \in Media
             /\ \A i \in 0 .. Cap - 1 :
                  m2[i] = IF i \in at .. at + k - 1 THEN cells[i - at + 1] ELSE m[i]
             /\ k = 0 => m2 = m
<1> DEFINE w == HalWrite(at, cells)
           m2 == Put(m, w, k)
<1>1. w.at = at /\ w.cells = cells
  BY DEF HalWrite
<1>2. DOMAIN m = 0 .. Cap - 1 /\ Cap \in Nat
  BY CapNat DEF Media
<1> HIDE DEF w
<1>3. m2 = [i \in 0 .. Cap - 1 |-> IF i \in at .. at + k - 1 THEN cells[i - at + 1] ELSE m[i]]
  BY <1>1, <1>2, Zenon DEF Put
<1> HIDE DEF m2
<1>4. \A i \in 0 .. Cap - 1 :
        m2[i] = IF i \in at .. at + k - 1 THEN cells[i - at + 1] ELSE m[i]
  BY <1>3
<1>5. ASSUME NEW i \in 0 .. Cap - 1
      PROVE  (IF i \in at .. at + k - 1 THEN cells[i - at + 1] ELSE m[i]) \in Cells(Payloads)
  <2>1. m[i] \in Cells(Payloads)
    BY DEF Media
  <2>2. i \in at .. at + k - 1 => i - at + 1 \in 1 .. k
    BY <1>2
  <2>. QED  BY <2>1, <2>2
<1>6. m2 \in Media
  BY <1>3, <1>5 DEF Media
<1>7. ASSUME k = 0 PROVE m2 = m
  <2>1. \A i \in 0 .. Cap - 1 : m2[i] = m[i]
    BY <1>2, <1>4, <1>7
  <2>2. m = [i \in 0 .. Cap - 1 |-> m[i]] /\ m2 = [i \in 0 .. Cap - 1 |-> m2[i]]
    BY <1>6 DEF Media
  <2>. QED  BY <2>1, <2>2, Zenon
<1>. QED  BY <1>4, <1>6, <1>7 DEF m2, w

SameBelow(m, m2, b) == \A i \in 0 .. b - 1 : m2[i] = m[i]

\* The first write clears the commit marker: nothing is in doubt any more.
LEMMA ClearEffect ==
  ASSUME NEW m \in Media, NEW gen \in Nat, NEW b \in Nat, NEW s \in Nat, NEW len \in Nat,
         b + rec_alloc_bytes(len) <= Cap,
         Uncommitted(m, gen, b, s, len) \/ Doubtful(m, gen, b, s, len)
  PROVE  LET m2 == Put(m, ClearWrite(b, Header("DATA", s, len, gen)), 1)
         IN  m2 \in Media /\ SameBelow(m, m2, b) /\ Uncommitted(m2, gen, b, s, len)
<1> DEFINE d == Header("DATA", s, len, gen)
           at == b + HdrCells + len + 1
           m2 == Put(m, ClearWrite(b, d), 1)
<1>1. d.len = len
  BY HeaderFields
<1>2. at \in Nat /\ at < b + rec_alloc_bytes(len) /\ at >= b + HdrCells /\ at \in 0 .. Cap - 1
  BY CapNat DEF rec_alloc_bytes
<1>3. ClearWrite(b, d) = HalWrite(at, <<Erased>>)
  BY <1>1 DEF ClearWrite
<1>4. \A j \in 1 .. 1 : <<Erased>>[j] \in Cells(Payloads)
  BY DEF Cells
<1> HIDE DEF at, d
<1>5. /\ m2 \in Media
      /\ \A i \in 0 .. Cap - 1 : m2[i] = IF i \in at .. at + 1 - 1 THEN <<Erased>>[i - at + 1] ELSE m[i]
  BY <1>2, <1>3, <1>4, PutCells
<1>6. \A i \in 0 .. Cap - 1 : m2[i] = IF i = at THEN Erased ELSE m[i]
  BY <1>2, <1>5
<1> HIDE DEF m2
<1>7. SameBelow(m, m2, b)
  BY <1>2, <1>6, CapNat DEF SameBelow
<1>8. CASE ErasedFrom(m, Cap, b)
  <2>1. ErasedFrom(m2, Cap, b)
    BY <1>6, <1>8, CapNat DEF ErasedFrom
  <2>. QED  BY <1>5, <1>7, <2>1 DEF Uncommitted, m2, d
<1>9. CASE HeaderAt(m, b, d) /\ ErasedFrom(m, Cap, b + rec_alloc_bytes(len))
  <2>1. HeaderAt(m2, b, d)
    <3> SUFFICES ASSUME NEW k \in 1 .. HdrCells PROVE m2[b + k - 1] = HeaderCell(d, k)
      BY DEF HeaderAt
    <3>1. b + k - 1 \in 0 .. Cap - 1 /\ b + k - 1 # at
      BY <1>2, CapNat
    <3>. QED  BY <1>6, <1>9, <3>1 DEF HeaderAt
  <2>2. ErasedFrom(m2, Cap, b + rec_alloc_bytes(len))
    BY <1>2, <1>6, <1>9, CapNat DEF ErasedFrom, rec_alloc_bytes
  <2>3. m2[at] = Erased
    BY <1>2, <1>6
  <2>. QED  BY <1>5, <1>7, <2>1, <2>2, <2>3 DEF Uncommitted, Headed, Remains, m2, d, at
<1>. QED  BY <1>8, <1>9 DEF Uncommitted, Headed, Doubtful, InDoubt, Remains, RecordAt, d

\* The write of a header over an uncommitted tail leaves the records below it alone,
\* and a tail that lacks its commit marker.
LEMMA HeaderEffect ==
  ASSUME NEW m \in Media, NEW gen \in Nat, NEW b \in Nat, NEW s \in Nat, NEW len \in Nat,
         b + rec_alloc_bytes(len) <= Cap, Uncommitted(m, gen, b, s, len)
  PROVE  LET m2 == Put(m, HeaderWrite(b, Header("DATA", s, len, gen)), HdrCells)
         IN  m2 \in Media /\ SameBelow(m, m2, b) /\ Headed(m2, gen, b, s, len)
<1> DEFINE d == Header("DATA", s, len, gen)
           cells == [k \in 1 .. HdrCells |-> HeaderCell(d, k)]
           m2 == Put(m, HeaderWrite(b, d), HdrCells)
<1>1. d \in Headers
  BY DEF Headers, Header
<1>2. HeaderWrite(b, d) = HalWrite(b, cells)
  BY DEF HeaderWrite
<1> HIDE DEF d
<1>3. \A j \in 1 .. HdrCells : cells[j] \in Cells(Payloads)
  BY <1>1 DEF Cells
<1>4. \A j \in 1 .. HdrCells : cells[j] = HeaderCell(d, j)
  OBVIOUS
<1> HIDE DEF cells
<1>5. /\ m2 \in Media
      /\ \A i \in 0 .. Cap - 1 :
           m2[i] = IF i \in b .. b + HdrCells - 1 THEN cells[i - b + 1] ELSE m[i]
  BY <1>2, <1>3, PutCells, CapNat
<1> HIDE DEF m2
<1>6. SameBelow(m, m2, b)
  BY <1>5, CapNat DEF SameBelow, rec_alloc_bytes
<1>7. HeaderAt(m2, b, d)
  <2> SUFFICES ASSUME NEW k \in 1 .. HdrCells PROVE m2[b + k - 1] = HeaderCell(d, k)
    BY DEF HeaderAt
  <2>1. b + k - 1 \in 0 .. Cap - 1 /\ b + k - 1 \in b .. b + HdrCells - 1 /\ (b + k - 1) - b + 1 = k
    BY CapNat DEF rec_alloc_bytes
  <2>. QED  BY <1>4, <1>5, <2>1
<1>8. \A i \in b + HdrCells .. Cap - 1 : m2[i] = m[i]
  BY <1>5, CapNat
<1>9. m[b + HdrCells + len + 1] = Erased /\ ErasedFrom(m, Cap, b + rec_alloc_bytes(len))
  BY CapNat DEF Uncommitted, Headed, Remains, ErasedFrom, rec_alloc_bytes
<1>10. m2[b + HdrCells + len + 1] = Erased /\ ErasedFrom(m2, Cap, b + rec_alloc_bytes(len))
  BY <1>8, <1>9, CapNat DEF ErasedFrom, rec_alloc_bytes
<1>. QED  BY <1>5, <1>6, <1>7, <1>10 DEF Headed, Remains, m2, d

\* A write of the payload, torn anywhere, does the same.
LEMMA BodyEffect ==
  ASSUME NEW m \in Media, NEW gen \in Nat, NEW b \in Nat, NEW s \in Nat, NEW len \in Nat,
         NEW p \in Payloads, NEW k \in 0 .. len,
         b + rec_alloc_bytes(len) <= Cap, Headed(m, gen, b, s, len)
  PROVE  LET d == Header("DATA", s, len, gen)
             m2 == Put(m, BodyWrite(b, d, p), k)
         IN  /\ m2 \in Media /\ SameBelow(m, m2, b) /\ Headed(m2, gen, b, s, len)
             /\ k = len => BodyAt(m2, b, d, p)
<1> DEFINE d == Header("DATA", s, len, gen)
           at == b + HdrCells
           cells == [j \in 1 .. len |-> PayloadCell(p)]
           m2 == Put(m, BodyWrite(b, d, p), k)
<1>1. d.len = len
  BY HeaderFields
<1>2. BodyWrite(b, d, p) = HalWrite(at, cells)
  BY <1>1 DEF BodyWrite
<1> HIDE DEF d
<1>3. \A j \in 1 .. k : cells[j] \in Cells(Payloads)
  BY DEF Cells
<1>4. \A j \in 1 .. len : cells[j] = PayloadCell(p)
  OBVIOUS
<1>5. at \in Nat /\ k \in Nat /\ at = b + HdrCells
  BY CapNat
<1> HIDE DEF cells, at
<1>6. /\ m2 \in Media
      /\ \A i \in 0 .. Cap - 1 : m2[i] = IF i \in at .. at + k - 1 THEN cells[i - at + 1] ELSE m[i]
  BY <1>2, <1>3, <1>5, PutCells
<1> HIDE DEF m2
<1>7. SameBelow(m, m2, b)
  BY <1>5, <1>6, CapNat DEF SameBelow, rec_alloc_bytes
<1>8. HeaderAt(m2, b, d)
  <2> SUFFICES ASSUME NEW j \in 1 .. HdrCells PROVE m2[b + j - 1] = HeaderCell(d, j)
    BY DEF HeaderAt
  <2>1. b + j - 1 \in 0 .. Cap - 1 /\ ~(b + j - 1 \in at .. at + k - 1)
    BY <1>5, CapNat DEF rec_alloc_bytes
  <2>2. m[b + j - 1] = HeaderCell(d, j)
    BY DEF Headed, Remains, HeaderAt, d
  <2>. QED  BY <1>6, <2>1, <2>2
<1>9. \A i \in b + HdrCells + len .. Cap - 1 : m2[i] = m[i]
  BY <1>5, <1>6, CapNat
<1>10. m2[b + HdrCells + len + 1] = Erased /\ ErasedFrom(m2, Cap, b + rec_alloc_bytes(len))
  BY <1>9, CapNat DEF Headed, Remains, ErasedFrom, rec_alloc_bytes
<1>11. ASSUME k = len PROVE BodyAt(m2, b, d, p)
  <2> SUFFICES ASSUME NEW j \in 1 .. len PROVE m2[b + HdrCells + j - 1] = PayloadCell(p)
    BY <1>1 DEF BodyAt
  <2>1. /\ b + HdrCells + j - 1 \in 0 .. Cap - 1 /\ b + HdrCells + j - 1 \in at .. at + k - 1
        /\ (b + HdrCells + j - 1) - at + 1 = j
    BY <1>5, <1>11, CapNat DEF rec_alloc_bytes
  <2>. QED  BY <1>4, <1>6, <2>1
<1>. QED  BY <1>6, <1>7, <1>8, <1>10, <1>11 DEF Headed, Remains, m2, d

\* So does the write of the CRC, and the record lacks its marker only.
LEMMA CrcEffect ==
  ASSUME NEW m \in Media, NEW gen \in Nat, NEW b \in Nat, NEW s \in Nat, NEW len \in Nat,
         NEW p \in Payloads, b + rec_alloc_bytes(len) <= Cap,
         Headed(m, gen, b, s, len), BodyAt(m, b, Header("DATA", s, len, gen), p)
  PROVE  LET d == Header("DATA", s, len, gen)
             m2 == Put(m, CrcWrite(b, d, p), 1)
         IN  /\ m2 \in Media /\ SameBelow(m, m2, b) /\ Headed(m2, gen, b, s, len)
             /\ BodyAt(m2, b, d, p) /\ m2[b + HdrCells + len] = CrcCell(d, p)
<1> DEFINE d == Header("DATA", s, len, gen)
           at == b + HdrCells + len
           m2 == Put(m, CrcWrite(b, d, p), 1)
<1>1. d.len = len /\ d \in Headers
  BY HeaderFields DEF Headers, Header
<1>2. CrcWrite(b, d, p) = HalWrite(at, <<CrcCell(d, p)>>)
  BY <1>1 DEF CrcWrite
<1> HIDE DEF d
<1>3. \A j \in 1 .. 1 : <<CrcCell(d, p)>>[j] \in Cells(Payloads)
  BY <1>1 DEF Cells
<1>4. at \in Nat /\ at = b + HdrCells + len
  BY CapNat
<1> HIDE DEF at
<1>5. /\ m2 \in Media
      /\ \A i \in 0 .. Cap - 1 :
           m2[i] = IF i \in at .. at + 1 - 1 THEN <<CrcCell(d, p)>>[i - at + 1] ELSE m[i]
  BY <1>2, <1>3, <1>4, PutCells
<1>6. \A i \in 0 .. Cap - 1 : m2[i] = IF i = at THEN CrcCell(d, p) ELSE m[i]
  BY <1>4, <1>5
<1> HIDE DEF m2
<1>7. SameBelow(m, m2, b)
  BY <1>4, <1>6, CapNat DEF SameBelow, rec_alloc_bytes
<1>8. HeaderAt(m2, b, d)
  <2> SUFFICES ASSUME NEW j \in 1 .. HdrCells PROVE m2[b + j - 1] = HeaderCell(d, j)
    BY DEF HeaderAt
  <2>1. b + j - 1 \in 0 .. Cap - 1 /\ b + j - 1 # at
    BY <1>4, CapNat DEF rec_alloc_bytes
  <2>2. m[b + j - 1] = HeaderCell(d, j)
    BY DEF Headed, Remains, HeaderAt, d
  <2>. QED  BY <1>6, <2>1, <2>2
<1>9. BodyAt(m2, b, d, p)
  <2> SUFFICES ASSUME NEW j \in 1 .. len PROVE m2[b + HdrCells + j - 1] = PayloadCell(p)
    BY <1>1 DEF BodyAt
  <2>1. b + HdrCells + j - 1 \in 0 .. Cap - 1 /\ b + HdrCells + j - 1 # at
    BY <1>4, CapNat DEF rec_alloc_bytes
  <2>2. m[b + HdrCells + j - 1] = PayloadCell(p)
    BY <1>1 DEF BodyAt, d
  <2>. QED  BY <1>6, <2>1, <2>2
<1>10. m2[b + HdrCells + len + 1] = Erased /\ ErasedFrom(m2, Cap, b + rec_alloc_bytes(len))
  BY <1>4, <1>6, CapNat DEF Headed, Remains, ErasedFrom, rec_alloc_bytes
<1>11. m2[at] = CrcCell(d, p)
  BY <1>4, <1>6, CapNat DEF rec_alloc_bytes
<1>. QED  BY <1>5, <1>7, <1>8, <1>9, <1>10, <1>11 DEF Headed, Remains, m2, d, at

\* The write of the commit marker makes the record complete: the point in
\* nvlog_append at which it becomes durable.
LEMMA CommitEffect ==
  ASSUME NEW m \in Media, NEW gen \in Nat, NEW b \in Nat, NEW s \in Nat, NEW len \in Nat,
         NEW p \in Payloads, b + rec_alloc_bytes(len) <= Cap,
         Headed(m, gen, b, s, len), BodyAt(m, b, Header("DATA", s, len, gen), p),
         m[b + HdrCells + len] = CrcCell(Header("DATA", s, len, gen), p)
  PROVE  LET m2 == Put(m, CommitWrite(b, Header("DATA", s, len, gen)), 1)
         IN  m2 \in Media /\ SameBelow(m, m2, b) /\ InDoubt(m2, gen, b, s, len, p)
<1> DEFINE d == Header("DATA", s, len, gen)
           at == b + HdrCells + len + 1
           m2 == Put(m, CommitWrite(b, d), 1)
<1>1. d.len = len
  BY HeaderFields
<1>2. CommitWrite(b, d) = HalWrite(at, <<Commit>>)
  BY <1>1 DEF CommitWrite
<1> HIDE DEF d
<1>3. \A j \in 1 .. 1 : <<Commit>>[j] \in Cells(Payloads)
  BY DEF Cells
<1>4. at \in Nat /\ at = b + HdrCells + len + 1
  BY CapNat
<1> HIDE DEF at
<1>5. /\ m2 \in Media
      /\ \A i \in 0 .. Cap - 1 :
           m2[i] = IF i \in at .. at + 1 - 1 THEN <<Commit>>[i - at + 1] ELSE m[i]
  BY <1>2, <1>3, <1>4, PutCells
<1>6. \A i \in 0 .. Cap - 1 : m2[i] = IF i = at THEN Commit ELSE m[i]
  BY <1>4, <1>5
<1> HIDE DEF m2
<1>7. SameBelow(m, m2, b)
  BY <1>4, <1>6, CapNat DEF SameBelow, rec_alloc_bytes
<1>8. HeaderAt(m2, b, d)
  <2> SUFFICES ASSUME NEW j \in 1 .. HdrCells PROVE m2[b + j - 1] = HeaderCell(d, j)
    BY DEF HeaderAt
  <2>1. b + j - 1 \in 0 .. Cap - 1 /\ b + j - 1 # at
    BY <1>4, CapNat DEF rec_alloc_bytes
  <2>2. m[b + j - 1] = HeaderCell(d, j)
    BY DEF Headed, Remains, HeaderAt, d
  <2>. QED  BY <1>6, <2>1, <2>2
<1>9. BodyAt(m2, b, d, p)
  <2> SUFFICES ASSUME NEW j \in 1 .. len PROVE m2[b + HdrCells + j - 1] = PayloadCell(p)
    BY <1>1 DEF BodyAt
  <2>1. b + HdrCells + j - 1 \in 0 .. Cap - 1 /\ b + HdrCells + j - 1 # at
    BY <1>4, CapNat DEF rec_alloc_bytes
  <2>2. m[b + HdrCells + j - 1] = PayloadCell(p)
    BY <1>1 DEF BodyAt, d
  <2>. QED  BY <1>6, <2>1, <2>2
<1>10. ErasedFrom(m2, Cap, b + rec_alloc_bytes(len))
  BY <1>4, <1>6, CapNat DEF Headed, Remains, ErasedFrom, rec_alloc_bytes
<1>11. m2[at] = Commit /\ m2[b + HdrCells + len] = CrcCell(d, p)
  BY <1>4, <1>6, CapNat DEF rec_alloc_bytes, d
<1>. QED  BY <1>1, <1>4, <1>5, <1>7, <1>8, <1>9, <1>10, <1>11 DEF InDoubt, RecordAt, m2, d

\* One write of a record, of which the first k cells arrive: behind the chain is
\* again what may be there, nothing comes to be in doubt while something is, and a
\* write that is complete brings the append forward.
LEMMA WriteEffect ==
  ASSUME TornWrites => HdrCells = 1,
         NEW m \in Media, NEW gen \in Nat, NEW b \in Nat, NEW s \in Nat, NEW len \in Nat,
         NEW p \in Payloads, NEW left, Writing(m, gen, b, s, len, p, left), left # <<>>,
         NEW k \in 0 .. Len(Head(left).cells),
         k \in 1 .. Len(Head(left).cells) - 1 => TornWrites
  PROVE  LET m2 == Put(m, Head(left), k)
         IN  /\ m2 \in Media /\ SameBelow(m, m2, b)
             /\ Uncommitted(m2, gen, b, s, len) \/ Doubtful(m2, gen, b, s, len)
             /\ m2 = m \/ Uncommitted(m, gen, b, s, len) \/ Uncommitted(m2, gen, b, s, len)
             /\ k = Len(Head(left).cells) => Writing(m2, gen, b, s, len, p, Tail(left))
<1> DEFINE d == Header("DATA", s, len, gen)
           Clr == ClearWrite(b, d)
           Hdr == HeaderWrite(b, d)
           Bod == BodyWrite(b, d, p)
           Crc == CrcWrite(b, d, p)
           Com == CommitWrite(b, d)
           m2 == Put(m, Head(left), k)
           U == Uncommitted(m, gen, b, s, len)
           U2 == Uncommitted(m2, gen, b, s, len)
           D2 == Doubtful(m2, gen, b, s, len)
           More == Writing(m2, gen, b, s, len, p, Tail(left))
           Goal == /\ m2 \in Media /\ SameBelow(m, m2, b)
                   /\ U2 \/ D2
                   /\ m2 = m \/ U \/ U2
                   /\ k = Len(Head(left).cells) => More
<1>1. k \in 0 .. Len(Head(left).cells)
  OBVIOUS
<1>2. b + rec_alloc_bytes(len) <= Cap /\ d.len = len
  BY HeaderFields DEF Writing
<1>3. /\ Len(Clr.cells) = 1 /\ Len(Hdr.cells) = HdrCells /\ Len(Bod.cells) = len
      /\ Len(Crc.cells) = 1 /\ Len(Com.cells) = 1
  BY <1>2, CapNat DEF ClearWrite, HeaderWrite, BodyWrite, CrcWrite, CommitWrite, HalWrite
<1>4. Clr.at \in Nat /\ Hdr.at \in Nat /\ Crc.at \in Nat /\ Com.at \in Nat
  BY <1>2, CapNat DEF ClearWrite, HeaderWrite, CrcWrite, CommitWrite, HalWrite
<1>5. \A w : w.at \in Nat => Put(m, w, 0) = m
  <2> SUFFICES ASSUME NEW w, w.at \in Nat PROVE Put(m, w, 0) = m
    OBVIOUS
  <2>1. w.at .. w.at + 0 - 1 = {}
    OBVIOUS
  <2>2. Put(m, w, 0) = [i \in DOMAIN m |-> m[i]]
    BY <2>1, Zenon DEF Put
  <2>. QED  BY <2>2 DEF Media
<1> HIDE DEF d, Clr, Hdr, Bod, Crc, Com
<1>6. ASSUME left = IF len > 0 THEN <<Clr, Hdr, Bod, Crc, Com>> ELSE <<Clr, Hdr, Crc, Com>>,
             U \/ Doubtful(m, gen, b, s, len)
      PROVE  Goal
  <2>1. /\ Head(left) = Clr
        /\ Tail(left) = IF len > 0 THEN <<Hdr, Bod, Crc, Com>> ELSE <<Hdr, Crc, Com>>
    BY <1>6, HeadAndTail
  <2>2. Len(Head(left).cells) = 1
    BY <1>3, <2>1
  <2>3. k \in 0 .. 1
    BY <1>1, <2>2, Zenon
  <2>4. k = 0 \/ k = 1
    BY <2>3
  <2>5. CASE k = 0
    <3>1. m2 = m
      BY <1>4, <1>5, <2>1, <2>5
    <3>2. k # 1
      BY <2>5
    <3>3. k # Len(Head(left).cells)
      BY <2>2, <3>2, Zenon
    <3>4. U2 \/ D2
      BY <1>6, <3>1 DEF Uncommitted
    <3>5. SameBelow(m, m2, b)
      BY <3>1 DEF SameBelow
    <3> HIDE DEF m2, More
    <3>. QED  BY <3>1, <3>3, <3>4, <3>5
  <2>6. CASE k = 1
    <3>1. m2 \in Media /\ SameBelow(m, m2, b) /\ U2
      BY <1>2, <1>6, <2>1, <2>6, ClearEffect DEF d, Clr
    <3>2. More
      BY <1>2, <2>1, <3>1 DEF Writing, d, Hdr, Bod, Crc, Com
    <3>. QED  BY <3>1, <3>2
  <2>. QED  BY <2>4, <2>5, <2>6
<1>7. ASSUME left = IF len > 0 THEN <<Hdr, Bod, Crc, Com>> ELSE <<Hdr, Crc, Com>>, U
      PROVE  Goal
  <2>1. /\ Head(left) = Hdr
        /\ Tail(left) = IF len > 0 THEN <<Bod, Crc, Com>> ELSE <<Crc, Com>>
    BY <1>7, HeadAndTail
  <2>2. CASE k = 0
    <3>1. m2 = m
      BY <1>4, <1>5, <2>1, <2>2
    <3>. QED  BY <1>3, <1>7, <2>1, <2>2, <3>1, CapNat DEF SameBelow
  <2>3. CASE k = HdrCells
    <3>1. m2 \in Media /\ SameBelow(m, m2, b) /\ Headed(m2, gen, b, s, len)
      BY <1>2, <1>7, <2>1, <2>3, HeaderEffect DEF d, Hdr
    <3>2. len = 0 => BodyAt(m2, b, d, p)
      BY <1>2 DEF BodyAt
    <3>3. More
      <4>1. CASE len > 0
        BY <1>2, <2>1, <3>1, <4>1 DEF Writing, d, Bod, Crc, Com
      <4>2. CASE len = 0
        BY <1>2, <2>1, <3>1, <3>2, <4>2 DEF Writing, d, Crc, Com
      <4>. QED  BY <4>1, <4>2
    <3>. QED  BY <1>7, <3>1, <3>3 DEF Uncommitted
  <2>. QED  BY <1>3, <2>1, <2>2, <2>3, CapNat
<1>8. ASSUME left = <<Bod, Crc, Com>>, len > 0, Headed(m, gen, b, s, len) PROVE Goal
  <2>1. Head(left) = Bod /\ Tail(left) = <<Crc, Com>>
    BY <1>8, HeadAndTail
  <2>2. k \in 0 .. len
    BY <1>3, <2>1
  <2>3. /\ m2 \in Media /\ SameBelow(m, m2, b) /\ Headed(m2, gen, b, s, len)
        /\ k = len => BodyAt(m2, b, d, p)
    BY <1>2, <1>8, <2>1, <2>2, BodyEffect DEF d, Bod
  <2>4. k = len => More
    BY <1>2, <2>1, <2>3 DEF Writing, d, Crc, Com
  <2>. QED  BY <1>3, <1>8, <2>1, <2>3, <2>4 DEF Uncommitted
<1>9. ASSUME left = <<Crc, Com>>, Headed(m, gen, b, s, len), BodyAt(m, b, d, p) PROVE Goal
  <2>1. Head(left) = Crc /\ Tail(left) = <<Com>>
    BY <1>9, HeadAndTail
  <2>2. Len(Head(left).cells) = 1
    BY <1>3, <2>1
  <2>3. k \in 0 .. 1
    BY <1>1, <2>2, Zenon
  <2>4. k = 0 \/ k = 1
    BY <2>3
  <2>5. CASE k = 0
    <3>1. m2 = m
      BY <1>4, <1>5, <2>1, <2>5
    <3>2. k # 1
      BY <2>5
    <3>3. k # Len(Head(left).cells)
      BY <2>2, <3>2, Zenon
    <3>4. U2 \/ D2
      BY <1>9, <3>1 DEF Uncommitted
    <3>5. SameBelow(m, m2, b)
      BY <3>1 DEF SameBelow
    <3> HIDE DEF m2, More
    <3>. QED  BY <3>1, <3>3, <3>4, <3>5
  <2>6. CASE k = 1
    <3>1. /\ m2 \in Media /\ SameBelow(m, m2, b) /\ Headed(m2, gen, b, s, len)
          /\ BodyAt(m2, b, d, p) /\ m2[b + HdrCells + len] = CrcCell(d, p)
      BY <1>2, <1>9, <2>1, <2>6, CrcEffect DEF d, Crc
    <3>2. More
      BY <1>2, <2>1, <3>1 DEF Writing, d, Com
    <3>. QED  BY <3>1, <3>2 DEF Uncommitted
  <2>. QED  BY <2>4, <2>5, <2>6
<1>10. ASSUME left = <<Com>>, Headed(m, gen, b, s, len), BodyAt(m, b, d, p),
             m[b + HdrCells + len] = CrcCell(d, p)
      PROVE  Goal
  <2>1. Head(left) = Com /\ Tail(left) = <<>>
    BY <1>10, HeadAndTail
  <2>2. Len(Head(left).cells) = 1
    BY <1>3, <2>1
  <2>3. k \in 0 .. 1
    BY <1>1, <2>2, Zenon
  <2>4. k = 0 \/ k = 1
    BY <2>3
  <2>5. CASE k = 0
    <3>1. m2 = m
      BY <1>4, <1>5, <2>1, <2>5
    <3>2. k # 1
      BY <2>5
    <3>3. k # Len(Head(left).cells)
      BY <2>2, <3>2, Zenon
    <3>4. U2 \/ D2
      BY <1>10, <3>1 DEF Uncommitted
    <3>5. SameBelow(m, m2, b)
      BY <3>1 DEF SameBelow
    <3> HIDE DEF m2, More
    <3>. QED  BY <3>1, <3>3, <3>4, <3>5
  <2>6. CASE k = 1
    <3>1. m2 \in Media /\ SameBelow(m, m2, b) /\ InDoubt(m2, gen, b, s, len, p)
      BY <1>2, <1>10, <2>1, <2>6, CommitEffect DEF d, Com
    <3>2. More /\ D2
      BY <1>2, <2>1, <3>1 DEF Writing, Doubtful
    <3>. QED  BY <1>10, <3>1, <3>2 DEF Uncommitted
  <2>. QED  BY <2>4, <2>5, <2>6
<1>11. Goal
  BY <1>6, <1>7, <1>8, <1>9, <1>10 DEF Writing, d, Clr, Hdr, Bod, Crc, Com
<1>. QED  BY <1>11

-----------------------------------------------------------------------------
\* A record in doubt at the end is found, too.
LEMMA MountFindsDoubtful ==
  ASSUME NEW m \in Media, NEW gen, NEW n \in Nat, NEW pos, NEW v, NEW len \in Nat,
         NEW p \in Payloads,
         NEW b, b = pos[n + 1], Chain(m, gen, n, pos, v), InDoubt(m, gen, b, n, len, p)
  PROVE  /\ scan(m, gen) = ScanResult(pos[n + 1] + rec_alloc_bytes(len), n + 1, Append(v, p))
         /\ nvlog_iter_next(m, gen) = IterResult(Append(v, p))
<1>1. PICK pos2 : /\ Chain(m, gen, n + 1, pos2, Append(v, p))
                  /\ pos2[n + 2] = b + rec_alloc_bytes(len)
                  /\ ErasedFrom(m, Cap, pos2[n + 2])
  BY ChainGrows DEF Longer
<1>2. (n + 1) + 1 = n + 2 /\ n + 1 \in Nat
  OBVIOUS
<1>3. Uncommitted(m, gen, pos2[(n + 1) + 1], n + 1, len)
  BY <1>1, <1>2 DEF Uncommitted
<1>4. /\ scan(m, gen) = ScanResult(pos2[(n + 1) + 1], n + 1, Append(v, p))
      /\ nvlog_iter_next(m, gen) = IterResult(Append(v, p))
  BY <1>1, <1>2, <1>3, MountFindsChain
<1>. QED  BY <1>1, <1>2, <1>4

Behind(m, gen, b, s, len) == Uncommitted(m, gen, b, s, len) \/ Doubtful(m, gen, b, s, len)

\* Wherever an append stands, what lies behind the chain is an uncommitted tail, or
\* the record whose marker is already written.
LEMMA WritingBehind ==
  ASSUME NEW m, NEW gen, NEW b, NEW s, NEW len, NEW p \in Payloads, NEW left,
         Writing(m, gen, b, s, len, p, left)
  PROVE  /\ Behind(m, gen, b, s, len)
         /\ left = <<>> => InDoubt(m, gen, b, s, len, p)
         /\ b + rec_alloc_bytes(len) <= Cap
<1>1. Behind(m, gen, b, s, len)
  BY DEF Writing, Behind, Uncommitted, Doubtful
<1>2. \A a, c, d, e, f : /\ <<a>> # <<>> /\ <<a, c>> # <<>> /\ <<a, c, d>> # <<>>
                         /\ <<a, c, d, e>> # <<>> /\ <<a, c, d, e, f>> # <<>>
  OBVIOUS
<1>3. left = <<>> => InDoubt(m, gen, b, s, len, p)
  BY <1>2 DEF Writing
<1>. QED  BY <1>1, <1>3 DEF Writing

\* What the invariant says of the first cell behind the chain.
LEMMA StoredFacts ==
  ASSUME Types, Running, NEW pos, NEW v, Stored(pos, v)
  PROVE  LET b == pos[acked + 1]
         IN  /\ Chain(media, Current.gen, acked, pos, v)
             /\ b \in 0 .. Cap /\ b \in Nat
             /\ v \in Seq(Payloads) /\ Len(v) = acked
             /\ Behind(media, Current.gen, b, acked, req.len)
             /\ media \in Media /\ acked \in Nat /\ req.len \in Nat
             /\ Current \in [ok : BOOLEAN, gen : Nat, mseq : Nat]
<1>1. media \in Media /\ acked \in Nat /\ req.len \in Nat
      /\ Current \in [ok : BOOLEAN, gen : Nat, mseq : Nat]
  BY DEF Types, Current, load_current_superblock
<1>2. Chain(media, Current.gen, acked, pos, v)
  BY DEF Stored
<1>3. /\ pos[acked + 1] \in 0 .. Cap /\ pos[acked + 1] \in Nat
      /\ v \in Seq(Payloads) /\ Len(v) = acked
  BY <1>1, <1>2, CapNat, SubSeqCons DEF Chain
<1>4. Behind(media, Current.gen, pos[acked + 1], acked, req.len)
  <2>1. CASE pc = "data"
    <3>1. req.v \in Payloads
      BY <2>1 DEF Running
    <3>. QED  BY <2>1, <3>1, WritingBehind DEF Stored
  <2>2. CASE pc # "data"
    BY <2>2 DEF Stored, Behind
  <2>. QED  BY <2>1, <2>2
<1>. QED  BY <1>1, <1>2, <1>3, <1>4

\* What a mount would find in a state of the invariant.
LEMMA DurableFound ==
  ASSUME Types, Running, NEW pos, NEW v, Stored(pos, v)
  PROVE  LET b == pos[acked + 1]
             e == b + rec_alloc_bytes(req.len)
             gen == Current.gen
         IN  /\ Uncommitted(media, gen, b, acked, req.len) =>
                  Durable = ScanResult(b, acked, v) /\ nvlog_iter_next(media, gen) = IterResult(v)
             /\ \A p \in Payloads : InDoubt(media, gen, b, acked, req.len, p) =>
                  /\ Durable = ScanResult(e, acked + 1, Append(v, p))
                  /\ nvlog_iter_next(media, gen) = IterResult(Append(v, p))
             /\ Durable.ok
<1> DEFINE b == pos[acked + 1]
           e == b + rec_alloc_bytes(req.len)
           gen == Current.gen
<1>1. /\ media \in Media /\ acked \in Nat /\ req.len \in Nat
      /\ Chain(media, gen, acked, pos, v)
  BY StoredFacts
<1>2. b = pos[acked + 1]
  OBVIOUS
<1>3. ASSUME Uncommitted(media, gen, b, acked, req.len)
      PROVE  Durable = ScanResult(b, acked, v) /\ nvlog_iter_next(media, gen) = IterResult(v)
  BY <1>1, <1>3, MountFindsChain DEF Durable
<1>4. Behind(media, gen, b, acked, req.len)
  BY StoredFacts
<1> HIDE DEF b
<1>5. ASSUME NEW p \in Payloads, InDoubt(media, gen, b, acked, req.len, p)
      PROVE  /\ Durable = ScanResult(e, acked + 1, Append(v, p))
             /\ nvlog_iter_next(media, gen) = IterResult(Append(v, p))
  BY <1>1, <1>2, <1>5, MountFindsDoubtful DEF Durable
<1>6. Durable.ok
  BY <1>3, <1>5, <1>4 DEF Behind, Doubtful, ScanResult
<1>. QED  BY <1>3, <1>5, <1>6 DEF b

-----------------------------------------------------------------------------
\* What the invariant says about the properties that are checked.
LEMMA InvMeans == IInv => TypeOK /\ AlwaysMounts /\ ContextAgrees /\ IterationIsExact
<1> SUFFICES ASSUME IInv PROVE TypeOK /\ AlwaysMounts /\ ContextAgrees /\ IterationIsExact
  OBVIOUS
<1>1. Types /\ Running
  BY DEF IInv
<1>2. PICK pos, v : Stored(pos, v)
  BY DEF IInv
<1> DEFINE b == pos[acked + 1]
           gen == Current.gen
<1>3. /\ b \in 0 .. Cap /\ v \in Seq(Payloads) /\ Len(v) = acked
      /\ Behind(media, gen, b, acked, req.len) /\ acked \in Nat
  BY <1>1, <1>2, StoredFacts
<1>4. /\ Uncommitted(media, gen, b, acked, req.len) =>
           Durable = ScanResult(b, acked, v) /\ nvlog_iter_next(media, gen) = IterResult(v)
      /\ \A p \in Payloads : InDoubt(media, gen, b, acked, req.len, p) =>
           /\ Durable = ScanResult(b + rec_alloc_bytes(req.len), acked + 1, Append(v, p))
           /\ nvlog_iter_next(media, gen) = IterResult(Append(v, p))
      /\ Durable.ok
  BY <1>1, <1>2, DurableFound
<1>5. \A p \in Payloads : Len(Append(v, p)) = acked + 1
  BY <1>3
<1>6. ctx.mounted => ctx.wp = b /\ ctx.gen = gen /\ ctx.next = acked /\ ctx.count = acked
  BY <1>1, <1>2 DEF Stored, Running
<1>7. pc = "idle" /\ ctx.mounted /\ Doubtful(media, gen, b, acked, req.len)
        /\ ~Uncommitted(media, gen, b, acked, req.len) => status = "IO"
  BY <1>2 DEF Stored
<1> HIDE DEF b, gen
<1>8. TypeOK
  <2>1. DOMAIN media = 0 .. Cap - 1
    BY <1>1 DEF Types, Media
  <2>2. ctx.wp <= Cap
    BY <1>1, <1>3, <1>6, CapNat DEF Types, Context, Running
  <2>. QED  BY <1>1, <2>1, <2>2 DEF TypeOK, Types
<1>9. AlwaysMounts
  BY <1>4 DEF AlwaysMounts
<1>10. ContextAgrees
  <2> SUFFICES ASSUME pc = "idle", ctx.mounted
               PROVE  \/ /\ Durable.wp = ctx.wp /\ Durable.next = ctx.next
                         /\ Len(Durable.recs) = ctx.count
                      \/ /\ status = "IO" /\ Len(Durable.recs) = ctx.count + 1
                         /\ Durable.wp = ctx.wp + rec_alloc_bytes(req.len)
                         /\ Durable.next = ctx.next + 1
    BY DEF ContextAgrees
  <2>1. CASE Uncommitted(media, gen, b, acked, req.len)
    BY <1>3, <1>4, <1>6, <2>1 DEF ScanResult
  <2>2. CASE ~Uncommitted(media, gen, b, acked, req.len)
    <3>1. PICK p \in Payloads : InDoubt(media, gen, b, acked, req.len, p)
      BY <1>3, <2>2 DEF Behind, Doubtful
    <3>2. status = "IO"
      BY <1>3, <1>7, <2>2 DEF Behind
    <3>. QED  BY <1>4, <1>5, <1>6, <3>1, <3>2 DEF ScanResult
  <2>. QED  BY <2>1, <2>2
<1>11. IterationIsExact
  <2> SUFFICES ASSUME pc = "idle", ctx.mounted
               PROVE  nvlog_iter_next(media, ctx.gen) = [ok |-> TRUE, recs |-> Durable.recs]
    BY DEF IterationIsExact
  <2>1. CASE Uncommitted(media, gen, b, acked, req.len)
    <3>1. Durable.recs = v
      BY <1>4, <2>1 DEF ScanResult
    <3>. QED  BY <1>4, <1>6, <2>1, <3>1, Zenon DEF IterResult
  <2>2. CASE ~Uncommitted(media, gen, b, acked, req.len)
    <3>1. PICK p \in Payloads : InDoubt(media, gen, b, acked, req.len, p)
      BY <1>3, <2>2 DEF Behind, Doubtful
    <3>2. Durable.recs = Append(v, p)
      BY <1>4, <3>1 DEF ScanResult
    <3>. QED  BY <1>4, <1>6, <3>1, <3>2, Zenon DEF IterResult
  <2>. QED  BY <2>1, <2>2
<1>. QED  BY <1>8, <1>9, <1>10, <1>11

-----------------------------------------------------------------------------
\* On erased media with nothing told of, whatever the superblocks say.
LEMMA ErasedStored ==
  ASSUME NEW m, ErasedFrom(m, Cap, 0), NEW gen, NEW len
  PROVE  \E pos \in [1 .. 0 + 1 -> 0 .. Cap], v \in [1 .. 0 -> Payloads] :
           /\ Chain(m, gen, 0, pos, v) /\ pos[0 + 1] = 0
           /\ Uncommitted(m, gen, pos[0 + 1], 0, len)
<1>1. PICK pos \in [1 .. 1 -> 0 .. Cap], v \in [1 .. 0 -> Payloads] : Chain(m, gen, 0, pos, v)
  BY ChainOfNothing
<1>2. pos[1] = 0 /\ 0 + 1 = 1
  BY <1>1 DEF Chain
<1>. QED  BY <1>1, <1>2 DEF Uncommitted

\* A region without superblocks holds no record.
LEMMA InitInv == Init => IInv
<1> SUFFICES ASSUME Init PROVE IInv
  OBVIOUS
<1> USE DEF Init
<1>1. Types
  BY CapNat, LinearAssumption DEF Types, Media, Cells, BadSb, Blank, Context
<1>2. Running
  BY DEF Running, Blank
<1>3. ErasedFrom(media, Cap, 0)
  BY CapNat DEF ErasedFrom
<1>4. PICK pos \in [1 .. 0 + 1 -> 0 .. Cap], v \in [1 .. 0 -> Payloads] :
        /\ Chain(media, Current.gen, 0, pos, v) /\ pos[0 + 1] = 0
        /\ Uncommitted(media, Current.gen, pos[0 + 1], 0, req.len)
  BY <1>3, ErasedStored
<1>5. Stored(pos, v)
  BY <1>4 DEF Stored, Blank
<1>. QED  BY <1>1, <1>2, <1>3, <1>4, <1>5 DEF IInv, NothingWritten

\* format_impl makes no superblock valid over media that hold records.
LEMMA FormatInv ==
  ASSUME ~ReformatUsed, IInv, Format
  PROVE  IInv'
<1> USE DEF Format, region
<1>1. Types /\ Running
  BY DEF IInv
<1>2. PICK pos \in [1 .. acked + 1 -> 0 .. Cap], v \in [1 .. acked -> Payloads] : Stored(pos, v)
  BY DEF IInv
<1>3. ErasedFrom(media, Cap, 0)
  BY <1>1 DEF Types, Media, ErasedFrom
<1>4. acked = 0
  <2>1. Chain(media, Current.gen, acked, pos, v) /\ acked \in Nat
    BY <1>1, <1>2, StoredFacts
  <2>. QED  BY <1>3, <2>1, ChainOfNothing
<1>5. Current' = Current /\ Current \in [ok : BOOLEAN, gen : Nat, mseq : Nat]
  BY <1>1, <1>2, StoredFacts DEF Current
<1>6. Types'
  <2> DEFINE g == IF Current.ok THEN next_generation_value(Current.gen) ELSE 1
             q == IF Current.ok THEN next_session_value(next_session_value(Current.mseq))
                                ELSE next_session_value(0)
  <2>1. g \in Nat /\ q \in Nat
    BY <1>5 DEF next_generation_value, next_session_value
  <2>2. ctx' = [Blank EXCEPT !.gen = g, !.mseq = q]
    OBVIOUS
  <2> HIDE DEF g, q
  <2>3. ctx' \in Context
    <3>1. Blank \in Context
      BY DEF Context, Blank
    <3>. QED  BY <2>1, <2>2, <3>1 DEF Context
  <2>. QED  BY <1>1, <2>3 DEF Types
<1>7. Running'
  BY DEF Running, Blank
<1>8. PICK pos2 \in [1 .. 0 + 1 -> 0 .. Cap], v2 \in [1 .. 0 -> Payloads] :
        /\ Chain(media, Current.gen, 0, pos2, v2) /\ pos2[0 + 1] = 0
        /\ Uncommitted(media, Current.gen, pos2[0 + 1], 0, req.len)
  BY <1>3, ErasedStored
<1>9. Stored(pos2, v2)'
  BY <1>4, <1>5, <1>8 DEF Stored, Blank
<1>10. NothingWritten'
  BY <1>3, <1>4 DEF NothingWritten
<1>. QED  BY <1>4, <1>6, <1>7, <1>8, <1>9, <1>10 DEF IInv

\* The first superblock copy is written over erased media.
LEMMA WriteAInv ==
  ASSUME IInv, WriteA
  PROVE  IInv'
<1> USE DEF WriteA
<1>1. Types /\ Running /\ NothingWritten
  BY DEF IInv
<1>2. ErasedFrom(media, Cap, 0) /\ acked = 0
  BY <1>1 DEF NothingWritten
<1>3. Types'
  BY <1>1 DEF Types, Sb, Context
<1>4. Running'
  BY <1>1 DEF Running
<1>5. PICK pos2 \in [1 .. 0 + 1 -> 0 .. Cap], v2 \in [1 .. 0 -> Payloads] :
        /\ Chain(media, Current'.gen, 0, pos2, v2) /\ pos2[0 + 1] = 0
        /\ Uncommitted(media, Current'.gen, pos2[0 + 1], 0, req.len)
  BY <1>2, ErasedStored
<1>6. Stored(pos2, v2)'
  BY <1>1, <1>2, <1>5 DEF Stored, Running
<1>7. NothingWritten'
  BY <1>2 DEF NothingWritten
<1>. QED  BY <1>2, <1>3, <1>4, <1>5, <1>6, <1>7 DEF IInv

\* So is the second: the region is formatted, and empty.
LEMMA WriteBInv ==
  ASSUME IInv, WriteB
  PROVE  IInv'
<1> USE DEF WriteB, Return
<1>1. Types /\ Running /\ NothingWritten
  BY DEF IInv
<1>2. ErasedFrom(media, Cap, 0) /\ acked = 0
  BY <1>1 DEF NothingWritten
<1>3. Types'
  BY <1>1 DEF Types, Sb, Context
<1>4. Current'.ok /\ Current'.gen = ctx.gen
  BY <1>1 DEF Running, Current, load_current_superblock, Sb
<1>5. Running'
  BY <1>1, <1>2, <1>4 DEF Running, Types, Context
<1>6. PICK pos2 \in [1 .. 0 + 1 -> 0 .. Cap], v2 \in [1 .. 0 -> Payloads] :
        /\ Chain(media, Current'.gen, 0, pos2, v2) /\ pos2[0 + 1] = 0
        /\ Uncommitted(media, Current'.gen, pos2[0 + 1], 0, req.len)
  BY <1>2, ErasedStored
<1>7. Stored(pos2, v2)'
  BY <1>1, <1>2, <1>6 DEF Stored, Running, Types, Context
<1>8. NothingWritten'
  BY <1>2 DEF NothingWritten
<1>. QED  BY <1>2, <1>3, <1>5, <1>6, <1>7, <1>8 DEF IInv

\* nvlog_append starts its writes at the end of the chain, with the next sequence
\* number, or returns before the first of them.
LEMMA AppendRecordInv ==
  ASSUME ~RetryOther, IInv, NEW len \in Lens, AppendRecord(len)
  PROVE  IInv'
<1> USE DEF Return, region
<1>1. Types /\ Running /\ NothingWritten
  BY DEF IInv
<1>2. PICK pos \in [1 .. acked + 1 -> 0 .. Cap], v \in [1 .. acked -> Payloads] : Stored(pos, v)
  BY DEF IInv
<1> DEFINE b == pos[acked + 1]
           gen == Current.gen
<1>3. /\ len \in Nat /\ pc = "idle" /\ ctx.mounted /\ ctx.wp = b /\ Current' = Current
      /\ media' = media /\ sbA' = sbA /\ sbB' = sbB /\ ctx' = ctx /\ acked' = acked
      /\ req' = [len |-> len, v |-> calls.appends + 1]
  BY <1>2, LinearAssumption DEF AppendRecord, Stored, Current
<1>4. calls.appends + 1 \in Payloads
  BY <1>1, LinearAssumption DEF AppendRecord, Types, Payloads
<1>5. Types' /\ Running' /\ NothingWritten'
  <2>1. Types'
    <3>1. req' \in [len : Nat, v : 0 .. MaxAppends]
      BY <1>3, <1>4, LinearAssumption DEF Payloads
    <3>2. calls' \in [appends : 0 .. MaxAppends, formats : Nat, faults : Nat]
      <4>1. calls' = [calls EXCEPT !.appends = @ + 1]
        BY DEF AppendRecord
      <4>2. calls \in [appends : 0 .. MaxAppends, formats : Nat, faults : Nat]
        BY <1>1 DEF Types
      <4>3. calls.appends + 1 \in 0 .. MaxAppends
        BY <1>4, LinearAssumption DEF Payloads
      <4>. QED  BY <4>1, <4>2, <4>3
    <3>3. pc' \in {"idle", "data"} /\ (pc' # "data" => todo' = <<>>)
          /\ status' \in {"NONE", "OK", "FULL", "CORRUPT", "IO"}
      BY <1>1 DEF AppendRecord, Types
    <3>. QED  BY <1>1, <1>3, <3>1, <3>2, <3>3 DEF Types
  <2>2. pc' \in {"idle", "data"} /\ Current.ok /\ Current'.ok
    BY <1>1, <1>3 DEF AppendRecord, Running
  <2>3. Running'
    BY <1>1, <1>3, <1>4, <2>2 DEF Running
  <2>4. NothingWritten'
    BY <1>3, <2>2 DEF NothingWritten
  <2>. QED  BY <2>1, <2>3, <2>4
<1>6. /\ Chain(media, gen, acked, pos, v) /\ b \in Nat /\ media \in Media
      /\ Behind(media, gen, b, acked, req.len)
  BY <1>1, <1>2, StoredFacts
<1>7. Behind(media, gen, b, acked, len)
  <2>1. CASE len = req.len
    BY <1>6, <2>1
  <2>2. CASE \A i \in ctx.wp .. Cap - 1 : media[i] = Erased
    BY <1>3, <2>2 DEF Behind, Uncommitted, ErasedFrom
  <2>. QED  BY <2>1, <2>2 DEF AppendRecord, allowed
<1> HIDE DEF b, gen
<1>8. Stored(pos, v)'
  <2>1. CASE ctx.wp + rec_alloc_bytes(len) > Cap /\ Return("FULL")
    <3>1. ~Doubtful(media, gen, b, acked, len)
      BY <1>3, <1>6, <2>1, HeaderFields, CapNat DEF Doubtful, InDoubt, RecordAt, rec_alloc_bytes
    <3>2. Uncommitted(media, gen, b, acked, len)
      BY <1>7, <3>1 DEF Behind
    <3>. QED  BY <1>3, <1>6, <2>1, <3>2 DEF Stored, b, gen
  <2>2. CASE /\ ctx.wp + rec_alloc_bytes(len) <= Cap /\ pc' = "data"
             /\ todo' = write_record_wire(ctx.wp, Header("DATA", ctx.next, len, ctx.gen),
                                          calls.appends + 1)
    <3>1. ctx.next = acked /\ ctx.gen = gen
      BY <1>1, <1>3 DEF Running, gen
    <3>2. todo' = write_record_wire(b, Header("DATA", acked, len, gen), calls.appends + 1)
      BY <1>3, <2>2, <3>1
    <3>3. Writing(media, gen, b, acked, len, calls.appends + 1, todo')
      BY <1>3, <1>7, <2>2, <3>2, WritesOfRecord DEF Writing, Behind
    <3>. QED  BY <1>3, <1>6, <2>2, <3>3 DEF Stored, b, gen
  <2>. QED  BY <2>1, <2>2 DEF AppendRecord
<1>. QED  BY <1>2, <1>3, <1>5, <1>8 DEF IInv

\* A write of the record under way, of which k cells arrive.
LEMMA CellsArrive ==
  ASSUME TornWrites => HdrCells = 1, IInv, todo # <<>>,
         NEW k \in 0 .. Len(Head(todo).cells),
         k \in 1 .. Len(Head(todo).cells) - 1 => TornWrites,
         NEW m2, m2 = Put(media, Head(todo), k),
         NEW pos, NEW v, Stored(pos, v)
  PROVE  LET b == pos[acked + 1]
             gen == Current.gen
         IN  /\ m2 \in Media /\ Chain(m2, gen, acked, pos, v)
             /\ Behind(m2, gen, b, acked, req.len)
             /\ \/ m2 = media \/ Uncommitted(media, gen, b, acked, req.len)
                \/ Uncommitted(m2, gen, b, acked, req.len)
             /\ k = Len(Head(todo).cells) =>
                  Writing(m2, gen, b, acked, req.len, req.v, Tail(todo))
<1> DEFINE b == pos[acked + 1]
           gen == Current.gen
<1>1. Types /\ Running
  BY DEF IInv
<1>2. pc = "data" /\ req.v \in Payloads
  BY <1>1 DEF Types, Running
<1>3. /\ Writing(media, gen, b, acked, req.len, req.v, todo)
      /\ Chain(media, gen, acked, pos, v)
  BY <1>2 DEF Stored
<1>4. /\ media \in Media /\ gen \in Nat /\ b \in Nat /\ acked \in Nat /\ req.len \in Nat
  BY <1>1, StoredFacts
<1> HIDE DEF b, gen
<1>5. /\ m2 \in Media /\ SameBelow(media, m2, b)
      /\ Uncommitted(m2, gen, b, acked, req.len) \/ Doubtful(m2, gen, b, acked, req.len)
      /\ m2 = media \/ Uncommitted(media, gen, b, acked, req.len)
                    \/ Uncommitted(m2, gen, b, acked, req.len)
      /\ k = Len(Head(todo).cells) => Writing(m2, gen, b, acked, req.len, req.v, Tail(todo))
  BY <1>2, <1>3, <1>4, WriteEffect
<1>6. Chain(m2, gen, acked, pos, v)
  BY <1>3, <1>4, <1>5, ChainKept DEF SameBelow, b
<1>. QED  BY <1>5, <1>6 DEF Behind, b, gen

\* Every write of a record is made of cells.
LEMMA WritesAreWrites ==
  ASSUME NEW m, NEW gen, NEW b, NEW s, NEW len, NEW p, NEW left, len \in Nat,
         Writing(m, gen, b, s, len, p, left), left # <<>>
  PROVE  Len(Head(left).cells) \in Nat
<1> DEFINE d == Header("DATA", s, len, gen)
           Clr == ClearWrite(b, d)
           Hdr == HeaderWrite(b, d)
           Bod == BodyWrite(b, d, p)
           Crc == CrcWrite(b, d, p)
           Com == CommitWrite(b, d)
<1>1. d.len = len
  BY HeaderFields
<1>2. \A w \in {Clr, Hdr, Bod, Crc, Com} : Len(w.cells) \in Nat
  <2>1. /\ Clr.cells = <<Erased>> /\ Hdr.cells = [k \in 1 .. HdrCells |-> HeaderCell(d, k)]
        /\ Bod.cells = [k \in 1 .. d.len |-> PayloadCell(p)] /\ Crc.cells = <<CrcCell(d, p)>>
        /\ Com.cells = <<Commit>>
    BY DEF ClearWrite, HeaderWrite, BodyWrite, CrcWrite, CommitWrite, HalWrite
  <2>2. Len(Clr.cells) = 1 /\ Len(Crc.cells) = 1 /\ Len(Com.cells) = 1
    BY <2>1
  <2>3. Len(Hdr.cells) = HdrCells /\ Len(Bod.cells) = d.len
    BY <1>1, <2>1, CapNat
  <2>. QED  BY <1>1, <2>2, <2>3, CapNat
<1>3. Head(left) \in {Clr, Hdr, Bod, Crc, Com}
  <2> HIDE DEF Clr, Hdr, Bod, Crc, Com
  <2>. QED  BY HeadAndTail DEF Writing, Clr, Hdr, Bod, Crc, Com
<1>. QED  BY <1>2, <1>3

\* Every HAL write of nvlog_append, in its order.
LEMMA WriteCellsInv ==
  ASSUME TornWrites => HdrCells = 1, IInv, WriteCells
  PROVE  IInv'
<1> DEFINE k == Len(Head(todo).cells)
<1>1. Types /\ Running /\ NothingWritten
  BY DEF IInv
<1>2. PICK pos \in [1 .. acked + 1 -> 0 .. Cap], v \in [1 .. acked -> Payloads] : Stored(pos, v)
  BY DEF IInv
<1> DEFINE b == pos[acked + 1]
           gen == Current.gen
<1>3. /\ todo # <<>> /\ media' = Put(media, Head(todo), k) /\ todo' = Tail(todo)
      /\ sbA' = sbA /\ sbB' = sbB /\ ctx' = ctx /\ pc' = pc /\ req' = req /\ status' = status
      /\ acked' = acked /\ calls' = calls /\ Current' = Current
  BY DEF WriteCells, Current
<1>4. pc = "data" /\ ctx.mounted /\ Current.ok /\ req.v \in Payloads
  BY <1>1, <1>3 DEF Types, Running
<1>5. k \in Nat
  BY <1>2, <1>3, <1>4, WritesAreWrites DEF Stored
<1>6. k \in 0 .. Len(Head(todo).cells) /\ ~(k \in 1 .. Len(Head(todo).cells) - 1)
  BY <1>5
<1>7. /\ media' \in Media /\ Chain(media', gen, acked, pos, v)
      /\ Writing(media', gen, b, acked, req.len, req.v, Tail(todo))
  BY <1>2, <1>3, <1>6, CellsArrive
<1> HIDE DEF b, gen, k
<1>8. Types'
  BY <1>1, <1>3, <1>4, <1>7 DEF Types
<1>9. Running'
  BY <1>1, <1>3 DEF Running
<1>10. NothingWritten'
  BY <1>3, <1>4 DEF NothingWritten
<1>11. Stored(pos, v)'
  BY <1>2, <1>3, <1>4, <1>7 DEF Stored, b, gen
<1>. QED  BY <1>2, <1>3, <1>8, <1>9, <1>10, <1>11 DEF IInv

\* With the last write done the record belongs to the chain, and the context to it.
LEMMA DataWrittenInv ==
  ASSUME IInv, DataWritten
  PROVE  IInv'
<1>1. Types /\ Running /\ NothingWritten
  BY DEF IInv
<1>2. PICK pos \in [1 .. acked + 1 -> 0 .. Cap], v \in [1 .. acked -> Payloads] : Stored(pos, v)
  BY DEF IInv
<1> DEFINE b == pos[acked + 1]
           gen == Current.gen
<1>3. /\ pc = "data" /\ todo = <<>> /\ media' = media /\ sbA' = sbA /\ sbB' = sbB
      /\ req' = req /\ calls' = calls /\ pc' = "idle" /\ todo' = <<>> /\ status' = "OK"
      /\ acked' = acked + 1 /\ Current' = Current
      /\ ctx' = [ctx EXCEPT !.wp = @ + rec_alloc_bytes(req.len), !.next = @ + 1, !.count = @ + 1]
  BY DEF DataWritten, Return, region, Current
<1>4. /\ ctx.mounted /\ Current.ok /\ req.v \in Payloads /\ ctx.wp = b /\ ctx.gen = gen
      /\ ctx.next = acked /\ ctx.count = acked
  BY <1>1, <1>2, <1>3 DEF Running, Stored
<1>5. InDoubt(media, gen, b, acked, req.len, req.v)
  BY <1>2, <1>3, <1>4, WritingBehind DEF Stored
<1>6. /\ Chain(media, gen, acked, pos, v) /\ acked \in Nat /\ req.len \in Nat /\ ctx \in Context
  BY <1>1, <1>2, StoredFacts DEF Types
<1>7. b = pos[acked + 1]
  OBVIOUS
<1> HIDE DEF b, gen
<1>8. PICK pos2 : /\ Chain(media, gen, acked + 1, pos2, Append(v, req.v))
                  /\ pos2[acked + 2] = b + rec_alloc_bytes(req.len)
                  /\ ErasedFrom(media, Cap, pos2[acked + 2])
  <2>1. /\ acked \in Nat /\ req.len \in Nat /\ req.v \in Payloads
        /\ Chain(media, gen, acked, pos, v)
    BY <1>4, <1>6
  <2>. QED  BY <1>5, <1>7, <2>1, ChainGrows DEF Longer
<1>9. (acked + 1) + 1 = acked + 2 /\ acked + 1 \in Nat
  BY <1>6
<1>10. /\ ctx'.mounted /\ ctx'.gen = gen /\ ctx'.next = acked + 1 /\ ctx'.count = acked + 1
       /\ ctx'.wp = pos2[acked + 2]
  BY <1>3, <1>4, <1>6, <1>7, <1>8 DEF Context
<1>11. pos2[acked + 2] \in Nat
  BY <1>8, <1>9, CapNat DEF Chain
<1>12. Types'
  <2>1. ctx' \in Context
    <3>1. ctx.wp + rec_alloc_bytes(req.len) \in Nat /\ ctx.next + 1 \in Nat /\ ctx.count + 1 \in Nat
      BY <1>4, <1>6, <1>7, <1>8, <1>9, <1>11
    <3>. QED  BY <1>3, <1>6, <3>1 DEF Context
  <2>. QED  BY <1>1, <1>3, <1>9, <2>1 DEF Types
<1>13. Running'
  BY <1>1, <1>3, <1>4, <1>10 DEF Running, gen
<1>14. NothingWritten'
  BY <1>3, <1>4 DEF NothingWritten
<1>15. Stored(pos2, Append(v, req.v))'
  BY <1>3, <1>8, <1>9, <1>10 DEF Stored, gen, Uncommitted
<1>16. /\ pos2 \in [1 .. (acked + 1) + 1 -> 0 .. Cap]
       /\ Append(v, req.v) \in [1 .. acked + 1 -> Payloads]
  BY <1>8 DEF Chain
<1>. QED  BY <1>3, <1>12, <1>13, <1>14, <1>15, <1>16 DEF IInv

\* nvlog_mount finds the chain, and a record in doubt as its last one.
LEMMA MountInv ==
  ASSUME IInv, Mount
  PROVE  IInv'
<1>1. Types /\ Running /\ NothingWritten
  BY DEF IInv
<1>2. PICK pos \in [1 .. acked + 1 -> 0 .. Cap], v \in [1 .. acked -> Payloads] : Stored(pos, v)
  BY DEF IInv
<1> DEFINE b == pos[acked + 1]
           gen == Current.gen
<1>3. /\ pc = "idle" /\ media' = media /\ sbA' = sbA /\ sbB' = sbB
      /\ req' = req /\ calls' = calls /\ pc' = "idle" /\ todo' = <<>> /\ Current' = Current
      /\ status' \in {"OK", "CORRUPT"}
  BY DEF Mount, Return, region, Current
<1>4. /\ Chain(media, gen, acked, pos, v) /\ acked \in Nat /\ req.len \in Nat
      /\ Behind(media, gen, b, acked, req.len) /\ b \in Nat
      /\ Current \in [ok : BOOLEAN, gen : Nat, mseq : Nat]
      /\ v \in Seq(Payloads) /\ Len(v) = acked
  BY <1>1, <1>2, StoredFacts
<1>5. /\ Uncommitted(media, gen, b, acked, req.len) => Durable = ScanResult(b, acked, v)
      /\ \A p \in Payloads : InDoubt(media, gen, b, acked, req.len, p) =>
           Durable = ScanResult(b + rec_alloc_bytes(req.len), acked + 1, Append(v, p))
      /\ Durable.ok
  BY <1>1, <1>2, DurableFound
<1> HIDE DEF b, gen
<1>6. CASE ~Current.ok /\ UNCHANGED <<ctx, acked>>
  <2>1. ~ctx.mounted
    BY <1>1, <1>6 DEF Running
  <2>2. Types' /\ Running' /\ NothingWritten'
    BY <1>1, <1>3, <1>6, <2>1 DEF Types, Running, NothingWritten
  <2>3. Stored(pos, v)'
    BY <1>3, <1>4, <1>6, <2>1 DEF Stored, Behind, b, gen
  <2>. QED  BY <1>2, <1>6, <2>2, <2>3 DEF IInv
<1>7. CASE /\ Current.ok
           /\ ctx' = [mounted |-> TRUE, gen |-> Current.gen,
                      mseq |-> next_session_value(Current.mseq),
                      wp |-> Durable.wp, next |-> Durable.next, count |-> Len(Durable.recs)]
           /\ acked' = Len(Durable.recs)
  <2>1. next_session_value(Current.mseq) \in Nat /\ gen \in Nat
    BY <1>4 DEF next_session_value, gen
  <2>2. ASSUME NEW n \in Nat, NEW w \in Nat, NEW r, Durable = ScanResult(w, n, r), Len(r) = n
        PROVE  Types' /\ Running' /\ NothingWritten' /\ acked' = n /\ ctx'.mounted /\ ctx'.wp = w
    <3>1. Durable.wp = w /\ Durable.next = n /\ Durable.recs = r
      BY <2>2 DEF ScanResult
    <3>2. /\ acked' = n /\ ctx'.mounted /\ ctx'.wp = w /\ ctx'.gen = gen /\ ctx'.next = n
          /\ ctx'.count = n /\ ctx' \in Context
      BY <1>7, <2>1, <2>2, <3>1 DEF Context, gen
    <3>3. Types'
      BY <1>1, <1>3, <3>2 DEF Types
    <3>4. Running'
      BY <1>3, <1>7, <3>2 DEF Running, gen
    <3>5. NothingWritten'
      BY <1>3, <1>7 DEF NothingWritten
    <3>. QED  BY <3>2, <3>3, <3>4, <3>5
  <2>3. CASE Uncommitted(media, gen, b, acked, req.len)
    <3>1. /\ Types' /\ Running' /\ NothingWritten'
          /\ acked' = acked /\ ctx'.mounted /\ ctx'.wp = b
      BY <1>4, <1>5, <2>2, <2>3
    <3>2. Stored(pos, v)'
      BY <1>3, <1>4, <2>3, <3>1 DEF Stored, b, gen
    <3>. QED  BY <1>2, <3>1, <3>2 DEF IInv
  <2>4. CASE ~Uncommitted(media, gen, b, acked, req.len)
    <3>1. PICK p \in Payloads : InDoubt(media, gen, b, acked, req.len, p)
      BY <1>4, <2>4 DEF Behind, Doubtful
    <3>2. b = pos[acked + 1]
      BY DEF b
    <3>3. PICK pos2 : /\ Chain(media, gen, acked + 1, pos2, Append(v, p))
                      /\ pos2[acked + 2] = b + rec_alloc_bytes(req.len)
                      /\ ErasedFrom(media, Cap, pos2[acked + 2])
      <4>1. acked \in Nat /\ req.len \in Nat /\ Chain(media, gen, acked, pos, v)
        BY <1>4
      <4>. QED  BY <3>1, <3>2, <4>1, ChainGrows DEF Longer
    <3>4. (acked + 1) + 1 = acked + 2 /\ acked + 1 \in Nat /\ pos2[acked + 2] \in Nat
      BY <1>4, <3>2, <3>3, CapNat DEF rec_alloc_bytes
    <3>5. Len(Append(v, p)) = acked + 1
      BY <1>4
    <3>6. /\ Types' /\ Running' /\ NothingWritten'
          /\ acked' = acked + 1 /\ ctx'.mounted /\ ctx'.wp = pos2[acked + 2]
      BY <1>5, <2>2, <3>1, <3>2, <3>3, <3>4, <3>5
    <3>7. Stored(pos2, Append(v, p))'
      BY <1>3, <3>3, <3>4, <3>6 DEF Stored, gen, Uncommitted
    <3>8. /\ pos2 \in [1 .. (acked + 1) + 1 -> 0 .. Cap]
          /\ Append(v, p) \in [1 .. acked + 1 -> Payloads]
      BY <3>3 DEF Chain
    <3>. QED  BY <3>6, <3>7, <3>8 DEF IInv
  <2>. QED  BY <2>3, <2>4
<1>. QED  BY <1>5, <1>6, <1>7 DEF Mount

\* What a fault leaves on the media, whatever then becomes of the context.
AfterFault(pos, v) ==
  /\ media' \in Media /\ acked \in Nat
  /\ sbA' \in [ok : BOOLEAN, gen : Nat, mseq : Nat]
  /\ sbB' \in [ok : BOOLEAN, gen : Nat, mseq : Nat]
  /\ calls' \in [appends : 0 .. MaxAppends, formats : Nat, faults : Nat]
  /\ pos \in [1 .. acked + 1 -> 0 .. Cap] /\ v \in [1 .. acked -> Payloads]
  /\ Chain(media', Current'.gen, acked, pos, v)
  /\ Behind(media', Current'.gen, pos[acked + 1], acked, req.len)
  /\ ctx.mounted => ctx.wp = pos[acked + 1] /\ Current' = Current
  /\ ~Current'.ok => ErasedFrom(media', Cap, 0) /\ acked = 0

\* A HAL write that fails or is cut, wherever it tears, leaves the chain complete.
LEMMA FaultLeaves ==
  ASSUME TornWrites => HdrCells = 1, IInv, Fault
  PROVE  \E pos, v : AfterFault(pos, v)
<1>1. Types /\ Running /\ NothingWritten
  BY DEF IInv
<1>2. PICK pos \in [1 .. acked + 1 -> 0 .. Cap], v \in [1 .. acked -> Payloads] : Stored(pos, v)
  BY DEF IInv
<1>3. calls' \in [appends : 0 .. MaxAppends, formats : Nat, faults : Nat] /\ acked \in Nat
  <2>1. calls' = [calls EXCEPT !.faults = @ + 1]
    BY DEF Fault
  <2>. QED  BY <1>1, <2>1 DEF Types
<1>4. CASE todo # <<>>
  <2>1. PICK k \in 0 .. Len(Head(todo).cells) :
          /\ k \in 1 .. Len(Head(todo).cells) - 1 => TornWrites
          /\ media' = Put(media, Head(todo), k)
    BY <1>1, <1>4 DEF Fault, Interrupted, Types
  <2>2. pc = "data" /\ ctx.mounted /\ Current.ok
    BY <1>1, <1>4 DEF Types, Running
  <2>3. sbA' = sbA /\ sbB' = sbB /\ Current' = Current
    BY <2>2 DEF Fault, Interrupted, Current
  <2>4. /\ media' \in Media /\ Chain(media', Current.gen, acked, pos, v)
        /\ Behind(media', Current.gen, pos[acked + 1], acked, req.len)
    BY <1>2, <1>4, <2>1, CellsArrive
  <2>5. ctx.wp = pos[acked + 1]
    BY <1>2, <2>2 DEF Stored
  <2>6. sbA' \in [ok : BOOLEAN, gen : Nat, mseq : Nat] /\ sbB' \in [ok : BOOLEAN, gen : Nat, mseq : Nat]
    BY <1>1, <2>3 DEF Types
  <2>. QED  BY <1>2, <1>3, <2>2, <2>3, <2>4, <2>5, <2>6 DEF AfterFault
<1>5. CASE todo = <<>>
  <2>1. pc \in {"sbA", "sbB"} /\ media' = media
    BY <1>5 DEF Fault, Interrupted
  <2>2. ~ctx.mounted /\ ErasedFrom(media, Cap, 0) /\ acked = 0 /\ media \in Media
    BY <1>1, <2>1 DEF Running, NothingWritten, Types
  <2>3. sbA' \in [ok : BOOLEAN, gen : Nat, mseq : Nat] /\ sbB' \in [ok : BOOLEAN, gen : Nat, mseq : Nat]
    <3>1. BadSb \in [ok : BOOLEAN, gen : Nat, mseq : Nat]
      BY DEF BadSb
    <3>2. sbA' \in {sbA, BadSb} /\ sbB' \in {sbB, BadSb}
      BY <1>5 DEF Fault, Interrupted
    <3>. QED  BY <1>1, <3>1, <3>2 DEF Types
  <2>4. PICK pos2 \in [1 .. 0 + 1 -> 0 .. Cap], v2 \in [1 .. 0 -> Payloads] :
          /\ Chain(media, Current'.gen, 0, pos2, v2) /\ pos2[0 + 1] = 0
          /\ Uncommitted(media, Current'.gen, pos2[0 + 1], 0, req.len)
    BY <2>2, ErasedStored
  <2>5. AfterFault(pos2, v2)
    BY <1>3, <2>1, <2>2, <2>3, <2>4 DEF AfterFault, Behind
  <2>. QED  BY <2>5
<1>. QED  BY <1>4, <1>5

\* A call that returns NVLOG_ERR_IO leaves its context behind the same chain.
LEMMA IoErrorInv ==
  ASSUME TornWrites => HdrCells = 1, IInv, IoError
  PROVE  IInv'
<1>1. Types /\ Running
  BY DEF IInv
<1>2. Fault /\ pc' = "idle" /\ todo' = <<>> /\ status' = "IO" /\ ctx' = ctx /\ req' = req
      /\ acked' = acked
  BY DEF IoError, Return
<1>3. PICK pos, v : AfterFault(pos, v)
  BY <1>2, FaultLeaves
<1>4. Types'
  BY <1>1, <1>2, <1>3 DEF Types, AfterFault
<1>5. Running'
  BY <1>1, <1>2, <1>3 DEF Running, AfterFault
<1>6. NothingWritten'
  BY <1>2, <1>3 DEF NothingWritten, AfterFault
<1>7. Stored(pos, v)'
  BY <1>2, <1>3 DEF Stored, AfterFault, Behind
<1>. QED  BY <1>2, <1>3, <1>4, <1>5, <1>6, <1>7 DEF IInv, AfterFault

\* A power loss leaves the same media, and no context.
LEMMA PowerLossInv ==
  ASSUME TornWrites => HdrCells = 1, IInv, PowerLoss
  PROVE  IInv'
<1>1. Types /\ Running /\ NothingWritten
  BY DEF IInv
<1>2. /\ pc' = "idle" /\ todo' = <<>> /\ status' = "NONE" /\ ctx' = Blank /\ req' = req
      /\ acked' = acked
  BY DEF PowerLoss, Return
<1>3. PICK pos, v : AfterFault(pos, v)
  <2>1. CASE Fault
    BY <2>1, FaultLeaves
  <2>2. CASE pc = "idle" /\ ctx.mounted /\ UNCHANGED <<region, calls>>
    <3>1. PICK pos \in [1 .. acked + 1 -> 0 .. Cap], v \in [1 .. acked -> Payloads] : Stored(pos, v)
      BY DEF IInv
    <3>2. /\ Chain(media, Current.gen, acked, pos, v) /\ acked \in Nat
          /\ Behind(media, Current.gen, pos[acked + 1], acked, req.len)
      BY <1>1, <3>1, StoredFacts
    <3>3. ctx.mounted => ctx.wp = pos[acked + 1]
      BY <3>1 DEF Stored
    <3>4. /\ media' = media /\ sbA' = sbA /\ sbB' = sbB /\ calls' = calls /\ Current' = Current
          /\ Current.ok
      BY <1>1, <2>2 DEF region, Current, Running
    <3>5. AfterFault(pos, v)
      BY <1>1, <3>1, <3>2, <3>3, <3>4 DEF AfterFault, Types
    <3>. QED  BY <3>5
  <2>. QED  BY <2>1, <2>2 DEF PowerLoss
<1>4. Types'
  <2>1. Blank \in Context
    BY DEF Blank, Context
  <2>. QED  BY <1>1, <1>2, <1>3, <2>1 DEF Types, AfterFault
<1>5. Running'
  BY <1>2 DEF Running, Blank
<1>6. NothingWritten'
  BY <1>2, <1>3 DEF NothingWritten, AfterFault
<1>7. Stored(pos, v)'
  BY <1>2, <1>3 DEF Stored, AfterFault, Behind, Blank
<1>. QED  BY <1>2, <1>3, <1>4, <1>5, <1>6, <1>7 DEF IInv, AfterFault

-----------------------------------------------------------------------------
\* The application formats a region once, repeats an interrupted append as it was, and
\* no HAL write tears inside a header.
Regime == ~ReformatUsed /\ ~RetryOther /\ (TornWrites => HdrCells = 1)

\* Every step keeps the invariant.
LEMMA NextInv ==
  ASSUME Regime, IInv, [Next]_vars
  PROVE  IInv'
<1> USE DEF Regime
<1>1. CASE Format
  BY <1>1, FormatInv
<1>2. CASE WriteA
  BY <1>2, WriteAInv
<1>3. CASE WriteB
  BY <1>3, WriteBInv
<1>4. ASSUME NEW len \in Lens, AppendRecord(len) PROVE IInv'
  BY <1>4, AppendRecordInv
<1>5. CASE WriteCells
  BY <1>5, WriteCellsInv
<1>6. CASE DataWritten
  BY <1>6, DataWrittenInv
<1>7. CASE Mount
  BY <1>7, MountInv
<1>8. CASE IoError
  BY <1>8, IoErrorInv
<1>9. CASE PowerLoss
  BY <1>9, PowerLossInv
<1>10. CASE UNCHANGED vars
  <2>1. /\ media' = media /\ sbA' = sbA /\ sbB' = sbB /\ ctx' = ctx /\ pc' = pc /\ todo' = todo
        /\ req' = req /\ status' = status /\ acked' = acked /\ calls' = calls
        /\ Current' = Current
    BY <1>10 DEF vars, Current
  <2>2. Types' /\ Running' /\ NothingWritten'
    BY <2>1 DEF IInv, Types, Running, NothingWritten
  <2>3. \A pos, v : Stored(pos, v) => Stored(pos, v)'
    BY <2>1 DEF Stored
  <2>. QED  BY <2>1, <2>2, <2>3 DEF IInv
<1>. QED  BY <1>1, <1>2, <1>3, <1>4, <1>5, <1>6, <1>7, <1>8, <1>9, <1>10 DEF Next

\* The invariant: the media hold the acknowledged records as a chain from the start of
\* the area, each complete, with consecutive sequence numbers, and behind it nothing but
\* the tail of one append.
THEOREM Inductive ==
  ASSUME Regime
  PROVE  Spec => []IInv
<1>1. Init => IInv
  BY InitInv
<1>2. IInv /\ [Next]_vars => IInv'
  BY NextInv
<1>. QED  BY <1>1, <1>2, PTL DEF Spec

\* Types, and a write pointer inside the record area.
THEOREM TypeCorrect ==
  ASSUME Regime
  PROVE  Spec => []TypeOK
<1>1. IInv => TypeOK
  BY InvMeans
<1>. QED  BY <1>1, Inductive, PTL

\* AlwaysMounts: from the first complete superblock on, nvlog_mount never gives up on
\* the region, wherever an append was interrupted.
THEOREM FormattedMounts ==
  ASSUME Regime
  PROVE  Spec => []AlwaysMounts
<1>1. IInv => AlwaysMounts
  BY InvMeans
<1>. QED  BY <1>1, Inductive, PTL

\* ContextAgrees: between two calls the context of a mounted log is the one nvlog_mount
\* would build from the media, unless the last append failed with its outcome open.
THEOREM ContextIsOfMedia ==
  ASSUME Regime
  PROVE  Spec => []ContextAgrees
<1>1. IInv => ContextAgrees
  BY InvMeans
<1>. QED  BY <1>1, Inductive, PTL

\* IterationIsExact: nvlog_iter_next, which walks on where nvlog_mount stops, delivers
\* the records nvlog_mount counts, and ends without an error.
THEOREM IterationDeliversMount ==
  ASSUME Regime
  PROVE  Spec => []IterationIsExact
<1>1. IInv => IterationIsExact
  BY InvMeans
<1>. QED  BY <1>1, Inductive, PTL

-----------------------------------------------------------------------------
\* The log of the abstract specification, and its steps.
DurableLog == IF Current.ok THEN Durable.recs ELSE <<>>
AbstractStep == [AppendLog!Next]_<<DurableLog, acked>>

\* Erased media hold no record, of any generation.
LEMMA ErasedLog ==
  ASSUME NEW m \in Media, ErasedFrom(m, Cap, 0), NEW gen
  PROVE  scan(m, gen).recs = <<>>
<1>1. PICK pos \in [1 .. 0 + 1 -> 0 .. Cap], v \in [1 .. 0 -> Payloads] :
        Chain(m, gen, 0, pos, v) /\ Uncommitted(m, gen, pos[0 + 1], 0, 0)
  BY ErasedStored
<1>2. scan(m, gen) = ScanResult(pos[0 + 1], 0, v)
  BY <1>1, MountFindsChain
<1>3. v = <<>>
  <2>1. v \in Seq(Payloads) /\ Len(v) = 0
    BY SubSeqCons
  <2>. QED  BY <2>1
<1>. QED  BY <1>2, <1>3 DEF ScanResult

\* While nothing is written, a step that leaves the record area alone is a stutter.
LEMMA ErasedStutters ==
  ASSUME media \in Media, ErasedFrom(media, Cap, 0), media' = media, acked = 0, acked' = 0
  PROVE  AbstractStep
<1>1. Durable.recs = <<>> /\ Durable'.recs = <<>>
  BY ErasedLog DEF Durable
<1>. QED  BY <1>1 DEF AbstractStep, DurableLog

\* A step that keeps the region and the ghost is a stutter.
LEMMA UnchangedStutters ==
  ASSUME UNCHANGED <<media, sbA, sbB, acked>>
  PROVE  AbstractStep
BY DEF AbstractStep, DurableLog, Durable, Current

\* The sequence before an element was appended to it.
LEMMA AppendAndForget ==
  ASSUME NEW n \in Nat, NEW v \in Seq(Payloads), Len(v) = n, NEW p \in Payloads
  PROVE  Len(Append(v, p)) = n + 1 /\ SubSeq(Append(v, p), 1, n) = v
<1>1. Append(v, p) \in Seq(Payloads) /\ Len(Append(v, p)) = n + 1
  OBVIOUS
<1> DEFINE w == SubSeq(Append(v, p), 1, n)
<1>2. w \in Seq(Payloads) /\ Len(w) = n /\ \A i \in 1 .. n : w[i] = v[i]
  BY <1>1
<1> HIDE DEF w
<1>3. w = v
  BY <1>2
<1>. QED  BY <1>1, <1>3 DEF w

\* HAL writes of a record: it takes effect at once, or what was in doubt is gone.
LEMMA CellsStep ==
  ASSUME TornWrites => HdrCells = 1, IInv, todo # <<>>,
         NEW k \in 0 .. Len(Head(todo).cells),
         k \in 1 .. Len(Head(todo).cells) - 1 => TornWrites,
         media' = Put(media, Head(todo), k), UNCHANGED <<sbA, sbB, acked>>
  PROVE  AbstractStep
<1>1. Types /\ Running
  BY DEF IInv
<1>2. PICK pos, v : Stored(pos, v)
  BY DEF IInv
<1> DEFINE b == pos[acked + 1]
           e == b + rec_alloc_bytes(req.len)
           gen == Current.gen
<1>3. /\ media' \in Media /\ Chain(media', gen, acked, pos, v)
      /\ Behind(media', gen, b, acked, req.len)
      /\ media' = media \/ Uncommitted(media, gen, b, acked, req.len)
                        \/ Uncommitted(media', gen, b, acked, req.len)
  BY <1>2, CellsArrive
<1>4. /\ Chain(media, gen, acked, pos, v) /\ media \in Media /\ acked \in Nat /\ req.len \in Nat
      /\ Behind(media, gen, b, acked, req.len) /\ v \in Seq(Payloads) /\ Len(v) = acked
  BY <1>1, <1>2, StoredFacts
<1>5. Current.ok /\ Current' = Current
  BY <1>1 DEF Types, Running, Current
<1>6. DurableLog = scan(media, gen).recs /\ DurableLog' = scan(media', gen).recs
  BY <1>5 DEF DurableLog, Durable
<1>7. b = pos[acked + 1]
  OBVIOUS
<1> HIDE DEF b, e, gen
<1>8. ASSUME NEW m \in Media, Chain(m, gen, acked, pos, v)
      PROVE  /\ Uncommitted(m, gen, b, acked, req.len) => scan(m, gen).recs = v
             /\ \A p \in Payloads : InDoubt(m, gen, b, acked, req.len, p)
                                      => scan(m, gen).recs = Append(v, p)
  <2>1. ASSUME Uncommitted(m, gen, b, acked, req.len) PROVE scan(m, gen).recs = v
    <3>1. scan(m, gen) = ScanResult(b, acked, v)
      BY <1>4, <1>7, <1>8, <2>1, MountFindsChain
    <3>. QED  BY <3>1 DEF ScanResult
  <2>2. ASSUME NEW p \in Payloads, InDoubt(m, gen, b, acked, req.len, p)
        PROVE  scan(m, gen).recs = Append(v, p)
    <3>1. scan(m, gen) = ScanResult(b + rec_alloc_bytes(req.len), acked + 1, Append(v, p))
      BY <1>4, <1>7, <1>8, <2>2, MountFindsDoubtful
    <3>. QED  BY <3>1 DEF ScanResult
  <2>. QED  BY <2>1, <2>2
<1>9. CASE media' = media
  BY <1>9, UnchangedStutters
<1>10. CASE /\ Uncommitted(media, gen, b, acked, req.len)
            /\ Uncommitted(media', gen, b, acked, req.len)
  <2>1. DurableLog' = DurableLog
    BY <1>3, <1>4, <1>6, <1>8, <1>10
  <2>. QED  BY <2>1 DEF AbstractStep
<1>11. ASSUME Uncommitted(media, gen, b, acked, req.len),
              NEW p \in Payloads, InDoubt(media', gen, b, acked, req.len, p)
       PROVE  AbstractStep
  <2>1. DurableLog = v /\ DurableLog' = Append(v, p)
    BY <1>3, <1>4, <1>6, <1>8, <1>11
  <2>2. AppendLog!TakeEffect(p)
    <3>1. ~(Len(DurableLog) > acked) /\ DurableLog' = Append(DurableLog, p)
      BY <1>4, <2>1
    <3>. QED  BY <3>1, Zenon DEF AppendLog!TakeEffect, AppendLog!InDoubt, DurableLog
  <2>. QED  BY <2>2 DEF AbstractStep, AppendLog!Next, Payloads
<1>12. ASSUME Uncommitted(media', gen, b, acked, req.len),
              NEW p \in Payloads, InDoubt(media, gen, b, acked, req.len, p)
       PROVE  AbstractStep
  <2>1. DurableLog = Append(v, p) /\ DurableLog' = v
    BY <1>3, <1>4, <1>6, <1>8, <1>12
  <2>2. Len(Append(v, p)) = acked + 1 /\ SubSeq(Append(v, p), 1, acked) = v
    BY <1>4, AppendAndForget
  <2>3. AppendLog!Forget
    BY <1>4, <2>1, <2>2 DEF AppendLog!Forget, AppendLog!InDoubt, DurableLog
  <2>. QED  BY <2>3 DEF AbstractStep, AppendLog!Next
<1>. QED  BY <1>3, <1>4, <1>9, <1>10, <1>11, <1>12 DEF Behind, Doubtful

\* A fault changes the abstract log at most by the record in doubt.
LEMMA FaultStep ==
  ASSUME TornWrites => HdrCells = 1, IInv, Fault, UNCHANGED acked
  PROVE  AbstractStep
<1>1. Types /\ Running /\ NothingWritten
  BY DEF IInv
<1>2. CASE todo # <<>>
  <2>1. PICK k \in 0 .. Len(Head(todo).cells) :
          /\ k \in 1 .. Len(Head(todo).cells) - 1 => TornWrites
          /\ media' = Put(media, Head(todo), k)
    BY <1>1, <1>2 DEF Fault, Interrupted, Types
  <2>2. sbA' = sbA /\ sbB' = sbB
    BY <1>1, <1>2 DEF Fault, Interrupted, Types
  <2>. QED  BY <1>2, <2>1, <2>2, CellsStep
<1>3. CASE todo = <<>>
  <2>1. pc \in {"sbA", "sbB"} /\ media' = media
    BY <1>3 DEF Fault, Interrupted
  <2>2. ErasedFrom(media, Cap, 0) /\ acked = 0 /\ media \in Media
    BY <1>1, <2>1 DEF NothingWritten, Types
  <2>. QED  BY <2>1, <2>2, ErasedStutters
<1>. QED  BY <1>2, <1>3

\* A completed append, and a mount, acknowledge what the log holds.
LEMMA AcknowledgeStep ==
  ASSUME IInv, UNCHANGED region, Current.ok, acked' = Len(Durable.recs)
  PROVE  AbstractStep
<1>1. Types /\ Running
  BY DEF IInv
<1>2. PICK pos, v : Stored(pos, v)
  BY DEF IInv
<1> DEFINE b == pos[acked + 1]
           gen == Current.gen
<1>3. DurableLog = Durable.recs /\ DurableLog' = DurableLog
  BY DEF DurableLog, Durable, Current, region
<1>4. acked \in Nat /\ v \in Seq(Payloads) /\ Len(v) = acked
      /\ Behind(media, gen, b, acked, req.len)
  BY <1>1, <1>2, StoredFacts
<1>5. /\ Uncommitted(media, gen, b, acked, req.len) => Durable = ScanResult(b, acked, v)
      /\ \A p \in Payloads : InDoubt(media, gen, b, acked, req.len, p) =>
           Durable = ScanResult(b + rec_alloc_bytes(req.len), acked + 1, Append(v, p))
  BY <1>1, <1>2, DurableFound
<1> HIDE DEF b, gen
<1>6. Len(Durable.recs) \in {acked, acked + 1}
  BY <1>4, <1>5 DEF Behind, Doubtful, ScanResult
<1>7. CASE acked' = acked
  BY <1>3, <1>7 DEF AbstractStep
<1>8. CASE acked' # acked
  <2>1. AppendLog!Acknowledge
    BY <1>3, <1>4, <1>6, <1>8 DEF AppendLog!Acknowledge, AppendLog!InDoubt, DurableLog
  <2>. QED  BY <2>1 DEF AbstractStep, AppendLog!Next
<1>. QED  BY <1>7, <1>8

\* Every step is one of the abstract log or leaves it alone.
LEMMA StepRefines ==
  ASSUME Regime, IInv, [Next]_vars
  PROVE  AbstractStep
<1> USE DEF Regime
<1>1. Types /\ Running /\ NothingWritten
  BY DEF IInv
<1>2. CASE Format
  <2>1. ErasedFrom(media, Cap, 0) /\ media' = media /\ sbA' = sbA /\ sbB' = sbB /\ acked' = acked
    BY <1>1, <1>2 DEF Format, region, Types, Media, ErasedFrom
  <2>. QED  BY <2>1, UnchangedStutters
<1>3. CASE WriteA
  BY <1>1, <1>3, ErasedStutters DEF WriteA, NothingWritten, Types
<1>4. CASE WriteB
  BY <1>1, <1>4, ErasedStutters DEF WriteB, NothingWritten, Types
<1>5. ASSUME NEW len \in Lens, AppendRecord(len) PROVE AbstractStep
  BY <1>5, UnchangedStutters DEF AppendRecord, region
<1>6. CASE WriteCells
  <2> DEFINE k == Len(Head(todo).cells)
  <2>1. PICK pos, v : Stored(pos, v)
    BY DEF IInv
  <2>2. pc = "data"
    BY <1>1, <1>6 DEF WriteCells, Types
  <2>3. k \in Nat
    BY <1>1, <1>6, <2>1, <2>2, WritesAreWrites DEF Stored, WriteCells, Types
  <2>4. k \in 0 .. Len(Head(todo).cells) /\ ~(k \in 1 .. Len(Head(todo).cells) - 1)
    BY <2>3
  <2>5. /\ todo # <<>> /\ media' = Put(media, Head(todo), k)
        /\ UNCHANGED <<sbA, sbB, acked>>
    BY <1>6 DEF WriteCells
  <2> HIDE DEF k
  <2>. QED  BY <2>4, <2>5, CellsStep
<1>7. CASE DataWritten
  <2>1. PICK pos, v : Stored(pos, v)
    BY DEF IInv
  <2>2. pc = "data" /\ todo = <<>> /\ acked' = acked + 1 /\ UNCHANGED region
    BY <1>7 DEF DataWritten
  <2>3. Current.ok /\ req.v \in Payloads
    BY <1>1, <2>2 DEF Running
  <2>4. InDoubt(media, Current.gen, pos[acked + 1], acked, req.len, req.v)
    BY <2>1, <2>2, <2>3, WritingBehind DEF Stored
  <2>5. Durable.recs = Append(v, req.v)
    BY <1>1, <2>1, <2>3, <2>4, DurableFound DEF ScanResult
  <2>6. Len(Append(v, req.v)) = acked + 1
    BY <1>1, <2>1, <2>3, StoredFacts, AppendAndForget
  <2>. QED  BY <2>2, <2>3, <2>5, <2>6, AcknowledgeStep
<1>8. CASE Mount
  BY <1>8, AcknowledgeStep, UnchangedStutters DEF Mount, region
<1>9. CASE IoError
  BY <1>9, FaultStep DEF IoError
<1>10. CASE PowerLoss
  BY <1>10, FaultStep, UnchangedStutters DEF PowerLoss, region
<1>11. CASE UNCHANGED vars
  BY <1>11, UnchangedStutters DEF vars
<1>. QED  BY <1>2, <1>3, <1>4, <1>5, <1>6, <1>7, <1>8, <1>9, <1>10, <1>11 DEF Next

\* The linear log implements NvlogAppendLog: records become durable one at a time and
\* in order, an acknowledged one is never lost, and nothing that was not appended shows
\* up, across HAL errors and power losses.
THEOREM LinearIsAppendLog ==
  ASSUME Regime
  PROVE  Spec => ImplementsAppendLog
<1>1. Init => AppendLog!Init
  BY DEF Init, AppendLog!Init, Current, load_current_superblock, BadSb
<1>2. IInv /\ [Next]_vars => [AppendLog!Next]_<<DurableLog, acked>>
  BY StepRefines DEF AbstractStep
<1>. QED  BY <1>1, <1>2, Inductive, PTL DEF Spec, ImplementsAppendLog, AppendLog!Spec, DurableLog
=============================================================================
