------------------------ MODULE BenchFirmware_proofs ------------------------
(***************************************************************************)
(* Proofs about the firmware of the hardware test bench.                   *)
(*                                                                         *)
(* A scenario is a script of operations.  What the scripts have in common  *)
(* is proved of them first: each ends in its only return, and each can be  *)
(* followed from a board that is where the scenario expects it.  The rest  *)
(* is one inductive invariant over the saved and the live state.           *)
(***************************************************************************)
EXTENDS BenchFirmware, SequenceTheorems, FiniteSetTheorems, TLAPS

-----------------------------------------------------------------------------
(* Scripts *)

Subjects == Scenarios \cup {"PASS", "SKIP", "NONE"}
Names == {"reset", "append", "fill", "verify", "restart", "return",
          "scratch_alloc", "scratch_format", "scratch_append", "failpoint", "wrap_verify",
          "scratch_verify", "sd_test", "sd_append", "sd_read"}
Operations == [do : Names, s : Subjects, n : Nat]

\* An operation that neither ends the scenario nor restarts the board.
Work == {op \in Operations : op.do \notin {"return", "restart"}}

\* What a scenario may return with: only one with several phases returns
\* without an outcome, and only behind the last scenario is there nothing else.
Results(scn) ==
  IF scn = kScenarioCount THEN {"NONE"}
  ELSE IF scn \in MultiPhase THEN {"PASS", "SKIP", "NONE"} ELSE {"PASS", "SKIP"}

\* What is left of the script of scenario scn.
Script(q, scn) ==
  /\ q \in Seq(Operations) /\ q # <<>>
  /\ \A i \in 1 .. Len(q) : q[i].do = "return" <=> i = Len(q)
  /\ \A i \in 1 .. Len(q) : q[i].do = "restart" =>
       scn \in MultiPhase /\ q[i].n \in {1, 2} /\ i = Len(q) - 1 /\ q[Len(q)].s = "NONE"
  /\ q[Len(q)].s \in Results(scn)
  /\ scn = kScenarioCount => Len(q) = 1

\* An operation has the fields it was made from.
LEMMA OpIsTyped ==
  ASSUME NEW do \in Names, NEW s \in Subjects, NEW n \in Nat
  PROVE  /\ Op(do, s, n) \in Operations
         /\ Op(do, s, n).do = do /\ Op(do, s, n).s = s /\ Op(do, s, n).n = n
         /\ do \notin {"return", "restart"} => Op(do, s, n) \in Work
BY DEF Op, Operations, Work

\* A return alone is a script, if the scenario may return so.
LEMMA ReturnScript ==
  ASSUME NEW scn \in 0 .. kScenarioCount, NEW r \in Results(scn)
  PROVE  Script(<<Return(r)>>, scn)
<1> DEFINE e == Return(r)
<1>1. e \in Operations /\ e.do = "return" /\ e.s \in Results(scn)
  <2>1. r \in Subjects
    BY DEF Results, Subjects
  <2>2. "return" \in Names /\ 0 \in Nat
    BY DEF Names
  <2>3. e = Op("return", r, 0)
    BY DEF Return
  <2> HIDE DEF e
  <2>4. e \in Operations /\ e.do = "return" /\ e.s = r
    BY <2>1, <2>2, <2>3, OpIsTyped
  <2>. QED  BY <2>4
<1> HIDE DEF e
<1>2. Script(<<e>>, scn)
  BY <1>1 DEF Script
<1>. QED  BY <1>2 DEF e

\* Work in front of a script makes a script.
LEMMA WorkFirst ==
  ASSUME NEW scn \in Scenarios, NEW b \in Seq(Work), NEW q, Script(q, scn)
  PROVE  Script(b \o q, scn)
<1> DEFINE p == b \o q
<1>1. q \in Seq(Operations) /\ b \in Seq(Operations)
  BY DEF Script, Work
<1>2. p \in Seq(Operations)
  BY <1>1
<1>3. /\ Len(q) \in Nat /\ Len(b) \in Nat /\ Len(q) > 0 /\ Len(p) = Len(b) + Len(q)
      /\ \A i \in 1 .. Len(p) : p[i] = IF i <= Len(b) THEN b[i] ELSE q[i - Len(b)]
  BY <1>1 DEF Script
<1>4. \A i \in 1 .. Len(b) : b[i].do # "return" /\ b[i].do # "restart"
  BY DEF Work
<1>5. /\ \A i \in 1 .. Len(q) : q[i].do = "return" <=> i = Len(q)
      /\ \A i \in 1 .. Len(q) : q[i].do = "restart" =>
           scn \in MultiPhase /\ q[i].n \in {1, 2} /\ i = Len(q) - 1 /\ q[Len(q)].s = "NONE"
      /\ q[Len(q)].s \in Results(scn)
  BY DEF Script
<1> HIDE DEF p
<1>6. p[Len(p)] = q[Len(q)] /\ p # <<>>
  <2>1. Len(p) \in 1 .. Len(p) /\ Len(p) - Len(b) = Len(q) /\ ~(Len(p) <= Len(b))
    BY <1>3
  <2>2. p # <<>>
    BY <1>2, <1>3
  <2>. QED  BY <1>3, <2>1, <2>2
<1>7. \A i \in 1 .. Len(p) : p[i].do = "return" <=> i = Len(p)
  BY <1>3, <1>4, <1>5
<1>8. \A i \in 1 .. Len(p) : p[i].do = "restart" =>
        scn \in MultiPhase /\ p[i].n \in {1, 2} /\ i = Len(p) - 1 /\ p[Len(p)].s = "NONE"
  <2>1. TAKE i \in 1 .. Len(p)
  <2>2. HAVE p[i].do = "restart"
  <2>3. i - Len(b) \in 1 .. Len(q) /\ p[i] = q[i - Len(b)]
    BY <1>3, <1>4, <2>1, <2>2
  <2>4. scn \in MultiPhase /\ p[i].n \in {1, 2} /\ i - Len(b) = Len(q) - 1 /\ q[Len(q)].s = "NONE"
    BY <1>5, <2>2, <2>3
  <2>5. i = Len(p) - 1
    BY <1>3, <2>1, <2>4
  <2>. QED  BY <1>6, <2>4, <2>5
<1>9. Script(p, scn)
  BY <1>2, <1>5, <1>6, <1>7, <1>8 DEF Script, Scenarios, kScenarioCount
<1>. QED  BY <1>9 DEF p

\* What is left of a script after an operation is a script again.
LEMMA ScriptGoesOn ==
  ASSUME NEW scn, NEW q, Script(q, scn), Head(q).do # "return"
  PROVE  Script(Tail(q), scn) /\ Script(<<q[Len(q)]>>, scn)
<1> DEFINE t == Tail(q)
<1>1. q \in Seq(Operations) /\ q # <<>>
  BY DEF Script
<1>2. /\ Len(q) \in Nat /\ Len(q) > 0 /\ Head(q) = q[1] /\ 1 \in 1 .. Len(q) /\ Len(q) \in 1 .. Len(q)
      /\ Len(t) = Len(q) - 1 /\ \A i \in 1 .. Len(t) : t[i] = q[i + 1]
  BY <1>1
<1>3. t \in Seq(Operations) /\ \A i \in 1 .. Len(q) : q[i] \in Operations
  BY <1>1
<1>4. /\ \A i \in 1 .. Len(q) : q[i].do = "return" <=> i = Len(q)
      /\ \A i \in 1 .. Len(q) : q[i].do = "restart" =>
           scn \in MultiPhase /\ q[i].n \in {1, 2} /\ i = Len(q) - 1 /\ q[Len(q)].s = "NONE"
      /\ q[Len(q)].s \in Results(scn)
      /\ scn = kScenarioCount => Len(q) = 1
  BY DEF Script
<1> HIDE DEF t
<1>5. Len(q) > 1
  BY <1>2, <1>4
<1>6. t # <<>>
  <2>1. Len(t) > 0
    BY <1>2, <1>5
  <2>. QED  BY <1>3, <2>1
<1>7. t[Len(t)] = q[Len(q)]
  <2>1. Len(t) \in 1 .. Len(t) /\ Len(t) + 1 = Len(q)
    BY <1>2, <1>5
  <2>. QED  BY <1>2, <2>1
<1>8. \A i \in 1 .. Len(t) : t[i].do = "return" <=> i = Len(t)
  BY <1>2, <1>4
<1>9. \A i \in 1 .. Len(t) : t[i].do = "restart" =>
        scn \in MultiPhase /\ t[i].n \in {1, 2} /\ i = Len(t) - 1 /\ t[Len(t)].s = "NONE"
  <2>1. TAKE i \in 1 .. Len(t)
  <2>2. HAVE t[i].do = "restart"
  <2>3. i + 1 \in 1 .. Len(q) /\ t[i] = q[i + 1]
    BY <1>2, <2>1
  <2>4. scn \in MultiPhase /\ t[i].n \in {1, 2} /\ i + 1 = Len(q) - 1 /\ q[Len(q)].s = "NONE"
    BY <1>4, <2>2, <2>3
  <2>5. i = Len(t) - 1
    BY <1>2, <2>1, <2>4
  <2>. QED  BY <1>7, <2>4, <2>5
<1>10. Script(t, scn)
  BY <1>3, <1>4, <1>5, <1>6, <1>7, <1>8, <1>9 DEF Script
<1>11. Script(<<q[Len(q)]>>, scn)
  <2> DEFINE e == q[Len(q)]
  <2>1. e \in Operations /\ e.do = "return" /\ e.s \in Results(scn)
    BY <1>2, <1>3, <1>4
  <2> HIDE DEF e
  <2>2. Script(<<e>>, scn)
    BY <2>1 DEF Script
  <2>. QED  BY <2>2 DEF e
<1>. QED  BY <1>10, <1>11 DEF t

\* Only a return ends a script.
LEMMA ReturnIsLast ==
  ASSUME NEW scn, NEW q, Script(q, scn)
  PROVE  /\ Head(q) \in Operations /\ q[Len(q)].do = "return"
         /\ Head(q).do = "return" => Len(q) = 1 /\ q = <<Head(q)>> /\ Head(q).s \in Results(scn)
         /\ Head(q).do = "restart" =>
              /\ scn \in MultiPhase /\ Head(q).n \in {1, 2}
              /\ Tail(q) = <<Head(Tail(q))>> /\ Head(Tail(q)).do = "return" /\ Head(Tail(q)).s = "NONE"
         /\ scn = kScenarioCount => Head(q).do = "return"
<1>1. q \in Seq(Operations) /\ q # <<>>
  BY DEF Script
<1>2. /\ Len(q) \in Nat /\ Len(q) > 0 /\ Head(q) = q[1] /\ 1 \in 1 .. Len(q) /\ Len(q) \in 1 .. Len(q)
      /\ Head(q) \in Operations
  BY <1>1
<1>3. /\ \A i \in 1 .. Len(q) : q[i].do = "return" <=> i = Len(q)
      /\ \A i \in 1 .. Len(q) : q[i].do = "restart" =>
           scn \in MultiPhase /\ q[i].n \in {1, 2} /\ i = Len(q) - 1 /\ q[Len(q)].s = "NONE"
      /\ q[Len(q)].s \in Results(scn)
      /\ scn = kScenarioCount => Len(q) = 1
  BY DEF Script
<1>4. ASSUME Head(q).do = "return"
      PROVE  Len(q) = 1 /\ q = <<Head(q)>> /\ Head(q).s \in Results(scn)
  <2>1. Len(q) = 1
    BY <1>2, <1>3, <1>4
  <2>2. q = <<Head(q)>>
    BY <1>1, <2>1
  <2>. QED  BY <1>2, <1>3, <2>1, <2>2
<1>5. ASSUME Head(q).do = "restart"
      PROVE  /\ scn \in MultiPhase /\ Head(q).n \in {1, 2}
             /\ Tail(q) = <<Head(Tail(q))>> /\ Head(Tail(q)).do = "return" /\ Head(Tail(q)).s = "NONE"
  <2>1. scn \in MultiPhase /\ Head(q).n \in {1, 2} /\ 1 = Len(q) - 1 /\ q[Len(q)].s = "NONE"
    <3>1. q[1].do = "restart" /\ Head(q) = q[1]
      BY <1>2, <1>5, Zenon
    <3>. QED  BY <1>2, <1>3, <3>1, Zenon
  <2>2. scn \in MultiPhase /\ Head(q).n \in {1, 2} /\ Len(q) = 2 /\ q[2].s = "NONE"
    <3>1. Len(q) = 2
      BY <1>2, <2>1
    <3>. QED  BY <2>1, <3>1
  <2>3. q[2].do = "return"
    BY <1>2, <1>3, <2>2
  <2> DEFINE t == Tail(q)
  <2>4. t \in Seq(Operations) /\ Len(t) = Len(q) - 1 /\ \A i \in 1 .. Len(t) : t[i] = q[i + 1]
    BY <1>1
  <2> HIDE DEF t
  <2>5. Len(t) = 1 /\ t[1] = q[2]
    BY <2>2, <2>4
  <2>6. t = <<Head(t)>> /\ Head(t) = q[2]
    BY <2>4, <2>5
  <2>. QED  BY <2>2, <2>3, <2>6 DEF t
<1>6. scn = kScenarioCount => Head(q).do = "return"
  BY <1>2, <1>3
<1>7. q[Len(q)].do = "return"
  BY <1>2, <1>3
<1>. QED  BY <1>2, <1>4, <1>5, <1>6, <1>7

-----------------------------------------------------------------------------
(* Where a script finds the board *)

\* The first n records of salt s, in order.
Salted(s, n) == [j \in 1 .. n |-> <<s, j - 1>>]

\* How many records the log in flash holds after an operation, -1 if a
\* scenario that goes on does not care; and the log in PSRAM.
Unknown == -1
FlashAfter(op, k) ==
  CASE op.do = "reset"  -> 0
    [] op.do = "append" -> k + 1
    [] op.do = "fill"   -> Unknown
    [] OTHER            -> k
PsramAfter(op, m) ==
  CASE op.do \in {"scratch_alloc", "scratch_format"} -> 0
    [] op.do \in {"scratch_append", "failpoint"} -> m + op.n
    [] OTHER -> m

\* Phase p of a scenario starts with this many of its records in the log.
Kept(scn, p) == IF scn = 6 THEN 0 ELSE p

\* No fault, and the operation does not fail when k records of salt s are in
\* flash and m in PSRAM; a restart leaves what the next phase expects.
Fits(op, s, k, m) ==
  /\ op.do = "append" => op.s = s /\ op.n = k /\ k < LogRecords
  /\ op.do = "fill" /\ op.n = 0 => k = 0
  /\ op.do = "verify" => op.s = s /\ op.n = k
  /\ op.do \in {"scratch_verify", "wrap_verify"} => op.n = m
  /\ op.do = "restart" => k = Kept(s, op.n) /\ (op.n = 2 => s = 7)

\* Every operation of q fits where the ones before it left the board.
Follows(q, s, k, m, k2, m2) ==
  \E x \in [1 .. Len(q) + 1 -> Int], y \in [1 .. Len(q) + 1 -> Nat] :
    /\ x[1] = k /\ y[1] = m /\ x[Len(q) + 1] = k2 /\ y[Len(q) + 1] = m2
    /\ \A i \in 1 .. Len(q) :
         /\ Fits(q[i], s, x[i], y[i])
         /\ x[i + 1] = FlashAfter(q[i], x[i]) /\ y[i + 1] = PsramAfter(q[i], y[i])

\* One operation that fits can be followed.
LEMMA FollowsOne ==
  ASSUME NEW a, NEW s, NEW k \in Int, NEW m \in Nat, Fits(a, s, k, m),
         NEW k2 \in Int, k2 = FlashAfter(a, k), NEW m2 \in Nat, m2 = PsramAfter(a, m)
  PROVE  Follows(<<a>>, s, k, m, k2, m2)
<1> DEFINE q == <<a>>
           x == [i \in 1 .. 2 |-> IF i = 1 THEN k ELSE k2]
           y == [i \in 1 .. 2 |-> IF i = 1 THEN m ELSE m2]
<1>1. Len(q) = 1 /\ q[1] = a
  OBVIOUS
<1>2. x \in [1 .. 2 -> Int] /\ x[1] = k /\ x[2] = k2
  OBVIOUS
<1>3. y \in [1 .. 2 -> Nat] /\ y[1] = m /\ y[2] = m2
  OBVIOUS
<1> HIDE DEF q, x, y
<1>4. Len(q) + 1 = 2 /\ \A i \in 1 .. Len(q) : i = 1
  BY <1>1
<1>5. \A i \in 1 .. Len(q) :
         /\ Fits(q[i], s, x[i], y[i])
         /\ x[i + 1] = FlashAfter(q[i], x[i]) /\ y[i + 1] = PsramAfter(q[i], y[i])
  BY <1>1, <1>2, <1>3, <1>4
<1>6. Follows(q, s, k, m, k2, m2)
  BY <1>2, <1>3, <1>4, <1>5 DEF Follows
<1>. QED  BY <1>6 DEF q

\* Two sequences that can be followed one after the other.
LEMMA FollowsOn ==
  ASSUME NEW p \in Seq(Operations), NEW q \in Seq(Operations), NEW s,
         NEW k, NEW m, NEW k1, NEW m1, NEW k2, NEW m2,
         Follows(p, s, k, m, k1, m1), Follows(q, s, k1, m1, k2, m2)
  PROVE  Follows(p \o q, s, k, m, k2, m2)
<1> DEFINE r == p \o q
           lp == Len(p)
           lq == Len(q)
<1>1. lp \in Nat /\ lq \in Nat /\ Len(r) = lp + lq
      /\ \A i \in 1 .. Len(r) : r[i] = IF i <= lp THEN p[i] ELSE q[i - lp]
  OBVIOUS
<1>2. PICK x1 \in [1 .. lp + 1 -> Int], y1 \in [1 .. lp + 1 -> Nat] :
    /\ x1[1] = k /\ y1[1] = m /\ x1[lp + 1] = k1 /\ y1[lp + 1] = m1
    /\ \A i \in 1 .. lp :
         /\ Fits(p[i], s, x1[i], y1[i])
         /\ x1[i + 1] = FlashAfter(p[i], x1[i]) /\ y1[i + 1] = PsramAfter(p[i], y1[i])
  BY DEF Follows
<1>3. PICK x2 \in [1 .. lq + 1 -> Int], y2 \in [1 .. lq + 1 -> Nat] :
    /\ x2[1] = k1 /\ y2[1] = m1 /\ x2[lq + 1] = k2 /\ y2[lq + 1] = m2
    /\ \A i \in 1 .. lq :
         /\ Fits(q[i], s, x2[i], y2[i])
         /\ x2[i + 1] = FlashAfter(q[i], x2[i]) /\ y2[i + 1] = PsramAfter(q[i], y2[i])
  BY DEF Follows
<1> DEFINE x == [i \in 1 .. lp + lq + 1 |-> IF i <= lp THEN x1[i] ELSE x2[i - lp]]
           y == [i \in 1 .. lp + lq + 1 |-> IF i <= lp THEN y1[i] ELSE y2[i - lp]]
<1> HIDE DEF r, lp, lq
<1>4. \A i \in 1 .. lp + lq + 1 : i > lp => i - lp \in 1 .. lq + 1
  BY <1>1
<1>5. \A i \in 1 .. lp + lq + 1 : i <= lp => i \in 1 .. lp + 1
  BY <1>1
<1>6. x \in [1 .. lp + lq + 1 -> Int] /\ y \in [1 .. lp + lq + 1 -> Nat]
  BY <1>1, <1>4, <1>5
<1>7. \A i \in 1 .. lp + lq + 1 : i > lp => x[i] = x2[i - lp] /\ y[i] = y2[i - lp]
  BY <1>1
<1>8. \A i \in 1 .. lp : x[i] = x1[i] /\ y[i] = y1[i]
  BY <1>1
<1> HIDE DEF x, y
<1>9. \A j \in 1 .. lq + 1 : x[lp + j] = x2[j] /\ y[lp + j] = y2[j]
  <2>1. TAKE j \in 1 .. lq + 1
  <2> DEFINE i == lp + j
  <2>2. i \in 1 .. lp + lq + 1 /\ i > lp /\ i - lp = j
    BY <1>1, <2>1
  <2> HIDE DEF i
  <2>3. x[i] = x2[j] /\ y[i] = y2[j]
    BY <1>7, <2>2
  <2>. QED  BY <2>3 DEF i
<1>10. x[lp + 1] = k1 /\ y[lp + 1] = m1
  <2>1. 1 \in 1 .. lq + 1
    BY <1>1
  <2>. QED  BY <1>3, <1>9, <2>1
<1>11. x[lp + lq + 1] = k2 /\ y[lp + lq + 1] = m2
  <2>1. lq + 1 \in 1 .. lq + 1 /\ lp + (lq + 1) = lp + lq + 1
    BY <1>1
  <2>. QED  BY <1>3, <1>9, <2>1
<1>12. x[1] = k /\ y[1] = m
  <2>1. CASE lp = 0
    BY <1>1, <1>2, <1>10, <2>1
  <2>2. CASE lp > 0
    <3>1. 1 \in 1 .. lp
      BY <1>1, <2>2
    <3>. QED  BY <1>2, <1>8, <3>1
  <2>. QED  BY <1>1, <2>1, <2>2
<1>13. ASSUME NEW i \in 1 .. Len(r)
       PROVE  /\ Fits(r[i], s, x[i], y[i])
              /\ x[i + 1] = FlashAfter(r[i], x[i]) /\ y[i + 1] = PsramAfter(r[i], y[i])
  <2>1. CASE i <= lp
    <3>1. i \in 1 .. lp /\ r[i] = p[i]
      BY <1>1, <2>1
    <3>2. x[i + 1] = x1[i + 1] /\ y[i + 1] = y1[i + 1]
      <4>1. CASE i = lp
        BY <1>2, <1>10, <4>1
      <4>2. CASE i # lp
        <5>1. i + 1 \in 1 .. lp
          BY <1>1, <3>1, <4>2
        <5>. QED  BY <1>8, <5>1
      <4>. QED  BY <4>1, <4>2
    <3>. QED  BY <1>2, <1>8, <3>1, <3>2
  <2>2. CASE i > lp
    <3> DEFINE j == i - lp
    <3>1. j \in 1 .. lq /\ i \in 1 .. lp + lq + 1 /\ i + 1 \in 1 .. lp + lq + 1
          /\ i + 1 > lp /\ (i + 1) - lp = j + 1 /\ ~(i <= lp)
      BY <1>1, <2>2
    <3>2. r[i] = q[j]
      BY <1>1, <3>1
    <3>3. x[i] = x2[j] /\ y[i] = y2[j]
      BY <1>7, <2>2, <3>1
    <3>4. x[i + 1] = x2[j + 1] /\ y[i + 1] = y2[j + 1]
      BY <1>7, <3>1
    <3> HIDE DEF j
    <3>. QED  BY <1>3, <3>1, <3>2, <3>3, <3>4
  <2>. QED  BY <1>1, <2>1, <2>2
<1>14. Follows(r, s, k, m, k2, m2)
  <2>1. Len(r) + 1 = lp + lq + 1
    BY <1>1
  <2>2. /\ x \in [1 .. Len(r) + 1 -> Int] /\ y \in [1 .. Len(r) + 1 -> Nat]
        /\ x[Len(r) + 1] = k2 /\ y[Len(r) + 1] = m2
    BY <1>6, <1>11, <2>1
  <2>. QED  BY <1>12, <1>13, <2>2 DEF Follows
<1>. QED  BY <1>14 DEF r

\* The first operation of a sequence that can be followed fits, and the rest can be
\* followed from where it leaves the board.
LEMMA FollowsTail ==
  ASSUME NEW q \in Seq(Operations), q # <<>>, NEW s, NEW k, NEW m, NEW k2, NEW m2,
         Follows(q, s, k, m, k2, m2)
  PROVE  /\ k \in Int /\ m \in Nat
         /\ Fits(Head(q), s, k, m)
         /\ FlashAfter(Head(q), k) \in Int /\ PsramAfter(Head(q), m) \in Nat
         /\ Follows(Tail(q), s, FlashAfter(Head(q), k), PsramAfter(Head(q), m), k2, m2)
<1> DEFINE t == Tail(q)
           n == Len(q)
<1>1. n \in Nat /\ n > 0 /\ Head(q) = q[1] /\ Len(t) = n - 1
      /\ \A i \in 1 .. Len(t) : t[i] = q[i + 1]
  OBVIOUS
<1>2. PICK x1 \in [1 .. n + 1 -> Int], y1 \in [1 .. n + 1 -> Nat] :
    /\ x1[1] = k /\ y1[1] = m /\ x1[n + 1] = k2 /\ y1[n + 1] = m2
    /\ \A i \in 1 .. n :
         /\ Fits(q[i], s, x1[i], y1[i])
         /\ x1[i + 1] = FlashAfter(q[i], x1[i]) /\ y1[i + 1] = PsramAfter(q[i], y1[i])
  BY DEF Follows
<1> HIDE DEF t, n
<1>3. 1 \in 1 .. n /\ 1 \in 1 .. n + 1 /\ 2 \in 1 .. n + 1 /\ 1 + 1 = 2
  BY <1>1
<1>4. /\ k \in Int /\ m \in Nat /\ Fits(Head(q), s, k, m)
      /\ FlashAfter(Head(q), k) = x1[2] /\ PsramAfter(Head(q), m) = y1[2]
      /\ x1[2] \in Int /\ y1[2] \in Nat
  BY <1>1, <1>2, <1>3
<1> DEFINE x == [i \in 1 .. n |-> x1[i + 1]]
           y == [i \in 1 .. n |-> y1[i + 1]]
<1>5. \A i \in 1 .. n : i + 1 \in 1 .. n + 1
  BY <1>1
<1>6. x \in [1 .. n -> Int] /\ y \in [1 .. n -> Nat] /\ \A i \in 1 .. n : x[i] = x1[i + 1] /\ y[i] = y1[i + 1]
  BY <1>1, <1>5
<1> HIDE DEF x, y
<1>7. x[1] = x1[2] /\ y[1] = y1[2] /\ x[n] = k2 /\ y[n] = m2
  <2>1. n \in 1 .. n
    BY <1>1
  <2>. QED  BY <1>2, <1>3, <1>6, <2>1
<1>8. ASSUME NEW i \in 1 .. Len(t)
      PROVE  /\ Fits(t[i], s, x[i], y[i])
             /\ x[i + 1] = FlashAfter(t[i], x[i]) /\ y[i + 1] = PsramAfter(t[i], y[i])
  <2>1. i \in 1 .. n /\ i + 1 \in 1 .. n /\ t[i] = q[i + 1]
    BY <1>1
  <2>. QED  BY <1>2, <1>6, <2>1
<1>9. Follows(t, s, x1[2], y1[2], k2, m2)
  <2>1. Len(t) + 1 = n
    BY <1>1
  <2>. QED  BY <1>6, <1>7, <1>8, <2>1 DEF Follows
<1>. QED  BY <1>4, <1>9 DEF t

-----------------------------------------------------------------------------
(* The thirteen scenarios *)

\* The log has room for what a scenario writes.
Roomy == LogRecords >= 2 /\ LogRecords >= AtMostBurst(8)

Leads(b, s, k, m, k2, m2) ==
  /\ b \in Seq(Work) /\ m2 \in Nat
  /\ Roomy => Follows(b, s, k, m, k2, m2)

\* q is a script of scenario scn; begun with k records of salt s in flash and
\* m in PSRAM, none of its operations fails.
Runnable(q, scn, s, k, m) ==
  /\ Script(q, scn)
  /\ Roomy => \E k2, m2 : Follows(q, s, k, m, k2, m2)

\* Work is operations.
LEMMA WorkIsOperations ==
  ASSUME NEW b \in Seq(Work)
  PROVE  b \in Seq(Operations)
BY DEF Work

\* Two pieces of work in a row.
LEMMA LeadsOn ==
  ASSUME NEW p, NEW q, NEW s, NEW k, NEW m, NEW k1, NEW m1, NEW k2, NEW m2,
         Leads(p, s, k, m, k1, m1), Leads(q, s, k1, m1, k2, m2)
  PROVE  Leads(p \o q, s, k, m, k2, m2)
<1>1. p \o q \in Seq(Work) /\ m2 \in Nat
  BY DEF Leads
<1>2. ASSUME Roomy
      PROVE  Follows(p \o q, s, k, m, k2, m2)
  <2>1. p \in Seq(Operations) /\ q \in Seq(Operations)
    BY WorkIsOperations DEF Leads
  <2>2. Follows(p, s, k, m, k1, m1) /\ Follows(q, s, k1, m1, k2, m2)
    BY <1>2 DEF Leads
  <2>. QED  BY <2>1, <2>2, FollowsOn
<1>. QED  BY <1>1, <1>2 DEF Leads

\* Work in front of the rest of a scenario.
LEMMA RunsOn ==
  ASSUME NEW p, NEW q, NEW scn \in Scenarios, NEW s, NEW k, NEW m, NEW k1, NEW m1,
         Leads(p, s, k, m, k1, m1), Runnable(q, scn, s, k1, m1)
  PROVE  Runnable(p \o q, scn, s, k, m)
<1>1. p \in Seq(Work) /\ Script(q, scn)
  BY DEF Leads, Runnable
<1>2. Script(p \o q, scn)
  BY <1>1, WorkFirst
<1>3. ASSUME Roomy
      PROVE  \E k2, m2 : Follows(p \o q, s, k, m, k2, m2)
  <2>1. p \in Seq(Operations) /\ q \in Seq(Operations)
    BY <1>1, WorkIsOperations DEF Script
  <2>2. PICK k2, m2 : Follows(q, s, k1, m1, k2, m2)
    BY <1>3 DEF Runnable
  <2>3. Follows(p, s, k, m, k1, m1)
    BY <1>3 DEF Leads
  <2>4. Follows(p \o q, s, k, m, k2, m2)
    BY <2>1, <2>2, <2>3, FollowsOn
  <2>. QED  BY <2>4
<1>. QED  BY <1>2, <1>3 DEF Runnable

\* One operation.
LEMMA LeadsOne ==
  ASSUME NEW a \in Work, NEW s, NEW k \in Int, NEW m \in Nat, Roomy => Fits(a, s, k, m)
  PROVE  Leads(<<a>>, s, k, m, FlashAfter(a, k), PsramAfter(a, m))
<1>1. <<a>> \in Seq(Work)
  OBVIOUS
<1>2. FlashAfter(a, k) \in Int /\ PsramAfter(a, m) \in Nat
  <2>1. a.n \in Nat
    BY DEF Work, Operations
  <2>. QED  BY <2>1 DEF FlashAfter, PsramAfter, Unknown
<1>3. Roomy => Follows(<<a>>, s, k, m, FlashAfter(a, k), PsramAfter(a, m))
  BY <1>2, FollowsOne
<1>. QED  BY <1>1, <1>2, <1>3 DEF Leads

\* A return never fails.
LEMMA ReturnRuns ==
  ASSUME NEW scn \in 0 .. kScenarioCount, NEW r \in Results(scn), NEW s, NEW k \in Int, NEW m \in Nat
  PROVE  Runnable(<<Return(r)>>, scn, s, k, m)
<1> DEFINE a == Return(r)
<1>1. a.do = "return"
  BY DEF Return, Op
<1> HIDE DEF a
<1>2. Fits(a, s, k, m) /\ FlashAfter(a, k) = k /\ PsramAfter(a, m) = m
  BY <1>1 DEF Fits, FlashAfter, PsramAfter
<1>3. Follows(<<a>>, s, k, m, k, m)
  BY <1>2, FollowsOne
<1>4. Script(<<a>>, scn)
  BY ReturnScript DEF a
<1>. QED  BY <1>3, <1>4 DEF a, Runnable

\* The operations, one by one.
LEMMA SubjectsAre == ASSUME NEW s \in Scenarios PROVE s \in Subjects
BY DEF Subjects

\* reset_and_mount starts from any log and leaves an empty one.
LEMMA ResetLeads ==
  ASSUME NEW s, NEW k \in Int, NEW m \in Nat
  PROVE  Leads(<<Reset>>, s, k, m, 0, m)
<1> DEFINE a == Reset
<1>1. a \in Work /\ a.do = "reset"
  <2>1. "reset" \in Names /\ 0 \in Subjects /\ 0 \in Nat /\ "reset" \notin {"return", "restart"}
    BY DEF Names, Subjects, Scenarios, kScenarioCount
  <2>2. Op("reset", 0, 0) \in Work /\ Op("reset", 0, 0).do = "reset"
    BY <2>1, OpIsTyped
  <2>. QED  BY <2>2 DEF Reset
<1> HIDE DEF a
<1>2. Fits(a, s, k, m) /\ FlashAfter(a, k) = 0 /\ PsramAfter(a, m) = m
  BY <1>1 DEF Fits, FlashAfter, PsramAfter
<1>3. Leads(<<a>>, s, k, m, FlashAfter(a, k), PsramAfter(a, m))
  BY <1>1, <1>2, LeadsOne
<1>. QED  BY <1>2, <1>3 DEF a

\* verify_salted_records wants the records that are there.
LEMMA VerifyLeads ==
  ASSUME NEW s \in Scenarios, NEW k \in Nat, NEW m \in Nat
  PROVE  Leads(<<Verify(s, k)>>, s, k, m, k, m)
<1> DEFINE a == Verify(s, k)
<1>1. a \in Work /\ a.do = "verify" /\ a.s = s /\ a.n = k
  <2>1. "verify" \in Names /\ s \in Subjects /\ "verify" \notin {"return", "restart"}
    BY SubjectsAre DEF Names
  <2>2. Op("verify", s, k) \in Work /\ Op("verify", s, k).do = "verify"
        /\ Op("verify", s, k).s = s /\ Op("verify", s, k).n = k
    BY <2>1, OpIsTyped
  <2>. QED  BY <2>2 DEF Verify
<1> HIDE DEF a
<1>2. Fits(a, s, k, m) /\ FlashAfter(a, k) = k /\ PsramAfter(a, m) = m
  BY <1>1 DEF Fits, FlashAfter, PsramAfter
<1>3. Leads(<<a>>, s, k, m, FlashAfter(a, k), PsramAfter(a, m))
  BY <1>1, <1>2, LeadsOne
<1>. QED  BY <1>2, <1>3 DEF a

\* append_salt needs room for one record.
LEMMA AppendLeads ==
  ASSUME NEW s \in Scenarios, NEW k \in Nat, NEW m \in Nat, Roomy => k < LogRecords
  PROVE  Leads(<<AppendSalt(s, k)>>, s, k, m, k + 1, m)
<1> DEFINE a == AppendSalt(s, k)
<1>1. a \in Work /\ a.do = "append" /\ a.s = s /\ a.n = k
  <2>1. "append" \in Names /\ s \in Subjects /\ "append" \notin {"return", "restart"}
    BY SubjectsAre DEF Names
  <2>2. Op("append", s, k) \in Work /\ Op("append", s, k).do = "append"
        /\ Op("append", s, k).s = s /\ Op("append", s, k).n = k
    BY <2>1, OpIsTyped
  <2>. QED  BY <2>2 DEF AppendSalt
<1> HIDE DEF a
<1>2. (Roomy => Fits(a, s, k, m)) /\ FlashAfter(a, k) = k + 1 /\ PsramAfter(a, m) = m
  BY <1>1 DEF Fits, FlashAfter, PsramAfter
<1>3. Leads(<<a>>, s, k, m, FlashAfter(a, k), PsramAfter(a, m))
  BY <1>1, <1>2, LeadsOne
<1>. QED  BY <1>2, <1>3 DEF a

\* Operations on the log in PSRAM, or on the SD card, leave the log in flash alone.
LEMMA ScratchLeads ==
  ASSUME NEW do \in Names, NEW n \in Nat, NEW s, NEW k \in Int, NEW m \in Nat,
         do \in {"scratch_alloc", "scratch_format", "scratch_append", "failpoint", "wrap_verify",
                 "scratch_verify", "sd_test", "sd_append", "sd_read"},
         do \in {"scratch_verify", "wrap_verify"} => m = n
  PROVE  Leads(<<Scratch(do, n)>>, s, k, m, k,
               IF do \in {"scratch_alloc", "scratch_format"} THEN 0
               ELSE IF do \in {"scratch_append", "failpoint"} THEN m + n ELSE m)
<1> DEFINE a == Scratch(do, n)
<1>1. a \in Work /\ a.do = do /\ a.n = n
  <2>1. 0 \in Subjects /\ do \notin {"return", "restart"}
    BY DEF Subjects, Scenarios, kScenarioCount
  <2>2. Op(do, 0, n) \in Work /\ Op(do, 0, n).do = do /\ Op(do, 0, n).n = n
    BY <2>1, OpIsTyped
  <2>. QED  BY <2>2 DEF Scratch
<1> HIDE DEF a
<1>2. /\ Fits(a, s, k, m) /\ FlashAfter(a, k) = k
      /\ PsramAfter(a, m) = IF do \in {"scratch_alloc", "scratch_format"} THEN 0
               ELSE IF do \in {"scratch_append", "failpoint"} THEN m + n ELSE m
  BY <1>1 DEF Fits, FlashAfter, PsramAfter
<1>3. Leads(<<a>>, s, k, m, FlashAfter(a, k), PsramAfter(a, m))
  BY <1>1, <1>2, LeadsOne
<1>. QED  BY <1>2, <1>3 DEF a

\* When a sequence is two others in a row.
LEMMA Joined ==
  ASSUME NEW S, NEW p \in Seq(S), NEW q \in Seq(S), NEW w \in Seq(S),
         Len(w) = Len(p) + Len(q),
         \A i \in 1 .. Len(p) : w[i] = p[i],
         \A i \in 1 .. Len(q) : w[Len(p) + i] = q[i]
  PROVE  p \o q = w
<1> DEFINE z == p \o q
<1>1. /\ z \in Seq(S) /\ Len(z) = Len(p) + Len(q) /\ Len(p) \in Nat /\ Len(q) \in Nat
      /\ \A i \in 1 .. Len(z) : z[i] = IF i <= Len(p) THEN p[i] ELSE q[i - Len(p)]
  OBVIOUS
<1> HIDE DEF z
<1>2. \A i \in 1 .. Len(z) : z[i] = w[i]
  <2>1. TAKE i \in 1 .. Len(z)
  <2>2. CASE i <= Len(p)
    BY <1>1, <2>2
  <2>3. CASE i > Len(p)
    <3> DEFINE j == i - Len(p)
    <3>1. j \in 1 .. Len(q) /\ Len(p) + j = i /\ z[i] = q[j]
      <4>1. z[i] = q[j]
        <5>1. z[i] = IF i <= Len(p) THEN p[i] ELSE q[i - Len(p)]
          BY <1>1
        <5>2. ~(i <= Len(p))
          BY <1>1, <2>3
        <5>. QED  BY <5>1, <5>2
      <4>2. /\ i \in Nat /\ Len(p) \in Nat /\ Len(q) \in Nat
            /\ Len(p) < i /\ i <= Len(p) + Len(q)
        BY <1>1, <2>3
      <4>3. j \in 1 .. Len(q) /\ Len(p) + j = i
        BY <4>2
      <4>. QED  BY <4>1, <4>3
    <3> HIDE DEF j
    <3>2. w[Len(p) + j] = q[j]
      BY <3>1
    <3>. QED  BY <3>1, <3>2
  <2>. QED  BY <1>1, <2>2, <2>3
<1>3. z = w
  BY <1>1, <1>2, SeqEqual
<1>. QED  BY <1>3 DEF z

\* A sequence of two, taken apart.
LEMMA Pair ==
  ASSUME NEW a, NEW b
  PROVE  <<a, b>> = <<a>> \o <<b>>
<1> DEFINE S == {a, b}
           x == <<a>>
           y == <<b>>
           w == <<a, b>>
<1>1. x \in Seq(S) /\ y \in Seq(S) /\ w \in Seq(S)
  OBVIOUS
<1>2. /\ Len(x) = 1 /\ Len(y) = 1 /\ Len(w) = 2
      /\ \A i \in 1 .. 1 : w[i] = x[i]
      /\ \A i \in 1 .. 1 : w[1 + i] = y[i]
  OBVIOUS
<1> HIDE DEF x, y, w, S
<1>3. /\ Len(w) = Len(x) + Len(y)
      /\ \A i \in 1 .. Len(x) : w[i] = x[i]
      /\ \A i \in 1 .. Len(y) : w[Len(x) + i] = y[i]
  BY <1>2
<1>4. x \o y = w
  BY <1>1, <1>3, Joined
<1>. QED  BY <1>4 DEF w, x, y

\* A sequence of three, taken apart.
LEMMA Triple ==
  ASSUME NEW a, NEW b, NEW c
  PROVE  <<a, b, c>> = <<a>> \o <<b, c>>
<1> DEFINE S == {a, b, c}
           x == <<a>>
           y == <<b, c>>
           w == <<a, b, c>>
<1>1. x \in Seq(S) /\ y \in Seq(S) /\ w \in Seq(S)
  OBVIOUS
<1>2. /\ Len(x) = 1 /\ Len(y) = 2 /\ Len(w) = 3
      /\ \A i \in 1 .. 1 : w[i] = x[i]
      /\ \A i \in 1 .. 2 : w[1 + i] = y[i]
  OBVIOUS
<1> HIDE DEF x, y, w, S
<1>3. /\ Len(w) = Len(x) + Len(y)
      /\ \A i \in 1 .. Len(x) : w[i] = x[i]
      /\ \A i \in 1 .. Len(y) : w[Len(x) + i] = y[i]
  BY <1>2
<1>4. x \o y = w
  BY <1>1, <1>3, Joined
<1>. QED  BY <1>4 DEF w, x, y

\* A sequence of four, taken apart.
LEMMA Quadruple ==
  ASSUME NEW a, NEW b, NEW c, NEW d
  PROVE  <<a, b, c, d>> = <<a>> \o <<b, c, d>>
<1> DEFINE S == {a, b, c, d}
           x == <<a>>
           y == <<b, c, d>>
           w == <<a, b, c, d>>
<1>1. x \in Seq(S) /\ y \in Seq(S) /\ w \in Seq(S)
  OBVIOUS
<1>2. /\ Len(x) = 1 /\ Len(y) = 3 /\ Len(w) = 4
      /\ \A i \in 1 .. 1 : w[i] = x[i]
      /\ \A i \in 1 .. 3 : w[1 + i] = y[i]
  OBVIOUS
<1> HIDE DEF x, y, w, S
<1>3. /\ Len(w) = Len(x) + Len(y)
      /\ \A i \in 1 .. Len(x) : w[i] = x[i]
      /\ \A i \in 1 .. Len(y) : w[Len(x) + i] = y[i]
  BY <1>2
<1>4. x \o y = w
  BY <1>1, <1>3, Joined
<1>. QED  BY <1>4 DEF w, x, y

\* A restart half-way.
LEMMA RestartRuns ==
  ASSUME NEW scn \in MultiPhase, NEW p \in {1, 2}, p = 2 => scn = 7, NEW m \in Nat
  PROVE  Runnable(<<Restart(p), Return("NONE")>>, scn, scn, Kept(scn, p), m)
<1> DEFINE a == Restart(p)
           b == Return("NONE")
           k == Kept(scn, p)
<1>1. a \in Operations /\ a.do = "restart" /\ a.n = p
  <2>1. "restart" \in Names /\ 0 \in Subjects /\ p \in Nat
    BY DEF Names, Subjects, Scenarios, kScenarioCount
  <2>2. Op("restart", 0, p) \in Operations /\ Op("restart", 0, p).do = "restart" /\ Op("restart", 0, p).n = p
    BY <2>1, OpIsTyped
  <2>. QED  BY <2>2 DEF Restart
<1>2. b \in Operations /\ b.do = "return" /\ b.s = "NONE"
  <2>1. "return" \in Names /\ "NONE" \in Subjects /\ 0 \in Nat
    BY DEF Names, Subjects
  <2>2. Op("return", "NONE", 0) \in Operations /\ Op("return", "NONE", 0).do = "return"
        /\ Op("return", "NONE", 0).s = "NONE"
    BY <2>1, OpIsTyped
  <2>. QED  BY <2>2 DEF Return
<1>3. k \in Int /\ scn \in Scenarios /\ scn # kScenarioCount
  BY DEF Kept, MultiPhase, Scenarios, kScenarioCount
<1> HIDE DEF a, b
<1>4. Follows(<<a>>, scn, k, m, k, m)
  <2>1. Fits(a, scn, k, m)
    BY <1>1 DEF Fits
  <2>2. FlashAfter(a, k) = k /\ PsramAfter(a, m) = m
    BY <1>1 DEF FlashAfter, PsramAfter
  <2> HIDE DEF k
  <2>. QED  BY <1>3, <2>1, <2>2, FollowsOne
<1> HIDE DEF k
<1>5. Follows(<<b>>, scn, k, m, k, m)
  <2>1. Fits(b, scn, k, m) /\ FlashAfter(b, k) = k /\ PsramAfter(b, m) = m
    BY <1>2 DEF Fits, FlashAfter, PsramAfter
  <2>. QED  BY <1>3, <2>1, FollowsOne
<1>6. Follows(<<a, b>>, scn, k, m, k, m)
  <2>1. <<a>> \in Seq(Operations) /\ <<b>> \in Seq(Operations)
    BY <1>1, <1>2
  <2>2. Follows(<<a>> \o <<b>>, scn, k, m, k, m)
    BY <1>4, <1>5, <2>1, FollowsOn
  <2>. QED  BY <2>2, Pair
<1>7. Script(<<a, b>>, scn)
  <2> DEFINE q == <<a, b>>
  <2>1. q \in Seq(Operations) /\ q # <<>> /\ Len(q) = 2 /\ q[1] = a /\ q[2] = b
    BY <1>1, <1>2
  <2> HIDE DEF q
  <2>2. \A i \in 1 .. Len(q) : i = 1 \/ i = 2
    BY <2>1
  <2>3. b.s \in Results(scn)
    BY <1>2, <1>3 DEF Results
  <2>4. \A i \in 1 .. Len(q) : q[i].do = "return" <=> i = Len(q)
    BY <1>1, <1>2, <2>1, <2>2
  <2>5. \A i \in 1 .. Len(q) : q[i].do = "restart" =>
           scn \in MultiPhase /\ q[i].n \in {1, 2} /\ i = Len(q) - 1 /\ q[Len(q)].s = "NONE"
    BY <1>1, <1>2, <2>1, <2>2
  <2>6. Script(q, scn)
    BY <1>3, <2>1, <2>3, <2>4, <2>5 DEF Script
  <2>. QED  BY <2>6 DEF q
<1>. QED  BY <1>6, <1>7 DEF Runnable, a, b, k

\* A run of appends.
LEMMA AppendsLead ==
  ASSUME NEW s \in Scenarios, NEW n \in Nat, NEW m \in Nat, Roomy => n <= LogRecords
  PROVE  Leads(Appends(s, n), s, 0, m, n, m)
<1> DEFINE q == Appends(s, n)
           x == [i \in 1 .. n + 1 |-> i - 1]
           y == [i \in 1 .. n + 1 |-> m]
<1>1. Len(q) = n /\ \A i \in 1 .. n : q[i] = AppendSalt(s, i - 1)
  BY DEF Appends
<1>2. \A i \in 1 .. n : AppendSalt(s, i - 1) \in Work
                       /\ AppendSalt(s, i - 1).do = "append" /\ AppendSalt(s, i - 1).s = s
                       /\ AppendSalt(s, i - 1).n = i - 1
  <2>1. TAKE i \in 1 .. n
  <2>2. "append" \in Names /\ s \in Subjects /\ "append" \notin {"return", "restart"} /\ i - 1 \in Nat
    BY SubjectsAre DEF Names
  <2>. QED  BY <2>2, OpIsTyped DEF AppendSalt
<1>3. q \in Seq(Work)
  BY <1>2 DEF Appends
<1>4. x \in [1 .. n + 1 -> Int] /\ y \in [1 .. n + 1 -> Nat]
      /\ \A i \in 1 .. n + 1 : x[i] = i - 1 /\ y[i] = m
  OBVIOUS
<1> HIDE DEF q, x, y
<1>5. x[1] = 0 /\ y[1] = m /\ x[n + 1] = n /\ y[n + 1] = m
  BY <1>4
<1>6. ASSUME Roomy, NEW i \in 1 .. Len(q)
      PROVE  /\ Fits(q[i], s, x[i], y[i])
             /\ x[i + 1] = FlashAfter(q[i], x[i]) /\ y[i + 1] = PsramAfter(q[i], y[i])
  <2>1. x[i] = i - 1 /\ y[i] = m /\ x[i + 1] = i /\ y[i + 1] = m /\ i - 1 < LogRecords
    BY <1>1, <1>4, <1>6, FirmwareAssumption
  <2>2. q[i].do = "append" /\ q[i].s = s /\ q[i].n = i - 1
    BY <1>1, <1>2
  <2>3. Fits(q[i], s, i - 1, m)
    BY <2>1, <2>2 DEF Fits
  <2>4. FlashAfter(q[i], i - 1) = i - 1 + 1 /\ PsramAfter(q[i], m) = m
    BY <2>2 DEF FlashAfter, PsramAfter
  <2>. QED  BY <2>1, <2>3, <2>4
<1>7. ASSUME Roomy
      PROVE  Follows(q, s, 0, m, n, m)
  BY <1>1, <1>4, <1>5, <1>6, <1>7 DEF Follows
<1>. QED  BY <1>3, <1>7 DEF Leads, q

\* A burst of appends to the log in PSRAM.
LEMMA ScratchAppendsLead ==
  ASSUME NEW s, NEW n \in Nat, NEW k \in Int, NEW m \in Nat
  PROVE  Leads([i \in 1 .. n |-> Scratch("scratch_append", 1)], s, k, m, k, m + n)
<1> DEFINE q == [i \in 1 .. n |-> Scratch("scratch_append", 1)]
           x == [i \in 1 .. n + 1 |-> k]
           y == [i \in 1 .. n + 1 |-> m + i - 1]
           a == Scratch("scratch_append", 1)
<1>1. a \in Work /\ a.do = "scratch_append" /\ a.n = 1
  <2>1. "scratch_append" \in Names /\ 0 \in Subjects /\ 1 \in Nat /\ "scratch_append" \notin {"return", "restart"}
    BY DEF Names, Subjects, Scenarios, kScenarioCount
  <2>. QED  BY <2>1, OpIsTyped DEF Scratch
<1>2. Len(q) = n /\ \A i \in 1 .. n : q[i] = a
  OBVIOUS
<1>3. q \in Seq(Work)
  BY <1>1
<1>4. x \in [1 .. n + 1 -> Int] /\ y \in [1 .. n + 1 -> Nat]
      /\ \A i \in 1 .. n + 1 : x[i] = k /\ y[i] = m + i - 1
  OBVIOUS
<1> HIDE DEF q, x, y, a
<1>5. x[1] = k /\ y[1] = m /\ x[n + 1] = k /\ y[n + 1] = m + n
  BY <1>4
<1>6. ASSUME NEW i \in 1 .. Len(q)
      PROVE  /\ Fits(q[i], s, x[i], y[i])
             /\ x[i + 1] = FlashAfter(q[i], x[i]) /\ y[i + 1] = PsramAfter(q[i], y[i])
  <2>1. x[i] = k /\ y[i] = m + i - 1 /\ x[i + 1] = k /\ y[i + 1] = m + i - 1 + 1 /\ q[i] = a
    BY <1>2, <1>4
  <2>. QED  BY <1>1, <2>1 DEF Fits, FlashAfter, PsramAfter
<1>7. Follows(q, s, k, m, k, m + n)
  BY <1>2, <1>4, <1>5, <1>6 DEF Follows
<1>. QED  BY <1>3, <1>7 DEF Leads, q, a

\* The appends of the capacity scenario: only the first is expected to find room.
LEMMA FillsLead ==
  ASSUME NEW s, NEW n \in Nat \ {0}, NEW m \in Nat
  PROVE  Leads([i \in 1 .. n |-> Op("fill", 5, i - 1)], s, 0, m, Unknown, m)
<1> DEFINE q == [i \in 1 .. n |-> Op("fill", 5, i - 1)]
           x == [i \in 1 .. n + 1 |-> IF i = 1 THEN 0 ELSE Unknown]
           y == [i \in 1 .. n + 1 |-> m]
<1>1. Len(q) = n /\ \A i \in 1 .. n : q[i] = Op("fill", 5, i - 1)
  OBVIOUS
<1>2. \A i \in 1 .. n : Op("fill", 5, i - 1) \in Work
                       /\ Op("fill", 5, i - 1).do = "fill" /\ Op("fill", 5, i - 1).n = i - 1
  <2>1. TAKE i \in 1 .. n
  <2>2. "fill" \in Names /\ 5 \in Subjects /\ "fill" \notin {"return", "restart"} /\ i - 1 \in Nat
    BY DEF Names, Subjects, Scenarios, kScenarioCount
  <2>. QED  BY <2>2, OpIsTyped
<1>3. q \in Seq(Work)
  BY <1>2
<1>4. x \in [1 .. n + 1 -> Int] /\ y \in [1 .. n + 1 -> Nat]
      /\ \A i \in 1 .. n + 1 : x[i] = (IF i = 1 THEN 0 ELSE Unknown) /\ y[i] = m
  BY DEF Unknown
<1> HIDE DEF q, x, y
<1>5. x[1] = 0 /\ y[1] = m /\ x[n + 1] = Unknown /\ y[n + 1] = m
  BY <1>4
<1>6. ASSUME NEW i \in 1 .. Len(q)
      PROVE  /\ Fits(q[i], s, x[i], y[i])
             /\ x[i + 1] = FlashAfter(q[i], x[i]) /\ y[i + 1] = PsramAfter(q[i], y[i])
  <2>1. x[i] = (IF i = 1 THEN 0 ELSE Unknown) /\ y[i] = m /\ x[i + 1] = Unknown /\ y[i + 1] = m
    BY <1>1, <1>4
  <2>2. q[i].do = "fill" /\ q[i].n = i - 1
    BY <1>1, <1>2
  <2>3. q[i].n = 0 => x[i] = 0
    BY <2>1, <2>2, <1>1
  <2>. QED  BY <2>1, <2>2, <2>3 DEF Fits, FlashAfter, PsramAfter
<1>7. Follows(q, s, 0, m, Unknown, m)
  BY <1>1, <1>4, <1>5, <1>6 DEF Follows
<1>. QED  BY <1>3, <1>7 DEF Leads, q

\* A reset in front of the rest of a scenario.
LEMMA ResetRuns ==
  ASSUME NEW scn \in Scenarios, NEW s, NEW k \in Int, NEW m \in Nat, NEW q, Runnable(q, scn, s, 0, m)
  PROVE  Runnable(<<Reset>> \o q, scn, s, k, m)
BY ResetLeads, RunsOn

\* Every scenario may report PASS or SKIP, one with several phases nothing.
LEMMA Facts ==
  /\ Unknown \in Int /\ Scenarios \subseteq 0 .. kScenarioCount
  /\ \A scn \in Scenarios : scn \in Int /\ scn \in Nat /\ scn \in 0 .. kScenarioCount /\ "PASS" \in Results(scn) /\ "SKIP" \in Results(scn)
  /\ \A scn \in MultiPhase : scn \in Scenarios /\ "NONE" \in Results(scn)
BY DEF Scenarios, kScenarioCount, Results, Unknown, MultiPhase

\* An operation in front of a script.
LEMMA OneFirst ==
  ASSUME NEW scn \in Scenarios, NEW s, NEW k, NEW m, NEW a, NEW k1, NEW m1,
         Leads(<<a>>, s, k, m, k1, m1)
  PROVE  /\ \A b : Runnable(<<b>>, scn, s, k1, m1) => Runnable(<<a, b>>, scn, s, k, m)
         /\ \A b, c : Runnable(<<b, c>>, scn, s, k1, m1) => Runnable(<<a, b, c>>, scn, s, k, m)
         /\ \A b, c, d : Runnable(<<b, c, d>>, scn, s, k1, m1) => Runnable(<<a, b, c, d>>, scn, s, k, m)
<1>1. ASSUME NEW b, Runnable(<<b>>, scn, s, k1, m1)
      PROVE  Runnable(<<a, b>>, scn, s, k, m)
  <2>1. Runnable(<<a>> \o <<b>>, scn, s, k, m)
    BY <1>1, RunsOn
  <2>. QED  BY <2>1, Pair
<1>2. ASSUME NEW b, NEW c, Runnable(<<b, c>>, scn, s, k1, m1)
      PROVE  Runnable(<<a, b, c>>, scn, s, k, m)
  <2>1. Runnable(<<a>> \o <<b, c>>, scn, s, k, m)
    BY <1>2, RunsOn
  <2>2. <<a, b, c>> = <<a>> \o <<b, c>>
    BY Triple
  <2>. QED  BY <2>1, <2>2, Zenon
<1>3. ASSUME NEW b, NEW c, NEW d, Runnable(<<b, c, d>>, scn, s, k1, m1)
      PROVE  Runnable(<<a, b, c, d>>, scn, s, k, m)
  <2>1. Runnable(<<a>> \o <<b, c, d>>, scn, s, k, m)
    BY <1>3, RunsOn
  <2>2. <<a, b, c, d>> = <<a>> \o <<b, c, d>>
    BY Quadruple
  <2>. QED  BY <2>1, <2>2, Zenon
<1>. QED  BY <1>1, <1>2, <1>3

\* The end most scenarios have: verify, and pass.
LEMMA VerifyRuns ==
  ASSUME NEW scn \in Scenarios, NEW s \in Scenarios, NEW k \in Nat, NEW m \in Nat
  PROVE  Runnable(<<Verify(s, k), Return("PASS")>>, scn, s, k, m)
<1> DEFINE a == Verify(s, k)
           b == Return("PASS")
<1>1. Runnable(<<b>>, scn, s, k, m)
  BY Facts, ReturnRuns
<1>2. Leads(<<a>>, s, k, m, k, m)
  BY VerifyLeads
<1> HIDE DEF a, b
<1>3. Runnable(<<a, b>>, scn, s, k, m)
  BY <1>1, <1>2, OneFirst
<1>. QED  BY <1>3 DEF a, b

\* scenario_empty can be followed from any board.
LEMMA scenario_empty_runs ==
  ASSUME NEW m \in Nat
  PROVE  Runnable(scenario_empty, 0, 0, Unknown, m)
<1> DEFINE a == Reset
           b == Verify(0, 0)
           c == Return("PASS")
<1>1. 0 \in Scenarios
  BY DEF Scenarios, kScenarioCount
<1>2. Runnable(<<b, c>>, 0, 0, 0, m)
  BY <1>1, VerifyRuns
<1>3. Leads(<<a>>, 0, Unknown, m, 0, m)
  BY Facts, ResetLeads
<1> HIDE DEF a, b, c
<1>4. Runnable(<<a, b, c>>, 0, 0, Unknown, m)
  BY <1>1, <1>2, <1>3, OneFirst
<1>. QED  BY <1>4 DEF scenario_empty, a, b, c

\* So can scenario_single_append.
LEMMA scenario_single_append_runs ==
  ASSUME NEW m \in Nat
  PROVE  Runnable(scenario_single_append, 1, 1, Unknown, m)
<1> DEFINE a == Reset
           b == AppendSalt(1, 0)
           c == Verify(1, 1)
           d == Return("PASS")
<1>1. 1 \in Scenarios
  BY DEF Scenarios, kScenarioCount
<1>2. Runnable(<<c, d>>, 1, 1, 1, m)
  BY <1>1, VerifyRuns
<1>3. Leads(<<b>>, 1, 0, m, 1, m)
  <2>1. Roomy => 0 < LogRecords
    BY FirmwareAssumption DEF Roomy
  <2>2. Leads(<<b>>, 1, 0, m, 0 + 1, m)
    BY <1>1, <2>1, AppendLeads
  <2>. QED  BY <2>2
<1>4. Leads(<<a>>, 1, Unknown, m, 0, m)
  BY Facts, ResetLeads
<1> HIDE DEF a, b, c, d
<1>5. Runnable(<<b, c, d>>, 1, 1, 0, m)
  BY <1>1, <1>2, <1>3, OneFirst
<1>6. Runnable(<<a, b, c, d>>, 1, 1, Unknown, m)
  BY <1>1, <1>4, <1>5, OneFirst
<1>. QED  BY <1>6 DEF scenario_single_append, a, b, c, d

\* scenario_reboot_recovery: the second phase wants the record of the first.
LEMMA scenario_reboot_recovery_runs ==
  ASSUME NEW m \in Nat
  PROVE  /\ Runnable(scenario_reboot_recovery(0), 2, 2, Unknown, m)
         /\ \A p \in 1 .. 2 : Runnable(scenario_reboot_recovery(p), 2, 2, 1, m)
<1>1. 2 \in Scenarios /\ 2 \in MultiPhase /\ Kept(2, 1) = 1
  BY DEF Scenarios, kScenarioCount, MultiPhase, Kept
<1>2. Runnable(scenario_reboot_recovery(0), 2, 2, Unknown, m)
  <2> DEFINE a == Reset
             b == AppendSalt(2, 0)
             c == Restart(1)
             d == Return("NONE")
  <2>1. Runnable(<<c, d>>, 2, 2, 1, m)
    BY <1>1, RestartRuns
  <2>2. Leads(<<b>>, 2, 0, m, 1, m)
    <3>1. Roomy => 0 < LogRecords
      BY FirmwareAssumption DEF Roomy
    <3>2. Leads(<<b>>, 2, 0, m, 0 + 1, m)
      BY <1>1, <3>1, AppendLeads
    <3>. QED  BY <3>2
  <2>3. Leads(<<a>>, 2, Unknown, m, 0, m)
    BY Facts, ResetLeads
  <2>4. scenario_reboot_recovery(0) = <<a, b, c, d>>
    BY DEF scenario_reboot_recovery
  <2> HIDE DEF a, b, c, d
  <2>5. Runnable(<<b, c, d>>, 2, 2, 0, m)
    BY <1>1, <2>1, <2>2, OneFirst
  <2>6. Runnable(<<a, b, c, d>>, 2, 2, Unknown, m)
    BY <1>1, <2>3, <2>5, OneFirst
  <2>. QED  BY <2>4, <2>6
<1>3. ASSUME NEW p \in 1 .. 2
      PROVE  Runnable(scenario_reboot_recovery(p), 2, 2, 1, m)
  <2> DEFINE a == Verify(2, 1)
             b == AppendSalt(2, 1)
             c == Verify(2, 2)
             d == Return("PASS")
  <2>1. Runnable(<<c, d>>, 2, 2, 2, m)
    BY <1>1, VerifyRuns
  <2>2. Leads(<<b>>, 2, 1, m, 2, m)
    <3>1. Roomy => 1 < LogRecords
      BY FirmwareAssumption DEF Roomy
    <3>2. Leads(<<b>>, 2, 1, m, 1 + 1, m)
      BY <1>1, <3>1, AppendLeads
    <3>. QED  BY <3>2
  <2>3. Leads(<<a>>, 2, 1, m, 1, m)
    BY <1>1, VerifyLeads
  <2>4. scenario_reboot_recovery(p) = <<a, b, c, d>>
    BY DEF scenario_reboot_recovery
  <2> HIDE DEF a, b, c, d
  <2>5. Runnable(<<b, c, d>>, 2, 2, 1, m)
    BY <1>1, <2>1, <2>2, OneFirst
  <2>6. Runnable(<<a, b, c, d>>, 2, 2, 1, m)
    BY <1>1, <2>3, <2>5, OneFirst
  <2>. QED  BY <2>4, <2>6
<1>. QED  BY <1>2, <1>3

\* The bursts of the scenarios fit a roomy log.
LEMMA BurstIsBounded ==
  \A n \in Nat : AtMostBurst(n) \in Nat /\ (n <= 8 => (Roomy => AtMostBurst(n) <= LogRecords))
BY FirmwareAssumption DEF AtMostBurst, AtMost, Roomy

\* scenario_ordering can be followed from any board.
LEMMA scenario_ordering_runs ==
  ASSUME NEW m \in Nat
  PROVE  Runnable(scenario_ordering, 3, 3, Unknown, m)
<1> DEFINE n == AtMostBurst(3)
           q == <<Verify(3, n), Return("PASS")>>
<1>1. 3 \in Scenarios /\ 3 \in Scenarios
  BY DEF Scenarios, kScenarioCount
<1>2. n \in Nat /\ (Roomy => n <= LogRecords)
  BY BurstIsBounded
<1>3. scenario_ordering = <<Reset>> \o Appends(3, n) \o q
  BY DEF scenario_ordering
<1> HIDE DEF n
<1>4. Runnable(q, 3, 3, n, m)
  BY <1>1, <1>2, VerifyRuns
<1>5. Leads(Appends(3, n), 3, 0, m, n, m)
  BY <1>1, <1>2, AppendsLead
<1>6. Leads(<<Reset>>, 3, Unknown, m, 0, m)
  BY Facts, ResetLeads
<1> HIDE DEF q
<1>7. Leads(<<Reset>> \o Appends(3, n), 3, Unknown, m, n, m)
  BY <1>5, <1>6, LeadsOn
<1>8. Runnable(<<Reset>> \o Appends(3, n) \o q, 3, 3, Unknown, m)
  BY <1>1, <1>4, <1>7, RunsOn
<1>. QED  BY <1>3, <1>8

\* So can scenario_payload_sizes.
LEMMA scenario_payload_sizes_runs ==
  ASSUME NEW m \in Nat
  PROVE  Runnable(scenario_payload_sizes, 4, 4, Unknown, m)
<1> DEFINE n == AtMostBurst(7)
           q == <<Verify(4, n), Return("PASS")>>
<1>1. 4 \in Scenarios /\ 4 \in Scenarios
  BY DEF Scenarios, kScenarioCount
<1>2. n \in Nat /\ (Roomy => n <= LogRecords)
  BY BurstIsBounded
<1>3. scenario_payload_sizes = <<Reset>> \o Appends(4, n) \o q
  BY DEF scenario_payload_sizes
<1> HIDE DEF n
<1>4. Runnable(q, 4, 4, n, m)
  BY <1>1, <1>2, VerifyRuns
<1>5. Leads(Appends(4, n), 4, 0, m, n, m)
  BY <1>1, <1>2, AppendsLead
<1>6. Leads(<<Reset>>, 4, Unknown, m, 0, m)
  BY Facts, ResetLeads
<1> HIDE DEF q
<1>7. Leads(<<Reset>> \o Appends(4, n), 4, Unknown, m, n, m)
  BY <1>5, <1>6, LeadsOn
<1>8. Runnable(<<Reset>> \o Appends(4, n) \o q, 4, 4, Unknown, m)
  BY <1>1, <1>4, <1>7, RunsOn
<1>. QED  BY <1>3, <1>8

\* So can scenario_capacity_boundary.
LEMMA scenario_capacity_boundary_runs ==
  ASSUME NEW m \in Nat
  PROVE  Runnable(scenario_capacity_boundary, 5, 5, Unknown, m)
<1> DEFINE n == AtMost(LogRecords + 1, 32)
           b == [i \in 1 .. n |-> Op("fill", 5, i - 1)]
           q == <<Return("PASS")>>
<1>1. 5 \in Scenarios
  BY DEF Scenarios, kScenarioCount
<1>2. n \in Nat \ {0}
  BY FirmwareAssumption DEF AtMost
<1>3. scenario_capacity_boundary = <<Reset>> \o b \o q
  BY DEF scenario_capacity_boundary
<1> HIDE DEF n
<1>4. Runnable(q, 5, 5, Unknown, m)
  BY <1>1, Facts, ReturnRuns
<1>5. Leads(b, 5, 0, m, Unknown, m)
  BY <1>2, FillsLead
<1>6. Leads(<<Reset>>, 5, Unknown, m, 0, m)
  BY Facts, ResetLeads
<1> HIDE DEF b, q
<1>7. Leads(<<Reset>> \o b, 5, Unknown, m, Unknown, m)
  BY <1>5, <1>6, LeadsOn
<1>8. Runnable(<<Reset>> \o b \o q, 5, 5, Unknown, m)
  BY <1>1, <1>4, <1>7, RunsOn
<1>. QED  BY <1>3, <1>8

\* A scenario that is skipped.
LEMMA SkipRuns ==
  ASSUME NEW scn \in Scenarios, NEW k \in Int, NEW m \in Nat
  PROVE  Runnable(<<Return("SKIP")>>, scn, scn, k, m)
BY Facts, ReturnRuns

\* scenario_interrupted_append: the second phase wants an empty log.
LEMMA scenario_interrupted_append_runs ==
  ASSUME NEW m \in Nat, NEW faults \in BOOLEAN
  PROVE  /\ Runnable(scenario_interrupted_append(0, faults), 6, 6, Unknown, m)
         /\ \A p \in 1 .. 2 : Runnable(scenario_interrupted_append(p, faults), 6, 6, 0, m)
<1>1. 6 \in Scenarios /\ 6 \in MultiPhase /\ Kept(6, 1) = 0
  BY DEF Scenarios, kScenarioCount, MultiPhase, Kept
<1>2. CASE ~faults
  <2>1. \A p : scenario_interrupted_append(p, faults) = <<Return("SKIP")>>
    BY <1>2 DEF scenario_interrupted_append
  <2>2. Runnable(<<Return("SKIP")>>, 6, 6, Unknown, m) /\ Runnable(<<Return("SKIP")>>, 6, 6, 0, m)
    BY <1>1, Facts, SkipRuns
  <2>. QED  BY <2>1, <2>2
<1>3. CASE faults
  <2>1. Runnable(scenario_interrupted_append(0, faults), 6, 6, Unknown, m)
    <3> DEFINE a == Reset
               b == Restart(1)
               c == Return("NONE")
    <3>1. Runnable(<<b, c>>, 6, 6, 0, m)
      BY <1>1, RestartRuns
    <3>2. Leads(<<a>>, 6, Unknown, m, 0, m)
      BY Facts, ResetLeads
    <3>3. scenario_interrupted_append(0, faults) = <<a, b, c>>
      BY <1>3 DEF scenario_interrupted_append
    <3> HIDE DEF a, b, c
    <3>4. Runnable(<<a, b, c>>, 6, 6, Unknown, m)
      BY <1>1, <3>1, <3>2, OneFirst
    <3>. QED  BY <3>3, <3>4
  <2>2. ASSUME NEW p \in 1 .. 2
        PROVE  Runnable(scenario_interrupted_append(p, faults), 6, 6, 0, m)
    <3> DEFINE a == AppendSalt(6, 0)
               b == Verify(6, 1)
               c == Return("PASS")
    <3>1. Runnable(<<b, c>>, 6, 6, 1, m)
      BY <1>1, VerifyRuns
    <3>2. Leads(<<a>>, 6, 0, m, 1, m)
      <4>1. Roomy => 0 < LogRecords
        BY FirmwareAssumption DEF Roomy
      <4>2. Leads(<<a>>, 6, 0, m, 0 + 1, m)
        BY <1>1, <4>1, AppendLeads
      <4>. QED  BY <4>2
    <3>3. scenario_interrupted_append(p, faults) = <<a, b, c>>
      BY <1>3 DEF scenario_interrupted_append
    <3> HIDE DEF a, b, c
    <3>4. Runnable(<<a, b, c>>, 6, 6, 0, m)
      BY <1>1, <3>1, <3>2, OneFirst
    <3>. QED  BY <3>3, <3>4
  <2>. QED  BY <2>1, <2>2
<1>. QED  BY <1>2, <1>3

\* scenario_repeated_reboot: each phase wants the records of those before it.
LEMMA scenario_repeated_reboot_runs ==
  ASSUME NEW m \in Nat
  PROVE  /\ Runnable(scenario_repeated_reboot(0), 7, 7, Unknown, m)
         /\ Runnable(scenario_repeated_reboot(1), 7, 7, 1, m)
         /\ Runnable(scenario_repeated_reboot(2), 7, 7, 2, m)
<1>1. 7 \in Scenarios /\ 7 \in MultiPhase /\ Kept(7, 1) = 1 /\ Kept(7, 2) = 2
  BY DEF Scenarios, kScenarioCount, MultiPhase, Kept
<1>2. Runnable(scenario_repeated_reboot(0), 7, 7, Unknown, m)
  <2> DEFINE a == Reset
             b == AppendSalt(7, 0)
             c == Restart(1)
             d == Return("NONE")
  <2>1. Runnable(<<c, d>>, 7, 7, 1, m)
    BY <1>1, RestartRuns
  <2>2. Leads(<<b>>, 7, 0, m, 1, m)
    <3>1. Roomy => 0 < LogRecords
      BY FirmwareAssumption DEF Roomy
    <3>2. Leads(<<b>>, 7, 0, m, 0 + 1, m)
      BY <1>1, <3>1, AppendLeads
    <3>. QED  BY <3>2
  <2>3. Leads(<<a>>, 7, Unknown, m, 0, m)
    BY Facts, ResetLeads
  <2>4. scenario_repeated_reboot(0) = <<a, b, c, d>>
    BY DEF scenario_repeated_reboot
  <2> HIDE DEF a, b, c, d
  <2>5. Runnable(<<b, c, d>>, 7, 7, 0, m)
    BY <1>1, <2>1, <2>2, OneFirst
  <2>6. Runnable(<<a, b, c, d>>, 7, 7, Unknown, m)
    BY <1>1, <2>3, <2>5, OneFirst
  <2>. QED  BY <2>4, <2>6
<1>3. Runnable(scenario_repeated_reboot(1), 7, 7, 1, m)
  <2> DEFINE a == Verify(7, 1)
             b == AppendSalt(7, 1)
             c == Restart(2)
             d == Return("NONE")
  <2>1. Runnable(<<c, d>>, 7, 7, 2, m)
    BY <1>1, RestartRuns
  <2>2. Leads(<<b>>, 7, 1, m, 2, m)
    <3>1. Roomy => 1 < LogRecords
      BY FirmwareAssumption DEF Roomy
    <3>2. Leads(<<b>>, 7, 1, m, 1 + 1, m)
      BY <1>1, <3>1, AppendLeads
    <3>. QED  BY <3>2
  <2>3. Leads(<<a>>, 7, 1, m, 1, m)
    BY <1>1, VerifyLeads
  <2>4. scenario_repeated_reboot(1) = <<a, b, c, d>>
    BY DEF scenario_repeated_reboot
  <2> HIDE DEF a, b, c, d
  <2>5. Runnable(<<b, c, d>>, 7, 7, 1, m)
    BY <1>1, <2>1, <2>2, OneFirst
  <2>6. Runnable(<<a, b, c, d>>, 7, 7, 1, m)
    BY <1>1, <2>3, <2>5, OneFirst
  <2>. QED  BY <2>4, <2>6
<1>4. Runnable(scenario_repeated_reboot(2), 7, 7, 2, m)
  <2>1. scenario_repeated_reboot(2) = <<Verify(7, 2), Return("PASS")>>
    BY DEF scenario_repeated_reboot
  <2>. QED  BY <1>1, <2>1, VerifyRuns
<1>. QED  BY <1>2, <1>3, <1>4

\* scenario_disconnect_stress can be followed from any board.
LEMMA scenario_disconnect_stress_runs ==
  ASSUME NEW m \in Nat, NEW faults \in BOOLEAN
  PROVE  Runnable(scenario_disconnect_stress(faults), 8, 8, Unknown, m)
<1> DEFINE n == AtMostBurst(4)
           q == <<Return("PASS")>>
<1>1. 8 \in Scenarios
  BY DEF Scenarios, kScenarioCount
<1>2. CASE ~faults
  <2>1. scenario_disconnect_stress(faults) = <<Return("SKIP")>>
    BY <1>2 DEF scenario_disconnect_stress
  <2>. QED  BY <1>1, <2>1, Facts, SkipRuns
<1>3. CASE faults
  <2>1. n \in Nat /\ (Roomy => n <= LogRecords)
    BY BurstIsBounded
  <2>2. scenario_disconnect_stress(faults) = <<Reset>> \o Appends(8, n) \o q
    BY <1>3 DEF scenario_disconnect_stress
  <2> HIDE DEF n
  <2>3. Runnable(q, 8, 8, n, m)
    BY <1>1, <2>1, Facts, ReturnRuns
  <2>4. Leads(Appends(8, n), 8, 0, m, n, m)
    BY <1>1, <2>1, AppendsLead
  <2>5. Leads(<<Reset>>, 8, Unknown, m, 0, m)
    BY Facts, ResetLeads
  <2> HIDE DEF q
  <2>6. Leads(<<Reset>> \o Appends(8, n), 8, Unknown, m, n, m)
    BY <2>4, <2>5, LeadsOn
  <2>7. Runnable(<<Reset>> \o Appends(8, n) \o q, 8, 8, Unknown, m)
    BY <1>1, <2>3, <2>6, RunsOn
  <2>. QED  BY <2>2, <2>7
<1>. QED  BY <1>2, <1>3

\* So can scenario_endurance, whose records carry the salt of another scenario.
LEMMA scenario_endurance_runs ==
  ASSUME NEW m \in Nat
  PROVE  Runnable(scenario_endurance, 12, 9, Unknown, m)
<1> DEFINE n == AtMostBurst(8)
           q == <<Return("PASS")>>
<1>1. 12 \in Scenarios /\ 9 \in Scenarios
  BY DEF Scenarios, kScenarioCount
<1>2. n \in Nat /\ (Roomy => n <= LogRecords)
  BY BurstIsBounded
<1>3. scenario_endurance = <<Reset>> \o Appends(9, n) \o q
  BY DEF scenario_endurance
<1> HIDE DEF n
<1>4. Runnable(q, 12, 9, n, m)
  BY <1>1, <1>2, Facts, ReturnRuns
<1>5. Leads(Appends(9, n), 9, 0, m, n, m)
  BY <1>1, <1>2, AppendsLead
<1>6. Leads(<<Reset>>, 9, Unknown, m, 0, m)
  BY Facts, ResetLeads
<1> HIDE DEF q
<1>7. Leads(<<Reset>> \o Appends(9, n), 9, Unknown, m, n, m)
  BY <1>5, <1>6, LeadsOn
<1>8. Runnable(<<Reset>> \o Appends(9, n) \o q, 12, 9, Unknown, m)
  BY <1>1, <1>4, <1>7, RunsOn
<1>. QED  BY <1>3, <1>8

\* The logs in PSRAM.
LEMMA ScratchLogLeads ==
  ASSUME NEW n \in Nat, NEW s, NEW k \in Int, NEW m \in Nat
  PROVE  Leads(ScratchLog(n), s, k, m, k, n)
<1> DEFINE a == Scratch("scratch_format", 0)
           q == [i \in 1 .. n |-> Scratch("scratch_append", 1)]
<1>1. Leads(<<a>>, s, k, m, k, 0)
  <2>1. "scratch_format" \in Names
    BY DEF Names
  <2>. QED  BY <2>1, ScratchLeads
<1>2. Leads(q, s, k, 0, k, n)
  <2>1. Leads(q, s, k, 0, k, 0 + n)
    BY ScratchAppendsLead
  <2>2. 0 + n = n
    OBVIOUS
  <2> HIDE DEF q
  <2>. QED  BY <2>1, <2>2
<1>3. ScratchLog(n) = <<a>> \o q
  BY DEF ScratchLog
<1> HIDE DEF a, q
<1>. QED  BY <1>1, <1>2, <1>3, LeadsOn

\* The log in PSRAM holds what was appended to it.
LEMMA ScratchVerifyLeads ==
  ASSUME NEW n \in Nat, NEW s, NEW k \in Int
  PROVE  /\ Leads(<<Scratch("scratch_verify", n)>>, s, k, n, k, n)
         /\ Leads(<<Scratch("wrap_verify", n)>>, s, k, n, k, n)
<1>1. "scratch_verify" \in Names /\ "wrap_verify" \in Names
  BY DEF Names
<1>. QED  BY <1>1, ScratchLeads

\* An append abandoned at a failpoint leaves its record only behind the first
\* superblock copy.
LEMMA FailpointLeads ==
  ASSUME NEW s, NEW k \in Int, NEW m \in Nat
  PROVE  /\ Leads(<<failpoint("wrap")>>, s, k, m, k, m)
         /\ Leads(<<failpoint("data_commit")>>, s, k, m, k, m)
         /\ Leads(<<failpoint("superblock_publish")>>, s, k, m, k, m + 1)
<1>1. "failpoint" \in Names
  BY DEF Names
<1>2. /\ failpoint("wrap") = Scratch("failpoint", 0) /\ failpoint("data_commit") = Scratch("failpoint", 0)
      /\ failpoint("superblock_publish") = Scratch("failpoint", 1)
  BY DEF failpoint
<1>3. Leads(<<Scratch("failpoint", 0)>>, s, k, m, k, m + 0)
  BY <1>1, ScratchLeads
<1>4. Leads(<<Scratch("failpoint", 1)>>, s, k, m, k, m + 1)
  BY <1>1, ScratchLeads
<1>5. m + 0 = m
  OBVIOUS
<1>. QED  BY <1>2, <1>3, <1>4, <1>5

\* Each failpoint, with the check of what it left.
LEMMA FailpointChecked ==
  ASSUME NEW s, NEW k \in Int, NEW m \in Nat
  PROVE  /\ Leads(<<failpoint("wrap"), Scratch("wrap_verify", m)>>, s, k, m, k, m)
         /\ Leads(<<failpoint("data_commit"), Scratch("scratch_verify", m)>>, s, k, m, k, m)
         /\ Leads(<<failpoint("superblock_publish"), Scratch("scratch_verify", m + 1)>>, s, k, m, k, m + 1)
<1> DEFINE a == failpoint("wrap")
           b == failpoint("data_commit")
           c == failpoint("superblock_publish")
           u == Scratch("wrap_verify", m)
           v == Scratch("scratch_verify", m)
           w == Scratch("scratch_verify", m + 1)
<1>1. Leads(<<a>>, s, k, m, k, m) /\ Leads(<<b>>, s, k, m, k, m) /\ Leads(<<c>>, s, k, m, k, m + 1)
  BY FailpointLeads
<1>2. Leads(<<u>>, s, k, m, k, m) /\ Leads(<<v>>, s, k, m, k, m) /\ Leads(<<w>>, s, k, m + 1, k, m + 1)
  <2>1. m + 1 \in Nat
    OBVIOUS
  <2>. QED  BY <2>1, ScratchVerifyLeads
<1> HIDE DEF a, b, c, u, v, w
<1>3. Leads(<<a>> \o <<u>>, s, k, m, k, m) /\ Leads(<<b>> \o <<v>>, s, k, m, k, m)
      /\ Leads(<<c>> \o <<w>>, s, k, m, k, m + 1)
  BY <1>1, <1>2, LeadsOn
<1>4. Leads(<<a, u>>, s, k, m, k, m) /\ Leads(<<b, v>>, s, k, m, k, m) /\ Leads(<<c, w>>, s, k, m, k, m + 1)
  BY <1>3, Pair
<1>. QED  BY <1>4 DEF a, b, c, u, v, w

\* scenario_corruption_detection checks for just those records.
LEMMA scenario_corruption_detection_runs ==
  ASSUME NEW m \in Nat, NEW faults \in BOOLEAN
  PROVE  Runnable(scenario_corruption_detection(faults), 9, 9, Unknown, m)
<1>1. 9 \in Scenarios
  BY DEF Scenarios, kScenarioCount
<1>2. CASE ~faults \/ ~PsramReady
  <2>1. scenario_corruption_detection(faults) = <<Return("SKIP")>>
    BY <1>2 DEF scenario_corruption_detection
  <2>. QED  BY <1>1, <2>1, Facts, SkipRuns
<1>3. CASE faults /\ PsramReady
  <2> DEFINE n == AtMostBurst(7)
             a == <<Scratch("scratch_alloc", 0)>>
             b == ScratchLog(n)
             c == <<failpoint("wrap"), Scratch("wrap_verify", n)>>
             d == ScratchLog(1)
             e == <<failpoint("data_commit"), Scratch("scratch_verify", 1)>>
             g == <<failpoint("superblock_publish"), Scratch("scratch_verify", 2)>>
             r == <<Return("PASS")>>
  <2>1. n \in Nat
    BY BurstIsBounded
  <2>2. scenario_corruption_detection(faults) = a \o b \o c \o d \o e \o d \o g \o r
    BY <1>3 DEF scenario_corruption_detection
  <2> HIDE DEF n
  <2>3. Leads(a, 9, Unknown, m, Unknown, 0)
    <3>1. "scratch_alloc" \in Names
      BY DEF Names
    <3>. QED  BY <3>1, Facts, ScratchLeads
  <2>4. Leads(b, 9, Unknown, 0, Unknown, n)
    BY <2>1, Facts, ScratchLogLeads
  <2>5. Leads(c, 9, Unknown, n, Unknown, n)
    BY <2>1, Facts, FailpointChecked
  <2>6. \A x \in Nat : Leads(d, 9, Unknown, x, Unknown, 1)
    BY Facts, ScratchLogLeads
  <2>7. Leads(e, 9, Unknown, 1, Unknown, 1)
    BY Facts, FailpointChecked
  <2>8. Leads(g, 9, Unknown, 1, Unknown, 2)
    <3>1. Leads(<<failpoint("superblock_publish"), Scratch("scratch_verify", 1 + 1)>>, 9, Unknown, 1, Unknown, 1 + 1)
      BY Facts, FailpointChecked
    <3>2. 1 + 1 = 2
      OBVIOUS
    <3>. QED  BY <3>1, <3>2
  <2>9. Runnable(r, 9, 9, Unknown, 2)
    BY <1>1, Facts, ReturnRuns
  <2> HIDE DEF a, b, c, d, e, g, r
  <2>10. Leads(a \o b, 9, Unknown, m, Unknown, n)
    BY <2>3, <2>4, LeadsOn
  <2>11. Leads(a \o b \o c, 9, Unknown, m, Unknown, n)
    BY <2>5, <2>10, LeadsOn
  <2>12. Leads(a \o b \o c \o d, 9, Unknown, m, Unknown, 1)
    BY <2>1, <2>6, <2>11, LeadsOn
  <2>13. Leads(a \o b \o c \o d \o e, 9, Unknown, m, Unknown, 1)
    BY <2>7, <2>12, LeadsOn
  <2>14. Leads(a \o b \o c \o d \o e \o d, 9, Unknown, m, Unknown, 1)
    BY <2>6, <2>13, LeadsOn
  <2>15. Leads(a \o b \o c \o d \o e \o d \o g, 9, Unknown, m, Unknown, 2)
    BY <2>8, <2>14, LeadsOn
  <2>16. Runnable(a \o b \o c \o d \o e \o d \o g \o r, 9, 9, Unknown, m)
    BY <1>1, <2>9, <2>15, RunsOn
  <2>. QED  BY <2>2, <2>16
<1>. QED  BY <1>2, <1>3

\* scenario_psram_api_smoke can be followed from any board.
LEMMA scenario_psram_api_smoke_runs ==
  ASSUME NEW m \in Nat
  PROVE  Runnable(scenario_psram_api_smoke, 10, 10, Unknown, m)
<1>1. 10 \in Scenarios
  BY DEF Scenarios, kScenarioCount
<1>2. CASE ~PsramReady
  <2>1. scenario_psram_api_smoke = <<Return("SKIP")>>
    BY <1>2 DEF scenario_psram_api_smoke
  <2>. QED  BY <1>1, <2>1, Facts, SkipRuns
<1>3. CASE PsramReady
  <2> DEFINE n == AtMostBurst(7)
             l == AtMostBurst(9)
             a == <<Scratch("scratch_alloc", 0)>>
             b == ScratchLog(n)
             v == Scratch("scratch_verify", n)
             d == ScratchLog(l)
             w == Scratch("scratch_verify", l)
             r == Return("PASS")
  <2>1. n \in Nat /\ l \in Nat
    BY BurstIsBounded
  <2>2. scenario_psram_api_smoke = a \o b \o <<v>> \o d \o <<w, r>>
    BY <1>3 DEF scenario_psram_api_smoke
  <2> HIDE DEF n, l
  <2>3. Leads(a, 10, Unknown, m, Unknown, 0)
    <3>1. "scratch_alloc" \in Names
      BY DEF Names
    <3>. QED  BY <3>1, Facts, ScratchLeads
  <2>4. Leads(b, 10, Unknown, 0, Unknown, n)
    BY <2>1, Facts, ScratchLogLeads
  <2>5. Leads(<<v>>, 10, Unknown, n, Unknown, n)
    BY <2>1, Facts, ScratchVerifyLeads
  <2>6. Leads(d, 10, Unknown, n, Unknown, l)
    BY <2>1, Facts, ScratchLogLeads
  <2>7. Leads(<<w>>, 10, Unknown, l, Unknown, l)
    BY <2>1, Facts, ScratchVerifyLeads
  <2>8. Runnable(<<r>>, 10, 10, Unknown, l)
    BY <1>1, <2>1, Facts, ReturnRuns
  <2> HIDE DEF a, b, v, d, w, r
  <2>9. Runnable(<<w, r>>, 10, 10, Unknown, l)
    BY <1>1, <2>7, <2>8, OneFirst
  <2>10. Leads(a \o b, 10, Unknown, m, Unknown, n)
    BY <2>3, <2>4, LeadsOn
  <2>11. Leads(a \o b \o <<v>>, 10, Unknown, m, Unknown, n)
    BY <2>5, <2>10, LeadsOn
  <2>12. Leads(a \o b \o <<v>> \o d, 10, Unknown, m, Unknown, l)
    BY <2>6, <2>11, LeadsOn
  <2>13. Runnable(a \o b \o <<v>> \o d \o <<w, r>>, 10, 10, Unknown, m)
    BY <1>1, <2>9, <2>12, RunsOn
  <2>. QED  BY <2>2, <2>13
<1>. QED  BY <1>2, <1>3

\* So can scenario_sd_api_smoke.
LEMMA scenario_sd_api_smoke_runs ==
  ASSUME NEW m \in Nat
  PROVE  Runnable(scenario_sd_api_smoke, 11, 11, Unknown, m)
<1>1. 11 \in Scenarios
  BY DEF Scenarios, kScenarioCount
<1>2. CASE ~SdReady
  <2>1. scenario_sd_api_smoke = <<Return("SKIP")>>
    BY <1>2 DEF scenario_sd_api_smoke
  <2>. QED  BY <1>1, <2>1, Facts, SkipRuns
<1>3. CASE SdReady
  <2> DEFINE a == Scratch("sd_test", 0)
             b == Scratch("sd_append", 0)
             c == Scratch("sd_read", 0)
             d == Return("PASS")
  <2>1. scenario_sd_api_smoke = <<a, b, c, d>>
    BY <1>3 DEF scenario_sd_api_smoke
  <2>2. "sd_test" \in Names /\ "sd_append" \in Names /\ "sd_read" \in Names
    BY DEF Names
  <2>3. Leads(<<a>>, 11, Unknown, m, Unknown, m)
    BY <2>2, Facts, ScratchLeads
  <2>4. Leads(<<b>>, 11, Unknown, m, Unknown, m)
    BY <2>2, Facts, ScratchLeads
  <2>5. Leads(<<c>>, 11, Unknown, m, Unknown, m)
    BY <2>2, Facts, ScratchLeads
  <2>6. Runnable(<<d>>, 11, 11, Unknown, m)
    BY <1>1, Facts, ReturnRuns
  <2> HIDE DEF a, b, c, d
  <2>7. Runnable(<<c, d>>, 11, 11, Unknown, m)
    BY <1>1, <2>5, <2>6, OneFirst
  <2>8. Runnable(<<b, c, d>>, 11, 11, Unknown, m)
    BY <1>1, <2>4, <2>7, OneFirst
  <2>9. Runnable(<<a, b, c, d>>, 11, 11, Unknown, m)
    BY <1>1, <2>3, <2>8, OneFirst
  <2>. QED  BY <2>1, <2>9
<1>. QED  BY <1>2, <1>3

\* Whatever the state, what runs next is a script of its scenario.
LEMMA ScenarioIsScript ==
  ASSUME ram \in PersistedState
  PROVE  Script(run_current_scenario, ram.scn)
<1>1. ram.scn \in 0 .. 13 /\ ram.phase \in 0 .. 2 /\ ram.faults \in BOOLEAN
  BY DEF PersistedState, kScenarioCount
<1>2. ram.phase = 0 \/ ram.phase \in 1 .. 2
  BY <1>1
<1>3. ram.phase = 0 \/ ram.phase = 1 \/ ram.phase = 2
  BY <1>1
<1> DEFINE q == run_current_scenario
<1>4. CASE ram.scn = 0
  <2>1. q = scenario_empty
    BY <1>4 DEF run_current_scenario
  <2>. QED  BY <1>4, <2>1, scenario_empty_runs DEF Runnable
<1>5. CASE ram.scn = 1
  <2>1. q = scenario_single_append
    BY <1>5 DEF run_current_scenario
  <2>. QED  BY <1>5, <2>1, scenario_single_append_runs DEF Runnable
<1>6. CASE ram.scn = 2
  <2>1. q = scenario_reboot_recovery(ram.phase)
    BY <1>6 DEF run_current_scenario
  <2>. QED  BY <1>2, <1>6, <2>1, scenario_reboot_recovery_runs DEF Runnable
<1>7. CASE ram.scn = 3
  <2>1. q = scenario_ordering
    BY <1>7 DEF run_current_scenario
  <2>. QED  BY <1>7, <2>1, scenario_ordering_runs DEF Runnable
<1>8. CASE ram.scn = 4
  <2>1. q = scenario_payload_sizes
    BY <1>8 DEF run_current_scenario
  <2>. QED  BY <1>8, <2>1, scenario_payload_sizes_runs DEF Runnable
<1>9. CASE ram.scn = 5
  <2>1. q = scenario_capacity_boundary
    BY <1>9 DEF run_current_scenario
  <2>. QED  BY <1>9, <2>1, scenario_capacity_boundary_runs DEF Runnable
<1>10. CASE ram.scn = 6
  <2>1. q = scenario_interrupted_append(ram.phase, ram.faults)
    BY <1>10 DEF run_current_scenario
  <2>. QED  BY <1>1, <1>2, <1>10, <2>1, scenario_interrupted_append_runs DEF Runnable
<1>11. CASE ram.scn = 7
  <2>1. q = scenario_repeated_reboot(ram.phase)
    BY <1>11 DEF run_current_scenario
  <2>. QED  BY <1>3, <1>11, <2>1, scenario_repeated_reboot_runs DEF Runnable
<1>12. CASE ram.scn = 8
  <2>1. q = scenario_disconnect_stress(ram.faults)
    BY <1>12 DEF run_current_scenario
  <2>. QED  BY <1>1, <1>12, <2>1, scenario_disconnect_stress_runs DEF Runnable
<1>13. CASE ram.scn = 9
  <2>1. q = scenario_corruption_detection(ram.faults)
    BY <1>13 DEF run_current_scenario
  <2>. QED  BY <1>1, <1>13, <2>1, scenario_corruption_detection_runs DEF Runnable
<1>14. CASE ram.scn = 10
  <2>1. q = scenario_psram_api_smoke
    BY <1>14 DEF run_current_scenario
  <2>. QED  BY <1>14, <2>1, scenario_psram_api_smoke_runs DEF Runnable
<1>15. CASE ram.scn = 11
  <2>1. q = scenario_sd_api_smoke
    BY <1>15 DEF run_current_scenario
  <2>. QED  BY <1>15, <2>1, scenario_sd_api_smoke_runs DEF Runnable
<1>16. CASE ram.scn = 12
  <2>1. q = scenario_endurance
    BY <1>16 DEF run_current_scenario
  <2>. QED  BY <1>16, <2>1, scenario_endurance_runs DEF Runnable
<1>17. CASE ram.scn = 13
  <2>1. q = <<Return("NONE")>>
    BY <1>17 DEF run_current_scenario
  <2>2. 13 \in 0 .. kScenarioCount /\ "NONE" \in Results(13)
    BY DEF kScenarioCount, Results
  <2>. QED  BY <1>17, <2>1, <2>2, ReturnScript
<1>. QED
  BY <1>1, <1>4, <1>5, <1>6, <1>7, <1>8, <1>9, <1>10, <1>11, <1>12, <1>13, <1>14, <1>15, <1>16, <1>17

-----------------------------------------------------------------------------
(* The invariant *)

Typed ==
  /\ nv \in PersistedState /\ ram \in PersistedState
  /\ app \in [on : BOOLEAN, ready : BOOLEAN, done : BOOLEAN]
  /\ log.state \in {"blank", "clean", "dirty"}
  /\ scratch \in Nat /\ now \in Nat
  /\ said \in [reported : SUBSET Scenarios, failed : BOOLEAN, lost : BOOLEAN,
                verdict : {"NONE", "PASS", "FAIL"}]
  /\ used \in [faults : Nat, cuts : Nat]

\* Only a board that is on runs something, and it runs the scenario it is at.
Scripted == todo # <<>> => app.on /\ Script(todo, ram.scn)

\* Where the session is and what it counted is saved in the step that changes
\* it; a failure alone lives in RAM until the next save.
Booked == ram.scn = nv.scn /\ ram.phase = nv.phase /\ ram.pass = nv.pass /\ ram.skip = nv.skip

\* An outcome is counted, told and left behind in one step.
Tally ==
  /\ \A s \in said.reported : s < nv.scn
  /\ nv.pass + nv.skip = Cardinality(said.reported)

Failures == said.failed /\ ~said.lost => ram.fail /\ (~app.on => nv.fail)

\* Behind the last scenario nothing can fail any more.
Verdicts ==
  /\ ram.scn = kScenarioCount => ram.fail = nv.fail
  /\ said.verdict # "NONE" =>
       nv.scn = kScenarioCount /\ said.verdict = IF nv.fail THEN "FAIL" ELSE "PASS"

IInv ==
  Typed /\ Scripted /\ Booked /\ NoneSkippedSilently /\ Tally /\ Failures /\ Verdicts

\* A new board: no blob, nothing counted, nothing told.
LEMMA InitInv == Init => IInv
<1> SUFFICES ASSUME Init PROVE IInv
  OBVIOUS
<1>1. Typed
  BY FirmwareAssumption
  DEF Init, Typed, Defaults, PersistedState, Blank, Unmounted, Log, kScenarioCount
<1>2. Scripted /\ Booked /\ Failures
  BY DEF Init, Scripted, Booked, Failures, Defaults
<1>3. NoneSkippedSilently
  BY DEF Init, NoneSkippedSilently, Defaults, Scenarios, kScenarioCount
<1>4. Tally
  BY FS_EmptySet DEF Init, Tally, Defaults
<1>5. Verdicts
  BY DEF Init, Verdicts, Defaults, kScenarioCount
<1>. QED  BY <1>1, <1>2, <1>3, <1>4, <1>5 DEF IInv

\* An operation of a scenario, whatever it does to the logs: it succeeds, is
\* the last of a loop, or fails.
OneOperation ==
  /\ Proceeds \/ (todo' = <<todo[Len(todo)]>> /\ UNCHANGED <<ram, said>>) \/ Fails
  /\ UNCHANGED <<nv, app, now>>
  /\ log'.state \in {"blank", "clean", "dirty"} /\ scratch' \in Nat
  /\ used' \in [faults : Nat, cuts : Nat]

\* An operation of a scenario changes nothing that is saved.
LEMMA OperationInv ==
  ASSUME IInv, app.on, todo # <<>>, Head(todo).do # "return", OneOperation
  PROVE  IInv'
<1>1. Script(todo, ram.scn) /\ ram.scn # kScenarioCount
  <2>1. Script(todo, ram.scn)
    BY DEF IInv, Scripted
  <2>. QED  BY <2>1, ReturnIsLast
<1>2. /\ ram' \in PersistedState /\ ram'.scn = ram.scn /\ ram'.phase = ram.phase
      /\ ram'.pass = ram.pass /\ ram'.skip = ram.skip
      /\ ram'.fail = ram.fail \/ ram'.fail = TRUE
  <2>1. CASE ram' = ram
    BY <2>1 DEF IInv, Typed
  <2>2. CASE ram' = [ram EXCEPT !.fail = TRUE, !.last = "FAIL"]
    BY <2>2 DEF IInv, Typed, PersistedState
  <2>. QED  BY <2>1, <2>2 DEF OneOperation, Proceeds, Fails
<1>3. /\ said' \in [reported : SUBSET Scenarios, failed : BOOLEAN, lost : BOOLEAN,
                     verdict : {"NONE", "PASS", "FAIL"}]
      /\ said'.reported = said.reported /\ said'.lost = said.lost /\ said'.verdict = said.verdict
      /\ said'.failed = said.failed \/ ram'.fail
  <2>1. CASE said' = said
    BY <2>1 DEF IInv, Typed
  <2>2. CASE said' = [said EXCEPT !.failed = TRUE] /\ ram' = [ram EXCEPT !.fail = TRUE, !.last = "FAIL"]
    BY <2>2 DEF IInv, Typed, PersistedState
  <2>. QED  BY <2>1, <2>2 DEF OneOperation, Proceeds, Fails
<1>4. nv' = nv /\ app' = app /\ now' = now
  BY DEF OneOperation
<1>5. Typed'
  BY <1>2, <1>3, <1>4 DEF IInv, Typed, OneOperation
<1>6. Scripted'
  <2>1. Script(Tail(todo), ram.scn) /\ Script(<<todo[Len(todo)]>>, ram.scn)
    BY <1>1, ScriptGoesOn
  <2>2. todo' = Tail(todo) \/ todo' = <<todo[Len(todo)]>> \/ todo' = <<>>
    BY DEF OneOperation, Proceeds, Fails
  <2>. QED  BY <1>2, <1>4, <2>1, <2>2 DEF Scripted
<1>7. Booked' /\ NoneSkippedSilently' /\ Tally'
  BY <1>2, <1>3, <1>4 DEF IInv, Booked, NoneSkippedSilently, Tally
<1>8. Failures'
  <2>1. said'.failed => ram'.fail \/ said.failed
    BY <1>3
  <2>2. ram.fail => ram'.fail
    BY <1>2
  <2>. QED  BY <1>3, <1>4, <2>1, <2>2 DEF IInv, Failures
<1>9. Verdicts'
  <2>1. nv.scn # kScenarioCount
    BY <1>1 DEF IInv, Booked
  <2>. QED  BY <1>1, <1>2, <1>3, <1>4, <2>1 DEF IInv, Verdicts
<1>. QED  BY <1>5, <1>6, <1>7, <1>8, <1>9 DEF IInv

\* A step that leaves the session where it is: nothing runs before or after.
LEMMA RestInv ==
  ASSUME IInv, UNCHANGED <<scratch, said>>, todo = <<>>, todo' = <<>>,
         used' \in [faults : Nat, cuts : Nat], log'.state \in {"blank", "clean", "dirty"},
         now' \in Nat, app' \in [on : BOOLEAN, ready : BOOLEAN, done : BOOLEAN],
         nv' \in PersistedState, ram' \in PersistedState,
         nv'.scn = nv.scn, nv'.phase = nv.phase, nv'.pass = nv.pass, nv'.skip = nv.skip,
         ram'.scn = ram.scn, ram'.phase = ram.phase, ram'.pass = ram.pass, ram'.skip = ram.skip,
         \/ nv'.fail = nv.fail /\ ram'.fail = ram.fail /\ app'.on = app.on
         \/ nv'.fail = nv.fail /\ ram'.fail = nv.fail /\ ~app.on
         \/ nv'.fail = ram.fail /\ ram'.fail = ram.fail
  PROVE  IInv'
<1>1. Typed'
  BY DEF IInv, Typed
<1>2. Scripted' /\ Booked' /\ NoneSkippedSilently' /\ Tally'
  BY DEF IInv, Scripted, Booked, NoneSkippedSilently, Tally
<1>3. Failures'
  BY DEF IInv, Failures
<1>4. Verdicts'
  BY DEF IInv, Verdicts, Booked
<1>. QED  BY <1>1, <1>2, <1>3, <1>4 DEF IInv

\* reset_and_mount is such an operation.
LEMMA ResetLogIsOperation ==
  ASSUME IInv, ResetLog
  PROVE  OneOperation /\ app.on /\ todo # <<>> /\ Head(todo).do = "reset"
<1>1. log'.state \in {"blank", "clean", "dirty"}
  BY DEF IInv, Typed, ResetLog, HalfReset, Log, Unmounted, Blank
<1>2. used' \in [faults : Nat, cuts : Nat]
  BY DEF IInv, Typed, ResetLog, Faulty
<1>. QED  BY <1>1, <1>2 DEF IInv, Typed, ResetLog, OneOperation, At

\* An append that fails leaves a log.
LEMMA AppendFailsTyped ==
  ASSUME IInv, AppendFails
  PROVE  log'.state \in {"blank", "clean", "dirty"} /\ used' \in [faults : Nat, cuts : Nat]
BY DEF IInv, Typed, AppendFails, Log, Faulty

\* So does one that succeeds.
LEMMA AppendSucceedsTyped ==
  ASSUME IInv, AppendSucceeds
  PROVE  log'.state \in {"blank", "clean", "dirty"} /\ used' \in [faults : Nat, cuts : Nat]
BY DEF IInv, Typed, AppendSucceeds, WithRecord, Log

\* So is append_salt.
LEMMA AppendRecordIsOperation ==
  ASSUME IInv, AppendRecord
  PROVE  OneOperation /\ app.on /\ todo # <<>> /\ Head(todo).do = "append"
<1>1. log'.state \in {"blank", "clean", "dirty"} /\ used' \in [faults : Nat, cuts : Nat]
  <2>1. CASE AppendSucceeds
    BY <2>1, AppendSucceedsTyped
  <2>2. CASE AppendFails
    BY <2>2, AppendFailsTyped
  <2>. QED  BY <2>1, <2>2 DEF AppendRecord
<1>. QED  BY <1>1 DEF IInv, Typed, AppendRecord, AppendSucceeds, OneOperation, At

\* So is an append of the capacity scenario.
LEMMA FillLogIsOperation ==
  ASSUME IInv, FillLog
  PROVE  OneOperation /\ app.on /\ todo # <<>> /\ Head(todo).do = "fill"
<1>1. log'.state \in {"blank", "clean", "dirty"} /\ used' \in [faults : Nat, cuts : Nat]
  <2>1. CASE AppendSucceeds
    BY <2>1, AppendSucceedsTyped
  <2>2. CASE AppendFails
    BY <2>2, AppendFailsTyped
  <2>. QED  BY <2>1, <2>2 DEF FillLog
<1>. QED  BY <1>1 DEF IInv, Typed, FillLog, AppendSucceeds, OneOperation, At

\* So is verify_salted_records.
LEMMA VerifyRecordsIsOperation ==
  ASSUME IInv, VerifyRecords
  PROVE  OneOperation /\ app.on /\ todo # <<>> /\ Head(todo).do = "verify"
<1>1. used' \in [faults : Nat, cuts : Nat]
  BY DEF IInv, Typed, VerifyRecords, Faulty
<1>. QED  BY <1>1 DEF IInv, Typed, VerifyRecords, OneOperation, At

ScratchNames == {"scratch_alloc", "scratch_format", "scratch_append", "failpoint", "wrap_verify",
                 "scratch_verify", "sd_test", "sd_append", "sd_read"}

\* So is whatever is done to the log in PSRAM or the SD card.
LEMMA ScratchStepIsOperation ==
  ASSUME IInv, ScratchStep
  PROVE  OneOperation /\ app.on /\ todo # <<>> /\ Head(todo).do \in ScratchNames
<1>1. app.on /\ todo # <<>> /\ Head(todo).do \in ScratchNames
  BY DEF ScratchStep, At, ScratchNames
<1>2. Head(todo).n \in Nat
  <2>1. Head(todo) \in Operations
    BY <1>1, ReturnIsLast DEF IInv, Scripted
  <2>. QED  BY <2>1 DEF Operations
<1>3. used' \in [faults : Nat, cuts : Nat]
  BY DEF IInv, Typed, ScratchStep, Faulty
<1>4. scratch' \in Nat
  BY <1>2 DEF IInv, Typed, ScratchStep
<1>5. UNCHANGED <<nv, app, log, now>> /\ (Proceeds \/ Fails)
  BY DEF ScratchStep
<1>. QED  BY <1>1, <1>3, <1>4, <1>5 DEF IInv, Typed, OneOperation

\* Changes of the persisted state.
LEMMA Restarting ==
  ASSUME NEW r \in PersistedState, NEW p \in 0 .. 2, NEW t \in Nat
  PROVE  /\ [r EXCEPT !.phase = p, !.pending = TRUE, !.restart_at = t] \in PersistedState
         /\ [r EXCEPT !.phase = p, !.pending = TRUE, !.restart_at = t].phase = p
BY DEF PersistedState

WithPass(r, a) == [r EXCEPT !.pass = a, !.last = "PASS", !.phase = 0]
WithSkip(r, a) == [r EXCEPT !.skip = a, !.last = "SKIP"]
AtScenario(r, p) == [r EXCEPT !.scn = p, !.phase = 0]

\* The fields of the persisted state when an outcome is counted.
LEMMA Counting ==
  ASSUME NEW r \in PersistedState, NEW a \in Nat, NEW p \in 0 .. kScenarioCount
  PROVE  /\ WithPass(r, a) \in PersistedState /\ WithSkip(r, a) \in PersistedState
         /\ AtScenario(r, p) \in PersistedState
         /\ WithPass(r, a).pass = a /\ WithPass(r, a).last = "PASS" /\ WithPass(r, a).skip = r.skip
         /\ WithPass(r, a).scn = r.scn /\ WithPass(r, a).fail = r.fail
         /\ WithSkip(r, a).skip = a /\ WithSkip(r, a).last = "SKIP" /\ WithSkip(r, a).pass = r.pass
         /\ WithSkip(r, a).scn = r.scn /\ WithSkip(r, a).fail = r.fail
<1>1. WithPass(r, a) \in PersistedState
  <2> DEFINE z == 0
             l == "PASS"
  <2>1. /\ z \in 0 .. 2 /\ l \in {"PENDING", "PASS", "FAIL", "SKIP"}
        /\ WithPass(r, a) = [r EXCEPT !.pass = a, !.last = l, !.phase = z]
    BY DEF WithPass
  <2> HIDE DEF z, l
  <2>. QED  BY <2>1 DEF PersistedState
<1>2. WithSkip(r, a) \in PersistedState
  BY DEF PersistedState, WithSkip
<1>3. AtScenario(r, p) \in PersistedState
  <2> DEFINE z == 0
  <2>1. z \in 0 .. 2 /\ AtScenario(r, p) = [r EXCEPT !.scn = p, !.phase = z]
    BY DEF AtScenario
  <2> HIDE DEF z
  <2>. QED  BY <2>1 DEF PersistedState
<1>4. /\ WithPass(r, a).pass = a /\ WithPass(r, a).last = "PASS" /\ WithPass(r, a).skip = r.skip
      /\ WithPass(r, a).scn = r.scn /\ WithPass(r, a).fail = r.fail
  BY DEF PersistedState, WithPass
<1>5. /\ WithSkip(r, a).skip = a /\ WithSkip(r, a).last = "SKIP" /\ WithSkip(r, a).pass = r.pass
      /\ WithSkip(r, a).scn = r.scn /\ WithSkip(r, a).fail = r.fail
  BY DEF PersistedState, WithSkip
<1>. QED  BY <1>1, <1>2, <1>3, <1>4, <1>5

MovedOn(r) == [r EXCEPT !.scn = @ + 1, !.phase = 0]

\* The fields of the persisted state when the session moves on.
LEMMA MovingOn ==
  ASSUME NEW r \in PersistedState, r.scn < kScenarioCount
  PROVE  /\ MovedOn(r) \in PersistedState /\ MovedOn(r).scn = r.scn + 1 /\ MovedOn(r).phase = 0
         /\ MovedOn(r).fail = r.fail /\ MovedOn(r).pass = r.pass /\ MovedOn(r).skip = r.skip
         /\ MovedOn(r).last = r.last
<1>1. r.scn + 1 \in 0 .. 13
  BY DEF PersistedState, kScenarioCount
<1> DEFINE p == r.scn + 1
<1>2. p \in 0 .. kScenarioCount
  BY <1>1 DEF kScenarioCount
<1>3. MovedOn(r) = AtScenario(r, p)
  BY DEF MovedOn, AtScenario
<1> HIDE DEF p
<1>4. MovedOn(r) \in PersistedState
  BY <1>2, <1>3, Counting
<1>. QED  BY <1>3, <1>4 DEF PersistedState, AtScenario, p

\* The next phase and the restart are saved in one blob.
LEMMA ScheduleRestartInv ==
  ASSUME IInv, ScheduleRestart
  PROVE  IInv'
<1> DEFINE op == Head(todo)
<1>1. app.on /\ todo # <<>> /\ op.do = "restart" /\ Script(todo, ram.scn)
  BY DEF ScheduleRestart, At, IInv, Scripted
<1>2. op.n \in {1, 2} /\ ram.scn \in MultiPhase
  BY <1>1, ReturnIsLast
<1>3. PICK uptime \in {now} \cup now .. MaxUptime :
        /\ now' = uptime
        /\ ram' = [ram EXCEPT !.phase = Head(todo).n, !.pending = TRUE, !.restart_at = uptime + RestartDelay]
  BY DEF ScheduleRestart
<1>4. uptime \in Nat /\ uptime + RestartDelay \in Nat
  BY FirmwareAssumption DEF IInv, Typed
<1> DEFINE t == uptime + RestartDelay
           p == op.n
<1>5. p \in 0 .. 2 /\ t \in Nat
  BY <1>2, <1>4
<1>6. ram' = [ram EXCEPT !.phase = p, !.pending = TRUE, !.restart_at = t]
  BY <1>3
<1> HIDE DEF op, t, p
<1>7. ram' \in PersistedState /\ ram'.phase = p
  BY <1>5, <1>6, Restarting DEF IInv, Typed
<1>8. /\ ram' \in PersistedState /\ ram'.scn = ram.scn /\ ram'.phase = op.n
      /\ ram'.pass = ram.pass /\ ram'.skip = ram.skip /\ ram'.fail = ram.fail
  BY <1>6, <1>7 DEF IInv, Typed, PersistedState, p
<1>9. nv' = ram' /\ todo' = Tail(todo) /\ app' = app /\ log' = log /\ scratch' = scratch /\ said' = said /\ used' = used
  BY DEF ScheduleRestart, save_state
<1>10. Typed'
  BY <1>3, <1>4, <1>8, <1>9 DEF IInv, Typed
<1>11. Scripted'
  <2>1. Script(Tail(todo), ram.scn)
    BY <1>1, ScriptGoesOn DEF op
  <2>. QED  BY <1>1, <1>8, <1>9, <2>1 DEF Scripted
<1>12. Booked' /\ NoneSkippedSilently' /\ Tally'
  BY <1>8, <1>9 DEF IInv, Booked, NoneSkippedSilently, Tally
<1>13. Failures' /\ Verdicts'
  <2>1. nv.scn # kScenarioCount
    BY <1>2 DEF IInv, Booked, MultiPhase, kScenarioCount
  <2>. QED  BY <1>1, <1>8, <1>9, <2>1 DEF IInv, Failures, Verdicts
<1>. QED  BY <1>10, <1>11, <1>12, <1>13 DEF IInv

\* What a scenario that returns does to the saved state, the report and the
\* verdict.
LEMMA ReturnEffect ==
  ASSUME IInv, ScenarioReturns
  PROVE  /\ app.on /\ app'.on /\ app' \in [on : BOOLEAN, ready : BOOLEAN, done : BOOLEAN]
         /\ todo' = <<>> /\ scratch' = 0 /\ log' = log /\ now' = now /\ used' = used
         /\ ram.scn \in 0 .. kScenarioCount /\ nv.scn = ram.scn
         /\ nv' \in PersistedState /\ ram' \in PersistedState
         /\ said' \in [reported : SUBSET Scenarios, failed : BOOLEAN, lost : BOOLEAN,
                        verdict : {"NONE", "PASS", "FAIL"}]
         /\ said'.failed = said.failed /\ said'.lost = said.lost
         /\ ram'.fail = ram.fail /\ (nv'.fail = nv.fail \/ nv'.fail = ram'.fail)
         /\ ram'.scn = nv'.scn /\ ram'.phase = nv'.phase /\ ram'.pass = nv'.pass /\ ram'.skip = nv'.skip
         /\ said'.verdict = IF ram'.scn < kScenarioCount THEN said.verdict
                             ELSE IF ram'.fail THEN "FAIL" ELSE "PASS"
         /\ \/ /\ ram.scn < kScenarioCount /\ ram'.scn = ram.scn + 1 /\ nv' = ram'
               /\ said'.reported = said.reported \cup {ram.scn}
               /\ nv'.pass + nv'.skip = nv.pass + nv.skip + 1
            \/ /\ ram.scn \in MultiPhase /\ ram'.scn = ram.scn + 1 /\ nv' = ram'
               /\ said'.reported = said.reported
               /\ nv'.pass + nv'.skip = nv.pass + nv.skip
            \/ ram' = ram /\ nv' = nv /\ said'.reported = said.reported
<1> DEFINE last == Head(todo).s
           r == Tallied(last)
           reported == IF last = "NONE" THEN said.reported ELSE said.reported \cup {ram.scn}
<1>1. app.on /\ todo # <<>> /\ Script(todo, ram.scn) /\ last \in Results(ram.scn)
  <2>1. app.on /\ todo # <<>> /\ Head(todo).do = "return" /\ Script(todo, ram.scn)
    BY DEF ScenarioReturns, At, IInv, Scripted
  <2>. QED  BY <2>1, ReturnIsLast
<1>2. ram \in PersistedState /\ nv \in PersistedState /\ ram.scn \in 0 .. kScenarioCount
  BY DEF IInv, Typed, PersistedState
<1>3. /\ IF Advances(r)
         THEN ram' = [r EXCEPT !.scn = @ + 1, !.phase = 0] /\ nv' = ram'
         ELSE ram' = r /\ nv' = nv
      /\ maybe_finish(reported)
      /\ todo' = <<>> /\ scratch' = 0 /\ log' = log /\ now' = now /\ used' = used
  BY DEF ScenarioReturns, save_state
<1>4. last \in {"PASS", "SKIP", "NONE"}
  BY <1>1 DEF Results
<1>5. /\ r \in PersistedState /\ r.scn = ram.scn /\ r.fail = ram.fail
      /\ last = "NONE" => r = ram
      /\ last # "NONE" => r.pass + r.skip = ram.pass + ram.skip + 1 /\ r.last = last
  <2>1. CASE last = "PASS"
    <3> DEFINE a == ram.pass + 1
    <3>1. r = WithPass(ram, a)
      BY <2>1 DEF Tallied, WithPass
    <3>2. a \in Nat /\ a + ram.skip = ram.pass + ram.skip + 1
      BY <1>2 DEF PersistedState
    <3> HIDE DEF last, r, a
    <3>3. /\ r \in PersistedState /\ r.scn = ram.scn /\ r.fail = ram.fail
          /\ r.pass = a /\ r.skip = ram.skip /\ r.last = "PASS"
      BY <1>2, <3>1, <3>2, Counting
    <3>. QED  BY <2>1, <3>2, <3>3
  <2>2. CASE last = "SKIP"
    <3> DEFINE a == ram.skip + 1
    <3>1. r = WithSkip(ram, a)
      BY <2>2 DEF Tallied, WithSkip
    <3>2. a \in Nat /\ ram.pass + a = ram.pass + ram.skip + 1
      BY <1>2 DEF PersistedState
    <3> HIDE DEF last, r, a
    <3>3. /\ r \in PersistedState /\ r.scn = ram.scn /\ r.fail = ram.fail
          /\ r.pass = ram.pass /\ r.skip = a /\ r.last = "SKIP"
      BY <1>2, <3>1, <3>2, Counting
    <3>. QED  BY <2>2, <3>2, <3>3
  <2>3. CASE last = "NONE"
    <3>1. r = ram
      BY <2>3 DEF Tallied
    <3>. QED  BY <1>2, <2>3, <3>1
  <2>. QED  BY <1>4, <2>1, <2>2, <2>3
<1>6. reported \in SUBSET Scenarios
  <2>1. last # "NONE" => ram.scn \in Scenarios
    BY <1>1, <1>2 DEF Results, Scenarios, kScenarioCount
  <2>. QED  BY <2>1 DEF IInv, Typed
<1> HIDE DEF last, r, reported
<1>7. /\ app'.on /\ app' \in [on : BOOLEAN, ready : BOOLEAN, done : BOOLEAN]
      /\ said' \in [reported : SUBSET Scenarios, failed : BOOLEAN, lost : BOOLEAN,
                     verdict : {"NONE", "PASS", "FAIL"}]
      /\ said'.failed = said.failed /\ said'.lost = said.lost /\ said'.reported = reported
      /\ said'.verdict = IF ram'.scn < kScenarioCount THEN said.verdict
                         ELSE IF ram'.fail THEN "FAIL" ELSE "PASS"
  <2>1. CASE ram'.scn < kScenarioCount
    BY <1>1, <1>3, <1>6, <2>1 DEF maybe_finish, IInv, Typed
  <2>2. CASE ~(ram'.scn < kScenarioCount)
    BY <1>1, <1>3, <1>6, <2>2 DEF maybe_finish, IInv, Typed
  <2>. QED  BY <2>1, <2>2
<1>8. CASE last # "NONE"
  <2>1. ram.scn < kScenarioCount
    BY <1>1, <1>2, <1>8 DEF Results, kScenarioCount
  <2>2. Advances(r)
    BY <1>4, <1>5, <1>8, <2>1 DEF Advances
  <2>3. ram' = MovedOn(r) /\ nv' = ram'
    BY <1>3, <2>2 DEF MovedOn
  <2>4. /\ ram' \in PersistedState /\ ram'.scn = ram.scn + 1 /\ ram'.fail = ram.fail
        /\ ram'.pass + ram'.skip = ram.pass + ram.skip + 1
    BY <1>5, <1>8, <2>1, <2>3, MovingOn
  <2>5. said'.reported = said.reported \cup {ram.scn}
    BY <1>7, <1>8 DEF reported
  <2>. QED  BY <1>1, <1>2, <1>3, <1>7, <2>1, <2>3, <2>4, <2>5 DEF IInv, Booked
<1>9. CASE last = "NONE" /\ Advances(r)
  <2>1. ram.scn \in MultiPhase /\ ram.scn < kScenarioCount
    BY <1>1, <1>2, <1>5, <1>9 DEF Results, Advances, kScenarioCount
  <2>2. ram' = MovedOn(ram) /\ nv' = ram'
    BY <1>3, <1>5, <1>9 DEF MovedOn
  <2>3. /\ ram' \in PersistedState /\ ram'.scn = ram.scn + 1 /\ ram'.fail = ram.fail
        /\ ram'.pass = ram.pass /\ ram'.skip = ram.skip
    BY <1>2, <2>1, <2>2, MovingOn
  <2>4. said'.reported = said.reported
    BY <1>7, <1>9 DEF reported
  <2>. QED  BY <1>1, <1>2, <1>3, <1>7, <2>1, <2>2, <2>3, <2>4 DEF IInv, Booked
<1>10. CASE last = "NONE" /\ ~Advances(r)
  <2>1. ram' = ram /\ nv' = nv
    BY <1>3, <1>5, <1>10
  <2>2. said'.reported = said.reported
    BY <1>7, <1>10 DEF reported
  <2>. QED  BY <1>1, <1>2, <1>3, <1>7, <2>1, <2>2 DEF IInv, Booked
<1>. QED  BY <1>8, <1>9, <1>10

\* An outcome is counted, told and left behind: tallies and report stay equal.
LEMMA ScenarioReturnsInv ==
  ASSUME IInv, ScenarioReturns
  PROVE  IInv'
<1>1. Typed' /\ Scripted' /\ Booked'
  BY ReturnEffect DEF IInv, Typed, Scripted, Booked
<1>2. /\ \A s \in said.reported : s < nv.scn
      /\ nv.pass + nv.skip = Cardinality(said.reported)
      /\ \A s \in Scenarios \ MultiPhase : s < ram.scn => s \in said.reported
      /\ said.reported \subseteq Scenarios
  BY DEF IInv, Tally, NoneSkippedSilently, Typed
<1>3. NoneSkippedSilently'
  <2> SUFFICES ASSUME NEW s \in Scenarios \ MultiPhase, s < ram'.scn
               PROVE  s \in said'.reported
    BY DEF NoneSkippedSilently
  <2>1. s \in Nat /\ ram.scn \in Nat
    BY ReturnEffect DEF Scenarios, kScenarioCount
  <2>2. CASE ram'.scn = ram.scn + 1 /\ said'.reported = said.reported \cup {ram.scn}
    <3>1. s < ram.scn \/ s = ram.scn
      BY <2>1, <2>2
    <3>. QED  BY <1>2, <2>2, <3>1
  <2>3. CASE ram.scn \in MultiPhase /\ ram'.scn = ram.scn + 1 /\ said'.reported = said.reported
    <3>1. s < ram.scn
      BY <2>1, <2>3
    <3>. QED  BY <1>2, <2>3, <3>1
  <2>4. CASE ram' = ram /\ said'.reported = said.reported
    BY <1>2, <2>4
  <2>. QED  BY <2>2, <2>3, <2>4, ReturnEffect
<1>4. Tally'
  <2>1. CASE /\ ram'.scn = ram.scn + 1 /\ nv' = ram'
             /\ said'.reported = said.reported \cup {ram.scn}
             /\ nv'.pass + nv'.skip = nv.pass + nv.skip + 1
    <3>1. ram.scn \notin said.reported /\ nv.scn = ram.scn /\ ram.scn \in Nat
      BY <1>2, ReturnEffect
    <3>2. \A s \in said'.reported : s < nv'.scn
      <4>1. TAKE s \in said'.reported
      <4>2. s \in Nat
        BY <1>2, <2>1, <3>1 DEF Scenarios, kScenarioCount
      <4>3. s < ram.scn \/ s = ram.scn
        BY <1>2, <2>1, <3>1
      <4>. QED  BY <2>1, <3>1, <4>2, <4>3
    <3>3. IsFiniteSet(said.reported)
      <4>1. IsFiniteSet(Scenarios)
        <5>1. Scenarios = 0 .. 12 /\ 0 \in Int /\ 12 \in Int
          BY DEF Scenarios, kScenarioCount
        <5>2. IsFiniteSet(0 .. 12)
          BY <5>1, FS_Interval
        <5>. QED  BY <5>1, <5>2, Zenon
      <4>. QED  BY <1>2, <4>1, FS_Subset
    <3>4. Cardinality(said.reported \cup {ram.scn}) = Cardinality(said.reported) + 1
      BY <3>1, <3>3, FS_AddElement
    <3>. QED  BY <1>2, <2>1, <3>2, <3>4 DEF Tally
  <2>2. CASE /\ ram'.scn = ram.scn + 1 /\ nv' = ram' /\ said'.reported = said.reported
             /\ nv'.pass + nv'.skip = nv.pass + nv.skip
    <3>1. \A s \in said.reported : s < nv'.scn
      <4>1. TAKE s \in said.reported
      <4>2. s \in Nat /\ nv.scn \in Nat /\ s < nv.scn /\ nv'.scn = nv.scn + 1
        BY <1>2, <2>2, ReturnEffect DEF Scenarios, kScenarioCount
      <4>. QED  BY <4>2
    <3>. QED  BY <1>2, <2>2, <3>1 DEF Tally
  <2>3. CASE ram' = ram /\ nv' = nv /\ said'.reported = said.reported
    BY <1>2, <2>3 DEF Tally
  <2>. QED  BY <2>1, <2>2, <2>3, ReturnEffect
<1>5. Failures'
  BY ReturnEffect DEF IInv, Failures
<1>6. ram'.scn = kScenarioCount => ram'.fail = nv'.fail
  <2>1. CASE nv' = ram'
    BY <2>1
  <2>2. CASE ram' = ram /\ nv' = nv
    BY <2>2 DEF IInv, Verdicts
  <2>. QED  BY <2>1, <2>2, ReturnEffect
<1>7. Verdicts'
  <2>1. CASE ram'.scn < kScenarioCount
    <3>1. ram.scn # kScenarioCount
      <4>1. ram.scn \in Nat /\ kScenarioCount \in Nat /\ (ram'.scn = ram.scn + 1 \/ ram'.scn = ram.scn)
        BY ReturnEffect DEF kScenarioCount
      <4>. QED  BY <2>1, <4>1
    <3>2. said.verdict = "NONE"
      BY <3>1 DEF IInv, Verdicts, Booked
    <3>3. said'.verdict = "NONE"
      BY <2>1, <3>2, ReturnEffect
    <3>. QED  BY <1>6, <3>3 DEF Verdicts
  <2>2. CASE ~(ram'.scn < kScenarioCount)
    <3>1. ram'.scn = kScenarioCount
      BY <1>1, <2>2 DEF Typed, PersistedState, kScenarioCount
    <3>2. said'.verdict = IF ram'.fail THEN "FAIL" ELSE "PASS"
      BY <2>2, ReturnEffect
    <3>3. nv'.scn = kScenarioCount /\ ram'.fail = nv'.fail
      BY <1>6, <3>1, ReturnEffect
    <3>. QED  BY <3>2, <3>3 DEF Verdicts
  <2>. QED  BY <2>1, <2>2
<1>. QED  BY <1>1, <1>3, <1>4, <1>5, <1>7 DEF IInv

\* A scenario starts with its script.
LEMMA RunsInv ==
  ASSUME IInv, CanRun, Runs
  PROVE  IInv'
<1>1. Script(run_current_scenario, ram.scn) /\ app.on
  BY ScenarioIsScript DEF IInv, Typed, CanRun, Idle
<1>2. Typed' /\ Scripted'
  BY <1>1 DEF IInv, Typed, Scripted, Runs
<1>3. Booked' /\ NoneSkippedSilently' /\ Tally' /\ Failures' /\ Verdicts'
  BY DEF IInv, Booked, NoneSkippedSilently, Tally, Failures, Verdicts, Runs
<1>. QED  BY <1>2, <1>3 DEF IInv

\* Waiting for the restart changes nothing else.
LEMMA TimePassesInv ==
  ASSUME IInv, TimePasses
  PROVE  IInv'
<1>1. todo = <<>> /\ now' = now + 1 /\ UNCHANGED <<nv, ram, app, log, scratch, todo, said, used>>
  BY DEF TimePasses, Waiting, Idle
<1>2. now' \in Nat
  BY <1>1 DEF IInv, Typed
<1>. QED  BY <1>1, <1>2, RestInv DEF IInv, Typed

\* The restart saves the state first, a failure that was only in RAM with it.
LEMMA MaybeRestartInv ==
  ASSUME IInv, MaybeRestart
  PROVE  IInv'
<1>1. ram' = [ram EXCEPT !.pending = FALSE] /\ nv' = ram' /\ todo = <<>> /\ todo' = <<>>
      /\ app' = [on |-> FALSE, ready |-> FALSE, done |-> FALSE]
      /\ UNCHANGED <<log, scratch, now, said, used>>
  BY DEF MaybeRestart, Waiting, Idle, save_state, Off
<1>2. /\ ram' \in PersistedState /\ ram'.scn = ram.scn /\ ram'.phase = ram.phase
      /\ ram'.pass = ram.pass /\ ram'.skip = ram.skip /\ ram'.fail = ram.fail
  BY <1>1 DEF IInv, Typed, PersistedState
<1>3. app' \in [on : BOOLEAN, ready : BOOLEAN, done : BOOLEAN]
  BY <1>1
<1>. QED  BY <1>1, <1>2, <1>3, RestInv DEF IInv, Typed, Booked

\* SESSION_MODE saves everything.
LEMMA SessionModeInv ==
  ASSUME IInv, NEW faults \in HostModes, SessionMode(faults)
  PROVE  IInv'
<1>1. ram' = [ram EXCEPT !.mode = TRUE, !.faults = faults] /\ nv' = ram' /\ todo = <<>> /\ todo' = <<>>
      /\ UNCHANGED <<app, log, scratch, now, said, used>>
  BY DEF SessionMode, Idle, save_state
<1>2. /\ ram' \in PersistedState /\ ram'.scn = ram.scn /\ ram'.phase = ram.phase
      /\ ram'.pass = ram.pass /\ ram'.skip = ram.skip /\ ram'.fail = ram.fail
  BY <1>1, FirmwareAssumption DEF IInv, Typed, PersistedState
<1>. QED  BY <1>1, <1>2, RestInv DEF IInv, Typed, Booked

\* So does SESSION_PROGRESS.
LEMMA SessionProgressInv ==
  ASSUME IInv, SessionProgress
  PROVE  IInv'
BY RestInv DEF IInv, Typed, Booked, SessionProgress, Idle, save_state

\* A boot loads what was saved.
LEMMA BootInv ==
  ASSUME IInv, Boot
  PROVE  IInv'
<1>1. ~app.on /\ todo = <<>> /\ todo' = <<>> /\ ram' = nv /\ nv' = nv /\ now' = 0
      /\ UNCHANGED <<scratch, said>>
  BY DEF Boot, IInv, Scripted
<1>2. app' \in [on : BOOLEAN, ready : BOOLEAN, done : BOOLEAN]
  BY DEF Boot
<1>3. log'.state \in {"blank", "clean", "dirty"}
  BY DEF Boot, HalfReset, Unmounted, Log, Blank, IInv, Typed
<1>4. used' \in [faults : Nat, cuts : Nat]
  BY DEF Boot, Faulty, IInv, Typed
<1>. QED  BY <1>1, <1>2, <1>3, <1>4, RestInv DEF IInv, Typed, Booked

\* A power loss takes what was not saved, and the lost flag says so.
LEMMA PowerLossInv ==
  ASSUME IInv, PowerLoss
  PROVE  IInv'
<1>1. /\ app' = [on |-> FALSE, ready |-> FALSE, done |-> FALSE] /\ todo' = <<>> /\ scratch' = 0
      /\ nv' = nv /\ ram' = ram /\ now' = now
  BY DEF PowerLoss, Off
<1>2. log'.state \in {"blank", "clean", "dirty"}
  BY DEF PowerLoss, Interrupted, HalfReset, Unmounted, WithRecord, Log, Blank, IInv, Typed
<1>3. used' \in [faults : Nat, cuts : Nat]
  BY DEF PowerLoss, IInv, Typed
<1> DEFINE gone == said.lost \/ ram.fail # nv.fail
<1>4. gone \in BOOLEAN
  BY Zenon DEF IInv, Typed
<1>5. said' = [said EXCEPT !.lost = gone]
  BY DEF PowerLoss
<1>6. gone = FALSE => ram.fail = nv.fail /\ ~said.lost
  OBVIOUS
<1> HIDE DEF gone
<1>7. /\ said' \in [reported : SUBSET Scenarios, failed : BOOLEAN, lost : BOOLEAN,
                     verdict : {"NONE", "PASS", "FAIL"}]
      /\ said'.reported = said.reported /\ said'.failed = said.failed /\ said'.verdict = said.verdict
      /\ said'.lost = gone
  BY <1>4, <1>5 DEF IInv, Typed
<1>8. Typed'
  BY <1>1, <1>2, <1>3, <1>7 DEF IInv, Typed
<1>9. Scripted' /\ Booked' /\ NoneSkippedSilently' /\ Tally'
  BY <1>1, <1>7 DEF IInv, Scripted, Booked, NoneSkippedSilently, Tally
<1>10. Failures'
  BY <1>1, <1>4, <1>6, <1>7 DEF IInv, Failures
<1>11. Verdicts'
  BY <1>1, <1>7 DEF IInv, Verdicts
<1>. QED  BY <1>8, <1>9, <1>10, <1>11 DEF IInv

\* Every step keeps the invariant.
LEMMA NextInv ==
  ASSUME IInv, [Next]_vars
  PROVE  IInv'
<1>1. CASE UNCHANGED vars
  BY <1>1 DEF vars, IInv, Typed, Scripted, Booked, NoneSkippedSilently, Tally, Failures, Verdicts
<1>2. CASE Boot
  BY <1>2, BootInv
<1>3. CASE CanRun /\ Runs
  BY <1>3, RunsInv
<1>4. CASE TimePasses
  BY <1>4, TimePassesInv
<1>5. CASE MaybeRestart
  BY <1>5, MaybeRestartInv
<1>6. CASE ResetLog
  BY <1>6, ResetLogIsOperation, OperationInv
<1>7. CASE AppendRecord
  BY <1>7, AppendRecordIsOperation, OperationInv
<1>8. CASE FillLog
  BY <1>8, FillLogIsOperation, OperationInv
<1>9. CASE VerifyRecords
  BY <1>9, VerifyRecordsIsOperation, OperationInv
<1>10. CASE ScratchStep
  <2>1. Head(todo).do # "return"
    BY <1>10, ScratchStepIsOperation DEF ScratchNames
  <2>. QED  BY <1>10, <2>1, ScratchStepIsOperation, OperationInv
<1>11. CASE ScheduleRestart
  BY <1>11, ScheduleRestartInv
<1>12. CASE ScenarioReturns
  BY <1>12, ScenarioReturnsInv
<1>13. CASE SessionProgress
  BY <1>13, SessionProgressInv
<1>14. CASE \E faults \in HostModes : SessionMode(faults)
  BY <1>14, SessionModeInv
<1>15. CASE PowerLoss
  BY <1>15, PowerLossInv
<1>. QED
  BY <1>1, <1>2, <1>3, <1>4, <1>5, <1>6, <1>7, <1>8, <1>9, <1>10, <1>11, <1>12, <1>13, <1>14, <1>15
  DEF Next, Firmware, Tick, ProjectTest

\* The invariant: types, the running script, what is saved in RAM and in NVS alike, and
\* what the host was told of the scenarios left behind.
THEOREM Inductive == Spec => []IInv
<1>1. IInv /\ [Next]_vars => IInv'
  BY NextInv
<1>. QED  BY InitInv, <1>1, PTL DEF Spec

\* Types, and a running scenario that ends in a return.
THEOREM TypeCorrect == Spec => []TypeOK
<1>1. IInv => TypeOK
  <2> SUFFICES ASSUME IInv PROVE TypeOK
    OBVIOUS
  <2>1. todo # <<>> => app.on /\ todo[Len(todo)].do = "return"
    BY ReturnIsLast DEF IInv, Scripted
  <2>. QED  BY <2>1 DEF IInv, Typed, TypeOK
<1>. QED  BY Inductive, <1>1, PTL

\* NoneSkippedSilently: run_scenario_step moves past a scenario that runs in one go only
\* when it told the host the outcome, wherever power is cut.
THEOREM NoneSkipped == Spec => []NoneSkippedSilently
<1>1. IInv => NoneSkippedSilently
  BY DEF IInv
<1>. QED  BY Inductive, <1>1, PTL

\* TalliesExact: the saved tallies are the outcomes told of the scenarios left behind;
\* a scenario run again after a power loss is counted once.
THEOREM TalliesAreExact == Spec => []TalliesExact
<1>1. IInv => TalliesExact
  <2> SUFFICES ASSUME IInv PROVE TalliesExact
    OBVIOUS
  <2>1. {s \in said.reported : s < nv.scn} = said.reported
    BY DEF IInv, Tally
  <2>. QED  BY <2>1 DEF IInv, Tally, TalliesExact
<1>. QED  BY Inductive, <1>1, PTL

\* FailureIsReported: SESSION_PASS follows a failure only where a power loss came before
\* any save_state.
THEOREM FailuresAreReported == Spec => []FailureIsReported
<1>1. IInv => FailureIsReported
  <2> SUFFICES ASSUME IInv, said.verdict = "PASS", said.failed PROVE said.lost
    BY DEF FailureIsReported
  <2>1. nv.fail = FALSE /\ ram.fail = nv.fail
    BY DEF IInv, Typed, PersistedState, Verdicts, Booked
  <2>. QED  BY <2>1 DEF IInv, Failures
<1>. QED  BY Inductive, <1>1, PTL

\* No step changes a verdict that was told.
LEMMA VerdictStep ==
  ASSUME IInv, [Next]_vars, said.verdict # "NONE"
  PROVE  said'.verdict = said.verdict
<1>1. CASE ScenarioReturns
  <2>1. /\ ram.scn = kScenarioCount /\ ram.fail = nv.fail
        /\ said.verdict = IF ram.fail THEN "FAIL" ELSE "PASS"
    BY DEF IInv, Booked, Verdicts
  <2>2. ram' = ram
    <3>1. ~(ram.scn < kScenarioCount) /\ ram.scn \notin MultiPhase
      BY <2>1 DEF kScenarioCount, MultiPhase
    <3>. QED  BY <1>1, <3>1, ReturnEffect
  <2>3. ~(ram'.scn < kScenarioCount)
    BY <2>1, <2>2 DEF kScenarioCount
  <2>. QED  BY <1>1, <2>1, <2>2, <2>3, ReturnEffect
<1>2. CASE PowerLoss
  BY <1>2 DEF PowerLoss, IInv, Typed
<1>3. ASSUME Proceeds \/ UNCHANGED said \/ Fails
      PROVE  said'.verdict = said.verdict
  BY <1>3 DEF Proceeds, Fails, IInv, Typed
<1>4. CASE UNCHANGED vars
  BY <1>4 DEF vars
<1>5. CASE ResetLog \/ AppendRecord \/ FillLog \/ VerifyRecords \/ ScratchStep
  BY <1>3, <1>5 DEF ResetLog, AppendRecord, AppendSucceeds, FillLog, VerifyRecords, ScratchStep
<1>6. CASE Boot \/ Runs \/ TimePasses \/ MaybeRestart \/ ScheduleRestart \/ SessionProgress
           \/ \E faults \in HostModes : SessionMode(faults)
  BY <1>3, <1>6 DEF Boot, Runs, TimePasses, MaybeRestart, ScheduleRestart, SessionProgress, SessionMode
<1>. QED
  BY <1>1, <1>2, <1>4, <1>5, <1>6 DEF Next, Firmware, Tick, ProjectTest

\* VerdictStands: maybe_finish, at a later boot or command, repeats the verdict it gave.
THEOREM VerdictIsFinal == Spec => VerdictStands
<1>1. IInv /\ [Next]_vars => [said.verdict # "NONE" => said'.verdict = said.verdict]_vars
  BY VerdictStep
<1>. QED  BY Inductive, <1>1, PTL DEF Spec, VerdictStands

-----------------------------------------------------------------------------
(* One cut alone *)

\* A scenario can be run from this phase: its records are there, and no others.
Resumable(scn, p, lg) ==
  /\ scn \in MultiPhase /\ p \in {1, 2} /\ (p = 2 => scn = 7)
  /\ lg = Log("clean", Salted(scn, Kept(scn, p)))

\* What is left of the script does not fail from here.
Plan(q, scn, lg, m) ==
  \E s \in Scenarios, k \in Int : \E k2, m2 :
    /\ k # Unknown => lg = Log("clean", Salted(s, k))
    /\ scn \in MultiPhase => s = scn
    /\ Follows(q, s, k, m, k2, m2)

\* No operation has failed of itself, and power went at most once.
Unharmed == used.faults = 0 /\ used.cuts <= 1

\* A phase is left in the saved state only between the restart it asks for and
\* the return that follows; only a cut in between makes it last.
Carefree ==
  Unharmed =>
    /\ ~said.failed
    /\ nv.scn > 0 => nv.last \in {"PASS", "SKIP"}
    /\ ram.scn > 0 => ram.last \in {"PASS", "SKIP"}
    /\ nv.phase # 0 /\ (todo = <<>> \/ used.cuts = 0) => Resumable(nv.scn, nv.phase, log)
    /\ nv.phase # 0 /\ used.cuts = 0 => todo # <<>> /\ Head(todo).do = "return"
    /\ nv.phase # 0 => nv.scn \in MultiPhase
    /\ todo # <<>> => Plan(todo, ram.scn, log, scratch)

\* The records of a scenario, one more of them.
LEMMA SaltedIs ==
  ASSUME NEW s, NEW k \in Nat
  PROVE  /\ Salted(s, 0) = <<>> /\ Len(Salted(s, k)) = k
         /\ Append(Salted(s, k), <<s, k>>) = Salted(s, k + 1)
<1>1. Salted(s, 0) = <<>> /\ Len(Salted(s, k)) = k
  BY DEF Salted
<1>2. Append(Salted(s, k), <<s, k>>) = Salted(s, k + 1)
  <2> DEFINE S == {s} \X Nat
             x == Append(Salted(s, k), <<s, k>>)
             y == Salted(s, k + 1)
  <2>1. Salted(s, k) \in Seq(S) /\ <<s, k>> \in S /\ y \in Seq(S)
    BY DEF Salted
  <2>2. Len(y) = k + 1 /\ (\A j \in 1 .. k + 1 : y[j] = <<s, j - 1>>)
        /\ Len(Salted(s, k)) = k /\ \A j \in 1 .. k : Salted(s, k)[j] = <<s, j - 1>>
    BY DEF Salted
  <2> HIDE DEF S, y
  <2>3. /\ x \in Seq(S) /\ Len(x) = k + 1 /\ x[k + 1] = <<s, k>>
        /\ \A j \in 1 .. k : x[j] = Salted(s, k)[j]
    BY <2>1, <2>2
  <2> HIDE DEF x
  <2>4. \A j \in 1 .. Len(x) : x[j] = y[j]
    <3>1. TAKE j \in 1 .. Len(x)
    <3>2. CASE j = k + 1
      <4>1. j - 1 = k /\ j \in 1 .. k + 1
        BY <3>2
      <4>. QED  BY <2>2, <2>3, <3>2, <4>1
    <3>3. CASE j # k + 1
      <4>1. j \in 1 .. k /\ j \in 1 .. k + 1
        BY <2>3, <3>3
      <4>. QED  BY <2>2, <2>3, <4>1
    <3>. QED  BY <3>2, <3>3
  <2>5. x = y
    BY <2>1, <2>2, <2>3, <2>4, SeqEqual
  <2>. QED  BY <2>5 DEF x, y
<1>. QED  BY <1>1, <1>2

\* A scenario that can be followed from this board has a plan.
LEMMA RunnablePlan ==
  ASSUME Roomy, NEW scn, NEW s \in Scenarios, NEW k \in Int, NEW m, NEW q, NEW lg,
         Runnable(q, scn, s, k, m),
         k # Unknown => lg = Log("clean", Salted(s, k)),
         scn \in MultiPhase => s = scn
  PROVE  Plan(q, scn, lg, m)
BY DEF Runnable, Plan

\* Every scenario has a plan when it starts: from any log in its first phase, in a later
\* one from the log the restart left.
LEMMA ScenarioHasPlan ==
  ASSUME Roomy, ram \in PersistedState, scratch \in Nat,
         ram.phase # 0 => Resumable(ram.scn, ram.phase, log)
  PROVE  Plan(run_current_scenario, ram.scn, log, scratch)
<1>1. ram.scn \in 0 .. 13 /\ ram.phase \in 0 .. 2 /\ ram.faults \in BOOLEAN
  BY DEF PersistedState, kScenarioCount
<1>2. Unknown \in Int /\ Unknown # 0 /\ Unknown # 1 /\ Unknown # 2
  BY DEF Unknown
<1>3. ram.phase = 0 \/ (ram.phase # 0 /\ ram.phase \in 1 .. 2)
  BY <1>1
<1> DEFINE q == run_current_scenario
<1>4. CASE ram.scn = 0
  <2>1. q = scenario_empty
    BY <1>4 DEF run_current_scenario
  <2>2. Runnable(q, 0, 0, Unknown, scratch)
    BY <1>1, <2>1, scenario_empty_runs
  <2>3. 0 \in Scenarios /\ 0 \notin MultiPhase
    BY DEF Scenarios, kScenarioCount, MultiPhase
  <2>. QED  BY <1>2, <1>4, <2>2, <2>3, RunnablePlan
<1>5. CASE ram.scn = 1
  <2>1. q = scenario_single_append
    BY <1>5 DEF run_current_scenario
  <2>2. Runnable(q, 1, 1, Unknown, scratch)
    BY <1>1, <2>1, scenario_single_append_runs
  <2>3. 1 \in Scenarios /\ 1 \notin MultiPhase
    BY DEF Scenarios, kScenarioCount, MultiPhase
  <2>. QED  BY <1>2, <1>5, <2>2, <2>3, RunnablePlan
<1>6. CASE ram.scn = 3
  <2>1. q = scenario_ordering
    BY <1>6 DEF run_current_scenario
  <2>2. Runnable(q, 3, 3, Unknown, scratch)
    BY <1>1, <2>1, scenario_ordering_runs
  <2>3. 3 \in Scenarios /\ 3 \notin MultiPhase
    BY DEF Scenarios, kScenarioCount, MultiPhase
  <2>. QED  BY <1>2, <1>6, <2>2, <2>3, RunnablePlan
<1>7. CASE ram.scn = 4
  <2>1. q = scenario_payload_sizes
    BY <1>7 DEF run_current_scenario
  <2>2. Runnable(q, 4, 4, Unknown, scratch)
    BY <1>1, <2>1, scenario_payload_sizes_runs
  <2>3. 4 \in Scenarios /\ 4 \notin MultiPhase
    BY DEF Scenarios, kScenarioCount, MultiPhase
  <2>. QED  BY <1>2, <1>7, <2>2, <2>3, RunnablePlan
<1>8. CASE ram.scn = 5
  <2>1. q = scenario_capacity_boundary
    BY <1>8 DEF run_current_scenario
  <2>2. Runnable(q, 5, 5, Unknown, scratch)
    BY <1>1, <2>1, scenario_capacity_boundary_runs
  <2>3. 5 \in Scenarios /\ 5 \notin MultiPhase
    BY DEF Scenarios, kScenarioCount, MultiPhase
  <2>. QED  BY <1>2, <1>8, <2>2, <2>3, RunnablePlan
<1>9. CASE ram.scn = 8
  <2>1. q = scenario_disconnect_stress(ram.faults)
    BY <1>9 DEF run_current_scenario
  <2>2. Runnable(q, 8, 8, Unknown, scratch)
    BY <1>1, <2>1, scenario_disconnect_stress_runs
  <2>3. 8 \in Scenarios /\ 8 \notin MultiPhase
    BY DEF Scenarios, kScenarioCount, MultiPhase
  <2>. QED  BY <1>2, <1>9, <2>2, <2>3, RunnablePlan
<1>10. CASE ram.scn = 9
  <2>1. q = scenario_corruption_detection(ram.faults)
    BY <1>10 DEF run_current_scenario
  <2>2. Runnable(q, 9, 9, Unknown, scratch)
    BY <1>1, <2>1, scenario_corruption_detection_runs
  <2>3. 9 \in Scenarios /\ 9 \notin MultiPhase
    BY DEF Scenarios, kScenarioCount, MultiPhase
  <2>. QED  BY <1>2, <1>10, <2>2, <2>3, RunnablePlan
<1>11. CASE ram.scn = 10
  <2>1. q = scenario_psram_api_smoke
    BY <1>11 DEF run_current_scenario
  <2>2. Runnable(q, 10, 10, Unknown, scratch)
    BY <1>1, <2>1, scenario_psram_api_smoke_runs
  <2>3. 10 \in Scenarios /\ 10 \notin MultiPhase
    BY DEF Scenarios, kScenarioCount, MultiPhase
  <2>. QED  BY <1>2, <1>11, <2>2, <2>3, RunnablePlan
<1>12. CASE ram.scn = 11
  <2>1. q = scenario_sd_api_smoke
    BY <1>12 DEF run_current_scenario
  <2>2. Runnable(q, 11, 11, Unknown, scratch)
    BY <1>1, <2>1, scenario_sd_api_smoke_runs
  <2>3. 11 \in Scenarios /\ 11 \notin MultiPhase
    BY DEF Scenarios, kScenarioCount, MultiPhase
  <2>. QED  BY <1>2, <1>12, <2>2, <2>3, RunnablePlan
<1>13. CASE ram.scn = 12
  <2>1. q = scenario_endurance
    BY <1>13 DEF run_current_scenario
  <2>2. Runnable(q, 12, 9, Unknown, scratch)
    BY <1>1, <2>1, scenario_endurance_runs
  <2>3. 9 \in Scenarios /\ 12 \notin MultiPhase
    BY DEF Scenarios, kScenarioCount, MultiPhase
  <2>. QED  BY <1>2, <1>13, <2>2, <2>3, RunnablePlan
<1>14. CASE ram.scn = 2
  <2>1. q = scenario_reboot_recovery(ram.phase)
    BY <1>14 DEF run_current_scenario
  <2>2. 2 \in Scenarios /\ 1 \in Int
    BY DEF Scenarios, kScenarioCount
  <2>3. CASE ram.phase = 0
    <3>1. Runnable(q, 2, 2, Unknown, scratch)
      BY <2>1, <2>3, scenario_reboot_recovery_runs
    <3>. QED  BY <1>2, <1>14, <2>2, <3>1, RunnablePlan
  <2>4. CASE ram.phase # 0 /\ ram.phase \in 1 .. 2
    <3>1. Runnable(q, 2, 2, 1, scratch)
      BY <2>1, <2>4, scenario_reboot_recovery_runs
    <3>2. log = Log("clean", Salted(2, 1))
      BY <1>14, <2>4 DEF Resumable, Kept
    <3>. QED  BY <1>2, <1>14, <2>2, <3>1, <3>2, RunnablePlan
  <2>. QED  BY <1>3, <2>3, <2>4
<1>15. CASE ram.scn = 6
  <2>1. q = scenario_interrupted_append(ram.phase, ram.faults)
    BY <1>15 DEF run_current_scenario
  <2>2. 6 \in Scenarios /\ 0 \in Int
    BY DEF Scenarios, kScenarioCount
  <2>3. CASE ram.phase = 0
    <3>1. Runnable(q, 6, 6, Unknown, scratch)
      BY <1>1, <2>1, <2>3, scenario_interrupted_append_runs
    <3>. QED  BY <1>2, <1>15, <2>2, <3>1, RunnablePlan
  <2>4. CASE ram.phase # 0 /\ ram.phase \in 1 .. 2
    <3>1. Runnable(q, 6, 6, 0, scratch)
      BY <1>1, <2>1, <2>4, scenario_interrupted_append_runs
    <3>2. log = Log("clean", Salted(6, 0))
      BY <1>15, <2>4 DEF Resumable, Kept
    <3>. QED  BY <1>2, <1>15, <2>2, <3>1, <3>2, RunnablePlan
  <2>. QED  BY <1>3, <2>3, <2>4
<1>16. CASE ram.scn = 7
  <2>1. q = scenario_repeated_reboot(ram.phase)
    BY <1>16 DEF run_current_scenario
  <2>2. 7 \in Scenarios /\ 1 \in Int /\ 2 \in Int
    BY DEF Scenarios, kScenarioCount
  <2>3. CASE ram.phase = 0
    <3>1. Runnable(q, 7, 7, Unknown, scratch)
      BY <2>1, <2>3, scenario_repeated_reboot_runs
    <3>. QED  BY <1>2, <1>16, <2>2, <3>1, RunnablePlan
  <2>4. CASE ram.phase = 1
    <3>1. Runnable(q, 7, 7, 1, scratch)
      BY <2>1, <2>4, scenario_repeated_reboot_runs
    <3>2. log = Log("clean", Salted(7, 1))
      BY <1>16, <2>4 DEF Resumable, Kept
    <3>. QED  BY <1>2, <1>16, <2>2, <3>1, <3>2, RunnablePlan
  <2>5. CASE ram.phase = 2
    <3>1. Runnable(q, 7, 7, 2, scratch)
      BY <2>1, <2>5, scenario_repeated_reboot_runs
    <3>2. log = Log("clean", Salted(7, 2))
      BY <1>16, <2>5 DEF Resumable, Kept
    <3>. QED  BY <1>2, <1>16, <2>2, <3>1, <3>2, RunnablePlan
  <2>. QED  BY <1>1, <2>3, <2>4, <2>5
<1>17. CASE ram.scn = 13
  <2>1. q = <<Return("NONE")>>
    BY <1>17 DEF run_current_scenario
  <2>2. 13 \in 0 .. kScenarioCount /\ "NONE" \in Results(13) /\ 0 \in Scenarios /\ 13 \notin MultiPhase
    BY DEF kScenarioCount, Results, Scenarios, MultiPhase
  <2>3. Runnable(q, 13, 0, Unknown, scratch)
    BY <1>2, <2>1, <2>2, ReturnRuns
  <2>. QED  BY <1>2, <1>17, <2>2, <2>3, RunnablePlan
<1>. QED
  BY <1>1, <1>4, <1>5, <1>6, <1>7, <1>8, <1>9, <1>10, <1>11, <1>12, <1>13, <1>14, <1>15, <1>16, <1>17

\* A plan whose first operation is done.
LEMMA PlanGoesOn ==
  ASSUME IInv, Carefree, Unharmed, todo # <<>>
  PROVE  \E s \in Scenarios, k \in Int :
           /\ k # Unknown => log = Log("clean", Salted(s, k))
           /\ Fits(Head(todo), s, k, scratch)
           /\ ram.scn \in MultiPhase => s = ram.scn
           /\ \A lg : (FlashAfter(Head(todo), k) # Unknown => lg = Log("clean", Salted(s, FlashAfter(Head(todo), k))))
                => Plan(Tail(todo), ram.scn, lg, PsramAfter(Head(todo), scratch))
<1>1. todo \in Seq(Operations)
  BY DEF IInv, Scripted, Script
<1>2. PICK s \in Scenarios, k \in Int : \E k2, m2 :
    /\ k # Unknown => log = Log("clean", Salted(s, k))
    /\ ram.scn \in MultiPhase => s = ram.scn
    /\ Follows(todo, s, k, scratch, k2, m2)
  BY DEF Carefree, Plan
<1> DEFINE k1 == FlashAfter(Head(todo), k)
           m1 == PsramAfter(Head(todo), scratch)
<1>3. Fits(Head(todo), s, k, scratch) /\ k1 \in Int /\ \E k2, m2 : Follows(Tail(todo), s, k1, m1, k2, m2)
  BY <1>1, <1>2, FollowsTail
<1> HIDE DEF k1, m1
<1>4. ASSUME NEW lg, k1 # Unknown => lg = Log("clean", Salted(s, k1))
      PROVE  Plan(Tail(todo), ram.scn, lg, m1)
  BY <1>2, <1>3, <1>4 DEF Plan
<1>. QED  BY <1>2, <1>3, <1>4 DEF k1, m1

\* An operation after which the plan goes on.
LEMMA OperationCarefree ==
  ASSUME IInv, Carefree, OneOperation, app.on, todo # <<>>, Head(todo).do # "return", used' = used,
         Unharmed =>
           /\ ~Fails \/ todo' # <<>>
           /\ todo' # <<>> => Plan(todo', ram.scn, log', scratch')
  PROVE  Carefree'
<1> SUFFICES ASSUME Unharmed' PROVE Carefree'
  BY DEF Carefree
<1>1. Unharmed
  BY DEF Unharmed
<1>2. ram' = ram /\ said' = said /\ nv' = nv
  BY <1>1 DEF OneOperation, Proceeds, Fails
<1>3. todo' # <<>>
  <2>1. Script(Tail(todo), ram.scn) /\ Script(<<todo[Len(todo)]>>, ram.scn)
    BY ScriptGoesOn DEF IInv, Scripted
  <2>2. Tail(todo) # <<>> /\ <<todo[Len(todo)]>> # <<>>
    BY <2>1 DEF Script
  <2>. QED  BY <1>1, <2>2 DEF OneOperation, Proceeds, Fails
<1>4. nv.phase # 0 => used.cuts # 0
  BY <1>1 DEF Carefree
<1>. QED  BY <1>1, <1>2, <1>3, <1>4 DEF Carefree

\* An operation that fails of itself is the one thing excluded.
LEMMA FaultIsHarm ==
  ASSUME IInv, Faulty
  PROVE  ~Unharmed'
BY DEF Faulty, Unharmed, IInv, Typed

\* Faults and cuts only grow in number.
LEMMA HarmLasts ==
  ASSUME IInv, [Next]_vars, Unharmed'
  PROVE  Unharmed
<1>1. used' = used \/ Faulty \/ used' = [used EXCEPT !.cuts = @ + 1]
  BY DEF vars, Next, Firmware, Boot, Tick, ProjectTest, Runs, TimePasses, MaybeRestart, ResetLog,
         AppendRecord, AppendSucceeds, AppendFails, FillLog, VerifyRecords, ScratchStep,
         ScheduleRestart, ScenarioReturns, SessionProgress, SessionMode, PowerLoss
<1>2. CASE used' = used
  BY <1>2 DEF Unharmed
<1>3. CASE Faulty
  BY <1>3, FaultIsHarm
<1>4. CASE used' = [used EXCEPT !.cuts = @ + 1]
  BY <1>4 DEF Unharmed, IInv, Typed
<1>. QED  BY <1>1, <1>2, <1>3, <1>4

\* reset_and_mount goes on with an empty log.
LEMMA ResetLogCarefree ==
  ASSUME IInv, Carefree, ResetLog
  PROVE  Carefree'
<1>1. CASE Faulty
  BY <1>1, FaultIsHarm DEF Carefree
<1>2. CASE log' = Log("clean", <<>>) /\ Proceeds /\ UNCHANGED used
  <2>1. ASSUME Unharmed
        PROVE  Plan(Tail(todo), ram.scn, log', scratch')
    <3>1. PICK s \in Scenarios, k \in Int :
           \A lg : (FlashAfter(Head(todo), k) # Unknown => lg = Log("clean", Salted(s, FlashAfter(Head(todo), k))))
                => Plan(Tail(todo), ram.scn, lg, PsramAfter(Head(todo), scratch))
      BY <2>1, PlanGoesOn, ResetLogIsOperation
    <3>2. FlashAfter(Head(todo), k) = 0 /\ PsramAfter(Head(todo), scratch) = scratch
      BY ResetLogIsOperation DEF FlashAfter, PsramAfter
    <3>3. log' = Log("clean", Salted(s, 0)) /\ scratch' = scratch
      BY <1>2, SaltedIs DEF ResetLog
    <3>. QED  BY <3>1, <3>2, <3>3
  <2>2. todo' = Tail(todo) /\ used' = used /\ (~Fails \/ todo' # <<>>)
    <3>1. Script(Tail(todo), ram.scn)
      BY ResetLogIsOperation, ScriptGoesOn DEF IInv, Scripted
    <3>2. Tail(todo) # <<>>
      BY <3>1 DEF Script
    <3>. QED  BY <1>2, <3>2 DEF Proceeds
  <2>. QED  BY <1>2, <2>1, <2>2, ResetLogIsOperation, OperationCarefree DEF Proceeds
<1>. QED  BY <1>1, <1>2 DEF ResetLog

\* Only a return ends a script.
LEMMA TailGoesOn ==
  ASSUME IInv, todo # <<>>, Head(todo).do # "return"
  PROVE  Tail(todo) # <<>> /\ Head(todo) \in Operations
<1>1. Script(Tail(todo), ram.scn) /\ Script(todo, ram.scn)
  BY ScriptGoesOn DEF IInv, Scripted
<1>. QED  BY <1>1, ReturnIsLast DEF Script

\* The space for one more record, where a plan says how many there are.
LEMMA PlannedLog ==
  ASSUME NEW s, NEW k \in Nat, log = Log("clean", Salted(s, k))
  PROVE  /\ log.state = "clean" /\ log.recs = Salted(s, k) /\ log.mounted
         /\ k < LogRecords => HasRoom
<1>1. log.state = "clean" /\ log.recs = Salted(s, k) /\ log.mounted
  BY DEF Log
<1>2. Len(log.recs) = k
  BY <1>1, SaltedIs
<1>. QED  BY <1>1, <1>2 DEF HasRoom

\* append_salt has room, so it appends.
LEMMA AppendRecordCarefree ==
  ASSUME IInv, Carefree, AppendRecord
  PROVE  Carefree'
<1>1. CASE Faulty
  BY <1>1, FaultIsHarm DEF Carefree
<1>2. CASE ~Unharmed
  BY <1>2, AppendRecordIsOperation, HarmLasts DEF Carefree, Next, Firmware
<1>3. CASE Unharmed /\ ~Faulty
  <2>1. /\ app.on /\ todo # <<>> /\ Head(todo).do = "append" /\ OneOperation
        /\ Tail(todo) # <<>> /\ Head(todo) \in Operations
    BY AppendRecordIsOperation, TailGoesOn
  <2>2. PICK s \in Scenarios, k \in Int :
          /\ k # Unknown => log = Log("clean", Salted(s, k))
          /\ Fits(Head(todo), s, k, scratch)
          /\ \A lg : (FlashAfter(Head(todo), k) # Unknown => lg = Log("clean", Salted(s, FlashAfter(Head(todo), k))))
               => Plan(Tail(todo), ram.scn, lg, PsramAfter(Head(todo), scratch))
    BY <1>3, <2>1, PlanGoesOn
  <2>3. Head(todo).s = s /\ Head(todo).n = k /\ k < LogRecords /\ k \in Nat
    BY <2>1, <2>2 DEF Fits, Operations
  <2>4. log = Log("clean", Salted(s, k))
    BY <2>2, <2>3 DEF Unknown
  <2>5. HasRoom /\ log.state = "clean" /\ log.recs = Salted(s, k)
    BY <2>3, <2>4, PlannedLog
  <2>6. log' = WithRecord /\ Proceeds /\ used' = used /\ scratch' = scratch
    BY <1>3, <2>5 DEF AppendRecord, AppendSucceeds, AppendFails
  <2>7. FlashAfter(Head(todo), k) = k + 1 /\ PsramAfter(Head(todo), scratch) = scratch
    BY <2>1 DEF FlashAfter, PsramAfter
  <2>8. log' = Log("clean", Salted(s, k + 1))
    BY <2>3, <2>5, <2>6, SaltedIs DEF WithRecord, Record
  <2>9. Plan(Tail(todo), ram.scn, log', scratch')
    BY <2>2, <2>6, <2>7, <2>8
  <2>10. todo' = Tail(todo)
    BY <2>6 DEF Proceeds
  <2>. QED  BY <2>1, <2>6, <2>9, <2>10, OperationCarefree
<1>. QED  BY <1>1, <1>2, <1>3

\* An append of the capacity scenario may find the log full, but not the first.
LEMMA FillLogCarefree ==
  ASSUME IInv, Carefree, FillLog
  PROVE  Carefree'
<1>1. CASE Faulty
  BY <1>1, FaultIsHarm DEF Carefree
<1>2. CASE ~Unharmed
  BY <1>2, FillLogIsOperation, HarmLasts DEF Carefree, Next, Firmware
<1>3. CASE Unharmed /\ ~Faulty
  <2>1. /\ app.on /\ todo # <<>> /\ Head(todo).do = "fill" /\ OneOperation
        /\ Tail(todo) # <<>> /\ Head(todo) \in Operations
    BY FillLogIsOperation, TailGoesOn
  <2>2. PICK s \in Scenarios, k \in Int :
          /\ k # Unknown => log = Log("clean", Salted(s, k))
          /\ Fits(Head(todo), s, k, scratch)
          /\ ram.scn \in MultiPhase => s = ram.scn
          /\ \A lg : (FlashAfter(Head(todo), k) # Unknown => lg = Log("clean", Salted(s, FlashAfter(Head(todo), k))))
               => Plan(Tail(todo), ram.scn, lg, PsramAfter(Head(todo), scratch))
    BY <1>3, <2>1, PlanGoesOn
  <2>3. FlashAfter(Head(todo), k) = Unknown /\ PsramAfter(Head(todo), scratch) = scratch
    BY <2>1 DEF FlashAfter, PsramAfter
  <2>4. scratch' = scratch /\ used' = used
    BY <1>3 DEF FillLog, AppendSucceeds, AppendFails
  <2>5. CASE AppendSucceeds
    <3>1. Proceeds
      BY <2>5 DEF AppendSucceeds
    <3>2. Plan(Tail(todo), ram.scn, log', scratch')
      BY <2>2, <2>3, <2>4
    <3>3. todo' = Tail(todo)
      BY <3>1 DEF Proceeds
    <3>. QED  BY <2>1, <2>4, <3>2, <3>3, OperationCarefree
  <2>6. CASE AppendFails
    <3>1. Head(todo).n # 0
      <4>1. SUFFICES ASSUME Head(todo).n = 0 PROVE FALSE
        OBVIOUS
      <4>2. k = 0
        BY <2>1, <2>2, <4>1 DEF Fits
      <4>3. log = Log("clean", Salted(s, 0))
        BY <2>2, <4>2 DEF Unknown
      <4>. QED  BY <1>3, <2>6, <4>3, PlannedLog, FirmwareAssumption DEF AppendFails
    <3> DEFINE last == todo[Len(todo)]
    <3>2. todo' = <<last>> \/ AppendSucceeds
      BY <3>1 DEF FillLog
    <3>3. last \in Operations /\ last.do = "return"
      <4>1. Script(todo, ram.scn)
        BY <2>1 DEF IInv, Scripted
      <4>2. todo \in Seq(Operations)
        BY <4>1 DEF Script
      <4>3. Len(todo) \in 1 .. Len(todo)
        BY <2>1, <4>2
      <4>. QED  BY <4>1, <4>2, <4>3, ReturnIsLast
    <3> HIDE DEF last
    <3>. SUFFICES ASSUME ~AppendSucceeds PROVE Carefree'
      BY <2>5
    <3>4. Unknown \in Int /\ Unknown = FlashAfter(last, Unknown) /\ scratch = PsramAfter(last, scratch)
          /\ scratch \in Nat
      BY <3>3 DEF Unknown, FlashAfter, PsramAfter, IInv, Typed
    <3>5. Fits(last, s, Unknown, scratch)
      BY <3>3 DEF Fits
    <3>6. Follows(<<last>>, s, Unknown, scratch, Unknown, scratch)
      BY <3>4, <3>5, FollowsOne
    <3>7. Plan(<<last>>, ram.scn, log', scratch')
      BY <2>2, <2>4, <3>4, <3>6 DEF Plan
    <3>8. todo' # <<>>
      BY <3>2
    <3>. QED  BY <2>1, <2>4, <3>2, <3>7, <3>8, OperationCarefree
  <2>. QED  BY <2>5, <2>6 DEF FillLog
<1>. QED  BY <1>1, <1>2, <1>3

\* verify_salted_records finds the records it wants.
LEMMA VerifyRecordsCarefree ==
  ASSUME IInv, Carefree, VerifyRecords
  PROVE  Carefree'
<1>1. CASE Faulty
  BY <1>1, FaultIsHarm DEF Carefree
<1>2. CASE ~Unharmed
  BY <1>2, VerifyRecordsIsOperation, HarmLasts DEF Carefree, Next, Firmware
<1>3. CASE Unharmed /\ ~Faulty
  <2>1. /\ app.on /\ todo # <<>> /\ Head(todo).do = "verify" /\ OneOperation
        /\ Tail(todo) # <<>> /\ Head(todo) \in Operations
    BY VerifyRecordsIsOperation, TailGoesOn
  <2>2. PICK s \in Scenarios, k \in Int :
          /\ k # Unknown => log = Log("clean", Salted(s, k))
          /\ Fits(Head(todo), s, k, scratch)
          /\ \A lg : (FlashAfter(Head(todo), k) # Unknown => lg = Log("clean", Salted(s, FlashAfter(Head(todo), k))))
               => Plan(Tail(todo), ram.scn, lg, PsramAfter(Head(todo), scratch))
    BY <1>3, <2>1, PlanGoesOn
  <2>3. Head(todo).s = s /\ Head(todo).n = k /\ k \in Nat
    BY <2>1, <2>2 DEF Fits, Operations
  <2>4. log = Log("clean", Salted(s, k))
    BY <2>2, <2>3 DEF Unknown
  <2>5. log.state = "clean" /\ log.recs = Salted(s, k) /\ log.mounted
    BY <2>3, <2>4, PlannedLog
  <2>6. log.recs = [i \in 1 .. Head(todo).n |-> <<Head(todo).s, i - 1>>]
    BY <2>3, <2>5 DEF Salted
  <2>7. Proceeds /\ used' = used /\ scratch' = scratch /\ log' = log
    BY <1>3, <2>5, <2>6 DEF VerifyRecords
  <2>8. FlashAfter(Head(todo), k) = k /\ PsramAfter(Head(todo), scratch) = scratch
    BY <2>1 DEF FlashAfter, PsramAfter
  <2>9. Plan(Tail(todo), ram.scn, log', scratch')
    BY <2>2, <2>4, <2>7, <2>8
  <2>10. todo' = Tail(todo)
    BY <2>7 DEF Proceeds
  <2>. QED  BY <2>1, <2>7, <2>9, <2>10, OperationCarefree
<1>. QED  BY <1>1, <1>2, <1>3

\* So do the checks of the log in PSRAM.
LEMMA ScratchStepCarefree ==
  ASSUME IInv, Carefree, ScratchStep
  PROVE  Carefree'
<1>1. CASE Faulty
  BY <1>1, FaultIsHarm DEF Carefree
<1>2. CASE ~Unharmed
  BY <1>2, ScratchStepIsOperation, HarmLasts DEF Carefree, Next, Firmware
<1>3. CASE Unharmed /\ ~Faulty
  <2>1. /\ app.on /\ todo # <<>> /\ Head(todo).do \in ScratchNames /\ OneOperation
    BY ScratchStepIsOperation
  <2>2. Head(todo).do # "return" /\ Tail(todo) # <<>>
    BY <2>1, TailGoesOn DEF ScratchNames
  <2>3. PICK s \in Scenarios, k \in Int :
          /\ k # Unknown => log = Log("clean", Salted(s, k))
          /\ Fits(Head(todo), s, k, scratch)
          /\ \A lg : (FlashAfter(Head(todo), k) # Unknown => lg = Log("clean", Salted(s, FlashAfter(Head(todo), k))))
               => Plan(Tail(todo), ram.scn, lg, PsramAfter(Head(todo), scratch))
    BY <1>3, <2>1, PlanGoesOn
  <2>4. Head(todo).do \in {"scratch_verify", "wrap_verify"} => scratch = Head(todo).n
    BY <2>3 DEF Fits
  <2>5. Proceeds /\ used' = used /\ scratch' = PsramAfter(Head(todo), scratch)
    BY <1>3, <2>4 DEF ScratchStep, PsramAfter
  <2>6. log' = log /\ FlashAfter(Head(todo), k) = k
    BY <2>1 DEF ScratchStep, FlashAfter, ScratchNames
  <2>7. Plan(Tail(todo), ram.scn, log', scratch')
    BY <2>3, <2>5, <2>6
  <2>8. todo' = Tail(todo)
    BY <2>5 DEF Proceeds
  <2>. QED  BY <2>1, <2>2, <2>5, <2>7, <2>8, OperationCarefree
<1>. QED  BY <1>1, <1>2, <1>3

\* The restart leaves the log the next phase wants.
LEMMA ScheduleRestartCarefree ==
  ASSUME IInv, Carefree, ScheduleRestart
  PROVE  Carefree'
<1>1. CASE ~Unharmed
  BY <1>1, HarmLasts DEF Carefree, Next, Firmware
<1>2. CASE Unharmed
  <2> DEFINE op == Head(todo)
  <2>1. app.on /\ todo # <<>> /\ op.do = "restart" /\ Script(todo, ram.scn)
    BY DEF ScheduleRestart, At, IInv, Scripted
  <2>2. /\ op.n \in {1, 2} /\ ram.scn \in MultiPhase
        /\ Tail(todo) = <<Head(Tail(todo))>> /\ Head(Tail(todo)).do = "return"
    BY <2>1, ReturnIsLast
  <2>3. Tail(todo) # <<>>
    BY <2>1, TailGoesOn
  <2>4. PICK s \in Scenarios, k \in Int :
          /\ k # Unknown => log = Log("clean", Salted(s, k))
          /\ Fits(op, s, k, scratch)
          /\ ram.scn \in MultiPhase => s = ram.scn
          /\ \A lg : (FlashAfter(op, k) # Unknown => lg = Log("clean", Salted(s, FlashAfter(op, k))))
               => Plan(Tail(todo), ram.scn, lg, PsramAfter(op, scratch))
    BY <1>2, <2>1, PlanGoesOn
  <2>5. FlashAfter(op, k) = k /\ PsramAfter(op, scratch) = scratch
    BY <2>1 DEF FlashAfter, PsramAfter
  <2>6. Plan(Tail(todo), ram.scn, log, scratch)
    BY <2>4, <2>5
  <2>7. s = ram.scn /\ k = Kept(s, op.n) /\ (op.n = 2 => s = 7)
    BY <2>1, <2>2, <2>4 DEF Fits
  <2>8. k # Unknown
    BY <2>2, <2>7 DEF Kept, Unknown
  <2>9. Resumable(ram.scn, op.n, log)
    BY <2>2, <2>4, <2>7, <2>8 DEF Resumable
  <2>10. PICK uptime \in {now} \cup now .. MaxUptime :
          ram' = [ram EXCEPT !.phase = Head(todo).n, !.pending = TRUE, !.restart_at = uptime + RestartDelay]
    BY DEF ScheduleRestart
  <2> DEFINE t == uptime + RestartDelay
             p == op.n
  <2>11. p \in 0 .. 2 /\ t \in Nat /\ ram \in PersistedState
    BY <2>2, FirmwareAssumption DEF IInv, Typed
  <2>12. ram' = [ram EXCEPT !.phase = p, !.pending = TRUE, !.restart_at = t]
    BY <2>10
  <2>13. p = op.n
    OBVIOUS
  <2> HIDE DEF t, p
  <2>14. ram'.scn = ram.scn /\ ram'.last = ram.last /\ ram'.phase = p
    BY <2>11, <2>12, Restarting DEF PersistedState
  <2>15. nv' = ram' /\ todo' = Tail(todo) /\ log' = log /\ scratch' = scratch /\ said' = said /\ used' = used
    BY DEF ScheduleRestart, save_state
  <2>16. ~said.failed /\ (ram.scn > 0 => ram.last \in {"PASS", "SKIP"})
    BY <1>2 DEF Carefree
  <2>17. todo' # <<>> /\ Head(todo').do = "return" /\ Plan(todo', ram.scn, log', scratch')
    BY <2>2, <2>3, <2>6, <2>15
  <2>. QED  BY <2>2, <2>9, <2>13, <2>14, <2>15, <2>16, <2>17 DEF Carefree
<1>. QED  BY <1>1, <1>2

\* The session moves on, unless there is no outcome yet or nothing left to run.
LEMMA ReturnMovesOn ==
  ASSUME IInv, ScenarioReturns
  PROVE  \/ nv' = ram' /\ ram'.phase = 0 /\ ram'.last \in {"PASS", "SKIP"}
         \/ ram' = ram /\ nv' = nv /\ (ram.scn = kScenarioCount \/ ram.last \notin {"PASS", "SKIP"})
<1> DEFINE last == Head(todo).s
           r == Tallied(last)
<1>1. app.on /\ todo # <<>> /\ Script(todo, ram.scn) /\ last \in Results(ram.scn)
  <2>1. app.on /\ todo # <<>> /\ Head(todo).do = "return" /\ Script(todo, ram.scn)
    BY DEF ScenarioReturns, At, IInv, Scripted
  <2>. QED  BY <2>1, ReturnIsLast
<1>2. ram \in PersistedState /\ nv \in PersistedState /\ ram.scn \in 0 .. kScenarioCount
  BY DEF IInv, Typed, PersistedState
<1>3. IF Advances(r)
      THEN ram' = MovedOn(r) /\ nv' = ram'
      ELSE ram' = r /\ nv' = nv
  BY DEF ScenarioReturns, save_state, MovedOn
<1>4. last \in {"PASS", "SKIP", "NONE"}
  BY <1>1 DEF Results
<1>5. /\ r \in PersistedState /\ r.scn = ram.scn
      /\ last = "NONE" => r = ram
      /\ last # "NONE" => r.last = last
  <2>1. CASE last = "PASS"
    <3> DEFINE a == ram.pass + 1
    <3>1. r = WithPass(ram, a)
      BY <2>1 DEF Tallied, WithPass
    <3>2. a \in Nat
      BY <1>2 DEF PersistedState
    <3> HIDE DEF last, r, a
    <3>3. r \in PersistedState /\ r.scn = ram.scn /\ r.last = "PASS"
      BY <1>2, <3>1, <3>2, Counting
    <3>. QED  BY <2>1, <3>3
  <2>2. CASE last = "SKIP"
    <3> DEFINE a == ram.skip + 1
    <3>1. r = WithSkip(ram, a)
      BY <2>2 DEF Tallied, WithSkip
    <3>2. a \in Nat
      BY <1>2 DEF PersistedState
    <3> HIDE DEF last, r, a
    <3>3. r \in PersistedState /\ r.scn = ram.scn /\ r.last = "SKIP"
      BY <1>2, <3>1, <3>2, Counting
    <3>. QED  BY <2>2, <3>3
  <2>3. CASE last = "NONE"
    <3>1. r = ram
      BY <2>3 DEF Tallied
    <3>. QED  BY <1>2, <2>3, <3>1
  <2>. QED  BY <1>4, <2>1, <2>2, <2>3
<1> HIDE DEF last, r
<1>6. CASE Advances(r)
  <2>1. r.scn < kScenarioCount /\ r.last \in {"PASS", "SKIP"}
    BY <1>6 DEF Advances
  <2>2. ram' = MovedOn(r) /\ nv' = ram'
    BY <1>3, <1>6
  <2>. QED  BY <1>5, <2>1, <2>2, MovingOn
<1>7. CASE ~Advances(r)
  <2>1. ram' = r /\ nv' = nv
    BY <1>3, <1>7
  <2>2. CASE last = "NONE"
    <3>1. r = ram
      BY <1>5, <2>2
    <3>. QED  BY <1>2, <1>7, <2>1, <3>1 DEF Advances, kScenarioCount
  <2>3. CASE last # "NONE"
    <3>1. ram.scn < kScenarioCount
      BY <1>1, <1>2, <2>3 DEF Results, kScenarioCount
    <3>. QED  BY <1>4, <1>5, <1>7, <2>3, <3>1 DEF Advances
  <2>. QED  BY <2>2, <2>3
<1>. QED  BY <1>6, <1>7

\* A scenario that returns leaves no phase behind.
LEMMA ScenarioReturnsCarefree ==
  ASSUME IInv, Carefree, ScenarioReturns
  PROVE  Carefree'
<1>1. todo' = <<>> /\ used' = used /\ said'.failed = said.failed
  BY ReturnEffect
<1>2. SUFFICES ASSUME Unharmed PROVE Carefree'
  BY <1>1 DEF Carefree, Unharmed
<1>3. CASE nv' = ram' /\ ram'.phase = 0 /\ ram'.last \in {"PASS", "SKIP"}
  BY <1>1, <1>2, <1>3 DEF Carefree
<1>4. CASE ram' = ram /\ nv' = nv /\ (ram.scn = kScenarioCount \/ ram.last \notin {"PASS", "SKIP"})
  <2>1. nv.scn \in 0 .. kScenarioCount /\ ram.scn = nv.scn
    BY DEF IInv, Typed, PersistedState, Booked
  <2>2. nv.phase # 0 => nv.scn \in MultiPhase
    BY <1>2 DEF Carefree
  <2>3. ram.scn > 0 => ram.last \in {"PASS", "SKIP"}
    BY <1>2 DEF Carefree
  <2>4. nv.phase = 0
    BY <1>4, <2>1, <2>2, <2>3 DEF MultiPhase, kScenarioCount
  <2>. QED  BY <1>1, <1>2, <1>4, <2>4 DEF Carefree
<1>. QED  BY <1>3, <1>4, ReturnMovesOn

\* A scenario starts with a plan.
LEMMA RunsCarefree ==
  ASSUME Roomy, IInv, Carefree, CanRun, Runs
  PROVE  Carefree'
<1> SUFFICES ASSUME Unharmed PROVE Carefree'
  BY DEF Carefree, Unharmed, Runs
<1>1. /\ todo = <<>> /\ todo' = run_current_scenario
      /\ UNCHANGED <<nv, ram, app, log, scratch, now, said, used>>
  BY DEF CanRun, Idle, Runs
<1>2. ram \in PersistedState /\ scratch \in Nat /\ ram.scn = nv.scn /\ ram.phase = nv.phase
  BY DEF IInv, Typed, Booked
<1>3. /\ nv.phase # 0 => Resumable(nv.scn, nv.phase, log)
      /\ nv.phase # 0 => used.cuts # 0 /\ nv.scn \in MultiPhase
      /\ ~said.failed
      /\ nv.scn > 0 => nv.last \in {"PASS", "SKIP"}
      /\ ram.scn > 0 => ram.last \in {"PASS", "SKIP"}
  BY <1>1 DEF Carefree
<1>4. Plan(run_current_scenario, ram.scn, log, scratch)
  BY <1>2, <1>3, ScenarioHasPlan
<1>5. run_current_scenario # <<>>
  BY <1>2, ScenarioIsScript DEF Script
<1>. QED  BY <1>1, <1>3, <1>4, <1>5 DEF Carefree

\* A step between two scenarios that keeps the log a phase wants.
LEMMA RestCarefree ==
  ASSUME IInv, Carefree, todo = <<>>, todo' = <<>>, said'.failed = said.failed, used' = used,
         Unharmed /\ nv.phase # 0 => log' = log,
         nv'.scn = nv.scn, nv'.phase = nv.phase, nv'.last \in {nv.last, ram.last},
         ram'.scn = ram.scn, ram'.last \in {nv.last, ram.last}
  PROVE  Carefree'
BY DEF Carefree, IInv, Booked, Unharmed

\* Waiting for the restart is such a step.
LEMMA TimePassesCarefree ==
  ASSUME IInv, Carefree, TimePasses
  PROVE  Carefree'
BY RestCarefree DEF TimePasses, Waiting, Idle

\* So is the restart.
LEMMA MaybeRestartCarefree ==
  ASSUME IInv, Carefree, MaybeRestart
  PROVE  Carefree'
<1>1. ram' = [ram EXCEPT !.pending = FALSE] /\ nv' = ram' /\ ram \in PersistedState /\ nv \in PersistedState
  BY DEF MaybeRestart, save_state, IInv, Typed
<1>2. ram'.scn = ram.scn /\ ram'.phase = ram.phase /\ ram'.last = ram.last
  BY <1>1 DEF PersistedState
<1>. QED  BY <1>1, <1>2, RestCarefree DEF MaybeRestart, Waiting, Idle, IInv, Booked

\* So is SESSION_MODE.
LEMMA SessionModeCarefree ==
  ASSUME IInv, Carefree, NEW faults \in HostModes, SessionMode(faults)
  PROVE  Carefree'
<1>1. /\ ram' = [ram EXCEPT !.mode = TRUE, !.faults = faults] /\ nv' = ram'
      /\ ram \in PersistedState /\ nv \in PersistedState
  BY DEF SessionMode, save_state, IInv, Typed
<1>2. ram'.scn = ram.scn /\ ram'.phase = ram.phase /\ ram'.last = ram.last
  BY <1>1 DEF PersistedState
<1>. QED  BY <1>1, <1>2, RestCarefree DEF SessionMode, Idle, IInv, Booked

\* So is SESSION_PROGRESS.
LEMMA SessionProgressCarefree ==
  ASSUME IInv, Carefree, SessionProgress
  PROVE  Carefree'
BY RestCarefree DEF SessionProgress, save_state, Idle, IInv, Booked

\* A log that a phase needs is clean, and a clean log is mounted as it is.
LEMMA BootCarefree ==
  ASSUME IInv, Carefree, Boot
  PROVE  Carefree'
<1>1. CASE Faulty
  BY <1>1, FaultIsHarm DEF Carefree
<1>2. CASE ~Faulty
  <2>1. todo = <<>> /\ todo' = <<>> /\ ram' = nv /\ nv' = nv /\ said' = said /\ used' = used
    BY <1>2 DEF Boot, IInv, Scripted
  <2>2. ASSUME Unharmed, nv.phase # 0
        PROVE  log' = log
    <3>1. log.state = "clean" /\ Log(log.state, log.recs) = log
      BY <2>1, <2>2 DEF Carefree, Resumable, Log
    <3>. QED  BY <1>2, <3>1 DEF Boot
  <2>. QED  BY <2>1, <2>2, RestCarefree DEF IInv, Booked
<1>. QED  BY <1>1, <1>2

\* The first cut finds the session between two phases only if the restart it
\* asked for has been saved and the log is at rest.
LEMMA PowerLossCarefree ==
  ASSUME IInv, Carefree, PowerLoss
  PROVE  Carefree'
<1> SUFFICES ASSUME Unharmed' PROVE Carefree'
  BY DEF Carefree
<1>1. used \in [faults : Nat, cuts : Nat] /\ used' = [used EXCEPT !.cuts = @ + 1]
  BY DEF PowerLoss, IInv, Typed
<1>2. used.faults = 0 /\ used.cuts = 0 /\ Unharmed
  BY <1>1 DEF Unharmed
<1>3. todo' = <<>> /\ nv' = nv /\ ram' = ram /\ log' \in Interrupted
  BY DEF PowerLoss
<1>4. said'.failed = said.failed
  BY DEF PowerLoss, IInv, Typed
<1>5. ASSUME nv.phase # 0
      PROVE  Resumable(nv.scn, nv.phase, log')
  <2>1. todo # <<>> /\ Head(todo).do = "return" /\ Resumable(nv.scn, nv.phase, log)
    BY <1>2, <1>5 DEF Carefree
  <2>2. Interrupted = {log}
    BY <2>1 DEF Interrupted, At
  <2>. QED  BY <1>3, <2>1, <2>2
<1>6. used'.cuts # 0
  BY <1>1, <1>2
<1>. QED  BY <1>2, <1>3, <1>4, <1>5, <1>6 DEF Carefree

\* Every step keeps a plan.
LEMMA NextCarefree ==
  ASSUME Roomy, IInv, Carefree, [Next]_vars
  PROVE  Carefree'
<1>1. CASE UNCHANGED vars
  BY <1>1 DEF vars, Carefree, Unharmed
<1>2. CASE Boot
  BY <1>2, BootCarefree
<1>3. CASE Tick \/ ProjectTest
  BY <1>3, RunsCarefree DEF Tick, ProjectTest
<1>4. CASE TimePasses \/ MaybeRestart
  BY <1>4, TimePassesCarefree, MaybeRestartCarefree
<1>5. CASE ResetLog \/ AppendRecord \/ FillLog
  BY <1>5, ResetLogCarefree, AppendRecordCarefree, FillLogCarefree
<1>6. CASE VerifyRecords \/ ScratchStep
  BY <1>6, VerifyRecordsCarefree, ScratchStepCarefree
<1>7. CASE ScheduleRestart \/ ScenarioReturns
  BY <1>7, ScheduleRestartCarefree, ScenarioReturnsCarefree
<1>8. CASE SessionProgress
  BY <1>8, SessionProgressCarefree
<1>9. CASE \E faults \in HostModes : SessionMode(faults)
  BY <1>9, SessionModeCarefree
<1>10. CASE PowerLoss
  BY <1>10, PowerLossCarefree
<1>. QED
  BY <1>1, <1>2, <1>3, <1>4, <1>5, <1>6, <1>7, <1>8, <1>9, <1>10 DEF Next, Firmware

\* A new board has nothing planned.
LEMMA InitCarefree == Init => Carefree
BY DEF Init, Defaults, Carefree

\* OneCutNeverFails, on a log with room for the largest burst: one power loss or REBOOT
\* alone makes no scenario fail, wherever it strikes, since run again each scenario either
\* resets the log or finds it as its phase left it.
THEOREM OneCutIsHarmless ==
  ASSUME Roomy
  PROVE  Spec => []OneCutNeverFails
<1>1. IInv /\ Carefree => OneCutNeverFails
  BY DEF IInv, Typed, Carefree, Unharmed, OneCutNeverFails
<1>2. IInv /\ Carefree /\ [Next]_vars => Carefree'
  BY NextCarefree
<1>. QED  BY Inductive, InitCarefree, <1>1, <1>2, PTL DEF Spec

=============================================================================
