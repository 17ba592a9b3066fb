------------------------- MODULE BenchPower_proofs -------------------------
(***************************************************************************)
(* Proofs about the host side of the hardware test bench, for any number   *)
(* of cycles, of recovery attempts and of failing power commands.          *)
(*                                                                         *)
(* What the worker has printed and the runner has not dealt with lies in   *)
(* two sequences, stdout and queue, read in order: the proofs look at them *)
(* as one pipe, and at the two counters of the summary as the start of two *)
(* ascending counts that run along it.                                     *)
(***************************************************************************)
EXTENDS BenchPower, TLAPS

Pipe == queue \o stdout

Asking == "power_off_requested"
Ending == "cycle_complete"

One(condition) == IF condition THEN 1 ELSE 0

\* Counts of requests (from r0 to r1) and of completed cycles (from c0 to c1) along
\* a sequence of events, the second never ahead of the first.
Carries(s, r0, r1, c0, c1) ==
  \E R \in [0 .. Len(s) -> Nat], C \in [0 .. Len(s) -> Nat] :
    /\ R[0] = r0 /\ R[Len(s)] = r1 /\ C[0] = c0 /\ C[Len(s)] = c1
    /\ \A i \in 1 .. Len(s) : /\ R[i] = R[i - 1] + One(s[i] = Asking)
                              /\ C[i] = C[i - 1] + One(s[i] = Ending)
    /\ \A i, j \in 0 .. Len(s) : C[i] <= R[i] /\ (i <= j => R[i] <= R[j])

-----------------------------------------------------------------------------
\* Along a sequence of events the counts only grow, and one that ends in a request has
\* counted it.
LEMMA CarriesBounds ==
  ASSUME NEW s \in Seq(Events), NEW r0, NEW r1, NEW c0, NEW c1, Carries(s, r0, r1, c0, c1)
  PROVE  /\ r0 \in Nat /\ r1 \in Nat /\ c0 \in Nat /\ c1 \in Nat
         /\ c0 <= r0 /\ r0 <= r1 /\ c1 <= r1
         /\ s = <<>> => r0 = r1 /\ c0 = c1
         /\ s # <<>> /\ s[Len(s)] = Asking => r0 < r1
<1>1. PICK R \in [0 .. Len(s) -> Nat], C \in [0 .. Len(s) -> Nat] :
        /\ R[0] = r0 /\ R[Len(s)] = r1 /\ C[0] = c0 /\ C[Len(s)] = c1
        /\ \A i \in 1 .. Len(s) : /\ R[i] = R[i - 1] + One(s[i] = Asking)
                                  /\ C[i] = C[i - 1] + One(s[i] = Ending)
        /\ \A i, j \in 0 .. Len(s) : C[i] <= R[i] /\ (i <= j => R[i] <= R[j])
  BY DEF Carries
<1>2. Len(s) \in Nat /\ 0 \in 0 .. Len(s) /\ Len(s) \in 0 .. Len(s)
  OBVIOUS
<1>3. /\ r0 \in Nat /\ r1 \in Nat /\ c0 \in Nat /\ c1 \in Nat
      /\ c0 <= r0 /\ r0 <= r1 /\ c1 <= r1
  BY <1>1, <1>2
<1>4. ASSUME s = <<>> PROVE r0 = r1 /\ c0 = c1
  BY <1>1, <1>4
<1>5. ASSUME s # <<>>, s[Len(s)] = Asking PROVE r0 < r1
  <2>1. Len(s) \in 1 .. Len(s) /\ Len(s) - 1 \in 0 .. Len(s)
    BY <1>2, <1>5
  <2>2. R[Len(s)] = R[Len(s) - 1] + 1 /\ R[0] <= R[Len(s) - 1] /\ R[Len(s) - 1] \in Nat
    BY <1>1, <1>5, <2>1 DEF One
  <2>. QED  BY <1>1, <1>3, <2>2
<1>. QED  BY <1>3, <1>4, <1>5

\* An event more.
LEMMA CarriesAppend ==
  ASSUME NEW s \in Seq(Events), NEW r0, NEW r1, NEW c0, NEW c1, Carries(s, r0, r1, c0, c1),
         NEW e \in Events, NEW r2, r2 = r1 + One(e = Asking), NEW c2, c2 = c1 + One(e = Ending),
         c2 <= r2
  PROVE  Carries(Append(s, e), r0, r2, c0, c2)
<1>1. PICK R \in [0 .. Len(s) -> Nat], C \in [0 .. Len(s) -> Nat] :
        /\ R[0] = r0 /\ R[Len(s)] = r1 /\ C[0] = c0 /\ C[Len(s)] = c1
        /\ \A i \in 1 .. Len(s) : /\ R[i] = R[i - 1] + One(s[i] = Asking)
                                  /\ C[i] = C[i - 1] + One(s[i] = Ending)
        /\ \A i, j \in 0 .. Len(s) : C[i] <= R[i] /\ (i <= j => R[i] <= R[j])
  BY DEF Carries
<1>2. /\ r0 \in Nat /\ r1 \in Nat /\ c0 \in Nat /\ c1 \in Nat /\ r0 <= r1
      /\ r2 \in Nat /\ c2 \in Nat /\ r1 <= r2
  BY CarriesBounds DEF One
<1> DEFINE n == Len(s)
           R2 == [i \in 0 .. n + 1 |-> IF i = n + 1 THEN r2 ELSE R[i]]
           C2 == [i \in 0 .. n + 1 |-> IF i = n + 1 THEN c2 ELSE C[i]]
           t == Append(s, e)
<1>3. /\ n \in Nat /\ Len(t) = n + 1 /\ t[n + 1] = e /\ \A i \in 1 .. n : t[i] = s[i]
  OBVIOUS
<1>4. R2 \in [0 .. n + 1 -> Nat] /\ C2 \in [0 .. n + 1 -> Nat]
  BY <1>2, <1>3
<1>5. /\ R2[n + 1] = r2 /\ C2[n + 1] = c2
      /\ \A i \in 0 .. n : R2[i] = R[i] /\ C2[i] = C[i]
  BY <1>3
<1> HIDE DEF R2, C2, t
<1>6. R2[0] = r0 /\ C2[0] = c0
  BY <1>1, <1>3, <1>5
<1>7. ASSUME NEW i \in 1 .. n + 1
      PROVE  /\ R2[i] = R2[i - 1] + One(t[i] = Asking)
             /\ C2[i] = C2[i - 1] + One(t[i] = Ending)
  <2>1. CASE i = n + 1
    <3>1. R2[i - 1] = r1 /\ C2[i - 1] = c1 /\ t[i] = e /\ R2[i] = r2 /\ C2[i] = c2
      BY <1>1, <1>3, <1>5, <2>1
    <3>. QED  BY <3>1
  <2>2. CASE i # n + 1
    <3>1. i \in 1 .. n /\ i \in 0 .. n /\ i - 1 \in 0 .. n
      BY <1>3, <2>2
    <3>. QED  BY <1>1, <1>3, <1>5, <3>1
  <2>. QED  BY <2>1, <2>2
<1>8. ASSUME NEW i \in 0 .. n + 1, NEW j \in 0 .. n + 1
      PROVE  C2[i] <= R2[i] /\ (i <= j => R2[i] <= R2[j])
  <2>1. C2[i] <= R2[i]
    <3>1. i = n + 1 \/ i \in 0 .. n
      BY <1>3
    <3>. QED  BY <1>1, <1>5, <3>1
  <2>2. ASSUME i <= j PROVE R2[i] <= R2[j]
    <3>1. CASE j = n + 1
      <4>1. R2[j] = r2
        BY <1>5, <3>1
      <4>2. CASE i = n + 1
        BY <1>2, <1>5, <3>1, <4>2
      <4>3. CASE i \in 0 .. n
        <5>1. R[i] <= r1 /\ R[i] \in Nat /\ R2[i] = R[i]
          BY <1>1, <1>3, <1>5, <4>3
        <5>. QED  BY <1>2, <4>1, <5>1
      <4>. QED  BY <1>3, <4>2, <4>3
    <3>2. CASE j # n + 1
      <4>1. i \in 0 .. n /\ j \in 0 .. n
        BY <1>3, <2>2, <3>2
      <4>. QED  BY <1>1, <1>5, <2>2, <4>1
    <3>. QED  BY <3>1, <3>2
  <2>. QED  BY <2>1, <2>2
<1>9. Carries(t, r0, r2, c0, c2)
  <2>1. /\ R2 \in [0 .. Len(t) -> Nat] /\ C2 \in [0 .. Len(t) -> Nat]
        /\ R2[0] = r0 /\ R2[Len(t)] = r2 /\ C2[0] = c0 /\ C2[Len(t)] = c2
    BY <1>1, <1>3, <1>4, <1>5, <1>6
  <2>2. \A i \in 1 .. Len(t) : /\ R2[i] = R2[i - 1] + One(t[i] = Asking)
                               /\ C2[i] = C2[i - 1] + One(t[i] = Ending)
    BY <1>3, <1>7
  <2>3. \A i, j \in 0 .. Len(t) : C2[i] <= R2[i] /\ (i <= j => R2[i] <= R2[j])
    BY <1>3, <1>8
  <2>. QED  BY <2>1, <2>2, <2>3 DEF Carries
<1>. QED  BY <1>9 DEF t

\* The first event less.
LEMMA CarriesTail ==
  ASSUME NEW s \in Seq(Events), s # <<>>,
         NEW r0, NEW r1, NEW c0, NEW c1, Carries(s, r0, r1, c0, c1)
  PROVE  Carries(Tail(s), r0 + One(s[1] = Asking), r1, c0 + One(s[1] = Ending), c1)
<1>1. PICK R \in [0 .. Len(s) -> Nat], C \in [0 .. Len(s) -> Nat] :
        /\ R[0] = r0 /\ R[Len(s)] = r1 /\ C[0] = c0 /\ C[Len(s)] = c1
        /\ \A i \in 1 .. Len(s) : /\ R[i] = R[i - 1] + One(s[i] = Asking)
                                  /\ C[i] = C[i - 1] + One(s[i] = Ending)
        /\ \A i, j \in 0 .. Len(s) : C[i] <= R[i] /\ (i <= j => R[i] <= R[j])
  BY DEF Carries
<1> DEFINE n == Len(s) - 1
           R2 == [i \in 0 .. n |-> R[i + 1]]
           C2 == [i \in 0 .. n |-> C[i + 1]]
           t == Tail(s)
<1>2. /\ n \in Nat /\ Len(s) = n + 1 /\ Len(t) = n /\ \A i \in 1 .. n : t[i] = s[i + 1]
  OBVIOUS
<1>3. R2 \in [0 .. n -> Nat] /\ C2 \in [0 .. n -> Nat]
  BY <1>2
<1>4. \A i \in 0 .. n : R2[i] = R[i + 1] /\ C2[i] = C[i + 1]
  OBVIOUS
<1> HIDE DEF R2, C2, t, n
<1>5. /\ R2[0] = r0 + One(s[1] = Asking) /\ C2[0] = c0 + One(s[1] = Ending)
      /\ R2[n] = r1 /\ C2[n] = c1
  <2>1. 0 \in 0 .. n /\ n \in 0 .. n /\ 1 \in 1 .. Len(s)
    BY <1>2
  <2>2. R[1] = R[1 - 1] + One(s[1] = Asking) /\ C[1] = C[1 - 1] + One(s[1] = Ending)
    BY <1>1, <2>1
  <2>3. R2[0] = R[0 + 1] /\ C2[0] = C[0 + 1] /\ R2[n] = R[n + 1] /\ C2[n] = C[n + 1]
    BY <1>4, <2>1
  <2>4. 1 - 1 = 0 /\ 0 + 1 = 1
    OBVIOUS
  <2>. QED  BY <1>1, <1>2, <2>2, <2>3, <2>4
<1>6. ASSUME NEW i \in 1 .. n
      PROVE  /\ R2[i] = R2[i - 1] + One(t[i] = Asking)
             /\ C2[i] = C2[i - 1] + One(t[i] = Ending)
  <2>1. i \in 0 .. n /\ i - 1 \in 0 .. n /\ i + 1 \in 1 .. Len(s) /\ (i + 1) - 1 = i /\ (i - 1) + 1 = i
    BY <1>2
  <2>2. R2[i] = R[i + 1] /\ R2[i - 1] = R[i] /\ C2[i] = C[i + 1] /\ C2[i - 1] = C[i]
        /\ t[i] = s[i + 1]
    BY <1>2, <1>4, <2>1
  <2>. QED  BY <1>1, <2>1, <2>2
<1>7. ASSUME NEW i \in 0 .. n, NEW j \in 0 .. n
      PROVE  C2[i] <= R2[i] /\ (i <= j => R2[i] <= R2[j])
  <2>1. /\ i + 1 \in 0 .. Len(s) /\ R2[i] = R[i + 1] /\ C2[i] = C[i + 1]
        /\ j + 1 \in 0 .. Len(s) /\ R2[j] = R[j + 1] /\ (i <= j => i + 1 <= j + 1)
    BY <1>2, <1>4
  <2>. QED  BY <1>1, <2>1
<1>8. Carries(t, r0 + One(s[1] = Asking), r1, c0 + One(s[1] = Ending), c1)
  <2>1. /\ R2 \in [0 .. Len(t) -> Nat] /\ C2 \in [0 .. Len(t) -> Nat]
        /\ R2[0] = r0 + One(s[1] = Asking) /\ R2[Len(t)] = r1
        /\ C2[0] = c0 + One(s[1] = Ending) /\ C2[Len(t)] = c1
    BY <1>2, <1>3, <1>5
  <2>2. \A i \in 1 .. Len(t) : /\ R2[i] = R2[i - 1] + One(t[i] = Asking)
                               /\ C2[i] = C2[i - 1] + One(t[i] = Ending)
    BY <1>2, <1>6
  <2>3. \A i, j \in 0 .. Len(t) : C2[i] <= R2[i] /\ (i <= j => R2[i] <= R2[j])
    BY <1>2, <1>7
  <2>. QED  BY <2>1, <2>2, <2>3 DEF Carries
<1>. QED  BY <1>8 DEF t

-----------------------------------------------------------------------------
WorkerPcs == {"starting", "delay", "loop", "interval", "ack", "cut", "hold", "restore",
              "cleanup", "exited"}
RunnerPcs == {"top", "drain", "telling", "poll", "connect", "settle", "read", "finally",
              "stopping", "waiting", "last", "done", "raised"}

Codes == {0, 3, 4, -15}
WorkerType ==
  [pc : WorkerPcs, cycle : 0 .. Target, tries : 0 .. Attempts - 1, may_be_off : BOOLEAN,
   code : Codes, killed : BOOLEAN, gave_up : BOOLEAN]
RunnerType ==
  [pc : RunnerPcs, connected : BOOLEAN, close : BOOLEAN, pending : BOOLEAN,
   started : Nat, completed : Nat, failed : BOOLEAN, exit_seen : BOOLEAN, stop : BOOLEAN]

Types ==
  /\ worker \in WorkerType /\ runner \in RunnerType
  /\ event \in [stop : BOOLEAN, power_off : BOOLEAN]
  /\ power \in BOOLEAN /\ over \in BOOLEAN /\ failures \in Nat
  /\ stdout \in Seq(Events) /\ queue \in Seq(Events)

\* The worker by itself: its exit code, its last cycle, and the power it leaves.
WorkerSound ==
  /\ worker.pc \in {"exited", "cleanup"} \/ worker.code = 0
  /\ worker.pc = "interval" => worker.cycle < Target
  /\ worker.pc = "exited" /\ ~power => worker.gave_up \/ worker.killed
  /\ worker.killed => worker.pc = "exited" /\ worker.code # 0

\* A cycle has been announced, and has not ended.
InCycle == worker.pc \in {"ack", "cut", "hold", "restore"}

\* The counters of the summary, and what the pipe will add to them.
Counted ==
  \E ended \in Nat :
    /\ Carries(Pipe, runner.started, worker.cycle, runner.completed, ended)
    /\ InCycle => ended < worker.cycle

\* Where the runner has the port closed.
Closed == {"telling", "finally", "stopping", "waiting", "last", "done", "raised"}

\* From the request to the cut either the request is the last thing in the pipe, or
\* the runner has dealt with it: it holds the port closed, or is about to close it.
PortHeld ==
  /\ runner.pc \in Closed => ~runner.connected
  /\ runner.pc = "settle" => ~runner.pending
  /\ worker.pc \in {"ack", "cut"} =>
       IF Pipe = <<>>
       THEN runner.pending /\ (runner.connected => runner.pc = "drain" /\ runner.close)
       ELSE Pipe[Len(Pipe)] = Asking

GaveUpIsTold ==
  \/ runner.failed
  \/ \E i \in DOMAIN stdout : stdout[i] = "cleanup_failed"
  \/ \E i \in DOMAIN queue : queue[i] = "cleanup_failed"

FailureSeen ==
  /\ worker.gave_up => GaveUpIsTold
  /\ runner.pc \in {"last", "done"} =>
       worker.pc = "exited" /\ (worker.code # 0 => runner.failed)

IInv == Types /\ WorkerSound /\ Counted /\ PortHeld /\ FailureSeen

-----------------------------------------------------------------------------
\* What any step of the worker is: it prints nothing, it asks for a cut, or it says
\* something else.
Quiet ==
  /\ stdout' = stdout /\ worker'.cycle = worker.cycle /\ worker'.gave_up = worker.gave_up
  /\ worker'.pc \in {"ack", "cut"} => worker.pc \in {"ack", "cut"}
  /\ InCycle' => InCycle

Asks ==
  /\ stdout' = Append(stdout, Asking) /\ worker'.cycle = worker.cycle + 1
  /\ worker'.gave_up = worker.gave_up /\ worker'.pc = "ack"

Says(e) ==
  /\ e \in Events \ {Asking}
  /\ stdout' = Append(stdout, e) /\ worker'.cycle = worker.cycle
  /\ worker'.pc \notin {"ack", "cut"}
  /\ IF e = Ending THEN InCycle /\ ~InCycle' ELSE InCycle' => InCycle
  /\ worker'.gave_up => worker.gave_up \/ e = "cleanup_failed"

WorkerStep ==
  /\ queue' = queue /\ runner' = runner /\ over' = over /\ event' = event
  /\ worker' \in WorkerType /\ power' \in BOOLEAN /\ failures' \in Nat /\ WorkerSound'
  /\ worker.pc # "exited"
  /\ power /\ ~power' => worker.pc = "cut"
  /\ Quiet \/ Asks \/ \E e \in Events : Says(e)

\* The constants are natural numbers; there is at least one cycle and one attempt.
LEMMA PowerConstants == Target \in Nat /\ Target >= 1 /\ Attempts \in Nat /\ Attempts >= 1 /\ MaxFailures \in Nat
BY PowerAssumption

\* The fields of the worker after each kind of update.
Became(w, w2, pc, cycle, code) ==
  /\ w2 \in WorkerType /\ w2.pc = pc /\ w2.cycle = cycle /\ w2.code = code
  /\ w2.killed = w.killed

\* The worker goes to another place in its loop, with its attempts counted.
LEMMA Goes ==
  ASSUME NEW w \in WorkerType, NEW pc \in WorkerPcs, NEW tries \in 0 .. Attempts - 1
  PROVE  LET w2 == [w EXCEPT !.pc = pc, !.tries = tries]
         IN  Became(w, w2, pc, w.cycle, w.code) /\ w2.gave_up = w.gave_up
BY PowerConstants DEF WorkerType, Became

Leaving(w, code) == [w EXCEPT !.pc = "cleanup", !.tries = 0, !.code = code]
Announcing(w) == [w EXCEPT !.pc = "ack", !.cycle = @ + 1]
Restored(w) == [w EXCEPT !.pc = "loop", !.tries = 0, !.may_be_off = FALSE]
Killed(w) == [w EXCEPT !.pc = "exited", !.killed = TRUE, !.code = -15]

\* The worker leaves its loop with an exit code.
LEMMA GoesOut ==
  ASSUME NEW w \in WorkerType, NEW code \in Codes
  PROVE  /\ Became(w, Leaving(w, code), "cleanup", w.cycle, code)
         /\ Leaving(w, code).gave_up = w.gave_up
<1>1. 0 \in 0 .. Attempts - 1 /\ "cleanup" \in WorkerPcs
  BY PowerConstants DEF WorkerPcs
<1>. QED  BY <1>1 DEF WorkerType, Became, Leaving

\* The worker is back at the top of its loop with the target powered.
LEMMA IsRestored ==
  ASSUME NEW w \in WorkerType
  PROVE  Became(w, Restored(w), "loop", w.cycle, w.code) /\ Restored(w).gave_up = w.gave_up
<1>1. 0 \in 0 .. Attempts - 1 /\ "loop" \in WorkerPcs
  BY PowerConstants DEF WorkerPcs
<1>. QED  BY <1>1 DEF WorkerType, Became, Restored

\* The worker is killed where it stands.
LEMMA IsKilled ==
  ASSUME NEW w \in WorkerType
  PROVE  /\ Killed(w) \in WorkerType /\ Killed(w).pc = "exited" /\ Killed(w).cycle = w.cycle
         /\ Killed(w).code = -15 /\ Killed(w).gave_up = w.gave_up
<1>1. "exited" \in WorkerPcs /\ -15 \in Codes
  BY DEF WorkerPcs, Codes
<1>. QED  BY <1>1 DEF WorkerType, Killed

\* The worker starts a cycle and asks for the port to be closed.
LEMMA GoesIntoCycle ==
  ASSUME NEW w \in WorkerType, w.cycle + 1 \in 0 .. Target
  PROVE  /\ Became(w, Announcing(w), "ack", w.cycle + 1, w.code)
         /\ Announcing(w).gave_up = w.gave_up
<1>1. "ack" \in WorkerPcs
  BY DEF WorkerPcs
<1>. QED  BY <1>1, PowerConstants DEF WorkerType, Became, Announcing

\* The worker notes whether it may have left the target without power.
LEMMA GoesWithPower ==
  ASSUME NEW w \in WorkerType, NEW pc \in WorkerPcs, NEW off \in BOOLEAN
  PROVE  LET w2 == [w EXCEPT !.pc = pc, !.may_be_off = off]
         IN  Became(w, w2, pc, w.cycle, w.code) /\ w2.gave_up = w.gave_up
BY PowerConstants DEF WorkerType, Became

\* The worker notes that its last attempts failed.
LEMMA GivesUp ==
  ASSUME NEW w \in WorkerType, NEW pc \in WorkerPcs, NEW up \in BOOLEAN
  PROVE  LET w2 == [w EXCEPT !.pc = pc, !.gave_up = up]
         IN  Became(w, w2, pc, w.cycle, w.code) /\ w2.gave_up = up
BY PowerConstants DEF WorkerType, Became

\* The worker makes another attempt in the same place.
LEMMA TriesAgain ==
  ASSUME NEW w \in WorkerType, w.tries + 1 # Attempts
  PROVE  LET w2 == [w EXCEPT !.tries = @ + 1]
         IN  Became(w, w2, w.pc, w.cycle, w.code) /\ w2.gave_up = w.gave_up
BY PowerConstants DEF WorkerType, Became

\* What Goto, Exit and one attempt of restore_power come to.
LEMMA GotoMeans ==
  ASSUME Types, NEW pc \in WorkerPcs, Goto(pc)
  PROVE  Became(worker, worker', pc, worker.cycle, worker.code) /\ worker'.gave_up = worker.gave_up
<1>1. worker \in WorkerType /\ 0 \in 0 .. Attempts - 1
  BY PowerConstants DEF Types
<1>. QED  BY <1>1, Goes DEF Goto

\* Leaving the loop changes neither the cycle nor whether the worker gave up.
LEMMA ExitMeans ==
  ASSUME Types, NEW code \in Codes, Exit(code)
  PROVE  Became(worker, worker', "cleanup", worker.cycle, code) /\ worker'.gave_up = worker.gave_up
<1>1. worker \in WorkerType /\ worker' = Leaving(worker, code)
  BY DEF Types, Exit, Leaving
<1>. QED  BY <1>1, GoesOut

\* Asking for a cycle counts it.
LEMMA AskMeans ==
  ASSUME Types, worker.cycle + 1 \in 0 .. Target,
         worker' = [worker EXCEPT !.pc = "ack", !.cycle = @ + 1]
  PROVE  /\ Became(worker, worker', "ack", worker.cycle + 1, worker.code)
         /\ worker'.gave_up = worker.gave_up
<1>1. worker \in WorkerType /\ worker' = Announcing(worker)
  BY DEF Types, Announcing
<1>. QED  BY <1>1, GoesIntoCycle

\* Everything a step of the worker leaves alone, or may not do.
Around ==
  /\ queue' = queue /\ runner' = runner /\ over' = over /\ event' = event
  /\ power' \in BOOLEAN /\ failures' \in Nat /\ worker.pc # "exited"
  /\ power /\ ~power' => worker.pc = "cut"

Retries ==
  /\ worker'.pc = worker.pc /\ stdout' = stdout
  /\ Became(worker, worker', worker.pc, worker.cycle, worker.code)
  /\ worker'.gave_up = worker.gave_up

\* restore_power ends with the target powered, gives up, or tries again.
LEMMA RestoreMeans ==
  ASSUME Types, NEW pc \in WorkerPcs \ {"exited"}, NEW ACTION Succeeds, NEW ACTION Fatal,
         restore_power(pc, Succeeds, Fatal)
  PROVE  /\ Around /\ worker.pc = pc /\ (power => power')
         /\ (Succeeds /\ power') \/ Fatal \/ Retries
<1>1. worker \in WorkerType
  BY DEF Types
<1>2. Around /\ worker.pc = pc /\ (power => power')
  <2>1. worker.pc = pc /\ UNCHANGED <<event, queue, runner, over>>
    BY DEF restore_power
  <2>2. power' \in BOOLEAN /\ (power => power')
    BY DEF restore_power, CommandFails, Types
  <2>3. failures' \in Nat
    <3>1. failures' = failures \/ failures' = failures + 1
      BY Zenon DEF restore_power, CommandFails
    <3>. QED  BY <3>1 DEF Types
  <2>. QED  BY <2>1, <2>2, <2>3 DEF Around
<1>3. CASE power' = TRUE /\ Succeeds
  BY <1>2, <1>3
<1>4. CASE IF worker.tries + 1 = Attempts THEN Fatal
           ELSE worker' = [worker EXCEPT !.tries = @ + 1] /\ Silent
  BY <1>1, <1>2, <1>4, TriesAgain DEF Retries, Silent, Became
<1>. QED  BY <1>3, <1>4 DEF restore_power

\* Of the worker's events only power_off_requested and cycle_complete are counted.
LEMMA PowerEvents ==
  /\ Asking \in Events /\ Ending \in Events
  /\ \A e \in {"power_off", "power_off_failed", "cycle_limit_reached", "fatal",
               "cleanup_failed"} : e \in Events \ {Asking} /\ e # Ending
  /\ Ending # Asking
BY DEF Events, Asking, Ending

\* Every step of the worker is one of those WorkerStep lists: it prints at most one
\* event, which goes with what it did to the power.
LEMMA WorkerSteps ==
  ASSUME Types, WorkerSound, Worker
  PROVE  WorkerStep
<1>1. WorkerPcs = {"starting", "delay", "loop", "interval", "ack", "cut", "hold", "restore",
                   "cleanup", "exited"} /\ worker \in WorkerType
  BY DEF WorkerPcs, Types
<1> DEFINE Same == Around /\ power' = power
<1>2. OnlyWorker /\ worker.pc # "exited" => Same
  BY DEF OnlyWorker, Around, Types
<1> USE DEF WorkerStep, WorkerSound, Became, Around, InCycle
<1>3. CASE Starting
  <2>1. /\ Around /\ worker.pc = "starting" /\ (power => power')
        /\ \/ Goto("delay") /\ Silent
           \/ Exit(3) /\ emit("fatal")
           \/ Retries
    BY <1>1, <1>3, RestoreMeans DEF Starting
  <2>2. CASE Goto("delay") /\ Silent
    BY <1>1, <2>1, <2>2, GotoMeans DEF Quiet, Silent
  <2>3. CASE Exit(3) /\ emit("fatal")
    <3>1. Became(worker, worker', "cleanup", worker.cycle, 3) /\ worker'.gave_up = worker.gave_up
      BY <2>3, ExitMeans DEF Codes
    <3>2. Says("fatal")
      BY <2>1, <2>3, <3>1, PowerEvents DEF Says, emit
    <3>. QED  BY <2>1, <3>1, <3>2, PowerEvents
  <2>4. CASE Retries
    BY <2>1, <2>4 DEF Quiet, Retries
  <2>. QED  BY <2>1, <2>2, <2>3, <2>4
<1>4. CASE StartupDelay
  <2>1. Same /\ Silent /\ worker.pc = "delay" /\ (Exit(0) \/ Goto("loop"))
    BY <1>2, <1>4 DEF StartupDelay
  <2>2. CASE Exit(0)
    BY <2>1, <2>2, ExitMeans DEF Quiet, Silent, Codes
  <2>3. CASE Goto("loop")
    BY <1>1, <2>1, <2>3, GotoMeans DEF Quiet, Silent
  <2>. QED  BY <2>1, <2>2, <2>3
<1>5. CASE NextCycle
  <2>1. Same /\ worker.pc = "loop"
    BY <1>2, <1>5 DEF NextCycle
  <2>2. CASE Exit(0) /\ Silent
    BY <2>1, <2>2, ExitMeans DEF Quiet, Silent, Codes
  <2>3. CASE Exit(0) /\ emit("cycle_limit_reached")
    <3>1. Became(worker, worker', "cleanup", worker.cycle, 0) /\ worker'.gave_up = worker.gave_up
      BY <2>3, ExitMeans DEF Codes
    <3>2. Says("cycle_limit_reached")
      BY <2>1, <2>3, <3>1, PowerEvents DEF Says, emit
    <3>. QED  BY <2>1, <3>1, <3>2, PowerEvents
  <2>4. CASE worker.cycle < Target /\ Goto("interval") /\ Silent
    BY <1>1, <2>1, <2>4, GotoMeans DEF Quiet, Silent
  <2>. QED  BY <1>5, <2>2, <2>3, <2>4 DEF NextCycle
<1>6. CASE Interval
  <2>1. Same /\ worker.pc = "interval"
    BY <1>2, <1>6 DEF Interval
  <2>2. CASE Exit(0) /\ Silent
    BY <2>1, <2>2, ExitMeans DEF Quiet, Silent, Codes
  <2>3. CASE /\ worker' = [worker EXCEPT !.pc = "ack", !.cycle = @ + 1]
             /\ emit("power_off_requested")
    <3>1. worker.cycle + 1 \in 0 .. Target
      BY <1>1, <2>1, PowerConstants DEF WorkerType
    <3>2. Became(worker, worker', "ack", worker.cycle + 1, worker.code)
          /\ worker'.gave_up = worker.gave_up
      BY <1>1, <2>3, <3>1, AskMeans
    <3>3. Asks
      BY <2>3, <3>2 DEF Asks, emit, Asking
    <3>. QED  BY <2>1, <3>2, <3>3
  <2>. QED  BY <1>6, <2>2, <2>3 DEF Interval
<1>7. CASE Acknowledged
  BY <1>1, <1>2, <1>7, GotoMeans DEF Acknowledged, Quiet, Silent
<1>8. CASE AckTimesOut
  <2>1. Same /\ worker.pc = "ack" /\ Goto("loop") /\ emit("power_off_failed")
    BY <1>2, <1>8 DEF AckTimesOut
  <2>2. Became(worker, worker', "loop", worker.cycle, worker.code) /\ worker'.gave_up = worker.gave_up
    BY <1>1, <2>1, GotoMeans
  <2>3. Says("power_off_failed")
    BY <2>1, <2>2, PowerEvents DEF Says, emit
  <2>. QED  BY <2>1, <2>2, <2>3, PowerEvents
<1>9. CASE CutPower
  <2>1. Around /\ worker.pc = "cut"
    <3>1. worker.pc = "cut" /\ UNCHANGED <<event, queue, runner, over>>
      BY <1>9 DEF CutPower
    <3>2. power' \in BOOLEAN
      BY <1>9 DEF CutPower, CommandFails, Types
    <3>3. failures' = failures \/ failures' = failures + 1
      BY <1>9, Zenon DEF CutPower, CommandFails
    <3>4. failures' \in Nat
      BY <3>3 DEF Types
    <3>. QED  BY <3>1, <3>2, <3>4 DEF Around
  <2>2. CASE worker' = [worker EXCEPT !.pc = "hold", !.may_be_off = TRUE] /\ emit("power_off")
    <3>1. Became(worker, worker', "hold", worker.cycle, worker.code)
          /\ worker'.gave_up = worker.gave_up
      BY <1>1, <2>2, GoesWithPower
    <3>2. Says("power_off")
      BY <2>1, <2>2, <3>1, PowerEvents DEF Says, emit
    <3>. QED  BY <2>1, <3>1, <3>2, PowerEvents
  <2>3. CASE Goto("loop") /\ emit("power_off_failed")
    <3>1. Became(worker, worker', "loop", worker.cycle, worker.code)
          /\ worker'.gave_up = worker.gave_up
      BY <1>1, <2>3, GotoMeans
    <3>2. Says("power_off_failed")
      BY <2>1, <2>3, <3>1, PowerEvents DEF Says, emit
    <3>. QED  BY <2>1, <3>1, <3>2, PowerEvents
  <2>. QED  BY <1>9, <2>2, <2>3 DEF CutPower
<1>10. CASE Hold
  BY <1>1, <1>2, <1>10, GotoMeans DEF Hold, Quiet, Silent
<1>11. CASE Restore
  <2>1. /\ Around /\ worker.pc = "restore" /\ (power => power')
        /\ \/ worker' = Restored(worker) /\ emit("cycle_complete")
           \/ Exit(4) /\ emit("fatal")
           \/ Retries
    BY <1>1, <1>11, RestoreMeans DEF Restore, Restored
  <2>2. CASE worker' = Restored(worker) /\ emit("cycle_complete")
    <3>1. Became(worker, worker', "loop", worker.cycle, worker.code)
          /\ worker'.gave_up = worker.gave_up
      BY <1>1, <2>2, IsRestored
    <3>2. Says(Ending)
      BY <2>1, <2>2, <3>1, PowerEvents DEF Says, emit, Ending
    <3>. QED  BY <2>1, <3>1, <3>2, PowerEvents
  <2>3. CASE Exit(4) /\ emit("fatal")
    <3>1. Became(worker, worker', "cleanup", worker.cycle, 4) /\ worker'.gave_up = worker.gave_up
      BY <2>3, ExitMeans DEF Codes
    <3>2. Says("fatal")
      BY <2>1, <2>3, <3>1, PowerEvents DEF Says, emit
    <3>. QED  BY <2>1, <3>1, <3>2, PowerEvents
  <2>4. CASE Retries
    BY <2>1, <2>4 DEF Quiet, Retries
  <2>. QED  BY <2>1, <2>2, <2>3, <2>4
<1>12. CASE Cleanup
  <2>1. /\ Around /\ worker.pc = "cleanup" /\ (power => power')
        /\ \/ Goto("exited") /\ Silent /\ power'
           \/ /\ worker' = [worker EXCEPT !.pc = "exited", !.gave_up = TRUE]
              /\ emit("cleanup_failed")
           \/ Retries
    BY <1>1, <1>12, RestoreMeans DEF Cleanup
  <2>2. CASE Goto("exited") /\ Silent /\ power'
    BY <1>1, <2>1, <2>2, GotoMeans DEF Quiet, Silent
  <2>3. CASE /\ worker' = [worker EXCEPT !.pc = "exited", !.gave_up = TRUE]
             /\ emit("cleanup_failed")
    <3>1. Became(worker, worker', "exited", worker.cycle, worker.code) /\ worker'.gave_up
      BY <1>1, <2>3, GivesUp
    <3>2. Says("cleanup_failed")
      BY <2>1, <2>3, <3>1, PowerEvents DEF Says, emit
    <3>. QED  BY <2>1, <3>1, <3>2, PowerEvents
  <2>4. CASE Retries
    BY <2>1, <2>4 DEF Quiet, Retries
  <2>. QED  BY <2>1, <2>2, <2>3, <2>4
<1>. QED  BY <1>3, <1>4, <1>5, <1>6, <1>7, <1>8, <1>9, <1>10, <1>11, <1>12 DEF Worker

-----------------------------------------------------------------------------
\* The pipe: what a step appends to stdout or takes off the queue.
LEMMA PipeAppend ==
  ASSUME NEW q \in Seq(Events), NEW s \in Seq(Events), NEW e \in Events
  PROVE  q \o Append(s, e) = Append(q \o s, e) /\ q \o s \in Seq(Events)
<1> DEFINE x == q \o Append(s, e)
           y == Append(q \o s, e)
<1>1. x \in Seq(Events) /\ y \in Seq(Events) /\ Len(x) = Len(y) /\ q \o s \in Seq(Events)
  OBVIOUS
<1>2. \A i \in 1 .. Len(x) : x[i] = y[i]
  OBVIOUS
<1> HIDE DEF x, y
<1>3. x = y
  BY <1>1, <1>2
<1>. QED  BY <1>1, <1>3 DEF x, y

\* Reading a line from the worker's output moves it inside the pipe.
LEMMA PipeMoves ==
  ASSUME NEW q \in Seq(Events), NEW s \in Seq(Events), s # <<>>
  PROVE  Append(q, Head(s)) \o Tail(s) = q \o s
<1> DEFINE x == Append(q, Head(s)) \o Tail(s)
           y == q \o s
<1>1. x \in Seq(Events) /\ y \in Seq(Events) /\ Len(x) = Len(y)
  OBVIOUS
<1>2. \A i \in 1 .. Len(x) : x[i] = y[i]
  OBVIOUS
<1> HIDE DEF x, y
<1>3. x = y
  BY <1>1, <1>2
<1>. QED  BY <1>3 DEF x, y

\* Taking a line from the queue takes the first of the pipe.
LEMMA PipeTail ==
  ASSUME NEW q \in Seq(Events), NEW s \in Seq(Events), q # <<>>
  PROVE  /\ Tail(q) \o s = Tail(q \o s) /\ q \o s # <<>> /\ (q \o s)[1] = Head(q)
         /\ Head(q) \in Events
<1> DEFINE x == Tail(q) \o s
           y == Tail(q \o s)
<1>1. x \in Seq(Events) /\ y \in Seq(Events) /\ Len(x) = Len(y)
  OBVIOUS
<1>2. \A i \in 1 .. Len(x) : x[i] = y[i]
  OBVIOUS
<1>3. q \o s # <<>> /\ (q \o s)[1] = Head(q) /\ Head(q) \in Events
  OBVIOUS
<1> HIDE DEF x, y
<1>4. x = y
  BY <1>1, <1>2
<1>. QED  BY <1>4, <1>3 DEF x, y

\* Nothing has been printed and nothing counted.
LEMMA InitInv == Init => IInv
<1> SUFFICES ASSUME Init PROVE IInv
  OBVIOUS
<1> USE PowerConstants DEF Init
<1>1. Types
  <2>1. worker \in WorkerType
    BY DEF WorkerType, WorkerPcs, Codes
  <2>2. runner \in RunnerType
    BY DEF RunnerType, RunnerPcs
  <2>3. event \in [stop : BOOLEAN, power_off : BOOLEAN] /\ power \in BOOLEAN /\ over \in BOOLEAN
    OBVIOUS
  <2>4. failures \in Nat /\ stdout \in Seq(Events) /\ queue \in Seq(Events)
    OBVIOUS
  <2>. QED  BY <2>1, <2>2, <2>3, <2>4 DEF Types
<1>2. WorkerSound
  BY DEF WorkerSound
<1>3. Pipe = <<>>
  BY DEF Pipe
<1>4. Counted
  <2>1. Carries(<<>>, 0, 0, 0, 0)
    <3> DEFINE z == [i \in 0 .. 0 |-> 0]
    <3>1. z \in [0 .. 0 -> Nat] /\ Len(<<>>) = 0 /\ z[0] = 0
      OBVIOUS
    <3>2. 1 .. 0 = {} /\ \A i \in 0 .. 0 : z[i] = 0
      OBVIOUS
    <3> HIDE DEF z
    <3>3. /\ z \in [0 .. Len(<<>>) -> Nat] /\ z[0] = 0 /\ z[Len(<<>>)] = 0
          /\ \A i \in 1 .. Len(<<>>) : /\ z[i] = z[i - 1] + One(<<>>[i] = Asking)
                                       /\ z[i] = z[i - 1] + One(<<>>[i] = Ending)
          /\ \A i, j \in 0 .. Len(<<>>) : z[i] <= z[i] /\ (i <= j => z[i] <= z[j])
      BY <3>1, <3>2
    <3> DEFINE nothing == <<>>
    <3>4. /\ z \in [0 .. Len(nothing) -> Nat] /\ z[0] = 0 /\ z[Len(nothing)] = 0
          /\ \A i \in 1 .. Len(nothing) : /\ z[i] = z[i - 1] + One(nothing[i] = Asking)
                                          /\ z[i] = z[i - 1] + One(nothing[i] = Ending)
          /\ \A i, j \in 0 .. Len(nothing) : z[i] <= z[i] /\ (i <= j => z[i] <= z[j])
      BY <3>3
    <3> HIDE DEF nothing
    <3>5. Carries(nothing, 0, 0, 0, 0)
      BY <3>4 DEF Carries
    <3>. QED  BY <3>5 DEF nothing
  <2>. QED  BY <1>3, <2>1 DEF Counted, InCycle
<1>5. PortHeld
  BY DEF PortHeld, Closed
<1>6. FailureSeen
  BY DEF FailureSeen
<1>. QED  BY <1>1, <1>2, <1>4, <1>5, <1>6 DEF IInv

\* A step of the worker: what it prints is counted at the end of the pipe.
LEMMA WorkerInv ==
  ASSUME IInv, Worker
  PROVE  IInv'
<1>1. Types /\ WorkerSound /\ Counted /\ PortHeld /\ FailureSeen
  BY DEF IInv
<1>2. WorkerStep
  BY <1>1, WorkerSteps
<1>3. /\ queue' = queue /\ runner' = runner /\ over' = over /\ event' = event
      /\ worker' \in WorkerType /\ power' \in BOOLEAN /\ failures' \in Nat /\ WorkerSound'
      /\ worker.pc # "exited"
  BY <1>2 DEF WorkerStep
<1>4. queue \in Seq(Events) /\ stdout \in Seq(Events)
  BY <1>1 DEF Types
<1>5. PICK ended \in Nat :
        /\ Carries(Pipe, runner.started, worker.cycle, runner.completed, ended)
        /\ InCycle => ended < worker.cycle
  BY <1>1 DEF Counted
<1>6. ended <= worker.cycle /\ worker.cycle \in Nat
  <2>1. Pipe \in Seq(Events)
    BY <1>4 DEF Pipe
  <2>. QED  BY <1>5, <2>1, CarriesBounds
<1>7. runner.pc \notin {"last", "done"}
  BY <1>1, <1>3 DEF FailureSeen
<1>8. CASE Quiet
  <2>1. Pipe' = Pipe /\ stdout' = stdout
    BY <1>3, <1>8 DEF Pipe, Quiet
  <2>2. Types'
    BY <1>1, <1>3, <2>1 DEF Types
  <2>3. Counted'
    <3>1. Carries(Pipe', runner'.started, worker'.cycle, runner'.completed, ended)
      BY <1>3, <1>5, <1>8, <2>1 DEF Quiet
    <3>2. InCycle' => ended < worker'.cycle
      BY <1>5, <1>8 DEF Quiet
    <3>. QED  BY <3>1, <3>2 DEF Counted
  <2>4. PortHeld'
    BY <1>1, <1>3, <1>8, <2>1 DEF PortHeld, Closed, Quiet
  <2>5. FailureSeen'
    BY <1>1, <1>3, <1>7, <1>8, <2>1 DEF FailureSeen, GaveUpIsTold, Quiet
  <2>. QED  BY <1>3, <2>2, <2>3, <2>4, <2>5 DEF IInv
<1>9. ASSUME NEW e \in Events, stdout' = Append(stdout, e)
      PROVE  /\ Types' /\ Pipe' = Append(Pipe, e) /\ Pipe \in Seq(Events)
             /\ Pipe' # <<>> /\ Pipe'[Len(Pipe')] = e
             /\ GaveUpIsTold => GaveUpIsTold'
             /\ e = "cleanup_failed" => GaveUpIsTold'
  <2>1. Pipe' = Append(Pipe, e) /\ Pipe \in Seq(Events)
    BY <1>3, <1>4, <1>9, PipeAppend DEF Pipe
  <2>2. Pipe' # <<>> /\ Pipe'[Len(Pipe')] = e
    BY <2>1
  <2>3. stdout' \in Seq(Events)
    BY <1>4, <1>9
  <2>4. Types'
    BY <1>1, <1>3, <2>3 DEF Types
  <2>5. (\E i \in DOMAIN stdout : stdout[i] = "cleanup_failed")
          => \E i \in DOMAIN stdout' : stdout'[i] = "cleanup_failed"
    BY <1>4, <1>9
  <2>6. e = "cleanup_failed" => \E i \in DOMAIN stdout' : stdout'[i] = "cleanup_failed"
    <3>1. Len(stdout) + 1 \in DOMAIN stdout' /\ stdout'[Len(stdout) + 1] = e
      BY <1>4, <1>9
    <3>. QED  BY <3>1
  <2>7. GaveUpIsTold => GaveUpIsTold'
    BY <1>3, <2>5 DEF GaveUpIsTold
  <2>8. e = "cleanup_failed" => GaveUpIsTold'
    BY <2>6 DEF GaveUpIsTold
  <2>. QED  BY <2>1, <2>2, <2>4, <2>7, <2>8
<1>10. CASE Asks
  <2>1. /\ Types' /\ Pipe' = Append(Pipe, Asking) /\ Pipe \in Seq(Events)
        /\ Pipe' # <<>> /\ Pipe'[Len(Pipe')] = Asking /\ (GaveUpIsTold => GaveUpIsTold')
    BY <1>9, <1>10, PowerEvents DEF Asks
  <2>2. Counted'
    <3>1. Carries(Append(Pipe, Asking), runner.started, worker.cycle + 1, runner.completed, ended)
      <4>1. worker.cycle + 1 = worker.cycle + One(Asking = Asking)
            /\ ended = ended + One(Asking = Ending) /\ ended <= worker.cycle + 1
        BY <1>6, PowerEvents DEF One
      <4>. QED  BY <1>5, <2>1, <4>1, CarriesAppend, PowerEvents
    <3>2. Carries(Pipe', runner'.started, worker'.cycle, runner'.completed, ended)
      BY <1>3, <1>10, <2>1, <3>1 DEF Asks
    <3>3. ended < worker'.cycle
      BY <1>6, <1>10 DEF Asks
    <3>. QED  BY <3>2, <3>3 DEF Counted
  <2>3. PortHeld'
    BY <1>1, <1>3, <2>1 DEF PortHeld, Closed
  <2>4. FailureSeen'
    BY <1>1, <1>3, <1>7, <1>10, <2>1 DEF FailureSeen, Asks
  <2>. QED  BY <1>3, <2>1, <2>2, <2>3, <2>4 DEF IInv
<1>11. ASSUME NEW e \in Events, Says(e) PROVE IInv'
  <2>1. /\ Types' /\ Pipe' = Append(Pipe, e) /\ Pipe \in Seq(Events)
        /\ (GaveUpIsTold => GaveUpIsTold') /\ (e = "cleanup_failed" => GaveUpIsTold')
    BY <1>9, <1>11 DEF Says
  <2>2. Counted'
    <3> DEFINE c2 == ended + One(e = Ending)
    <3>1. worker.cycle = worker.cycle + One(e = Asking) /\ c2 \in Nat /\ c2 <= worker.cycle
          /\ (InCycle' => c2 < worker.cycle)
      BY <1>5, <1>6, <1>11 DEF One, Says
    <3>2. Carries(Append(Pipe, e), runner.started, worker.cycle, runner.completed, c2)
      BY <1>5, <2>1, <3>1, CarriesAppend
    <3> HIDE DEF c2
    <3>3. worker'.cycle = worker.cycle
      BY <1>11 DEF Says
    <3>. QED  BY <1>3, <2>1, <3>1, <3>2, <3>3 DEF Counted
  <2>3. PortHeld'
    BY <1>1, <1>3, <1>11 DEF PortHeld, Closed, Says
  <2>4. FailureSeen'
    BY <1>1, <1>3, <1>7, <1>11, <2>1 DEF FailureSeen, Says
  <2>. QED  BY <1>3, <2>1, <2>2, <2>3, <2>4 DEF IInv
<1>. QED  BY <1>2, <1>8, <1>10, <1>11 DEF WorkerStep

\* The reader thread moves a line on; nothing is counted or lost.
LEMMA ReadOutputInv ==
  ASSUME IInv, ReadOutput
  PROVE  IInv'
<1>1. Types /\ WorkerSound /\ Counted /\ PortHeld /\ FailureSeen
  BY DEF IInv
<1>2. /\ stdout # <<>> /\ queue' = Append(queue, Head(stdout)) /\ stdout' = Tail(stdout)
      /\ UNCHANGED <<worker, event, power, runner, over, failures>>
  BY DEF ReadOutput
<1>3. queue \in Seq(Events) /\ stdout \in Seq(Events)
  BY <1>1 DEF Types
<1>4. Pipe' = Pipe
  BY <1>2, <1>3, PipeMoves DEF Pipe
<1>5. queue' \in Seq(Events) /\ stdout' \in Seq(Events)
  BY <1>2, <1>3
<1>6. Types' /\ WorkerSound' /\ Counted' /\ PortHeld'
  BY <1>1, <1>2, <1>4, <1>5 DEF Types, WorkerSound, Counted, PortHeld, InCycle
<1>7. (\E i \in DOMAIN stdout : stdout[i] = "cleanup_failed")
        => \/ \E i \in DOMAIN stdout' : stdout'[i] = "cleanup_failed"
           \/ \E i \in DOMAIN queue' : queue'[i] = "cleanup_failed"
  <2> SUFFICES ASSUME NEW i \in DOMAIN stdout, stdout[i] = "cleanup_failed"
               PROVE  \/ \E j \in DOMAIN stdout' : stdout'[j] = "cleanup_failed"
                      \/ \E j \in DOMAIN queue' : queue'[j] = "cleanup_failed"
    OBVIOUS
  <2>1. CASE i = 1
    <3>1. Len(queue) + 1 \in DOMAIN queue' /\ queue'[Len(queue) + 1] = stdout[1]
      BY <1>2, <1>3
    <3>. QED  BY <2>1, <3>1
  <2>2. CASE i # 1
    <3>1. i - 1 \in DOMAIN stdout' /\ stdout'[i - 1] = stdout[i]
      BY <1>2, <1>3, <2>2
    <3>. QED  BY <3>1
  <2>. QED  BY <2>1, <2>2
<1>8. (\E i \in DOMAIN queue : queue[i] = "cleanup_failed")
        => \E i \in DOMAIN queue' : queue'[i] = "cleanup_failed"
  BY <1>2, <1>3
<1>9. FailureSeen'
  BY <1>1, <1>2, <1>7, <1>8 DEF FailureSeen, GaveUpIsTold
<1>. QED  BY <1>6, <1>9 DEF IInv

-----------------------------------------------------------------------------
\* The fields of the runner after each kind of update other than that of an event.
Turns(r, r2, pc) ==
  /\ r2 \in RunnerType /\ r2.pc = pc /\ r2.pending = r.pending
  /\ r2.started = r.started /\ r2.completed = r.completed /\ (r.failed => r2.failed)

\* The runner goes to another place in its loop.
LEMMA TurnsOn ==
  ASSUME NEW r \in RunnerType, NEW pc \in RunnerPcs
  PROVE  LET r2 == [r EXCEPT !.pc = pc]
         IN  Turns(r, r2, pc) /\ r2.connected = r.connected /\ r2.close = r.close
BY DEF RunnerType, Turns

\* The runner opens or closes the serial port.
LEMMA TurnsWithPort ==
  ASSUME NEW r \in RunnerType, NEW pc \in RunnerPcs, NEW connected \in BOOLEAN
  PROVE  LET r2 == [r EXCEPT !.pc = pc, !.connected = connected]
         IN  Turns(r, r2, pc) /\ r2.connected = connected
BY DEF RunnerType, Turns

\* The runner drains the queue, and remembers whether a request is to close the port.
LEMMA TurnsToDrain ==
  ASSUME NEW r \in RunnerType, NEW close \in BOOLEAN
  PROVE  LET r2 == [r EXCEPT !.pc = "drain", !.close = close]
         IN  Turns(r, r2, "drain") /\ r2.connected = r.connected
BY DEF RunnerType, Turns, RunnerPcs

\* The runner drains the queue for the last time.
LEMMA TurnsLast ==
  ASSUME NEW r \in RunnerType, NEW failed \in BOOLEAN, r.failed => failed
  PROVE  LET r2 == [r EXCEPT !.pc = "last", !.failed = failed]
         IN  Turns(r, r2, "last") /\ r2.connected = r.connected /\ r2.failed = failed
BY DEF RunnerType, Turns, RunnerPcs

Polled(r, stop, failed, pc) ==
  [r EXCEPT !.exit_seen = TRUE, !.stop = stop, !.failed = failed, !.pc = pc]

\* The runner notes that the worker has exited.
LEMMA TurnsAtExit ==
  ASSUME NEW r \in RunnerType, NEW stop \in BOOLEAN, NEW failed \in BOOLEAN, r.failed => failed,
         NEW pc \in RunnerPcs
  PROVE  Turns(r, Polled(r, stop, failed, pc), pc) /\ Polled(r, stop, failed, pc).connected = r.connected
BY DEF RunnerType, Turns, Polled

\* What such a step preserves, as long as nothing is printed or read.
LEMMA TurnsInv ==
  ASSUME IInv, NEW pc, Turns(runner, runner', pc),
         UNCHANGED <<worker, power, stdout, queue>>,
         event' \in [stop : BOOLEAN, power_off : BOOLEAN], over' \in BOOLEAN, failures' \in Nat,
         PortHeld',
         pc \in {"last", "done"} => worker.pc = "exited" /\ (worker.code # 0 => runner'.failed)
  PROVE  IInv'
<1>1. Types /\ WorkerSound /\ Counted /\ PortHeld /\ FailureSeen
  BY DEF IInv
<1>2. Pipe' = Pipe
  BY DEF Pipe
<1>3. Types'
  BY <1>1 DEF Types, Turns
<1>4. WorkerSound'
  BY <1>1 DEF WorkerSound
<1>5. Counted'
  BY <1>1, <1>2 DEF Counted, InCycle, Turns
<1>6. FailureSeen'
  BY <1>1 DEF FailureSeen, GaveUpIsTold, Turns
<1>. QED  BY <1>3, <1>4, <1>5, <1>6 DEF IInv

\* The steps of the runner that take no line from the queue.
LEMMA RunnerTurnsInv ==
  ASSUME IInv,
         \/ Top \/ ClosePort \/ signal_power_off \/ PollWorker \/ Connect \/ Settle \/ Read
         \/ StopWorker \/ WriteStop \/ WorkerStopped \/ WriteSummary
  PROVE  IInv'
<1>1. Types /\ PortHeld /\ FailureSeen
  BY DEF IInv
<1>2. /\ runner \in RunnerType /\ runner.connected \in BOOLEAN /\ runner.close \in BOOLEAN
      /\ runner.failed \in BOOLEAN /\ runner.stop \in BOOLEAN
      /\ power \in BOOLEAN /\ over \in BOOLEAN /\ failures \in Nat
      /\ event \in [stop : BOOLEAN, power_off : BOOLEAN]
  BY <1>1 DEF Types, RunnerType
<1>3. RunnerPcs = {"top", "drain", "telling", "poll", "connect", "settle", "read", "finally",
                   "stopping", "waiting", "last", "done", "raised"}
  BY DEF RunnerPcs
<1>4. ASSUME OnlyRunner
      PROVE  /\ UNCHANGED <<worker, power, stdout, queue>> /\ Pipe' = Pipe
             /\ event' \in [stop : BOOLEAN, power_off : BOOLEAN] /\ over' \in BOOLEAN
             /\ failures' \in Nat
  BY <1>2, <1>4 DEF OnlyRunner, Pipe
<1>5. CASE Top
  <2>1. OnlyRunner /\ runner.pc = "top"
    BY <1>5 DEF Top
  <2>2. CASE runner' = [runner EXCEPT !.pc = "finally", !.connected = FALSE]
    <3>1. Turns(runner, runner', "finally") /\ ~runner'.connected
      BY <1>2, <1>3, <2>2, TurnsWithPort
    <3>2. PortHeld'
      BY <1>1, <1>4, <2>1, <3>1 DEF PortHeld, Closed, Turns
    <3>. QED  BY <1>4, <2>1, <3>1, <3>2, TurnsInv
  <2>3. CASE runner' = [runner EXCEPT !.pc = "drain", !.close = FALSE]
    <3>1. Turns(runner, runner', "drain") /\ runner'.connected = runner.connected
      BY <1>2, <1>3, <2>3, TurnsToDrain
    <3>2. PortHeld'
      BY <1>1, <1>4, <2>1, <3>1 DEF PortHeld, Closed, Turns
    <3>. QED  BY <1>4, <2>1, <3>1, <3>2, TurnsInv
  <2>. QED  BY <1>5, <2>2, <2>3 DEF Top
<1>6. CASE ClosePort
  <2>1. OnlyRunner /\ runner.pc = "drain"
    BY <1>6 DEF ClosePort
  <2> DEFINE connected == runner.connected /\ ~runner.close
             pc == IF runner.close /\ worker.pc # "exited" THEN "telling" ELSE "poll"
  <2>2. /\ Turns(runner, runner', pc) /\ runner'.connected = connected
    <3>1. /\ runner' = [runner EXCEPT !.pc = pc, !.connected = connected]
          /\ connected \in BOOLEAN /\ pc \in RunnerPcs
      BY <1>2, <1>3, <1>6 DEF ClosePort
    <3> HIDE DEF connected, pc
    <3>. QED  BY <1>2, <3>1, TurnsWithPort
  <2>3. pc = "poll" \/ (pc = "telling" /\ ~connected)
    OBVIOUS
  <2>4. PortHeld'
    BY <1>1, <1>4, <2>1, <2>2, <2>3 DEF PortHeld, Closed, Turns
  <2>5. pc \notin {"last", "done"}
    OBVIOUS
  <2> HIDE DEF pc
  <2>. QED  BY <1>4, <2>1, <2>2, <2>4, <2>5, TurnsInv
<1>7. CASE signal_power_off
  <2>1. /\ runner.pc = "telling" /\ UNCHANGED <<worker, power, stdout, queue, over, failures>>
        /\ event' \in [stop : BOOLEAN, power_off : BOOLEAN] /\ Pipe' = Pipe
    BY <1>2, <1>7 DEF signal_power_off, Pipe
  <2>2. PICK pc \in {"finally", "poll"} : runner' = [runner EXCEPT !.pc = pc]
    BY <1>7 DEF signal_power_off
  <2>3. Turns(runner, runner', pc) /\ runner'.connected = runner.connected
    BY <1>2, <1>3, <2>2, TurnsOn
  <2>4. PortHeld'
    BY <1>1, <2>1, <2>3 DEF PortHeld, Closed, Turns
  <2>. QED  BY <1>2, <2>1, <2>3, <2>4, TurnsInv
<1>8. CASE PollWorker
  <2>1. OnlyRunner /\ runner.pc = "poll"
    BY <1>8 DEF PollWorker
  <2>2. \E pc \in {"top", "connect"} :
          Turns(runner, runner', pc) /\ runner'.connected = runner.connected
    <3>1. CASE runner' = [runner EXCEPT !.pc = "connect"]
      BY <1>2, <1>3, <3>1, TurnsOn
    <3>2. CASE worker.pc = "exited" /\ ~runner.exit_seen
      <4> DEFINE stop == worker.code # 0 \/ runner.completed >= Target
                 failed == runner.failed \/ worker.code # 0
                 pc == IF stop THEN "top" ELSE "connect"
      <4>1. /\ stop \in BOOLEAN /\ failed \in BOOLEAN /\ (runner.failed => failed)
            /\ pc \in {"top", "connect"} /\ pc \in RunnerPcs
        BY <1>3
      <4>2. runner' = Polled(runner, stop, failed, pc)
        BY <1>8, <3>2 DEF PollWorker, Polled
      <4> HIDE DEF stop, failed, pc
      <4>. QED  BY <1>2, <4>1, <4>2, TurnsAtExit
    <3>. QED  BY <1>8, <3>1, <3>2 DEF PollWorker
  <2>3. PICK pc \in {"top", "connect"} :
          Turns(runner, runner', pc) /\ runner'.connected = runner.connected
    BY <2>2
  <2>4. PortHeld'
    BY <1>1, <1>4, <2>1, <2>3 DEF PortHeld, Closed, Turns
  <2>. QED  BY <1>4, <2>1, <2>3, <2>4, TurnsInv
<1>9. CASE Connect
  <2>1. OnlyRunner /\ runner.pc = "connect"
    BY <1>9 DEF Connect
  <2>2. CASE runner' = [runner EXCEPT !.pc = "read"]
    <3>1. Turns(runner, runner', "read") /\ runner'.connected = runner.connected
      BY <1>2, <1>3, <2>2, TurnsOn
    <3>2. PortHeld'
      BY <1>1, <1>4, <2>1, <3>1 DEF PortHeld, Closed, Turns
    <3>. QED  BY <1>4, <2>1, <3>1, <3>2, TurnsInv
  <2>3. CASE ~runner.pending /\ runner' = [runner EXCEPT !.pc = "settle", !.connected = TRUE]
    <3>1. Turns(runner, runner', "settle")
      BY <1>2, <1>3, <2>3, TurnsWithPort
    <3>2. PortHeld'
      BY <1>1, <1>4, <2>1, <2>3, <3>1 DEF PortHeld, Closed, Turns
    <3>. QED  BY <1>4, <2>1, <3>1, <3>2, TurnsInv
  <2>. QED  BY <1>9, <2>2, <2>3 DEF Connect
<1>10. CASE Settle
  <2>1. OnlyRunner /\ runner.pc = "settle"
    BY <1>10 DEF Settle
  <2>2. Turns(runner, runner', "read")
    BY <1>2, <1>3, <1>10, TurnsWithPort DEF Settle
  <2>3. PortHeld'
    BY <1>1, <1>4, <2>1, <2>2 DEF PortHeld, Closed, Turns
  <2>. QED  BY <1>4, <2>1, <2>2, <2>3, TurnsInv
<1>11. CASE Read
  <2>1. OnlyRunner /\ runner.pc = "read"
    BY <1>11 DEF Read
  <2> DEFINE connected == runner.connected /\ power
  <2>2. Turns(runner, runner', "top") /\ runner'.connected = connected
    <3>1. /\ runner' = [runner EXCEPT !.pc = "top", !.connected = connected]
          /\ connected \in BOOLEAN /\ "top" \in RunnerPcs
      BY <1>2, <1>3, <1>11 DEF Read
    <3> HIDE DEF connected
    <3>. QED  BY <1>2, <3>1, TurnsWithPort
  <2>3. PortHeld'
    BY <1>1, <1>4, <2>1, <2>2 DEF PortHeld, Closed, Turns
  <2>. QED  BY <1>4, <2>1, <2>2, <2>3, TurnsInv
<1>12. CASE StopWorker
  <2>1. OnlyRunner /\ runner.pc = "finally"
    BY <1>12 DEF StopWorker
  <2> DEFINE failed == runner.failed \/ worker.code # 0
  <2>2. CASE worker.pc = "exited" /\ runner' = [runner EXCEPT !.pc = "last", !.failed = failed]
    <3>1. /\ Turns(runner, runner', "last") /\ runner'.connected = runner.connected
          /\ runner'.failed = failed
      BY <1>2, <2>2, TurnsLast
    <3>2. PortHeld'
      BY <1>1, <1>4, <2>1, <3>1 DEF PortHeld, Closed, Turns
    <3>. QED  BY <1>4, <2>1, <2>2, <3>1, <3>2, TurnsInv
  <2>3. CASE runner' = [runner EXCEPT !.pc = "stopping"]
    <3>1. Turns(runner, runner', "stopping") /\ runner'.connected = runner.connected
      BY <1>2, <1>3, <2>3, TurnsOn
    <3>2. PortHeld'
      BY <1>1, <1>4, <2>1, <3>1 DEF PortHeld, Closed, Turns
    <3>. QED  BY <1>4, <2>1, <3>1, <3>2, TurnsInv
  <2>. QED  BY <1>12, <2>2, <2>3 DEF StopWorker
<1>13. CASE WriteStop
  <2>1. /\ runner.pc = "stopping" /\ UNCHANGED <<worker, power, stdout, queue, over, failures>>
        /\ event' \in [stop : BOOLEAN, power_off : BOOLEAN] /\ Pipe' = Pipe
    BY <1>2, <1>13 DEF WriteStop, Pipe
  <2>2. PICK pc \in {"raised", "waiting"} : runner' = [runner EXCEPT !.pc = pc]
    BY <1>13 DEF WriteStop
  <2>3. Turns(runner, runner', pc) /\ runner'.connected = runner.connected
    BY <1>2, <1>3, <2>2, TurnsOn
  <2>4. PortHeld'
    BY <1>1, <2>1, <2>3 DEF PortHeld, Closed, Turns
  <2>. QED  BY <1>2, <2>1, <2>3, <2>4, TurnsInv
<1>14. CASE WorkerStopped
  <2>1. OnlyRunner /\ runner.pc = "waiting" /\ worker.pc = "exited"
    BY <1>14 DEF WorkerStopped
  <2> DEFINE failed == runner.failed \/ worker.code # 0
  <2>2. /\ Turns(runner, runner', "last") /\ runner'.connected = runner.connected
        /\ runner'.failed = failed
    BY <1>2, <1>14, TurnsLast DEF WorkerStopped
  <2>3. PortHeld'
    BY <1>1, <1>4, <2>1, <2>2 DEF PortHeld, Closed, Turns
  <2>. QED  BY <1>4, <2>1, <2>2, <2>3, TurnsInv
<1>15. CASE WriteSummary
  <2>1. OnlyRunner /\ runner.pc = "last" /\ runner' = [runner EXCEPT !.pc = "done"]
    BY <1>15 DEF WriteSummary
  <2>2. Turns(runner, runner', "done") /\ runner'.connected = runner.connected
    BY <1>2, <1>3, <2>1, TurnsOn
  <2>3. PortHeld'
    BY <1>1, <1>4, <2>1, <2>2 DEF PortHeld, Closed, Turns
  <2>. QED  BY <1>1, <1>4, <2>1, <2>2, <2>3, TurnsInv DEF FailureSeen, Turns
<1>. QED  BY <1>5, <1>6, <1>7, <1>8, <1>9, <1>10, <1>11, <1>12, <1>13, <1>14, <1>15

\* A worker that did not stop in time is killed: what it printed before still counts.
LEMMA KillWorkerInv ==
  ASSUME IInv, KillWorker
  PROVE  IInv'
<1>1. Types /\ WorkerSound /\ Counted /\ PortHeld /\ FailureSeen
  BY DEF IInv
<1>2. /\ runner.pc = "waiting" /\ worker' = Killed(worker)
      /\ runner' = [runner EXCEPT !.pc = "last", !.failed = TRUE]
      /\ UNCHANGED <<event, power, stdout, queue, over, failures>>
  BY DEF KillWorker, Killed
<1>3. /\ worker' \in WorkerType /\ worker'.pc = "exited" /\ worker'.cycle = worker.cycle
      /\ worker'.code = -15 /\ worker'.gave_up = worker.gave_up /\ worker'.killed
  <2>1. Killed(worker).killed
    BY <1>1 DEF Killed, Types, WorkerType
  <2>. QED  BY <1>1, <1>2, <2>1, IsKilled DEF Types
<1>4. Turns(runner, runner', "last") /\ runner'.connected = runner.connected /\ runner'.failed
  BY <1>1, <1>2, TurnsLast DEF Types
<1>5. Pipe' = Pipe
  BY <1>2 DEF Pipe
<1>6. Types'
  BY <1>1, <1>2, <1>3, <1>4 DEF Types, Turns
<1>7. WorkerSound'
  BY <1>3 DEF WorkerSound
<1>8. Counted'
  BY <1>1, <1>3, <1>4, <1>5 DEF Counted, InCycle, Turns
<1>9. PortHeld'
  BY <1>1, <1>2, <1>3, <1>4 DEF PortHeld, Closed, Turns
<1>10. FailureSeen'
  BY <1>3, <1>4 DEF FailureSeen, GaveUpIsTold
<1>. QED  BY <1>6, <1>7, <1>8, <1>9, <1>10 DEF IInv

\* The runner deals with an event.
LEMMA DrainInv ==
  ASSUME IInv, Drain
  PROVE  IInv'
<1>1. Types /\ WorkerSound /\ Counted /\ PortHeld /\ FailureSeen
  BY DEF IInv
<1> DEFINE e == Head(queue)
           started == IF e = Asking THEN runner.started + 1 ELSE runner.started
           completed == IF Completes(e) THEN runner.completed + 1 ELSE runner.completed
           failed == runner.failed \/ ReportsFailure(e)
           close == runner.close \/ e = Asking
           pending == (runner.pending \/ e = Asking) /\ ~Settles(e)
           r2 == [runner EXCEPT !.started = started, !.completed = completed, !.failed = failed,
                                !.close = close, !.pending = pending]
<1>2. /\ runner.pc \in {"drain", "last"} /\ queue # <<>> /\ queue' = Tail(queue)
      /\ UNCHANGED <<worker, event, power, stdout, over, failures>>
  BY DEF Drain
<1>3. runner' = r2
  BY Zenon DEF Drain, handle_power_event, Asking
<1>4. queue \in Seq(Events) /\ stdout \in Seq(Events) /\ e \in Events /\ runner \in RunnerType
  BY <1>1, <1>2, PipeTail DEF Types
<1>5. /\ started \in Nat /\ completed \in Nat /\ failed \in BOOLEAN /\ close \in BOOLEAN
      /\ pending \in BOOLEAN
  BY <1>4 DEF RunnerType
<1>6. /\ Pipe' = Tail(Pipe) /\ Pipe # <<>> /\ Pipe[1] = e /\ Pipe \in Seq(Events)
  BY <1>2, <1>4, PipeTail DEF Pipe
<1>7. started = runner.started + One(e = Asking) /\ completed = runner.completed + One(e = Ending)
  BY <1>4 DEF One, Completes, Ending, RunnerType
<1>8. /\ runner.failed => failed
      /\ e = "cleanup_failed" => failed
      /\ e = Asking => close /\ pending
  BY PowerEvents DEF ReportsFailure, Settles, Asking
<1> HIDE DEF started, completed, failed, close, pending
<1>9. /\ r2 \in RunnerType /\ r2.pc = runner.pc /\ r2.connected = runner.connected
      /\ r2.started = started /\ r2.completed = completed /\ r2.failed = failed
      /\ r2.close = close /\ r2.pending = pending
  BY <1>4, <1>5 DEF RunnerType
<1> HIDE DEF r2
<1>10. Types'
  <2>1. queue' \in Seq(Events)
    BY <1>2, <1>4
  <2>. QED  BY <1>1, <1>2, <1>3, <1>9, <2>1 DEF Types
<1>11. WorkerSound'
  BY <1>1, <1>2 DEF WorkerSound
<1>12. Counted'
  <2>1. PICK ended \in Nat :
          /\ Carries(Pipe, runner.started, worker.cycle, runner.completed, ended)
          /\ InCycle => ended < worker.cycle
    BY <1>1 DEF Counted
  <2>2. Carries(Tail(Pipe), runner.started + One(Pipe[1] = Asking), worker.cycle,
                runner.completed + One(Pipe[1] = Ending), ended)
    BY <1>6, <2>1, CarriesTail
  <2>3. Carries(Pipe', runner'.started, worker'.cycle, runner'.completed, ended)
    BY <1>2, <1>3, <1>6, <1>7, <1>9, <2>2
  <2>. QED  BY <1>2, <2>1, <2>3 DEF Counted, InCycle
<1>13. PortHeld'
  <2>1. runner'.pc \in Closed => ~runner'.connected
    BY <1>1, <1>3, <1>9 DEF PortHeld, Closed
  <2>2. runner'.pc # "settle"
    BY <1>2, <1>3, <1>9
  <2>3. ASSUME worker'.pc \in {"ack", "cut"}
        PROVE  IF Pipe' = <<>>
               THEN runner'.pending /\ (runner'.connected => runner'.pc = "drain" /\ runner'.close)
               ELSE Pipe'[Len(Pipe')] = Asking
    <3>1. Pipe[Len(Pipe)] = Asking
      BY <1>1, <1>2, <1>6, <2>3 DEF PortHeld, Closed
    <3>2. CASE Pipe' = <<>>
      <4>1. Len(Pipe) = 1
        <5>1. Len(Tail(Pipe)) = Len(Pipe) - 1 /\ Len(Pipe) \in Nat
          BY <1>6
        <5>2. Tail(Pipe) = <<>>
          BY <1>6, <3>2, Zenon
        <5>3. Len(Tail(Pipe)) = Len(<<>>)
          BY <5>2, Zenon
        <5>. QED  BY <5>1, <5>3
      <4>2. e = Asking
        BY <1>6, <3>1, <4>1
      <4>. QED  BY <1>1, <1>2, <1>3, <1>8, <1>9, <3>2, <4>2 DEF PortHeld, Closed
    <3>3. CASE Pipe' # <<>>
      <4>1. Pipe'[Len(Pipe')] = Pipe[Len(Pipe)]
        BY <1>6, <3>3
      <4>. QED  BY <3>1, <3>3, <4>1
    <3>. QED  BY <3>2, <3>3
  <2>. QED  BY <2>1, <2>2, <2>3 DEF PortHeld, Closed
<1>14. FailureSeen'
  <2>1. GaveUpIsTold => GaveUpIsTold'
    <3>1. CASE runner.failed
      BY <1>3, <1>8, <1>9, <3>1 DEF GaveUpIsTold
    <3>2. CASE \E i \in DOMAIN stdout : stdout[i] = "cleanup_failed"
      BY <1>2, <3>2 DEF GaveUpIsTold
    <3>3. ASSUME NEW i \in DOMAIN queue, queue[i] = "cleanup_failed" PROVE GaveUpIsTold'
      <4>1. CASE i = 1
        <5>1. e = "cleanup_failed"
          BY <1>2, <1>4, <3>3, <4>1
        <5>. QED  BY <1>3, <1>8, <1>9, <5>1 DEF GaveUpIsTold
      <4>2. CASE i # 1
        <5>1. i - 1 \in DOMAIN queue' /\ queue'[i - 1] = queue[i]
          BY <1>2, <1>4, <3>3, <4>2
        <5>. QED  BY <3>3, <5>1 DEF GaveUpIsTold
      <4>. QED  BY <4>1, <4>2
    <3>. QED  BY <3>1, <3>2, <3>3 DEF GaveUpIsTold
  <2>. QED  BY <1>1, <1>2, <1>3, <1>8, <1>9, <2>1 DEF FailureSeen
<1>. QED  BY <1>10, <1>11, <1>12, <1>13, <1>14 DEF IInv

-----------------------------------------------------------------------------
\* Every step keeps the invariant.
LEMMA NextInv ==
  ASSUME IInv, [Next]_vars
  PROVE  IInv'
<1>1. CASE Worker
  BY <1>1, WorkerInv
<1>2. CASE ReadOutput
  BY <1>2, ReadOutputInv
<1>3. CASE Drain
  BY <1>3, DrainInv
<1>4. CASE KillWorker
  BY <1>4, KillWorkerInv
<1>5. CASE \/ Top \/ ClosePort \/ signal_power_off \/ PollWorker \/ Connect \/ Settle \/ Read
           \/ StopWorker \/ WriteStop \/ WorkerStopped \/ WriteSummary
  BY <1>5, RunnerTurnsInv
<1>6. CASE UNCHANGED <<worker, event, power, stdout, queue, runner>> /\ over' \in BOOLEAN
           /\ failures' = failures
  BY <1>6 DEF IInv, Types, WorkerSound, Counted, PortHeld, FailureSeen, GaveUpIsTold, InCycle,
             Pipe
<1>7. DeadlinePasses \/ UNCHANGED vars
        => /\ UNCHANGED <<worker, event, power, stdout, queue, runner>> /\ over' \in BOOLEAN
           /\ failures' = failures
  BY DEF DeadlinePasses, vars, IInv, Types
<1>. QED  BY <1>1, <1>2, <1>3, <1>4, <1>5, <1>6, <1>7 DEF Next, Runner

\* The invariant: the runner's two counters and the worker's cycle are the two ends of
\* the counts along the pipe, and what the exit code says of the target is so.
THEOREM Inductive == Spec => []IInv
<1>1. Init => IInv
  BY InitInv
<1>2. IInv /\ [Next]_vars => IInv'
  BY NextInv
<1>. QED  BY <1>1, <1>2, PTL DEF Spec

\* Types, and counters within the target number of cycles.
THEOREM TypeCorrect == Spec => []TypeOK
<1>1. IInv => TypeOK
  <2> SUFFICES ASSUME Types, WorkerSound PROVE TypeOK
    BY DEF IInv
  <2>1. worker.cycle \in 0 .. Target /\ worker.tries \in 0 .. Attempts - 1
    BY DEF Types, WorkerType
  <2>2. /\ \A i \in DOMAIN stdout : stdout[i] \in Events
        /\ \A i \in DOMAIN queue : queue[i] \in Events
    BY DEF Types
  <2>3. {power, over} \subseteq BOOLEAN
    BY DEF Types
  <2>. QED  BY <2>1, <2>2, <2>3 DEF TypeOK, WorkerSound
<1>. QED  BY <1>1, Inductive, PTL

\* SummaryNeverOvercounts: the summary never counts a cycle the worker did not start, nor
\* more complete cycles than requested ones, whatever is still in the pipe when the runner
\* stops reading.
THEOREM NeverOvercounts == Spec => []SummaryNeverOvercounts
<1>1. IInv => SummaryNeverOvercounts
  <2> SUFFICES ASSUME IInv PROVE SummaryNeverOvercounts
    OBVIOUS
  <2>1. PICK ended \in Nat :
          Carries(Pipe, runner.started, worker.cycle, runner.completed, ended)
    BY DEF IInv, Counted
  <2>2. Pipe \in Seq(Events)
    BY DEF IInv, Types, Pipe
  <2>. QED  BY <2>1, <2>2, CarriesBounds DEF SummaryNeverOvercounts
<1>. QED  BY <1>1, Inductive, PTL

\* TargetLeftPowered: a worker that exits by itself without giving up leaves the target
\* powered.
THEOREM LeftPowered == Spec => []TargetLeftPowered
<1>1. IInv => TargetLeftPowered
  BY DEF IInv, WorkerSound, TargetLeftPowered
<1>. QED  BY <1>1, Inductive, PTL

\* SummaryShowsFailure: a worker that failed or was killed, or left the target without
\* power, shows in the summary of a finished run, unless the line that says so is still
\* unread.
THEOREM FailureShown == Spec => []SummaryShowsFailure
<1>1. IInv => SummaryShowsFailure
  <2> SUFFICES ASSUME IInv, runner.pc = "done", worker.code # 0 \/ ~power, ~runner.failed
               PROVE  \E i \in DOMAIN (stdout \o queue) : (stdout \o queue)[i] = "cleanup_failed"
    BY DEF SummaryShowsFailure
  <2>1. worker.pc = "exited" /\ worker.code = 0 /\ ~power
    BY DEF IInv, FailureSeen
  <2>2. worker.gave_up
    BY <2>1 DEF IInv, WorkerSound
  <2>3. \/ \E i \in DOMAIN stdout : stdout[i] = "cleanup_failed"
        \/ \E i \in DOMAIN queue : queue[i] = "cleanup_failed"
    BY <2>2 DEF IInv, FailureSeen, GaveUpIsTold
  <2>4. stdout \in Seq(Events) /\ queue \in Seq(Events)
    BY DEF IInv, Types
  <2>5. ASSUME NEW i \in DOMAIN stdout, stdout[i] = "cleanup_failed"
        PROVE  i \in DOMAIN (stdout \o queue) /\ (stdout \o queue)[i] = "cleanup_failed"
    BY <2>4, <2>5
  <2>6. ASSUME NEW i \in DOMAIN queue, queue[i] = "cleanup_failed"
        PROVE  /\ Len(stdout) + i \in DOMAIN (stdout \o queue)
               /\ (stdout \o queue)[Len(stdout) + i] = "cleanup_failed"
    BY <2>4, <2>6
  <2>. QED  BY <2>3, <2>5, <2>6
<1>. QED  BY <1>1, Inductive, PTL

\* PortClosedAtCut: the target loses its power only while the runner has the serial port
\* closed, because it acknowledges a request only behind the close.
THEOREM CutWithPortClosed == Spec => PortClosedAtCut
<1> DEFINE Held == power /\ ~power' =>
                     \/ ~runner.connected
                     \/ runner.started < worker.cycle \/ runner.pc = "drain"
<1>1. IInv /\ [Next]_vars => [Held]_vars
  <2> SUFFICES ASSUME IInv, [Next]_vars, power, ~power'
               PROVE  \/ ~runner.connected
                      \/ runner.started < worker.cycle \/ runner.pc = "drain"
    OBVIOUS
  <2>1. Types /\ WorkerSound /\ Counted /\ PortHeld
    BY DEF IInv
  <2>2. Worker
    BY DEF Next, vars, ReadOutput, DeadlinePasses, Runner, Top, Drain, ClosePort, signal_power_off,
           PollWorker, Connect, Settle, Read, StopWorker, WriteStop, WorkerStopped,
           KillWorker, WriteSummary, OnlyRunner
  <2>3. worker.pc = "cut"
    BY <2>1, <2>2, WorkerSteps DEF WorkerStep
  <2>4. CASE Pipe = <<>>
    BY <2>1, <2>3, <2>4 DEF PortHeld
  <2>5. CASE Pipe # <<>>
    <3>1. Pipe[Len(Pipe)] = Asking /\ Pipe \in Seq(Events)
      BY <2>1, <2>3, <2>5 DEF PortHeld, Types, Pipe
    <3>2. PICK ended \in Nat :
            Carries(Pipe, runner.started, worker.cycle, runner.completed, ended)
      BY <2>1 DEF Counted
    <3>. QED  BY <2>5, <3>1, <3>2, CarriesBounds
  <2>. QED  BY <2>4, <2>5
<1>. QED  BY <1>1, Inductive, PTL DEF Spec, PortClosedAtCut
=============================================================================
