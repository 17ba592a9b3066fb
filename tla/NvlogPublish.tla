---------------------------- MODULE NvlogPublish ----------------------------
(***************************************************************************)
(* Publishing the state of a region through two superblock copies, A then  *)
(* B, with power loss and HAL errors at every point (src/src/nvlog.c:      *)
(* format_impl, ring_publish_superblocks, the end of the ring branch of    *)
(* nvlog_append, and the superblock half of nvlog_ring_mount).             *)
(*                                                                         *)
(* What a superblock describes (pointers, counts, next sequence number) is *)
(* one value of States; NvlogRing has the detail.  The media accept or     *)
(* reject a copy as a whole, or, where Tear is TRUE, may also stop half    *)
(* way through one: the copy then fails its CRC.                           *)
(***************************************************************************)
EXTENDS NvlogSuperblock

CONSTANTS States,   \* what a superblock can describe
          Empty,    \* the state format publishes
          None,     \* "no state": the region has never been formatted
          Tear,     \* can an interrupted superblock write leave a bad CRC?
          MaxLag    \* publications begun since copy B was last written

ASSUME StatesAssumption == Empty \in States /\ None \notin States
ASSUME TearAssumption   == Tear \in BOOLEAN
ASSUME LagAssumption    == MaxLag \in Nat /\ 4 * MaxLag + 2 < Half

VARIABLES
  copyA, copyB,  \* the two superblocks on the media
  ctx,           \* the RAM context: mounted, gen, mseq, state
  pc,            \* "idle", or the superblock write the running call does next
  durable,       \* ghost: the state recovery has to find
  exposed,       \* ghost: a readable copy A was torn while B differed from it
  lag,           \* ghost: publications begun since B was last written
  found          \* ghost: what the last mount found, until the next copy A

vars == <<copyA, copyB, ctx, pc, durable, exposed, lag, found>>
media == <<copyA, copyB>>
ghosts == <<durable, exposed, lag, found>>

Bad == [ok |-> FALSE, gen |-> 0, mseq |-> 0, state |-> None]

Superblock == [ok : {TRUE}, gen : Counter, mseq : Counter, state : States]

Current == load_current_superblock(copyA, copyB)

\* What sb_write encodes: the context as it is when the write is issued.
sb == [ok |-> TRUE, gen |-> ctx.gen, mseq |-> ctx.mseq, state |-> ctx.state]

Init ==
  /\ copyA = Bad /\ copyB = Bad
  /\ ctx = [mounted |-> FALSE, gen |-> 1, mseq |-> 1, state |-> Empty]
  /\ pc = "idle"
  /\ durable = None /\ exposed = FALSE /\ lag = 0 /\ found = None

-----------------------------------------------------------------------------
\* Mutant: format starts the counters afresh.
FormatFromOne ==
  /\ pc = "idle" /\ lag < MaxLag
  /\ ctx' = [mounted |-> FALSE, gen |-> 1, mseq |-> next_session_value(0), state |-> Empty]
  /\ pc' = "A" /\ lag' = lag + 1
  /\ UNCHANGED <<media, durable, exposed, found>>

\* format_impl up to its first write: generation and metadata_seq continue
\* from the superblock found on the media, and the context is wiped.
Format ==
  /\ pc = "idle" /\ lag < MaxLag
  /\ ctx' = [mounted |-> FALSE,
             gen     |-> IF Current.ok THEN next_generation_value(Current.gen) ELSE 1,
             mseq    |-> IF Current.ok
                         THEN next_session_value(next_session_value(Current.mseq))
                         ELSE next_session_value(0),
             state   |-> Empty]
  /\ pc' = "A" /\ lag' = lag + 1
  /\ UNCHANGED <<media, durable, exposed, found>>

\* Mutant: the publication counter stays as it was.
AppendWithoutBump(s) ==
  /\ pc = "idle" /\ ctx.mounted /\ lag < MaxLag
  /\ ctx' = [ctx EXCEPT !.state = s]
  /\ pc' = "A" /\ lag' = lag + 1
  /\ UNCHANGED <<media, durable, exposed, found>>

\* Mutant: copy B alone is written.
AppendToB(s) ==
  /\ pc = "idle" /\ ctx.mounted /\ lag < MaxLag
  /\ ctx' = [ctx EXCEPT !.mseq = next_session_value(@), !.state = s]
  /\ pc' = "B" /\ lag' = lag + 1
  /\ UNCHANGED <<media, durable, exposed, found>>

\* The ring branch of nvlog_append once the record itself is on the media:
\* the context moves on before anything is published.
Append(s) ==
  /\ pc = "idle" /\ ctx.mounted /\ lag < MaxLag
  /\ ctx' = [ctx EXCEPT !.mseq = next_session_value(@), !.state = s]
  /\ pc' = "A" /\ lag' = lag + 1
  /\ UNCHANGED <<media, durable, exposed, found>>

WriteA ==
  /\ pc = "A"
  /\ copyA' = sb /\ durable' = ctx.state /\ exposed' = FALSE /\ found' = None
  /\ pc' = "B"
  /\ UNCHANGED <<copyB, ctx, lag>>

WriteB ==
  /\ pc = "B"
  /\ copyB' = sb /\ lag' = 0
  /\ pc' = "idle" /\ ctx' = [ctx EXCEPT !.mounted = TRUE]
  /\ UNCHANGED <<copyA, durable, exposed, found>>

\* The write in progress does not complete: nothing of it reaches the media,
\* or, if copies tear, part of it does.
Interrupt ==
  /\ pc # "idle"
  /\ \/ UNCHANGED <<media, exposed>>
     \/ Tear /\ pc = "A" /\ copyA' = Bad /\ UNCHANGED copyB
        /\ exposed' = (exposed \/ (copyA.ok /\ copyA # copyB))
     \/ Tear /\ pc = "B" /\ copyB' = Bad /\ UNCHANGED <<copyA, exposed>>
  /\ pc' = "idle"
  /\ UNCHANGED <<durable, lag, found>>

\* The HAL reports the write as failed.  The call returns NVLOG_ERR_IO; the
\* context stays as the call has left it (format: not mounted).
IoError == Interrupt /\ UNCHANGED ctx

\* Power loss in the middle of a publication, or between calls.
PowerLoss ==
  /\ ctx' = [ctx EXCEPT !.mounted = FALSE]
  /\ \/ Interrupt
     \/ pc = "idle" /\ ctx.mounted /\ UNCHANGED <<media, pc, ghosts>>

\* nvlog_ring_mount, from any context: recovery reads and never writes.
Mount ==
  /\ pc = "idle" /\ Current.ok
  /\ ctx' = [mounted |-> TRUE, gen |-> Current.gen,
             mseq |-> next_session_value(Current.mseq), state |-> Current.state]
  /\ found' = Current.state
  /\ UNCHANGED <<media, pc, durable, exposed, lag>>

Next ==
  \/ Format
  \/ \E s \in States : Append(s)
  \/ WriteA \/ WriteB
  \/ IoError \/ PowerLoss
  \/ Mount

Spec == Init /\ [][Next]_vars

-----------------------------------------------------------------------------
\* The two copies, the context and the counters hold values the code can give
\* them: a copy is a whole superblock or none, and no counter is ever zero.
TypeOK ==
  /\ copyA \in Superblock \cup {Bad} /\ copyB \in Superblock \cup {Bad}
  /\ ctx \in [mounted : BOOLEAN, gen : Counter, mseq : Counter, state : States]
  /\ pc \in {"idle", "A", "B"}
  /\ durable \in States \cup {None} /\ exposed \in BOOLEAN /\ lag \in 0 .. MaxLag

\* However publications, HAL errors and power losses interleave, recovery
\* finds the state of the last completed copy A - the old state before that
\* write, the new one after it - unless copy A was torn while B was stale.
OldOrNew == exposed \/ Current.state = durable

\* A log a mount has found records in is found by the next mount too, unless a
\* publication got through in between.
FoundStays == found \in States \ {Empty} => Current.state = found

\* Recovery never adopts a state that no caller published: what a mounted
\* context was loaded from is on the media, newest copy first, and a stale
\* copy B never wins over a readable copy A.
StaleCopyNeverWins ==
  copyA.ok /\ copyB.ok /\ copyA # copyB => Current = copyA

\* What recovery would find changes only at the write of copy A, and then to
\* the state the running call publishes: no mount, retry, late copy B, HAL
\* error or power loss moves it, back or forth, while no copy A was torn
\* over a stale copy B.
RecoveryMovesOnlyAtA ==
  [][Current.state' # Current.state =>
       exposed' \/ (pc = "A" /\ Current.state' = ctx.state)]_vars

-----------------------------------------------------------------------------
\* x carries a later stamp (generation, then metadata_seq) than y, by at most
\* n in the counter that decides.
StrictlyAhead(x, y, n) ==
  IF x.gen # y.gen THEN u32_diff(x.gen, y.gen) \in 1 .. n
                   ELSE u32_diff(x.mseq, y.mseq) \in 1 .. n

NotBehind(x, y, n) ==
  (x.gen = y.gen /\ x.mseq = y.mseq) \/ StrictlyAhead(x, y, n)

\* The inductive invariant behind OldOrNew: how far the context and copy A
\* may have run ahead of copy B, which is what keeps the signed comparison of
\* u32_is_newer meaningful when the counters wrap, and which copy holds the
\* durable state.
IInv ==
  /\ TypeOK
  /\ lag = 0 => pc = "idle" /\ copyA = copyB
  /\ copyA.ok => durable = copyA.state
  /\ ~copyA.ok /\ ~exposed => durable = copyB.state
  /\ pc = "B" => copyA = sb
  /\ copyA.ok /\ copyB.ok => copyA = copyB \/ StrictlyAhead(copyA, copyB, 4 * lag)
  /\ copyB.ok /\ pc # "idle" => StrictlyAhead(ctx, copyB, 4 * lag)
  /\ copyB.ok /\ pc = "idle" /\ ctx.mounted => NotBehind(ctx, copyB, 4 * lag + 2)
=============================================================================
