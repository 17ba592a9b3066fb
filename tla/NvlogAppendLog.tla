--------------------------- MODULE NvlogAppendLog ---------------------------
(***************************************************************************)
(* What linear mode promises the application: an append-only log that a    *)
(* format empties.  Records of completed appends are there for good; of an *)
(* append that failed, or that power loss interrupted, the record is there *)
(* whole or not at all, and while it is there unacknowledged it may vanish *)
(* again, until a mount adopts it.                                         *)
(***************************************************************************)
EXTENDS Naturals, Sequences

CONSTANT Payloads

VARIABLES log,   \* the payloads a mount finds, oldest first
          acked  \* how many of them the application may rely on

Init == log = <<>> /\ acked = 0

InDoubt == Len(log) > acked

\* An append takes effect, at once.
TakeEffect(v) == ~InDoubt /\ log' = Append(log, v) /\ UNCHANGED acked

\* It returns NVLOG_OK, or a mount finds its record.
Acknowledge == InDoubt /\ acked' = Len(log) /\ UNCHANGED log

\* It was interrupted, and the next append takes its place.
Forget == InDoubt /\ log' = SubSeq(log, 1, acked) /\ UNCHANGED acked

Wipe == log' = <<>> /\ acked' = 0

Next ==
  \/ \E v \in Payloads : TakeEffect(v)
  \/ Acknowledge \/ Forget \/ Wipe

Spec == Init /\ [][Next]_<<log, acked>>

-----------------------------------------------------------------------------
\* No more records are relied on than there are.
TypeOK == log \in Seq(Payloads) /\ acked \in 0 .. Len(log)

\* At most the newest record is in doubt.
OneInDoubt == Len(log) <= acked + 1

\* Only a format takes an acknowledged record away, or changes one.
AckedStays ==
  [][\/ acked <= acked' /\ SubSeq(log', 1, acked) = SubSeq(log, 1, acked)
     \/ log' = <<>>]_<<log, acked>>
=============================================================================
