------------------------ MODULE NvlogAppendLog_proofs ------------------------
(***************************************************************************)
(* What follows from the append-only log that linear mode implements.      *)
(***************************************************************************)
EXTENDS NvlogAppendLog, TLAPS

IInv == TypeOK /\ OneInDoubt

LEMMA InitInv == Init => IInv
BY DEF Init, IInv, TypeOK, OneInDoubt

LEMMA NextInv == IInv /\ [Next]_<<log, acked>> => IInv'
<1> SUFFICES ASSUME IInv, [Next]_<<log, acked>> PROVE IInv'
  OBVIOUS
<1> USE DEF IInv, TypeOK, OneInDoubt
<1>1. ASSUME NEW v \in Payloads, TakeEffect(v) PROVE IInv'
  <2>1. log' \in Seq(Payloads) /\ Len(log') = Len(log) + 1  BY <1>1 DEF TakeEffect
  <2>. QED  BY <1>1, <2>1 DEF TakeEffect, InDoubt
<1>2. CASE Acknowledge
  BY <1>2 DEF Acknowledge, InDoubt
<1>3. CASE Forget
  <2>1. SubSeq(log, 1, acked) \in Seq(Payloads) /\ Len(SubSeq(log, 1, acked)) = acked
    OBVIOUS
  <2>. QED  BY <1>3, <2>1 DEF Forget, InDoubt
<1>4. CASE Wipe
  BY <1>4 DEF Wipe
<1>5. CASE UNCHANGED <<log, acked>>
  BY <1>5
<1>. QED  BY <1>1, <1>2, <1>3, <1>4, <1>5 DEF Next

\* At most one record is ever in doubt.
THEOREM OnlyNewestInDoubt == Spec => []OneInDoubt
<1>1. IInv => OneInDoubt  BY DEF IInv
<1>. QED  BY <1>1, InitInv, NextInv, PTL DEF Spec

\* A step that keeps the log keeps every acknowledged record of it.
LEMMA StepKeepsAcked ==
  IInv /\ [Next]_<<log, acked>> =>
    [\/ acked <= acked' /\ SubSeq(log', 1, acked) = SubSeq(log, 1, acked)
     \/ log' = <<>>]_<<log, acked>>
<1> SUFFICES ASSUME IInv, [Next]_<<log, acked>>,
                    ~UNCHANGED <<log, acked>>, log' # <<>>
             PROVE  acked <= acked' /\ SubSeq(log', 1, acked) = SubSeq(log, 1, acked)
  OBVIOUS
<1> USE DEF IInv, TypeOK
<1>1. ASSUME NEW v \in Payloads, TakeEffect(v)
      PROVE acked <= acked' /\ SubSeq(log', 1, acked) = SubSeq(log, 1, acked)
  <2>1. \A i \in 1 .. acked : Append(log, v)[i] = log[i]  OBVIOUS
  <2>2. SubSeq(Append(log, v), 1, acked) = [i \in 1 .. acked |-> Append(log, v)[i]]  OBVIOUS
  <2>3. SubSeq(log, 1, acked) = [i \in 1 .. acked |-> log[i]]  OBVIOUS
  <2>. QED  BY <1>1, <2>1, <2>2, <2>3 DEF TakeEffect
<1>2. CASE Acknowledge
  BY <1>2 DEF Acknowledge, InDoubt
<1>3. CASE Forget
  <2> DEFINE kept == SubSeq(log, 1, acked)
  <2>1. kept \in Seq(Payloads) /\ Len(kept) = acked  OBVIOUS
  <2>2. SubSeq(kept, 1, acked) = kept  BY <2>1
  <2>. QED  BY <1>3, <2>2 DEF Forget
<1>4. CASE Wipe
  BY <1>4 DEF Wipe
<1>. QED  BY <1>1, <1>2, <1>3, <1>4 DEF Next

\* Until a format wipes the log, what was acknowledged stays as it was.
THEOREM AcknowledgedStays == Spec => AckedStays
<1>. QED  BY InitInv, NextInv, StepKeepsAcked, PTL DEF Spec, AckedStays
=============================================================================
