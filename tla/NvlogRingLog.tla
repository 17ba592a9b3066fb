---------------------------- MODULE NvlogRingLog ----------------------------
(***************************************************************************)
(* What ring mode promises the application, as far as it does not depend   *)
(* on the layout of the media: a log of payloads that keeps the newest     *)
(* Keep of them, and that a format empties.                                *)
(***************************************************************************)
EXTENDS Naturals, Sequences

CONSTANTS Payloads, Keep

VARIABLE log  \* the payloads a mount finds between calls, oldest first

Newest(s) == IF Len(s) > Keep THEN Tail(s) ELSE s

Init == log = <<>>

Append1(v) == log' = Newest(Append(log, v))
Format == log' = <<>>

Next == Format \/ \E v \in Payloads : Append1(v)

Spec == Init /\ [][Next]_log
=============================================================================
