--------------------------- MODULE MCRingUniform ---------------------------
(***************************************************************************)
(* NvlogRing with records of one size, and the abstract log it implements. *)
(***************************************************************************)
EXTENDS NvlogRing

\* The one payload length.
TheLen == CHOOSE len \in Lens : TRUE

\* All records have it.
OneSize == Lens = {TheLen}

\* The payloads a mount would have found when the last call began: a call
\* changes them in one step, seen as the next call begins.
Visible == [i \in DOMAIN old.durable |-> old.durable[i].v]

RingLog == INSTANCE NvlogRingLog WITH
  Payloads <- 1 .. MaxCalls,
  Keep     <- Cap \div rec_alloc_bytes(TheLen),
  log      <- Visible

\* Ring mode with records of one size, no HAL errors and power lost only
\* between calls implements a log that keeps the newest records, as many as
\* fit: every append is atomic to whoever mounts, and evicts one record at most.
ImplementsRingLog == RingLog!Spec
=============================================================================
