-------------------------- MODULE NvlogSuperblock --------------------------
(***************************************************************************)
(* The two superblock copies of a region and the arithmetic that orders    *)
(* them (src/src/nvlog.c: sb_read, u32_is_newer, superblock_is_newer,      *)
(* next_generation_value, next_session_value, load_current_superblock).    *)
(*                                                                         *)
(* Pure operators: NvlogPublish and NvlogRing give them a state.  A copy   *)
(* is a record with a field ok (magic, version, mode, media class and CRC  *)
(* all check out), gen, mseq and further fields the operators do not read. *)
(* Counters keep the width of the code: they live in 0 .. U32-1, where U32 *)
(* stands for 2^32 and may be any even number of at least four.            *)
(***************************************************************************)
EXTENDS Integers

CONSTANT U32

ASSUME U32Assumption == U32 \in Nat /\ U32 >= 4 /\ \E h \in 1 .. U32 : U32 = 2 * h

Half == U32 \div 2

\* The counters a superblock can hold: both successors below skip zero.
Counter == 1 .. U32 - 1

\* The unsigned difference a - b of two uint32_t.
u32_diff(a, b) == IF a >= b THEN a - b ELSE a - b + U32

\* Mutant: plain unsigned comparison.
u32_is_newer_unsigned(a, b) == a > b

\* (int32_t)(a - b) > 0
u32_is_newer(a, b) == u32_diff(a, b) > 0 /\ u32_diff(a, b) < Half

superblock_is_newer(a, b) ==
  IF a.gen # b.gen THEN u32_is_newer(a.gen, b.gen)
                   ELSE u32_is_newer(a.mseq, b.mseq)

next_generation_value(current) == IF current = U32 - 1 THEN 1 ELSE current + 1

\* Mutant: the successor of the largest value is 0.
next_session_value_zero(current) == (current + 1) % U32

next_session_value(current) == IF current = U32 - 1 THEN 1 ELSE current + 1

\* Mutant: the copy read last is taken whenever it is readable.
load_last_superblock(a, b) == IF b.ok THEN b ELSE a

(***************************************************************************)
(* The copy recovery trusts.  A tie goes to B.  When neither copy decodes  *)
(* there is none: the result has ok = FALSE, whatever its other fields.    *)
(***************************************************************************)
load_current_superblock(a, b) ==
  IF a.ok /\ (~b.ok \/ superblock_is_newer(a, b)) THEN a ELSE b
=============================================================================
