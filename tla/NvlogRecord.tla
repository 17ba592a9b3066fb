---------------------------- MODULE NvlogRecord ----------------------------
(***************************************************************************)
(* The wire record: how one record lies in the record area of a region,    *)
(* the HAL writes that put it there on byte-writable media, and what       *)
(* recovery makes of the cells it finds (src/src/nvlog.c:                  *)
(* write_record_wire, verify_record, and the linear branch of              *)
(* nvlog_append, which issues the same writes).                            *)
(*                                                                         *)
(* A cell stands for a few bytes that mean something together; the record  *)
(* area starts at cell 0.  A header takes HdrCells cells, so that a write  *)
(* torn inside a header can be told from one torn between two writes; the  *)
(* CRC and the commit marker take a cell each.  What a cell holds is the   *)
(* data written to it, so a CRC matches exactly when header and payload    *)
(* are those it was computed from (no CRC collides, no payload looks like  *)
(* a header, no CRC is all ones).                                          *)
(***************************************************************************)
EXTENDS Integers, Sequences

CONSTANT HdrCells

ASSUME HdrCellsAssumption == HdrCells \in Nat /\ HdrCells >= 1

Overhead == HdrCells + 2

Erased == <<"erased">>
Commit == <<"commit">>

\* Payloads are numbered from 1; Zeros fills a WRAP record.
Zeros == 0

HeaderCell(d, k) == <<"header", k, d>>
PayloadCell(v)   == <<"payload", v>>
CrcCell(d, v)    == <<"crc", d, v>>

\* The fields of a header that recovery looks at.
Header(type, seq, len, gen) == [type |-> type, seq |-> seq, len |-> len, gen |-> gen]

rec_alloc_bytes(len) == Overhead + len

At(m, i) == IF i \in DOMAIN m THEN m[i] ELSE Erased

-----------------------------------------------------------------------------
\* One HAL write, and its effect when only the first k cells arrive.
HalWrite(at, cells) == [at |-> at, cells |-> cells]

Put(m, w, k) ==
  [i \in DOMAIN m |-> IF i \in w.at .. w.at + k - 1 THEN w.cells[i - w.at + 1] ELSE m[i]]

\* Header, payload (if any) and CRC, and the commit marker last.
record_writes(base, d, v) ==
  LET crc    == base + HdrCells + d.len
      header == [k \in 1 .. HdrCells |-> HeaderCell(d, k)]
      body   == [k \in 1 .. d.len |-> PayloadCell(v)]
  IN  <<HalWrite(base, header)>>
      \o (IF d.len > 0 THEN <<HalWrite(base + HdrCells, body)>> ELSE <<>>)
      \o <<HalWrite(crc, <<CrcCell(d, v)>>), HalWrite(crc + 1, <<Commit>>)>>

\* Mutant: the commit marker is not cleared first.
write_record_wire_uncleared(base, d, v) == record_writes(base, d, v)

\* The writes of one record, in order: the commit marker is cleared before
\* anything else is written.
write_record_wire(base, d, v) ==
  <<HalWrite(base + HdrCells + d.len + 1, <<Erased>>)>> \o record_writes(base, d, v)

-----------------------------------------------------------------------------
\* The payload length in a header whose CRC is not looked at; where the lengths
\* have not been written they are all ones, more than an addition takes.
NoLen == -1

raw_len(m, cursor) ==
  LET lengths == At(m, cursor + HdrCells - 1)
  IN  IF lengths[1] = "header" /\ lengths[2] = HdrCells THEN lengths[3].len ELSE NoLen

\* The stored CRC is that of the header and of the payload cells read.
crc_matches(crc, d, body) ==
  crc[2] = d /\ body = {PayloadCell(crc[3]) : k \in 1 .. d.len}

\* verify_record on byte-writable media, in the order of its checks.  A
\* result is a status, the header (meaningful once the magic is found) and
\* the payload the record proved to carry.  The statuses the callers do not
\* tell apart (version, mode, flags, type, size, header CRC, and a generation
\* read from a torn header) are MALFORMED.
verify_record(m, cursor, gen, region_size) ==
  LET raw      == [k \in 1 .. HdrCells |-> At(m, cursor + k - 1)]
      hasMagic == raw[1][1] = "header" /\ raw[1][2] = 1
      d        == raw[1][3]
      crc      == At(m, cursor + HdrCells + d.len)
      marker   == At(m, cursor + HdrCells + d.len + 1)
      body     == {At(m, cursor + HdrCells + k) : k \in 0 .. d.len - 1}
      Result(s) == [res |-> s, d |-> IF hasMagic THEN d ELSE <<>>,
                    v |-> IF s = "VALID" THEN crc[3] ELSE <<>>]
  IN  Result(
        IF \A k \in 1 .. HdrCells : raw[k] = Erased      THEN "END"
        ELSE IF ~hasMagic
             THEN IF \E k \in 1 .. HdrCells : raw[k] = Erased
                  THEN "INCOMPLETE" ELSE "CORRUPT"
        ELSE IF \E k \in 2 .. HdrCells : raw[k] # HeaderCell(d, k)
                                                         THEN "MALFORMED"
        ELSE IF d.gen # gen                              THEN "GENERATION_MISMATCH"
        ELSE IF cursor + rec_alloc_bytes(d.len) > region_size
                                                         THEN "INCOMPLETE"
        ELSE IF crc = Erased \/ marker = Erased          THEN "INCOMPLETE"
        ELSE IF crc[1] # "crc" \/ ~crc_matches(crc, d, body)
                                                         THEN "CORRUPT"
        ELSE IF marker # Commit                          THEN "INCOMPLETE"
        ELSE "VALID")
=============================================================================
