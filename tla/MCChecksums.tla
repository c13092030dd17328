---------------------------- MODULE MCChecksums ----------------------------
(* Sha1 on small blocks, and Crc16 of the messages it is fed.              *)
EXTENDS Sha1, Crc16

(* The table gives the CRC that its definition gives.                      *)
CrcExact == phase = "final" => CrcOf(fed) = CrcByBits(fed)

(* The journal relies on it: no change of one byte keeps the checksum.     *)
(* (Of longer messages only changes to another of Bytes are tried.)        *)
CrcNoticesChange ==
  phase = "final" =>
    \A i \in DOMAIN fed :
      \A b \in (IF Len(fed) <= 4 THEN 0 .. 255 ELSE Bytes) \ {fed[i]} :
        CrcOf([fed EXCEPT ![i] = b]) # CrcOf(fed)
=============================================================================
