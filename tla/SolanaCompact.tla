---------------------------- MODULE SolanaCompact ----------------------------
(***************************************************************************)
(* The compact array lengths of Solana's wire format, as the transaction   *)
(* builder writes them and as a validator reads them.                      *)
(***************************************************************************)
EXTENDS Integers, Sequences

(* writeCompactArray: seven bits a byte, low bits first; only the last     *)
(* byte has its high bit clear.  No output for a length out of range.      *)
CompactMax == 2097151
CompactArray(n) ==
  IF n <= 127 THEN <<n>>
  ELSE IF n <= 16383 THEN <<(n % 128) + 128, n \div 128>>
  ELSE IF n <= CompactMax THEN <<(n % 128) + 128, ((n \div 128) % 128) + 128, n \div 16384>>
  ELSE <<>>

(* A validator's reading of a compact length at position i.                *)
CompactValue(b, i) ==
  IF b[i] < 128 THEN b[i]
  ELSE IF b[i + 1] < 128 THEN (b[i] - 128) + 128 * b[i + 1]
  ELSE (b[i] - 128) + 128 * (b[i + 1] - 128) + 16384 * b[i + 2]
CompactWidth(b, i) ==
  IF b[i] < 128 THEN 1 ELSE IF b[i + 1] < 128 THEN 2 ELSE 3

=============================================================================
