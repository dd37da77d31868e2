---------------------------- MODULE MCSolanaSend ----------------------------
(* Instances of SolanaSend for TLC.                                        *)
EXTENDS SolanaSend, TLC

CONSTANTS p1, p2, system, token, payer, other, stranger, mint, mint2, ata1, ata2, ata3, ata4

Symmetry == Permutations(Procs)

Account(key, m, amount) == [key |-> key, mint |-> m, amount |-> amount]

(* The payer has accounts of two tokens and two of the intents' mint; the *)
(* stranger has none of it.                                                *)
Held ==
  (payer :> <<Account(ata1, mint2, 900), Account(ata2, mint, 300), Account(ata4, mint, 900)>>)
    @@ (other :> <<Account(ata3, mint, 0)>>) @@ (stranger :> <<Account(ata1, mint2, 5)>>)

(* What a token account's amount may read as.                              *)
Unread == {300, Unparsable}
=============================================================================
