------------------------------ MODULE MCWallet ------------------------------
(* Small instances of WalletService for TLC. *)
EXTENDS WalletService

CONSTANTS w1, w2, p1, p2, pw1, pw2

Symmetry == {[x \in {p1, p2} |-> IF x = p1 THEN p2 ELSE p1],
             [x \in {p1, p2} |-> x]}
(* The state but for the records of payments and MPC requests, on which no *)
(* step depends and which the properties checked here do not read.         *)
View == <<fresh, files, h, migrations, lastKey, limits, promised, gone, disturbed>>
=============================================================================
