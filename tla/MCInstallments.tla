--------------------------- MODULE MCInstallments ---------------------------
(* Instances of Installments for TLC. *)
EXTENDS Installments

CONSTANTS r1, r2    \* request slots

MCRequests == {r1, r2}
=============================================================================
