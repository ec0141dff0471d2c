------------------------ MODULE MCLedgerTransactions ------------------------
(***************************************************************************)
(* Small instances of LedgerTransactions: one customer with two invoices.  *)
(***************************************************************************)
EXTENDS LedgerInvariant, FiniteSetsExt, TLC

CONSTANTS c1, a, b, z, p1, p2, p1rev, r1, r2, r3

OneCustomer == [i \in Invoices |-> c1]

(* Line a costs 2 cents, line b 1 cent, line z nothing. *)
Price(l) == CASE l = a -> 2 [] l = b -> 1 [] OTHER -> 0
Totals == [S \in SUBSET Lines |-> MapThenSumSet(Price, S)]

(* Appending "-REV" to p1 gives a number a user may also have entered; the  *)
(* other numbers are already too long to take the suffix.                   *)
Reversals == [n \in Numbers |-> IF n = p1 /\ p1rev \in Numbers THEN p1rev ELSE TooLong]

Symmetry == Permutations(Requests)
=============================================================================
