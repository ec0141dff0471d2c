----------------------------- MODULE MCBackups -----------------------------
(* Two administrators at once.                                              *)
EXTENDS Backups, TLC

Slots == Permutations(Requests)
=============================================================================
