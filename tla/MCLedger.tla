------------------------------ MODULE MCLedger ------------------------------
(* Ledger with the daemon's Log alone; the bounds are in the .cfg.          *)
EXTENDS Ledger, TLC
CONSTANTS r1, r2

\* The daemon's requests are interchangeable.
Interchangeable == Permutations(Requests)
=============================================================================
