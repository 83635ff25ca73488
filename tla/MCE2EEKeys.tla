----------------------------- MODULE MCE2EEKeys -----------------------------
(* Two accounts and two goroutines between them.                            *)
EXTENDS E2EEKeys, TLC

CONSTANTS a1, a2, w1, w2

Interchangeable == Permutations(Workers)
=============================================================================
