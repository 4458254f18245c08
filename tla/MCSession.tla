----------------------------- MODULE MCSession -----------------------------
(* Session for TLC.                                                         *)
EXTENDS Session, TLC

\* Neither requests nor protected links are told apart.
SlotSymmetry == Permutations(Requests) \cup Permutations(Codes)
=============================================================================
