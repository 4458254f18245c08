------------------------------ MODULE MCLinks ------------------------------
(* Instances of Links for TLC. *)
EXTENDS Links, TLC

\* Requests differ only in their slot; users and codes are interchangeable too.
FullSymmetry == Permutations(Requests) \cup Permutations(Users) \cup Permutations(Codes)

=============================================================================
