---------------------------- MODULE MCAuthentication ---------------------------
(* Model checking of Authentication: what TLC needs beside the specification.*)
EXTENDS Authentication, TLC

(* No definition tells one account, or one connection, from another.        *)
AccountSymmetry == Permutations(Owners) \cup Permutations(Sessions)
================================================================================
