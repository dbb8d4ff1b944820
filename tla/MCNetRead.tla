----------------------------- MODULE MCNetRead -----------------------------
(* NetRead with interchangeable connections. *)
EXTENDS NetRead, TLC
Perm == Permutations(Conn)
=============================================================================
