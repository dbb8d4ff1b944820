---------------------------- MODULE MCNetServer ----------------------------
(* NetServer with interchangeable connections. *)
EXTENDS NetServer, TLC
Perm == Permutations(Conn)
=============================================================================
