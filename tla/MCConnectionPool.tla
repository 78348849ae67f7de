------------------------- MODULE MCConnectionPool -------------------------
(* The connection pool on small instances.                                 *)
EXTENDS ConnectionPool, TLC

(* Requests are interchangeable.                                           *)
Symmetry == Permutations(Request)
=============================================================================
