--------------------------- MODULE MCHttpClient ---------------------------
(* The HTTP client on small instances.                                     *)
EXTENDS HttpClient, TLC

(* Requests are interchangeable.                                           *)
Symmetry == Permutations(Request)
=============================================================================
