------------------------------- MODULE MCTcp -------------------------------
(* Two messages, the first of two bytes. *)
EXTENDS Tcp

MCLengths == <<2, 1>>
=============================================================================
