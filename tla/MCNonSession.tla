---- MODULE MCNonSession ----
(* NonSession with the constants of the MCSession*.cfg files. *)
EXTENDS NonSession
====
