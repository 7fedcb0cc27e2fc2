---- MODULE MCNetWatch ----
(* A small instance of NetWatch. *)
EXTENDS NetWatch
====
