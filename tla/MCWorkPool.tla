----------------------------- MODULE MCWorkPool -----------------------------
(* The thread pool on a small instance. *)
EXTENDS WorkPool
==============================================================================
