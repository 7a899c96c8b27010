---------------------------- MODULE MCSharedBreaker ---------------------------
(***************************************************************************)
(* Model checking of SharedBreaker with two processes, a database that may *)
(* fail once and a process that may restart once.                          *)
(***************************************************************************)
EXTENDS SharedBreaker
===============================================================================
