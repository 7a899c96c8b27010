--------------------------- MODULE MCQuarantineWriter ---------------------------
(***************************************************************************)
(* Model checking of QuarantineWriter with two threads and four records,   *)
(* once with one thread that flushes and once with two.                    *)
(***************************************************************************)
EXTENDS QuarantineWriter
===============================================================================
