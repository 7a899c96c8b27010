----------------------------- MODULE MCFlinkControl -----------------------------
(***************************************************************************)
(* Model checking of FlinkControl: the backend, whose API and remediation  *)
(* share a controller, the worker with its own, and the submission script. *)
(***************************************************************************)
EXTENDS FlinkControl, TLC

CONSTANTS backend, worker, api, healer, remote

MCHome == (api :> backend) @@ (healer :> backend) @@ (remote :> worker)
===============================================================================
