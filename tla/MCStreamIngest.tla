----------------------------- MODULE MCStreamIngest -----------------------------
(***************************************************************************)
(* Model checking of StreamIngest: the worker and the API, a window of one *)
(* tick, a threshold of one half, and topics in which invalid messages of  *)
(* every kind come before others that must not be lost to them.            *)
(***************************************************************************)
EXTENDS StreamIngest

CONSTANTS worker, api
Groups == (worker :> 2) @@ (api :> 1)

Messages == { <<"good", "bad">>, <<"bad", "list">>, <<"poison", "garbage">>, <<"list", "poison">> }
===============================================================================
