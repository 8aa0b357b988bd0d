------------------------------ MODULE MCDevice ------------------------------
(***************************************************************************)
(* Inputs for model-checking Device: the server is an adversary that may   *)
(* send any of the bytes of Input at any time.                             *)
(***************************************************************************)
EXTENDS Device

MCConnectionIds == {<<7, 0>>}
MCEventValues   == {<<5, 0>>}

(* A callback that returns its argument.                                   *)
MCResult(a, v) == v
=============================================================================
