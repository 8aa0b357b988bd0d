----------------------------- MODULE MCSession ------------------------------
(***************************************************************************)
(* Inputs for model-checking Session.  The bytes of -256 are those of a    *)
(* COMMAND_RESET and of END_OF_RESET.                                      *)
(***************************************************************************)
EXTENDS Session

OneId == {<<7, 0>>}

MCValues == {1, -256}

ResetValue == {-256}

=============================================================================
