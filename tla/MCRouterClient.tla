--------------------------- MODULE MCRouterClient ---------------------------
(***************************************************************************)
(* Inputs for model-checking RouterClient.  The peer is an adversary that  *)
(* is not limited to well-formed commands, but in each parser state it     *)
(* picks from a few bytes that cover what the handler tells apart.         *)
(***************************************************************************)
EXTENDS RouterClient, TLC

CONSTANTS Commands,     \* first bytes the peer may send
          ObjectIds,    \* low bytes of the ids of objects
          TypeCodes     \* bytes sent where a type is read

Symmetry == Permutations(Requests)

MCValues == {-2}

(* A field that stands for an id the router only compares.                 *)
MCInput(s) ==
    IF s.cmd = NoCommand THEN Commands
    ELSE LET n == Len(s.vals) + 1
             f == Signature(s.cmd)[n]
         IN  CASE f = "Byte" -> {0, 1, 255}
               [] f = "Integer" /\ s.part # <<>> -> {0}
               [] f = "Integer" /\ s.cmd = COMMAND_PING -> {0, 1}
               [] f = "Integer" /\ s.cmd = COMMAND_RESET -> {1}
               [] f = "Integer" -> ObjectIds
               [] f = "String" /\ s.cmd = COMMAND_RESET -> {0}
               [] f = "String" -> {0, SLASH}
               [] f = "Type" -> TypeCodes
               [] OTHER -> IF s.part = <<>> THEN {0, 5} ELSE {0}
=============================================================================
