----------------------------- MODULE SHETSource -----------------------------
(***************************************************************************)
(* The SHETSource protocol: what the router (src/router) and the devices   *)
(* (src/arduino/lib) put on the wire between them.                         *)
(***************************************************************************)
EXTENDS Integers

COMMAND_RESET           == 0
COMMAND_PING            == 2
COMMAND_ADD_ACTION      == 3
COMMAND_ADD_EVENT       == 4
COMMAND_ADD_PROPERTY    == 5
COMMAND_REMOVE_ACTION   == 6
COMMAND_REMOVE_EVENT    == 7
COMMAND_REMOVE_PROPERTY == 8
COMMAND_RAISE_EVENT     == 9
COMMAND_CALL_ACTION     == 10
COMMAND_SET_PROPERTY    == 11
COMMAND_GET_PROPERTY    == 12
COMMAND_RETURN          == 13

END_OF_RESET == 255        \* COMMAND_RESET ^ 0b11111111

Bytes == 0 .. 255
Int16 == {i \in Int : -32768 <= i /\ i <= 32767}

(* Two bytes, little-endian, to a signed 16-bit integer, and back.         *)
DecodeInteger(lo, hi) ==
    LET unsigned == lo + 256 * hi
    IN  IF unsigned < 32768 THEN unsigned ELSE unsigned - 65536

EncodeIntegerUnmasked(v) == <<v % 256, v \div 256>>     \* mutant

EncodeInteger(v) == <<v % 256, (v \div 256) % 256>>

=============================================================================
