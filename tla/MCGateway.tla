----------------------------- MODULE MCGateway ------------------------------
(* Gateway with two channels and one byte: frames differ by their address. *)
EXTENDS Gateway

OneByte == {<<0, 0>>}

=============================================================================
