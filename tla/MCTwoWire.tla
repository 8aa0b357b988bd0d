----------------------------- MODULE MCTwoWire ------------------------------
(***************************************************************************)
(* TwoWire with bytes of two bits.  Of the four bytes, the two with unlike *)
(* bits are written: the last of them leaves the line high in the one and  *)
(* low in the other, and a bit sampled too early or late alters both.      *)
(***************************************************************************)
EXTENDS TwoWire

UnlikeBits == {<<LOW, HIGH>>, <<HIGH, LOW>>}

=============================================================================
