----------------------------- MODULE MCDelivery -----------------------------
(* Instances of Delivery: messages of which two, but not one, fill the     *)
(* buffer, as 82 and 67 bytes do one of 128.                               *)
EXTENDS Delivery

MCSizes == {2, 3, 4}
=============================================================================
