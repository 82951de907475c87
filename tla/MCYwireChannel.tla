--------------------------- MODULE MCYwireChannel ---------------------------
(* Small instances of YwireChannel for TLC. *)
EXTENDS YwireChannel

ClientOpensOne == [client |-> 1, host |-> 0]
ClientOpensTwo == [client |-> 2, host |-> 0]
BothOpenOne    == [client |-> 1, host |-> 1]

Bytes(c, h) == [client |-> c, host |-> h]
TwoAndNone   == Bytes(2, 0)
ThreeAndNone == Bytes(3, 0)
FiveAndNone  == Bytes(5, 0)
NoneAndThree == Bytes(0, 3)
=============================================================================
