------------------------ MODULE MCCanonicalRuntime ------------------------
(***************************************************************************)
(* A small instance of CanonicalRuntime: images of up to two chunks, the   *)
(* calculator and two general packages, one of the calculator's size.      *)
(***************************************************************************)
EXTENDS CanonicalRuntime

MCCalcImage == <<"add", "add">>

MCManifests ==
    {[size |-> 2, crc |-> MCCalcImage, at_entry |-> TRUE, clock |-> "AUTO"],
     [size |-> 2, crc |-> <<"nop", "add">>, at_entry |-> TRUE, clock |-> "STEPPED"],
     [size |-> 1, crc |-> <<"nop">>, at_entry |-> TRUE, clock |-> "FREE_RUNNING"]}
=============================================================================
