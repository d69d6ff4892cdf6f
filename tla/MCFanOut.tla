------------------------------ MODULE MCFanOut ------------------------------
(***************************************************************************)
(* Instances of FanOut.  Three references of two existing documents and    *)
(* one that is missing give every order of answers, failures among them,   *)
(* and lists that name a document twice.                                   *)
(***************************************************************************)
EXTENDS FanOut

CONSTANTS d1, d2, d3

MCDocs        == {d1, d2, d3}
MCStored      == {d1, d2}
=============================================================================
