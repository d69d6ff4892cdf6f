--------------------------- MODULE MCDocumentRead ---------------------------
(***************************************************************************)
(* Instances of DocumentRead: a few reads of a document that changes while *)
(* the connection is lost.                                                 *)
(***************************************************************************)
EXTENDS DocumentRead
=============================================================================
