--------------------------- MODULE MCWritePipeline ---------------------------
(***************************************************************************)
(* Instance of WritePipeline: two users, three writes, a pipeline of two.  *)
(***************************************************************************)
EXTENDS WritePipeline
=============================================================================
