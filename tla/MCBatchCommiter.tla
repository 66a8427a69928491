-------------------------- MODULE MCBatchCommiter --------------------------
(* Instances of BatchCommiter for TLC.                                     *)
EXTENDS BatchCommiter
============================================================================
