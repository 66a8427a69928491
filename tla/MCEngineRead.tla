--------------------------- MODULE MCEngineRead ---------------------------
(* Instances of EngineRead for TLC.                                        *)
EXTENDS EngineRead
===========================================================================
