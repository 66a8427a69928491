------------------------- MODULE MCBenchmarkHarness -------------------------
(* Instances of BenchmarkHarness for TLC.                                  *)
EXTENDS BenchmarkHarness

FillAndScan == <<"fillrandom", "readseq">>
=============================================================================
