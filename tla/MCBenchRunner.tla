--------------------------- MODULE MCBenchRunner ----------------------------
(* Benchmarks with few clients and few iterations. *)
EXTENDS BenchRunner
=============================================================================
