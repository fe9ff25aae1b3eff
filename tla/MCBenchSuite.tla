--------------------------- MODULE MCBenchSuite ---------------------------
(*************************************************************************)
(* Two benchmarks; the original, one configuration that gates and one    *)
(* that does not; two builds of the plugin.                              *)
(*************************************************************************)
EXTENDS BenchSuite

TwoBenchmarks == <<"sha", "qsort">>

ThreeConfigs == <<"original", "global", "clang_o2">>
=============================================================================
