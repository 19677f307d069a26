----------------------------- MODULE MCBenchmark ------------------------------
(* A run of two cases, one of which has to pass, by the executor of the        *)
(* application or by one that stores all its agent runs and claims a PASS.     *)
EXTENDS Benchmark

MCExecutors ==
  { PipelineBenchmarkExecutor,
    [claims |-> {"BLOCKED_RULE_POLICY", "HUMAN_REVIEW", "PASS"}, stores |-> CriticalAgent] }
===============================================================================
