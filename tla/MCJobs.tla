------------------------------- MODULE MCJobs -------------------------------
(* Small instances of JobWorker for TLC. *)
EXTENDS JobInvariants

CONSTANTS w1, w2, t1

Run(kind, group) == [kind |-> kind, group |-> group]

TwoWorkers == {w1, w2}
OneWorker == {w1}
OneTerminal == {t1}
NoTerminal == {}
TwoAndTerminal == {w1, w2, t1}

OneGroup == {"g"}
GraphAndGroup == {"graph", "g"}

GraphRuns == {Run("publish", "g"), Run("health", "g")}
PipelineRuns == {Run("pipeline", "g"), Run("publish", "g")}
CancelledRuns == {Run("collect", "g")}

NobodyDies == {}
MortalWorker == {w1}
MortalTerminal == {t1}
OneAndTerminal == {w1, t1}
BothMortal == {w1, t1}
=============================================================================
