----------------------------- MODULE MCPipeline -----------------------------
(* Small instances of Pipeline for TLC.                                    *)
EXTENDS Pipeline, TLC

CONSTANTS d1, d2, w1, w2, dom1, dom2

MCDeployments == {d1, d2}
MCOneDeployment == {d1}
MCOneWorker == {w1}
MCTwoWorkers == {w1, w2}
MCDomains == {dom1, dom2}

MCSymmetry == Permutations(MCDomains)
=============================================================================
