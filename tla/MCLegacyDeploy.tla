--------------------------- MODULE MCLegacyDeploy ---------------------------
(* Small instances of LegacyDeploy for TLC.                                *)
EXTENDS LegacyDeploy, TLC

CONSTANTS d1, d2, w1, w2, dom1, u1, u2

MCDeployments == {d1, d2}
MCOneDeployment == {d1}
MCTwoWorkers == {w1, w2}
MCOneWorker == {w1}
MCDomains == {dom1}
MCUsers == {u1, u2}
=============================================================================
