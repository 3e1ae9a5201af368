--------------------------- MODULE MCDeployBuilds ---------------------------
\* DeployBuilds for TLC: the calls of Build are interchangeable.
EXTENDS DeployBuilds, TLC

BuildSymmetry == Permutations(Calls)
=============================================================================
