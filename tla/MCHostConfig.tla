---------------------------- MODULE MCHostConfig ----------------------------
\* HostConfig for TLC: the requests that change hosts are interchangeable.
EXTENDS HostConfig, TLC

CallSymmetry == Permutations(Calls)
=============================================================================
