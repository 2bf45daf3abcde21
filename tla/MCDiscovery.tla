----------------------------- MODULE MCDiscovery -----------------------------
(* An instance of Discovery: identifiers of three bits.                    *)
EXTENDS Discovery

CONSTANTS boot, x, y, z

\* x and y are nearer to each other than to the bootstrap node and to z, so
\* one that hears of the other in time asks it first.
Identifiers ==
  [n \in Nodes |->
    CASE n = boot -> {} [] n = x -> {1} [] n = y -> {1, 3} [] OTHER -> {2, 3}]

RandomIDs == {{3}}
=============================================================================
