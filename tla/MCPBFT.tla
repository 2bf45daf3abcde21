------------------------------- MODULE MCPBFT -------------------------------
(* Instances of PBFT: requests, and which replica hears which.             *)
EXTENDS PBFT, TLC

CONSTANTS
  Laggard    \* a replica whose messages reach nobody else (or none)

\* The transfers of main.go's example, with small amounts.
OneRequest == {[operation |-> "Sub", target |-> "Ana", amount |-> 4]}

TwoRequests ==
  {[operation |-> "Sub", target |-> "Ana", amount |-> 4],
   [operation |-> "Add", target |-> "Ana", amount |-> 1]}

\* Everyone hears everyone, but for the laggard's messages.
LaggingLinks == {l \in Replicas \X Replicas : l[1] # Laggard}

\* The replicas that are neither the primary nor the laggard may be swapped.
Backups == Permutations(Replicas \ {Primary, Laggard})
=============================================================================
