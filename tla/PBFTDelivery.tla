---------------------------- MODULE PBFTDelivery ----------------------------
(***************************************************************************)
(* PBFT with a network that delivers, but for messages it takes for        *)
(* another: Broadcast numbers messages without the mutex (see MessageIDs), *)
(* so two of one replica may have the same MessageID, and a node ignores   *)
(* the one that comes second.  What consensus gets done then.              *)
(***************************************************************************)
EXTENDS PBFT

CONSTANTS
  Coincidences,  \* the cases: sets of pairs of messages with the same MessageID
  Orderly,       \* bound: the replicas that handle messages in one order,
  Place          \* a number for each of them and each message

VARIABLE
  same           \* the case that occurs

Sender(m) == IF m.type = "PREPREPARE" THEN Primary ELSE m.id

ASSUME CoincidencesAssumption ==
  \A pairs \in Coincidences : \A p \in pairs :
    \E m, n \in Messages : m # n /\ Sender(m) = Sender(n) /\ p = {m, n}

ASSUME OrderAssumption == Place \in [Replicas \X Messages -> Nat]

\* What a replica has handled: m itself, or for a pre-prepare one under its key.
Handled(r, m) ==
  CASE m.type = "PREPREPARE" -> receivedPreprepares[r][m.sequence] # None
    [] m.type = "PREPARE" -> m.id \in receivedPrepares[r][m.sequence]
    [] m.type = "COMMIT" -> m.id \in receivedCommits[r][m.sequence]

\* A replica ignores a message whose MessageID it has seen.  Its own messages it
\* does not get from the network.
Ignores(r, m) ==
  Sender(m) # r /\ \E p \in same : m \in p /\ \E n \in p \ {m} : Handled(r, n)

\* What can reach a replica and would still be handled.
Waiting(r) == {m \in msgs : Hears(r, Sender(m)) /\ ~Handled(r, m) /\ ~Ignores(r, m)}

Receive(r, m) ==
  CASE m.type = "PREPREPARE" -> HandlePreprepare(r, m.sequence, m.request)
    [] m.type = "PREPARE" -> HandlePrepare(r, m.sequence, m.id)
    [] m.type = "COMMIT" -> HandleCommit(r, m.sequence, m.id)

InitDelivered == Init /\ same \in Coincidences

Number ==
  /\ \E q \in Requests : Propose(q)
  /\ UNCHANGED same

\* The turn of m at r: no orderly replica has an earlier message waiting.
Turn(r, m) ==
  r \in Orderly => \A s \in Orderly : \A n \in Waiting(s) : Place[r, m] <= Place[s, n]

Deliver(r) ==
  /\ \E m \in Waiting(r) : Turn(r, m) /\ Receive(r, m)
  /\ UNCHANGED same

NextDelivered == Number \/ \E r \in Replicas : Deliver(r)

DeliveredSpec == InitDelivered /\ [][NextDelivered]_<<vars, same>>

\* Handlers are goroutines the scheduler does not starve, and a message that can
\* reach a live replica, and is not ignored, is in the end handed to its handler.
\* Clients need not send anything.
FairSpec == DeliveredSpec /\ \A r \in Replicas : WF_<<vars, same>>(Deliver(r))

-----------------------------------------------------------------------------

\* The messages of a key that share a MessageID with another.
Confused(k) == {m \in UNION same : m.sequence = k}

\* The replicas that may play no part in a key: they died, the primary or they
\* do not reach everybody, or a message of theirs may be ignored.  A pre-prepare
\* that is ignored may leave out any replica.
Impaired(k) ==
  IF \E m \in Confused(k) : m.type = "PREPREPARE"
    THEN Replicas
    ELSE panicked \cup {Sender(m) : m \in Confused(k)}
           \cup {s \in Replicas \ {Primary} : <<Primary, s>> \notin Links}
           \cup {s \in Replicas : \E r \in Replicas \ {s} : <<s, r>> \notin Links}

\* Every replica has executed the key, or died.
Settled(k) == \A r \in Replicas : k \in Executed(r) \/ r \in panicked

\* The replicas left for a key are no quorum.
TooFew(k) == Cardinality(Replicas \ Impaired(k)) < Required

\* Consensus does not come to rest half way.  When nothing is left to handle at
\* any replica, every key numbered is settled unless too few replicas are left
\* for it: the deaths of some, and messages of theirs that were ignored, leave no
\* count short of its quorum elsewhere.
SettledAtRest ==
  (\A r \in Replicas : Waiting(r) = {}) =>
    \A k \in 1..Sequence : Settled(k) \/ TooFew(k)

\* A request the primary has numbered is in the end executed at every replica
\* that does not die, as long as the others are a quorum: neither the death of
\* one nor messages of one that are ignored, in part or by some, stop them.
EventuallyExecuted ==
  \A k \in Keys : Sequence >= k ~> Settled(k) \/ TooFew(k)
=============================================================================
