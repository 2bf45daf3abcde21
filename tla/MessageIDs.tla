------------------------------ MODULE MessageIDs ------------------------------
(***************************************************************************)
(* NodeLoop with the numbers of its messages.  PBFT.Broadcast builds the   *)
(* MessageID of a message from messageID and then adds 1 to it.  Of all    *)
(* the state of PBFT this is the one field that goroutines use without     *)
(* the mutex: Propose holds it when it broadcasts, the goroutines that     *)
(* handlers start do not.  Reading, reading again to add, and writing are  *)
(* three steps here.                                                       *)
(***************************************************************************)
EXTENDS NodeLoop

VARIABLES
  messageID,   \* the number of the next message
  at,          \* per goroutine: what it does next in Broadcast
  loaded,      \* per goroutine: the messageID it is adding 1 to
  number       \* per broadcast: the number in its MessageID, or None

numbering == <<messageID, at, loaded, number>>

InitNumbered ==
  /\ Init
  /\ messageID = 0
  /\ at = [t \in Threads |-> "number"]
  /\ loaded = [t \in Threads |-> 0]
  /\ number = [b \in Broadcasts |-> None]

\* The MessageID is made from messageID.
Number(t) ==
  /\ pc[t] = "send" /\ at[t] = "number"
  /\ number' = [number EXCEPT ![Broadcast(t)] = messageID]
  /\ at' = [at EXCEPT ![t] = "load"]
  /\ UNCHANGED <<vars, messageID, loaded>>

\* messageID += 1 reads it and writes it.
Load(t) ==
  /\ pc[t] = "send" /\ at[t] = "load"
  /\ loaded' = [loaded EXCEPT ![t] = messageID]
  /\ at' = [at EXCEPT ![t] = "store"]
  /\ UNCHANGED <<vars, messageID, number>>

Store(t) ==
  /\ pc[t] = "send" /\ at[t] = "store"
  /\ messageID' = loaded[t] + 1
  /\ at' = [at EXCEPT ![t] = "send"]
  /\ UNCHANGED <<vars, loaded, number>>

\* Then the message goes into the channel.
SendNumbered(t) ==
  /\ at[t] = "send"
  /\ Send(t)
  /\ at' = [at EXCEPT ![t] = "number"]
  /\ UNCHANGED <<messageID, loaded, number>>

NextNumbered ==
  \/ \E t \in Threads : Number(t) \/ Load(t) \/ Store(t) \/ SendNumbered(t)
  \/ /\ \/ RunLoop
        \/ \E t \in Goroutines : Handle(t)
        \/ \E q \in Requests : ProposeFromMain(q)
        \/ \E t \in Threads : Panic(t)
     /\ UNCHANGED numbering

SpecNumbered == InitNumbered /\ [][NextNumbered]_<<vars, numbering>>

\* Two messages of a node have two MessageIDs, as the comment on the field says:
\* a node ignores a message whose MessageID it has seen.
UniqueIDs ==
  \A b, d \in Broadcasts : number[b] # None /\ number[b] = number[d] => b = d
=============================================================================
