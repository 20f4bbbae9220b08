---------------------------- MODULE BoundedFifo ----------------------------
(***************************************************************************)
(* What a message list of hatchNet promises to the threads around it: a    *)
(* FIFO that stores a message or refuses it, hands every stored message    *)
(* out once and in order, refuses only when it holds at least Capacity     *)
(* messages, and never holds more than Capacity + Slack.                   *)
(***************************************************************************)
EXTENDS Naturals, Sequences

CONSTANTS Producers, Consumers, Msg, NoMsg,
          Capacity,   \* the list may refuse a message from this length on
          Slack       \* how far beyond Capacity it may grow

VARIABLES queue,      \* the stored messages, oldest first
          answer,     \* per producer: what its current push was told
          got         \* per consumer: the message in its hands

vars == <<queue, answer, got>>

Init ==
  /\ queue = <<>>
  /\ answer = [p \in Producers |-> "none"]
  /\ got = [c \in Consumers |-> NoMsg]

Store(p, m) ==
  /\ answer[p] = "none"
  /\ Len(queue) < Capacity + Slack
  /\ queue' = Append(queue, m)
  /\ answer' = [answer EXCEPT ![p] = "stored"]
  /\ UNCHANGED got

Refuse(p) ==
  /\ answer[p] = "none"
  /\ Len(queue) >= Capacity
  /\ answer' = [answer EXCEPT ![p] = "full"]
  /\ UNCHANGED <<queue, got>>

Return(p) ==
  /\ answer[p] # "none"
  /\ answer' = [answer EXCEPT ![p] = "none"]
  /\ UNCHANGED <<queue, got>>

Take(c) ==
  /\ got[c] = NoMsg
  /\ queue # <<>>
  /\ got' = [got EXCEPT ![c] = Head(queue)]
  /\ queue' = Tail(queue)
  /\ UNCHANGED answer

Finish(c) ==
  /\ got[c] # NoMsg
  /\ got' = [got EXCEPT ![c] = NoMsg]
  /\ UNCHANGED <<queue, answer>>

Next ==
  \/ \E p \in Producers : (\E m \in Msg : Store(p, m)) \/ Refuse(p) \/ Return(p)
  \/ \E c \in Consumers : Take(c) \/ Finish(c)

Spec == Init /\ [][Next]_vars
=============================================================================
