-------------------------------- MODULE Fifo --------------------------------
(***************************************************************************)
(* What CBlockingQueue promises to the threads around it: an unbounded     *)
(* FIFO; a take waits for an item and hands it to one consumer.            *)
(***************************************************************************)
EXTENDS Naturals, Sequences

CONSTANTS Items, Consumers, NoItem

VARIABLES queue,   \* the items, oldest first
          got      \* per consumer: the item in its hands

Init == queue = <<>> /\ got = [c \in Consumers |-> NoItem]

Put(x) == queue' = Append(queue, x) /\ UNCHANGED got

Take(c) ==
  /\ got[c] = NoItem
  /\ queue # <<>>
  /\ got' = [got EXCEPT ![c] = Head(queue)]
  /\ queue' = Tail(queue)

Finish(c) ==
  /\ got[c] # NoItem
  /\ got' = [got EXCEPT ![c] = NoItem]
  /\ UNCHANGED queue

Next ==
  \/ \E x \in Items : Put(x)
  \/ \E c \in Consumers : Take(c) \/ Finish(c)

Spec == Init /\ [][Next]_<<queue, got>>
=============================================================================
