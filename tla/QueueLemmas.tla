---------------------------- MODULE QueueLemmas ----------------------------
(***************************************************************************)
(* Queues of messages as bags: what adding a message and taking one away   *)
(* make of the messages that are in the queue.                             *)
(***************************************************************************)
EXTENDS Integers, Bags, TLAPS

LEMMA EmptyQueue ==
  IsABag(EmptyBag) /\ BagToSet(EmptyBag) = {}
BY DEF IsABag, EmptyBag, SetToBag, BagToSet

LEMMA AddMessage ==
  ASSUME NEW queue, IsABag(queue), NEW message
  PROVE  LET added == queue (+) SetToBag({message})
         IN  /\ IsABag(added)
             /\ BagToSet(added) = BagToSet(queue) \cup {message}
<1> DEFINE added == queue (+) SetToBag({message})
           one == SetToBag({message})
<1>1. DOMAIN one = {message} /\ one[message] = 1
  BY DEF SetToBag
<1>2. \A e \in DOMAIN queue : queue[e] \in Nat /\ queue[e] > 0
  BY DEF IsABag
<1>3. /\ DOMAIN added = DOMAIN queue \cup DOMAIN one
      /\ \A e \in DOMAIN added :
           added[e] = (IF e \in DOMAIN queue THEN queue[e] ELSE 0)
                      + (IF e \in DOMAIN one THEN one[e] ELSE 0)
      /\ added = [e \in DOMAIN added |-> added[e]]
  BY DEF (+)
<1> HIDE DEF added, one
<1>4. \A e \in DOMAIN added : added[e] \in Nat /\ added[e] > 0
  BY <1>1, <1>2, <1>3
<1>5. IsABag(added)
  BY <1>3, <1>4 DEF IsABag
<1>6. BagToSet(added) = BagToSet(queue) \cup {message}
  BY <1>1, <1>3 DEF BagToSet
<1> QED BY <1>5, <1>6 DEF added

LEMMA TakeMessage ==
  ASSUME NEW queue, IsABag(queue), NEW message
  PROVE  LET taken == queue (-) SetToBag({message})
         IN  /\ IsABag(taken)
             /\ BagToSet(taken) \subseteq BagToSet(queue)
             /\ \A e \in BagToSet(queue) : e # message => e \in BagToSet(taken)
<1> DEFINE taken == queue (-) SetToBag({message})
           one == SetToBag({message})
           rest == [e \in DOMAIN queue |-> IF e \in DOMAIN one THEN queue[e] - one[e]
                                           ELSE queue[e]]
<1>1. DOMAIN one = {message} /\ one[message] = 1
  BY DEF SetToBag
<1>2. \A e \in DOMAIN queue : queue[e] \in Nat /\ queue[e] > 0
  BY DEF IsABag
<1>3. /\ DOMAIN taken = {e \in DOMAIN queue : rest[e] > 0}
      /\ \A e \in DOMAIN taken : taken[e] = rest[e]
      /\ taken = [e \in DOMAIN taken |-> taken[e]]
  BY DEF (-)
<1>4. \A e \in DOMAIN queue : rest[e] = IF e = message THEN queue[e] - 1 ELSE queue[e]
  BY <1>1
<1> HIDE DEF taken, one, rest
<1>5. \A e \in DOMAIN taken : taken[e] \in Nat /\ taken[e] > 0
  BY <1>2, <1>3, <1>4
<1>6. IsABag(taken)
  BY <1>3, <1>5 DEF IsABag
<1>7. /\ BagToSet(taken) \subseteq BagToSet(queue)
      /\ \A e \in BagToSet(queue) : e # message => e \in BagToSet(taken)
  BY <1>2, <1>3, <1>4 DEF BagToSet
<1> QED BY <1>6, <1>7 DEF taken
=============================================================================
