--------------------------- MODULE PriorityService ---------------------------
(***************************************************************************)
(* What PriorityQueue.scala promises its clients: a bag of pending entries *)
(* from which one of the highest priority (the smallest value) is served   *)
(* at a time, cycles + 1 times in all, each time one step closer to 0; an  *)
(* entry that is served is offered until the consumer takes it.            *)
(***************************************************************************)
EXTENDS Naturals, Sequences, BagsExt

CONSTANTS Entries

VARIABLES pending, offer, taken

vars == <<pending, offer, taken>>

\* pending is a bag: a function from its elements to how often it has them.
NonePending == [e \in {} |-> 0]

Best == {e \in DOMAIN pending : \A f \in DOMAIN pending : e.priority <= f.priority}

\* What is left pending when e has been served once.
Served(e) ==
  LET others == BagRemove(pending, e)
  IN  IF e.cycles = 0 THEN others
      ELSE BagAdd(others, [id |-> e.id, cycles |-> e.cycles - 1, priority |-> e.priority - 1])

\* The consumer takes the offer or leaves it.
Take  == taken' = offer
Leave == taken' = <<>>

Submit(e) ==
  /\ pending' = BagAdd(pending, e)
  /\ \/ Take /\ offer' = <<>>
     \/ Leave /\ offer' = offer

Serve ==
  \E e \in Best :
    /\ pending' = Served(e)
    /\ offer' = <<e>>
    /\ Take \/ (Leave /\ offer = <<>>)

Idle ==
  /\ UNCHANGED pending
  /\ \/ Take /\ offer' = <<>>
     \/ Leave /\ offer' = offer

Init == pending = NonePending /\ offer = <<>> /\ taken = <<>>

Next == (\E e \in Entries : Submit(e)) \/ Serve \/ Idle

Spec == Init /\ [][Next]_vars
=============================================================================
