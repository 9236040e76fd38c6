----------------------------- MODULE MCAddressMap -----------------------------
(***************************************************************************)
(* AddressMap for TLC, and its refinement of one RequestChannel a channel. *)
(***************************************************************************)
EXTENDS AddressMap

Plain(queue) ==
  [i \in DOMAIN queue |-> [port |-> queue[i].port, offset |-> queue[i].offset]]

Carried(c) == Plain(queueOut[c]) \o Plain(readStage[c]) \o Plain(queueIn[c])

Channel(c) == INSTANCE RequestChannel
                WITH Depth <- 3, pending <- Carried(c), issued <- Plain(issued[c])

\* No request is lost, duplicated or reordered, under any back pressure.
CarriesInOrder ==
  /\ \A c \in Channels : Channel(c)!Init
  /\ [][\A c \in Channels : [Channel(c)!Next]_<<Carried(c), Plain(issued[c])>>]_vars
=============================================================================
