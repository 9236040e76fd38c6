---------------------------- MODULE RequestChannel ----------------------------
(***************************************************************************)
(* What each channel of AddressMap.scala promises for the requests it      *)
(* carries, whatever happens to their addresses: they come out once each,  *)
(* in order, and at most Depth are inside.                                 *)
(***************************************************************************)
EXTENDS Naturals, Sequences

CONSTANTS Requests, Depth

VARIABLES pending, issued

AtMostOne(S) == {<<>>} \cup {<<x>> : x \in S}

Init == pending = <<>> /\ issued = <<>>

\* In one cycle the oldest request may leave and a new one may arrive.
Next ==
  \E new \in AtMostOne(Requests), out \in 0..1 :
    /\ out <= Len(pending)
    /\ issued' = SubSeq(pending, 1, out)
    /\ pending' = SubSeq(pending, out + 1, Len(pending)) \o new
    /\ Len(pending') <= Depth

Spec == Init /\ [][Next]_<<pending, issued>>
=============================================================================
