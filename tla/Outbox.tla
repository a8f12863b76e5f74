------------------------------- MODULE Outbox -------------------------------
(***************************************************************************)
(* What a client session promises about the messages posted to it: they    *)
(* are delivered to the transport in the order they were posted, none      *)
(* twice, and none is skipped but those that wait when the session is      *)
(* closed, which are dropped together.  Messages are numbered as posted.   *)
(***************************************************************************)
EXTENDS Naturals, Sequences

VARIABLES
  posted,     (* how many messages were posted *)
  delivered,  (* what the transports took, in order *)
  pending     (* what waits, in order *)

outVars == <<posted, delivered, pending>>

Init == posted = 0 /\ delivered = <<>> /\ pending = <<>>

(* The first few of q are delivered, the others wait. *)
Moves(q) == \E k \in 0..Len(q) : /\ delivered' = delivered \o SubSeq(q, 1, k)
                                 /\ pending' = SubSeq(q, k + 1, Len(q))

Post == posted' = posted + 1 /\ Moves(Append(pending, posted + 1))

Deliver == Moves(pending) /\ UNCHANGED posted

Drop == pending' = <<>> /\ UNCHANGED <<posted, delivered>>

Next == Post \/ Deliver \/ Drop

Spec == Init /\ [][Next]_outVars

-----------------------------------------------------------------------------
(* Messages reach the transport, and wait for it, in the order they were     *)
(* posted and none is there twice.                                           *)
InOrder == LET all == delivered \o pending
           IN  /\ \A i \in 1..Len(all) : all[i] \in 1..posted
               /\ \A i, j \in 1..Len(all) : i < j => all[i] < all[j]
=============================================================================
