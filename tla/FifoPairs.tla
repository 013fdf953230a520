------------------------------ MODULE FifoPairs ------------------------------
(***************************************************************************)
(* What the message fabric promises its users (socket.h): between every    *)
(* pair of addresses messages arrive once each and in the order sent.      *)
(* The n-th message of a pair is the number n; a pair is therefore two     *)
(* counters, and delivery can only take the next number.                   *)
(***************************************************************************)
EXTENDS Naturals

CONSTANT Pairs  \* the <<source, destination>> pairs that exchange messages

VARIABLES
  sent,   \* sent[p]: messages handed to the fabric
  got     \* got[p]: the number on the last message taken out

Init ==
  /\ sent = [p \in Pairs |-> 0]
  /\ got  = [p \in Pairs |-> 0]

Send(p) ==
  /\ sent' = [sent EXCEPT ![p] = @ + 1]
  /\ UNCHANGED got

Deliver(p) ==
  /\ got[p] < sent[p]
  /\ got' = [got EXCEPT ![p] = @ + 1]
  /\ UNCHANGED sent

Next == \E p \in Pairs : Send(p) \/ Deliver(p)

Spec == Init /\ [][Next]_<<sent, got>>
=============================================================================
