------------------------------ MODULE RouterSys ------------------------------
(***************************************************************************)
(* The Router with dealers around it: threads that post messages to each   *)
(* other, some of them silent until they announce themselves to the stub   *)
(* with a kConnect ping (as Server::Run does), and the stub's loop.        *)
(* A message carries its number within its <<source, destination>> pair,   *)
(* so that order, loss and duplication show in the numbers received.       *)
(***************************************************************************)
EXTENDS Naturals, Sequences, FiniteSets

CONSTANTS
  Address, Stub, Nil, BufSize,
  Pairs,      \* the <<source, destination>> pairs that talk
  MaxSent     \* bound: messages per pair

ASSUME SysAssumption ==
  /\ Pairs \subseteq Address \X Address
  /\ BufSize \in Nat
  /\ Nil \notin Address
  /\ Stub \notin Address

VARIABLES up, down, id2addr, bufmsg, nBufmsg, hand, process,
  sent, got,  \* per pair: numbers posted, last number taken out
  silent      \* addresses that have sent nothing yet

INSTANCE Router

vars == <<up, down, id2addr, bufmsg, nBufmsg, hand, process, sent, got, silent>>

Init ==
  /\ RouterInit
  /\ up = [a \in Address |-> << >>]
  /\ sent = [p \in Pairs |-> 0]
  /\ got  = [p \in Pairs |-> 0]
  /\ silent = Address

\* Server::Run's first message: a kConnect to the stub.
Ping(a) ==
  /\ Running
  /\ a \in silent
  /\ silent' = silent \ {a}
  /\ DealerSend(a, [src |-> a, dst |-> Stub, n |-> 0])
  /\ UNCHANGED <<down, id2addr, bufmsg, nBufmsg, hand, process, sent, got>>

Post(p) ==
  /\ Running
  /\ sent[p] < MaxSent
  /\ sent' = [sent EXCEPT ![p] = @ + 1]
  /\ silent' = silent \ {p[1]}
  /\ DealerSend(p[1], [src |-> p[1], dst |-> p[2], n |-> sent[p] + 1])
  /\ UNCHANGED <<down, id2addr, bufmsg, nBufmsg, hand, process, got>>

Take(a) ==
  /\ Running
  /\ DealerReceive(a)
  /\ got' = [got EXCEPT ![<<Head(down[a]).src, a>>] = Head(down[a]).n]
  /\ UNCHANGED <<up, id2addr, bufmsg, nBufmsg, hand, process, sent, silent>>

StubReceive(a) ==
  /\ Running
  /\ RouterReceive(a)
  /\ UNCHANGED <<sent, got, silent>>

StubSend ==
  /\ Running
  /\ StubDispatch
  /\ UNCHANGED <<sent, got, silent>>

Next ==
  \/ \E a \in Address : Ping(a) \/ Take(a) \/ StubReceive(a)
  \/ \E p \in Pairs : Post(p)
  \/ StubSend

Spec == Init /\ [][Next]_vars

\* Every thread keeps running: a thread that has announced nothing yet will
\* (a server pings before its loop), a dealer's owner reads its pipe, the
\* stub dispatches.  ZeroMQ's ROUTER fair-queues its inbound pipes, so no
\* dealer is passed over for ever: strong fairness for each of them.
Fairness ==
  /\ \A a \in Address : WF_vars(Ping(a)) /\ WF_vars(Take(a)) /\ SF_vars(StubReceive(a))
  /\ WF_vars(StubSend)

FairSpec == Spec /\ Fairness

----------------------------------------------------------------------------
(* Properties *)

\* The places of kept messages, and how many there are.
Slots == UNION {{<<a, i>> : i \in 1 .. Len(bufmsg[a])} : a \in Address}
Kept  == Cardinality(Slots)

\* The fabric implements FIFO, exactly-once pairs, through every
\* interleaving of the buffering, the flush and the first contacts
\* (Router::Send, Router::Receive).
Fifo == INSTANCE FifoPairs WITH sent <- sent, got <- got
ImplementsFifoPairs == Fifo!Spec

\* The router's running count never falls below what is really kept, so
\* the CHECK in Router::Send bounds the memory the buffers take.
CountCoversKept == Running => Kept <= nBufmsg /\ Kept <= BufSize

\* A message posted while the process lives is taken out, even one sent
\* before its destination connected.
PostedIsTaken ==
  \A p \in Pairs : \A n \in 1 .. MaxSent : (sent[p] >= n) ~> (got[p] >= n \/ ~ Running)
=============================================================================
