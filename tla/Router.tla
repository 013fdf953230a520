------------------------------- MODULE Router -------------------------------
(***************************************************************************)
(* The in-process message fabric of singa (src/communication/socket.cc):   *)
(* every server and worker thread owns a Dealer socket, the stub thread    *)
(* (Trainer::Run) owns the Router socket, and every message goes dealer -> *)
(* router -> dealer.  A dealer's two pipes are FIFO; the router reads the  *)
(* dealers' pipes in any order.                                            *)
(*                                                                         *)
(* The router learns the dealer that stands behind a logical address from  *)
(* the src field of the messages it receives, and keeps a message whose    *)
(* dst it has not learnt yet in bufmsg, which the first message from that  *)
(* address flushes.                                                        *)
(*                                                                         *)
(* This module is a data structure: the modules that INSTANCE it conjoin   *)
(* its operations with what the owning thread does.                        *)
(***************************************************************************)
EXTENDS Naturals, Sequences

CONSTANTS
  Address,  \* the packed (group, id, flag) words of the dealers' owners
  Stub,     \* the address (0, 0, kStub) of the stub itself
  Nil,      \* "no entry" in the routing table
  BufSize   \* Router::bufsize_

VARIABLES
  up,       \* up[a]: messages a's dealer sent and the router has not read
  down,     \* down[a]: messages the router sent to a's dealer, not yet read
  id2addr,  \* id2addr[a]: the dealer the router believes a is behind, or Nil
  bufmsg,   \* bufmsg[a]: messages kept until a is learnt
  nBufmsg,  \* the router's count of kept messages
  hand,     \* <<m>> when the stub holds m between Receive and Send
  process   \* "running", or how it ended: "aborted" (CHECK), "exited"

Running == process = "running"

\* The stub's dealers and buffers before it starts; `up` may already hold
\* what Worker::Setup sent.
RouterInit ==
  /\ down    = [a \in Address |-> << >>]
  /\ id2addr = [a \in Address |-> Nil]
  /\ bufmsg  = [a \in Address |-> << >>]
  /\ nBufmsg = 0
  /\ hand    = << >>
  /\ process = "running"

----------------------------------------------------------------------------
(* Dealer *)

DealerSend(a, m) == up' = [up EXCEPT ![a] = Append(@, m)]

DealerReceive(a) ==
  /\ down[a] # << >>
  /\ down' = [down EXCEPT ![a] = Tail(@)]

----------------------------------------------------------------------------
(* Router::Receive: pop from dealer d; the first message from an address   *)
(* enters it in the table and flushes what was kept for it, in order.      *)

Known(a) == id2addr[a] # Nil

\* Mutation: the table follows the dealer a source was last seen behind.
UnlearntAlways(a) == TRUE

Unlearnt(a) == ~ Known(a)

\* Mutation: the flush sends the newest kept message first.
FlushReversed(a) == [i \in 1 .. Len(bufmsg[a]) |-> bufmsg[a][Len(bufmsg[a]) + 1 - i]]

\* Mutation: the first message from an address does not flush its buffer.
FlushNothing(a) == << >>

Flush(a) == bufmsg[a]

RouterReceive(d) ==
  LET m == Head(up[d]) IN
  /\ hand = << >>
  /\ up[d] # << >>
  /\ hand' = <<m>>
  /\ up'   = [up EXCEPT ![d] = Tail(@)]
  /\ IF Unlearnt(m.src)
     THEN /\ id2addr' = [id2addr EXCEPT ![m.src] = d]
          /\ down'    = [down EXCEPT ![d] = @ \o Flush(m.src)]
          /\ bufmsg'  = [bufmsg EXCEPT ![m.src] = << >>]
     ELSE UNCHANGED <<id2addr, down, bufmsg>>
  /\ UNCHANGED <<nBufmsg, process>>

----------------------------------------------------------------------------
(* Router::Send.  The count is reset only when nothing at all is kept; a   *)
(* flush does not lower it.  CHECK_LE aborts the process past bufsize_.    *)

\* Mutation: every push restarts the count.
CountForgets == 1

CountAfterPush == IF \A a \in Address : bufmsg[a] = << >> THEN 1 ELSE nBufmsg + 1

RouterSend(m) ==
  IF Known(m.dst)
  THEN /\ down' = [down EXCEPT ![id2addr[m.dst]] = Append(@, m)]
       /\ UNCHANGED <<bufmsg, nBufmsg, process>>
  ELSE /\ bufmsg'  = [bufmsg EXCEPT ![m.dst] = Append(@, m)]
       /\ nBufmsg' = CountAfterPush
       /\ process' = IF CountAfterPush <= BufSize THEN process ELSE "aborted"
       /\ UNCHANGED down

\* One dispatch of Trainer::Run's loop in a single-process cluster: what is
\* addressed to the stub (kConnect) is dropped, the rest is sent on.
StubDispatch ==
  /\ hand # << >>
  /\ hand' = << >>
  /\ IF Head(hand).dst = Stub
     THEN UNCHANGED <<down, bufmsg, nBufmsg, process>>
     ELSE RouterSend(Head(hand))
  /\ UNCHANGED <<up, id2addr>>

----------------------------------------------------------------------------
(* What the users of the fabric rely on. *)

\* The routing table maps an address to the dealer of its owner and to no
\* other: a message that a server bounces keeps the worker's src, and must
\* not redirect the worker's traffic to the server's dealer.
TableTruthful == \A a \in Address : id2addr[a] \in {Nil, a}
=============================================================================
