------------------------------ MODULE Delivery ------------------------------
(***************************************************************************)
(* What the forwarder promises of each transaction it receives, whatever   *)
(* its queue, its flushes and its timers do: it is queued until it leaves  *)
(* the queue, once and for good, by the endpoint's answer or because the   *)
(* queue is full.  It is on the wire at most once at a time, never after   *)
(* its answer, and only an answer to a request ends it.                    *)
(***************************************************************************)
EXTENDS Naturals, FiniteSets

CONSTANT Limit          \* requests on the wire at the same time

VARIABLES
  received,             \* how many transactions came; each is its number
  status,               \* what became of them
  wire                  \* those that an endpoint was sent and has not answered

vars == <<received, status, wire>>

Init == received = 0 /\ status = <<>> /\ wire = {}

Receive ==
  /\ received' = received + 1
  /\ status' = [t \in 1..received + 1 |-> IF t \in 1..received THEN status[t] ELSE "queued"]
  /\ UNCHANGED wire

\* The queue is full.  A request for t may be on the wire, or still be sent by the flush
\* that chose t.
Drop(t) ==
  /\ status[t] = "queued"
  /\ status' = [status EXCEPT ![t] = "dropped"]
  /\ UNCHANGED <<received, wire>>

Send(t) ==
  /\ t \notin wire /\ status[t] # "done" /\ Cardinality(wire) < Limit
  /\ wire' = wire \cup {t}
  /\ UNCHANGED <<received, status>>

\* The endpoint accepts or rejects t.
Answer(t) ==
  /\ t \in wire /\ status[t] = "queued"
  /\ status' = [status EXCEPT ![t] = "done"]
  /\ wire' = wire \ {t}
  /\ UNCHANGED received

\* The request fails, or its answer comes too late for a transaction that was dropped.
Lose(t) ==
  /\ t \in wire
  /\ wire' = wire \ {t}
  /\ UNCHANGED <<received, status>>

Next ==
  \/ Receive
  \/ \E t \in 1..received : Drop(t) \/ Send(t) \/ Answer(t) \/ Lose(t)

Spec == Init /\ [][Next]_vars
=============================================================================
