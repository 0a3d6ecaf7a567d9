---------------------------- MODULE RelaxedRelay ----------------------------
(***************************************************************************)
(* What the data dispatcher promises its callers, without queue, workers   *)
(* or channels: a bounded relay that may refuse an item when it is full,   *)
(* may lose an item the message queue refuses, and hands items on in an    *)
(* order that is first-in first-out up to a constant Slack: an item leaves *)
(* only while fewer than Slack older items are still inside.  Once the     *)
(* relay is shut nothing leaves it any more.                               *)
(***************************************************************************)
EXTENDS Naturals, Sequences, FiniteSets

CONSTANTS Capacity, \* items the relay may hold besides those being handed on
          Slack     \* how many items may be handed on at the same time

VARIABLES offered,   \* number of items offered so far; items are numbered
          pending,   \* items accepted and not yet handed on
          published, \* items handed on, in the order they left
          open       \* FALSE once the relay is shut

vars == <<offered, pending, published, open>>

Init == /\ offered = 0
        /\ pending = {}
        /\ published = <<>>
        /\ open = TRUE

\* Number of items that came before item and are still inside.
Rank(item) == Cardinality({other \in pending : other < item})

Accept == /\ open
          /\ Cardinality(pending) < Capacity + Slack
          /\ offered' = offered + 1
          /\ pending' = pending \cup {offered'}
          /\ UNCHANGED <<published, open>>

\* A refusal leaves no trace, and is due to a full or a shut relay.
Refuse == /\ ~open \/ Cardinality(pending) >= Capacity
          /\ offered' = offered + 1
          /\ UNCHANGED <<pending, published, open>>

Leave(item) == /\ open
               /\ Rank(item) < Slack
               /\ pending' = pending \ {item}
               /\ published' \in {published, Append(published, item)}
               /\ UNCHANGED <<offered, open>>

Shut == /\ open
        /\ open' = FALSE
        /\ UNCHANGED <<offered, pending, published>>

Next == \/ Accept
        \/ Refuse
        \/ \E item \in pending : Leave(item)
        \/ Shut

Spec == Init /\ [][Next]_vars
=============================================================================
