---------------------------- MODULE MCAllocators ----------------------------
(* A small instance of Allocators: two callers, three identifiers each.    *)
EXTENDS Allocators

CONSTANTS c1, c2

MCClients == {c1, c2}

AtRest == <<Init, P!Init, A!Init, F!Init /\ devs = {}>>

(* The four share no state, and each property is about one of them: TLC    *)
(* looks at one while the others are at rest.                              *)
OneAtATime == \E k \in 1..4 : \A n \in 1..4 \ {k} : AtRest[n]

(* Repeated frees lengthen the queue of the three addresses. *)
MaxQueued == 4

Bounds == OneAtATime /\ Len(freeIPs) <= MaxQueued
=============================================================================
