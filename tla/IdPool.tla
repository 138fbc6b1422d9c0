------------------------------- MODULE IdPool -------------------------------
(***************************************************************************)
(* What every allocator of the server promises its callers: an identifier  *)
(* (a vsock CID, a guest IP, a host port, a tap number) that was handed    *)
(* out is not handed out again until it has been given back.  The queue of *)
(* free identifiers, its order and the mutex around it are not visible at  *)
(* this level: the state is who holds what.                                *)
(***************************************************************************)
CONSTANTS Ids,       \* the identifiers the pool owns
          Clients    \* the calls that may hold some of them

VARIABLE held        \* held[c]: what c was granted and has not given back

TypeOK == held \in [Clients -> SUBSET Ids]

Init == held = [c \in Clients |-> {}]

Unheld(i) == \A c \in Clients : i \notin held[c]

Grant(c, i) ==
  /\ Unheld(i)
  /\ held' = [held EXCEPT ![c] = @ \cup {i}]

Release(c, i) ==
  /\ i \in held[c]
  /\ held' = [held EXCEPT ![c] = @ \ {i}]

Next == \E c \in Clients, i \in Ids : Grant(c, i) \/ Release(c, i)

Spec == Init /\ [][Next]_held

(* No identifier is held by two clients at once. *)
Exclusive == \A c, d \in Clients : c # d => held[c] \cap held[d] = {}
=============================================================================
