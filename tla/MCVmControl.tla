---------------------------- MODULE MCVmControl ----------------------------
(* Small instances of VmControl: which requests run together.              *)
EXTENDS VmControl, Sequences, TLC

CONSTANTS o1, o2, o3, v1, s1, s2

Job(kind, id) == [kind |-> kind, vm |-> v1, id |-> id]

(* A VM is started once. *)
With(j, k) == o1 :> Job("start", s1) @@ o2 :> j @@ o3 :> k

Others == <<Job("pause", s1), Job("resume", s1), Job("stop", s1),
            Job("destroy", s1), Job("snapshot", s1)>>

(* Every two requests of these, in both orders of course, and two          *)
(* snapshots with ids of their own instead of two with the same.           *)
AnyTwo ==
  {With(Others[i], Others[k]) :
     <<i, k>> \in {p \in (1..5) \X (1..5) : p[1] <= p[2] /\ p[1] # 5}}
  \cup {With(Job("snapshot", s1), Job("snapshot", s2))}

OneDestroy == {o1 :> Job("start", s1) @@ o2 :> Job("destroy", s1)}
=============================================================================
