----------------------------- MODULE MCRestore -----------------------------
(* A small instance of Restore: two restores and a start.  The snapshots   *)
(* were taken of VMs that had the same address and the same CID, as the    *)
(* VMs of different runs of the daemon may.                                *)
EXTENDS Restore, TLC

CONSTANTS q, r1, r2, n1, n2, t1, t2, i1, c1

TwoNames == q :> n1 @@ r1 :> n1 @@ r2 :> n2
Taps == r1 :> t1 @@ r2 :> t2
OneIP == r1 :> i1 @@ r2 :> i1
OneCID == r1 :> c1 @@ r2 :> c1
=============================================================================
