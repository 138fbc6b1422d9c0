------------------------------ MODULE MCStartup ------------------------------
(* Small instances of Startup: two lives of the server.  The second gives  *)
(* out again what the first had given to other requests.                   *)
EXTENDS Startup, TLC

CONSTANTS r1, r2, r3, r4

Octets(h) == <<10, 20, 1, h>>

MCSubnet == Octets(0)

TwoPerLife == {r1, r2, r3, r4}
MCLifeOf == r1 :> 1 @@ r2 :> 1 @@ r3 :> 2 @@ r4 :> 2
MCTap == r1 :> 0 @@ r2 :> 1 @@ r3 :> 1 @@ r4 :> 0
MCAddress == r1 :> Octets(2) @@ r2 :> Octets(3) @@ r3 :> Octets(3) @@ r4 :> Octets(2)

(* In the first life r2 was given its ports between r1's two. *)
MCHostPort == r1 :> <<3000, 3002>> @@ r2 :> <<3001, 3003>>
                @@ r3 :> <<3002, 3003>> @@ r4 :> <<3000, 3001>>
=============================================================================
