------------------------------ MODULE NatRules ------------------------------
(***************************************************************************)
(* pkg/server/server.go: the DNAT rules of the PREROUTING chain, which all *)
(* VMs share.  setupPortForwardsToVM appends the rules of a VM one by one; *)
(* when the creation of the VM fails, cleanupAllIPTablesRulesForIP lists   *)
(* the chain, notes the numbers of the rules for the VM's address and      *)
(* deletes by number, the highest first.  NewServer calls it too, with the *)
(* prefix of its subnet for an address.  Nothing holds a lock from the     *)
(* list to the last deletion, and each iptables command may fail.          *)
(*                                                                         *)
(* The chain outlives the server; module Startup adds the restarts.  An    *)
(* address is a sequence of octets.                                        *)
(***************************************************************************)
EXTENDS Naturals, Sequences, SequencesExt, FiniteSetsExt

CONSTANTS Requests,        \* createVM calls
          Address,         \* what AllocateIP gives each of them
          HostPort,        \* HostPort[r][k]: what AllocatePort gives them
          Failing,         \* those whose creation may fail
          NumForwards,     \* guest ports to forward
          Subnet, Mask,    \* config.BridgeSubnet: its octets and mask size
          Server           \* NewServer, which cleans up as well

ASSUME FailingAssumption == Failing \subseteq Requests /\ Server \notin Requests

ASSUME ForwardsAssumption == NumForwards \in Nat

ASSUME SubnetAssumption ==
  /\ Subnet \in Seq(Nat) /\ Len(Subnet) = 4 /\ Mask \in 8..30
  /\ \A r \in Requests : Len(Address[r]) = 4

VARIABLES
  rules,     \* the chain: host port, address and guest port of each rule
  pc,
  added,     \* how many ports r forwarded
  numbers,   \* the rule numbers c still has to delete
  err        \* whether c's clean-up met an error

vars == <<rules, pc, added, numbers, err>>

Cleaners == Requests \cup {Server}

(* getIPPrefix: the complete octets of the subnet. *)
IPPrefix == SubSeq(Subnet, 1, Mask \div 8)

(* The address whose rules c deletes. *)
AddressOf(c) == IF c = Server THEN IPPrefix ELSE Address[c]

Rule(r, k) == [dport |-> HostPort[r][k], to |-> Address[r], port |-> k]

Init ==
  /\ rules = <<>>
  /\ pc = [c \in Cleaners |-> IF c = Server THEN "cleaned" ELSE "adding"]
  /\ added = [r \in Requests |-> 0]
  /\ numbers = [c \in Cleaners |-> {}]
  /\ err = [c \in Cleaners |-> FALSE]

Goto(c, from, to) == pc[c] = from /\ pc' = [pc EXCEPT ![c] = to]

-----------------------------------------------------------------------------
(* setupSinglePortForward: iptables -A *)
AddRule(r) ==
  /\ pc[r] = "adding"
  /\ added[r] < NumForwards
  /\ rules' = Append(rules, Rule(r, added[r] + 1))
  /\ added' = [added EXCEPT ![r] = @ + 1]
  /\ UNCHANGED <<pc, numbers, err>>

ForwardsDone(r) ==
  /\ Goto(r, "adding", "forwarded")
  /\ added[r] = NumForwards
  /\ UNCHANGED <<rules, added, numbers, err>>

(* A rule could not be added, or a later step of createVM failed. *)
CreationFails(r) ==
  /\ r \in Failing
  /\ Goto(r, "adding", "list") \/ Goto(r, "forwarded", "list")
  /\ UNCHANGED <<rules, added, numbers, err>>

-----------------------------------------------------------------------------
(* cleanupAllIPTablesRulesForIP *)

(* A line of the list that contains "to:", the address, and a colon: the   *)
(* destination of the rule is that address and nothing longer.             *)
Matches(rule, address) == rule.to = address

NumbersFor(address) == {i \in DOMAIN rules : Matches(rules[i], address)}

(* Mutant: the rules are counted from zero. *)
ListRulesFromZero(c) ==
  /\ Goto(c, "list", "delete")
  /\ numbers' = [numbers EXCEPT ![c] = {i - 1 : i \in NumbersFor(AddressOf(c))}]
  /\ UNCHANGED <<rules, added, err>>

ListRules(c) ==
  /\ Goto(c, "list", "delete")
  /\ numbers' = [numbers EXCEPT ![c] = NumbersFor(AddressOf(c))]
  /\ UNCHANGED <<rules, added, err>>

ListRulesFails(c) ==
  /\ Goto(c, "list", "cleaned")
  /\ err' = [err EXCEPT ![c] = TRUE]
  /\ UNCHANGED <<rules, added, numbers>>

(* Mutant: the lowest number first. *)
DeleteLowest(c) ==
  /\ pc[c] = "delete" /\ numbers[c] # {}
  /\ LET i == Min(numbers[c]) IN
       /\ i \in DOMAIN rules
       /\ rules' = RemoveAt(rules, i)
       /\ numbers' = [numbers EXCEPT ![c] = @ \ {i}]
  /\ UNCHANGED <<pc, added, err>>

DeleteRule(c) ==
  /\ pc[c] = "delete" /\ numbers[c] # {}
  /\ LET i == Max(numbers[c]) IN
       /\ i \in DOMAIN rules
       /\ rules' = RemoveAt(rules, i)
       /\ numbers' = [numbers EXCEPT ![c] = @ \ {i}]
  /\ UNCHANGED <<pc, added, err>>

(* Mutant: a deletion that fails is not recorded. *)
DeleteRuleFailsUnnoticed(c) ==
  /\ pc[c] = "delete" /\ numbers[c] # {}
  /\ numbers' = [numbers EXCEPT ![c] = @ \ {Max(@)}]
  /\ UNCHANGED <<rules, pc, added, err>>

(* No such rule any more, or the command failed: go on with the others. *)
DeleteRuleFails(c) ==
  /\ pc[c] = "delete" /\ numbers[c] # {}
  /\ numbers' = [numbers EXCEPT ![c] = @ \ {Max(@)}]
  /\ err' = [err EXCEPT ![c] = TRUE]
  /\ UNCHANGED <<rules, pc, added>>

DeletesDone(c) ==
  /\ Goto(c, "delete", "cleaned")
  /\ numbers[c] = {}
  /\ UNCHANGED <<rules, added, numbers, err>>

-----------------------------------------------------------------------------
Create(r) == AddRule(r) \/ ForwardsDone(r) \/ CreationFails(r)

Cleanup(c) ==
  \/ ListRules(c) \/ ListRulesFails(c)
  \/ DeleteRule(c) \/ DeleteRuleFails(c) \/ DeletesDone(c)

-----------------------------------------------------------------------------
(* Properties; module Startup states them for the requests of one process. *)
(* Rule numbers begin at one, and are noted only to be deleted. *)
TypeOK ==
  /\ \A i \in DOMAIN rules :
       \E r \in Requests, k \in 1..NumForwards : rules[i] = Rule(r, k)
  /\ pc \in [Cleaners -> {"adding", "forwarded", "list", "delete", "cleaned"}]
  /\ added \in [Requests -> 0..NumForwards]
  /\ numbers \in [Cleaners -> SUBSET (Nat \ {0})]
  /\ \A c \in Cleaners : numbers[c] # {} => pc[c] = "delete"
  /\ err \in [Cleaners -> BOOLEAN]

InChain(r) == {k \in 1..NumForwards : Contains(rules, Rule(r, k))}

KeepsRules(r) ==
  pc[r] \in {"adding", "forwarded"} => 1..added[r] \subseteq InChain(r)

LeavesNoRule(r) ==
  pc[r] = "cleaned" /\ ~err[r] => NumbersFor(Address[r]) = {}
=============================================================================
