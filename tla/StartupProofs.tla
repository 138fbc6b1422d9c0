---------------------------- MODULE StartupProofs ----------------------------
(***************************************************************************)
(* For any number of lives and requests, any addresses and ports: what a   *)
(* server that serves has on the host.  HostReady and NoOldGuestOnBridge   *)
(* speak of the end of NewServer only; the two invariants below say what   *)
(* holds at each step on the way there, from the deletion of the bridge    *)
(* on.                                                                     *)
(***************************************************************************)
EXTENDS Startup, QueueTheorems

SetupPlaces == {"rmTaps", "rmBridge", "rmRules", "look"}

(* While the bridge is deleted nothing was set up; then every command that *)
(* was run has its effect, and only those of a bridge that is not there    *)
(* are yet to come.                                                        *)
HostInv ==
  /\ step \in Nat /\ host \subseteq Effects
  /\ at \in SetupPlaces => step = 1
  /\ at \in {"rmRules", "look"} /\ ~missed => "addBridge" \notin host
  /\ at = "setup" => \A k \in DOMAIN Setup : k < step => Setup[k] \in host
  /\ HostReady

(* From the deletion of the bridge until it serves no device is on it.     *)
BridgeInv ==
  /\ taps \in [Taps -> Requests \cup {None}]
  /\ bridged # {} => "addBridge" \in host
  /\ at \in {"rmRules", "look", "setup"} /\ ~missed => bridged = {}
  /\ NoOldGuestOnBridge

LEMMA SetupIsASequence == Len(Setup) = 8 /\ DOMAIN Setup = 1..8
BY DEF Setup

(* Every step of NewServer keeps HostInv, wherever the process ends.       *)
LEMMA HostInvStep == HostInv /\ [StartupNext]_allVars => HostInv'
<1> SUFFICES ASSUME HostInv, [StartupNext]_allVars PROVE HostInv'
  OBVIOUS
<1> USE DEF HostInv, HostReady, SetupPlaces, Move
<1>1. CASE Start
  BY <1>1 DEF Start
<1>2. CASE Dies
  BY <1>2 DEF Dies, network
<1>3. CASE CleanupTapDevices
  BY <1>3 DEF CleanupTapDevices
<1>4. CASE DeleteBridge
  BY <1>4 DEF DeleteBridge, OfBridge
<1>5. CASE NoBridgeSeen
  BY <1>5 DEF NoBridgeSeen
<1>6. CASE CleanupRules
  BY <1>6 DEF CleanupRules, place, network
<1>7. CASE RulesCleaned
  BY <1>7 DEF RulesCleaned, network
<1>8. CASE AlreadySetUp
  BY <1>8 DEF AlreadySetUp, bridgeExists, network
<1>9. CASE BeginSetup
  BY <1>9, SetupIsASequence DEF BeginSetup, network
<1>10. CASE SetupCommand
  <2>1. host' = host \cup {Setup[step]} /\ step' = step + 1 /\ step \in 1..8
        /\ at = "setup" /\ at' = at
    BY <1>10, SetupIsASequence DEF SetupCommand
  <2>2. Setup[step] \in Effects
    BY <2>1, SetupIsASequence DEF Effects
  <2>3. \A k \in DOMAIN Setup : k < step' => Setup[k] \in host'
    BY <2>1, SetupIsASequence
  <2> QED BY <2>1, <2>2, <2>3
<1>11. CASE Serve
  <2>1. step = 9 /\ at = "setup" /\ host' = host /\ step' = step /\ at' = "serving"
    BY <1>11, SetupIsASequence DEF Serve, network
  <2>2. Effects \subseteq host
    BY <2>1, SetupIsASequence DEF Effects
  <2> QED BY <2>1, <2>2
<1>12. ASSUME NEW r \in Requests, CreateTapDevice(r) PROVE HostInv'
  BY <1>12 DEF CreateTapDevice, place
<1>13. ASSUME NEW r \in Requests, Serving(r) PROVE HostInv'
  BY <1>13 DEF Serving, place, network
<1>14. CASE UNCHANGED allVars
  BY <1>14 DEF allVars, place, network
<1> QED
  BY <1>1, <1>2, <1>3, <1>4, <1>5, <1>6, <1>7, <1>8, <1>9, <1>10, <1>11, <1>12,
     <1>13, <1>14 DEF StartupNext, NewServer

(* A server that serves has its whole bridge and firewall, wherever an     *)
(* earlier NewServer had ended (server.go:415-483).                        *)
THEOREM HostIsReady == StartupSpec => []HostReady
<1>1. StartupInit => HostInv
  BY DEF StartupInit, HostInv, HostReady, SetupPlaces
<1>2. HostInv => HostReady
  BY DEF HostInv
<1> QED BY <1>1, <1>2, HostInvStep, PTL DEF StartupSpec

(* The bridge has no old device while it is made; afterwards only requests *)
(* of this life attach devices, and none is replaced.                      *)
LEMMA BridgeInvStep == BridgeInv /\ [StartupNext]_allVars => BridgeInv'
<1> SUFFICES ASSUME BridgeInv, [StartupNext]_allVars PROVE BridgeInv'
  OBVIOUS
<1> USE DEF BridgeInv, NoOldGuestOnBridge, Current, Move
<1>1. CASE Start
  BY <1>1 DEF Start
<1>2. CASE Dies
  BY <1>2 DEF Dies, network
<1>3. CASE CleanupTapDevices
  BY <1>3 DEF CleanupTapDevices, Existing
<1>4. CASE DeleteBridge
  BY <1>4 DEF DeleteBridge
<1>5. CASE NoBridgeSeen
  BY <1>5 DEF NoBridgeSeen
<1>6. CASE CleanupRules
  BY <1>6 DEF CleanupRules, place, network
<1>7. CASE RulesCleaned
  BY <1>7 DEF RulesCleaned, network
<1>8. CASE AlreadySetUp
  BY <1>8 DEF AlreadySetUp, network
<1>9. CASE BeginSetup
  BY <1>9 DEF BeginSetup, network
<1>10. CASE SetupCommand
  BY <1>10 DEF SetupCommand
<1>11. CASE Serve
  BY <1>11 DEF Serve, network
<1>12. ASSUME NEW r \in Requests, CreateTapDevice(r) PROVE BridgeInv'
  <2>1. /\ at = "serving" /\ LifeOf[r] = life
        /\ at' = at /\ life' = life /\ missed' = missed /\ host' = host
        /\ taps' = [taps EXCEPT ![Tap[r]] = r]
        /\ bridged' = IF "addBridge" \in host THEN bridged \cup {Tap[r]} ELSE bridged
    BY <1>12 DEF CreateTapDevice, place
  <2>2. taps' \in [Taps -> Requests \cup {None}] /\ taps'[Tap[r]] = r
    BY <2>1 DEF Taps
  <2>3. \A t \in bridged' : t = Tap[r] \/ t \in bridged
    BY <2>1
  <2>4. \A t \in bridged : t # Tap[r] => taps'[t] = taps[t]
    BY <2>1
  <2>5. NoOldGuestOnBridge'
    BY <2>1, <2>2, <2>3, <2>4
  <2> QED BY <2>1, <2>2, <2>5
<1>13. ASSUME NEW r \in Requests, Serving(r) PROVE BridgeInv'
  BY <1>13 DEF Serving, place, network
<1>14. CASE UNCHANGED allVars
  BY <1>14 DEF allVars, place, network
<1> QED
  BY <1>1, <1>2, <1>3, <1>4, <1>5, <1>6, <1>7, <1>8, <1>9, <1>10, <1>11, <1>12,
     <1>13, <1>14 DEF StartupNext, NewServer

(* A server that serves has no guest of an earlier life on its bridge,     *)
(* even if devices could not be deleted (server.go:396-430).               *)
THEOREM OldGuestsAreOffTheBridge == StartupSpec => []NoOldGuestOnBridge
<1>1. StartupInit => BridgeInv
  BY DEF StartupInit, BridgeInv, NoOldGuestOnBridge
<1>2. BridgeInv => NoOldGuestOnBridge
  BY DEF BridgeInv
<1> QED BY <1>1, <1>2, BridgeInvStep, PTL DEF StartupSpec

-----------------------------------------------------------------------------
(* The chain of rules *)

RuleSet == {Rule(r, k) : r \in Requests, k \in 1..NumForwards}

(* The rule numbers somebody noted have a greatest one while there are     *)
(* some, so that DeleteRule's Max is one of them.                          *)
Bounded(S) == \E b \in Nat : \A i \in S : i <= b

Places == {"adding", "forwarded", "list", "delete", "cleaned"}

(* TypeOK with the chain as a sequence, and what Max needs.                *)
NatTypes ==
  /\ rules \in Seq(RuleSet)
  /\ pc \in [Cleaners -> Places]
  /\ added \in [Requests -> 0..NumForwards]
  /\ numbers \in [Cleaners -> SUBSET (Nat \ {0})]
  /\ \A c \in Cleaners : numbers[c] # {} => pc[c] = "delete"
  /\ \A c \in Cleaners : Bounded(numbers[c])
  /\ err \in [Cleaners -> BOOLEAN]

LEMMA ChainDomain ==
  ASSUME rules \in Seq(RuleSet)
  PROVE  /\ Len(rules) \in Nat /\ DOMAIN rules = 1..Len(rules)
         /\ \A i \in 1..Len(rules) : rules[i] \in RuleSet
BY LenProperties, ElementOfSeq

LEMMA NatTypesImply == NatTypes => TypeOK
<1> SUFFICES ASSUME NatTypes PROVE TypeOK
  OBVIOUS
<1>1. \A i \in DOMAIN rules :
        \E r \in Requests, k \in 1..NumForwards : rules[i] = Rule(r, k)
  <2>1. \A i \in DOMAIN rules : rules[i] \in RuleSet
    BY ChainDomain DEF NatTypes
  <2> QED BY <2>1 DEF RuleSet
<1> QED BY <1>1 DEF NatTypes, TypeOK, Places

LEMMA MaxOfNumbers ==
  ASSUME NatTypes, NEW c \in Cleaners, numbers[c] # {}
  PROVE  /\ Max(numbers[c]) \in numbers[c]
         /\ \A i \in numbers[c] : i <= Max(numbers[c])
         /\ numbers[c] \subseteq Nat \ {0}
<1>1. numbers[c] \in SUBSET Nat /\ numbers[c] \subseteq Nat \ {0}
  BY DEF NatTypes
<1>2. PICK b \in Nat : \A i \in numbers[c] : i <= b
  BY DEF NatTypes, Bounded
<1>3. PICK m \in numbers[c] : \A i \in numbers[c] : i <= m
  BY <1>1, <1>2, MaxOf
<1>4. \A i, j \in numbers[c] : i >= j <=> j <= i
  BY <1>1
<1>5. \A y \in numbers[c] : m >= y
  BY <1>3, <1>4
<1>6. /\ Max(numbers[c]) \in numbers[c]
      /\ \A y \in numbers[c] : Max(numbers[c]) >= y
  BY <1>3, <1>5 DEF Max
<1> QED BY <1>1, <1>4, <1>6

(* A step that lists or deletes nothing more than it had noted keeps the   *)
(* numbers bounded.                                                        *)
LEMMA FewerNumbers ==
  ASSUME NatTypes, NEW c \in Cleaners, NEW S,
         S \subseteq numbers[c], numbers' = [numbers EXCEPT ![c] = S]
  PROVE  /\ numbers' \in [Cleaners -> SUBSET (Nat \ {0})]
         /\ \A d \in Cleaners : numbers'[d] \subseteq numbers[d]
         /\ \A d \in Cleaners : Bounded(numbers'[d])
<1>1. numbers \in [Cleaners -> SUBSET (Nat \ {0})]
  BY DEF NatTypes
<1>2. S \in SUBSET (Nat \ {0})
  BY <1>1
<1>3. \A d \in Cleaners : numbers'[d] = IF d = c THEN S ELSE numbers[d]
  BY <1>1
<1>4. \A d \in Cleaners : Bounded(numbers[d])
  BY DEF NatTypes
<1>5. \A d \in Cleaners : numbers'[d] \subseteq numbers[d]
  BY <1>3
<1> QED BY <1>1, <1>2, <1>4, <1>5 DEF Bounded

(* What the deletion of the highest number noted does.                     *)
LEMMA DeleteRuleRemoves ==
  ASSUME NatTypes, NEW c \in Cleaners, DeleteRule(c)
  PROVE  \E i \in 1..Len(rules) :
           /\ i \in numbers[c]
           /\ \A j \in numbers[c] : j <= i
           /\ rules' \in Seq(RuleSet)
           /\ Len(rules') = Len(rules) - 1
           /\ \A j \in 1..(Len(rules) - 1) :
                rules'[j] = IF j < i THEN rules[j] ELSE rules[j + 1]
           /\ numbers' = [numbers EXCEPT ![c] = numbers[c] \ {i}]
<1>1. /\ Max(numbers[c]) \in numbers[c]
      /\ \A i \in numbers[c] : i <= Max(numbers[c])
  BY MaxOfNumbers DEF DeleteRule
<1>2. /\ Max(numbers[c]) \in DOMAIN rules
      /\ rules' = RemoveAt(rules, Max(numbers[c]))
      /\ numbers' = [numbers EXCEPT ![c] = numbers[c] \ {Max(numbers[c])}]
  BY DEF DeleteRule
<1>3. rules \in Seq(RuleSet) /\ Max(numbers[c]) \in 1..Len(rules)
  BY <1>2, ChainDomain DEF NatTypes
<1> QED BY <1>1, <1>2, <1>3, RemoveAtIndex

(* Creations and clean-ups keep the shape of the chain.                    *)
LEMMA NatStepTypes ==
  ASSUME NatTypes, NEW c \in Cleaners,
         Cleanup(c) \/ (c \in Requests /\ Create(c))
  PROVE  NatTypes'
<1>0. /\ rules \in Seq(RuleSet) /\ DOMAIN rules = 1..Len(rules)
      /\ Len(rules) \in Nat
      /\ pc \in [Cleaners -> Places]
      /\ added \in [Requests -> 0..NumForwards]
      /\ numbers \in [Cleaners -> SUBSET (Nat \ {0})]
      /\ \A d \in Cleaners : numbers[d] # {} => pc[d] = "delete"
      /\ \A d \in Cleaners : Bounded(numbers[d])
      /\ err \in [Cleaners -> BOOLEAN]
      /\ NumForwards \in Nat
  BY ChainDomain, ForwardsAssumption DEF NatTypes
<1>1. CASE c \in Requests /\ AddRule(c)
  <2>1. /\ pc' = pc /\ numbers' = numbers /\ err' = err
        /\ rules' = Append(rules, Rule(c, added[c] + 1))
        /\ added' = [added EXCEPT ![c] = @ + 1]
        /\ added[c] < NumForwards
    BY <1>1 DEF AddRule
  <2>2. added[c] + 1 \in 1..NumForwards /\ c \in Requests
    BY <1>0, <1>1, <2>1
  <2>3. Rule(c, added[c] + 1) \in RuleSet
    BY <2>2 DEF RuleSet
  <2>4. rules' \in Seq(RuleSet)
    BY <1>0, <2>1, <2>3, AppendProperties
  <2>5. added' \in [Requests -> 0..NumForwards]
    BY <1>0, <2>1, <2>2
  <2> QED BY <1>0, <2>1, <2>4, <2>5 DEF NatTypes
<1>2. CASE c \in Requests /\ (ForwardsDone(c) \/ CreationFails(c))
  <2>1. /\ rules' = rules /\ added' = added /\ numbers' = numbers /\ err' = err
        /\ pc[c] # "delete"
        /\ \/ pc' = [pc EXCEPT ![c] = "forwarded"]
           \/ pc' = [pc EXCEPT ![c] = "list"]
    BY <1>2 DEF ForwardsDone, CreationFails, Goto
  <2>2. pc' \in [Cleaners -> Places]
    BY <1>0, <2>1 DEF Places
  <2>3. \A d \in Cleaners : numbers'[d] # {} => pc'[d] = "delete"
    BY <1>0, <2>1
  <2> QED BY <1>0, <2>1, <2>2, <2>3 DEF NatTypes
<1>3. CASE ListRules(c)
  <2>0. /\ rules' = rules /\ added' = added /\ err' = err
        /\ pc' = [pc EXCEPT ![c] = "delete"]
        /\ numbers' = [numbers EXCEPT ![c] = NumbersFor(AddressOf(c))]
    BY <1>3 DEF ListRules, Goto
  <2>1. NumbersFor(AddressOf(c)) \in SUBSET (Nat \ {0})
    BY <1>0 DEF NumbersFor
  <2>2. Bounded(NumbersFor(AddressOf(c)))
    BY <1>0 DEF NumbersFor, Bounded
  <2>3. numbers' \in [Cleaners -> SUBSET (Nat \ {0})]
    BY <1>0, <2>0, <2>1
  <2>4. pc' \in [Cleaners -> Places]
    BY <1>0, <2>0 DEF Places
  <2>5. \A d \in Cleaners : numbers'[d] # {} => pc'[d] = "delete"
    BY <1>0, <2>0
  <2>6. \A d \in Cleaners : Bounded(numbers'[d])
    BY <1>0, <2>0, <2>2
  <2> QED BY <1>0, <2>0, <2>3, <2>4, <2>5, <2>6 DEF NatTypes
<1>4. CASE ListRulesFails(c)
  <2>1. /\ rules' = rules /\ added' = added /\ numbers' = numbers
        /\ pc[c] = "list" /\ pc' = [pc EXCEPT ![c] = "cleaned"]
        /\ err' = [err EXCEPT ![c] = TRUE]
    BY <1>4 DEF ListRulesFails, Goto
  <2>2. pc' \in [Cleaners -> Places] /\ err' \in [Cleaners -> BOOLEAN]
    BY <1>0, <2>1 DEF Places
  <2>3. \A d \in Cleaners : numbers'[d] # {} => pc'[d] = "delete"
    BY <1>0, <2>1
  <2> QED BY <1>0, <2>1, <2>2, <2>3 DEF NatTypes
<1>5. CASE DeleteRule(c)
  <2>1. pc' = pc /\ added' = added /\ err' = err
    BY <1>5 DEF DeleteRule
  <2>2. PICK i \in 1..Len(rules) :
          /\ rules' \in Seq(RuleSet)
          /\ numbers' = [numbers EXCEPT ![c] = numbers[c] \ {i}]
    BY <1>5, DeleteRuleRemoves
  <2>3. /\ numbers' \in [Cleaners -> SUBSET (Nat \ {0})]
        /\ \A d \in Cleaners : numbers'[d] \subseteq numbers[d]
        /\ \A d \in Cleaners : Bounded(numbers'[d])
    <3>1. numbers[c] \ {i} \subseteq numbers[c]
      OBVIOUS
    <3> QED BY <2>2, <3>1, FewerNumbers
  <2>4. \A d \in Cleaners : numbers'[d] # {} => pc'[d] = "delete"
    BY <1>0, <2>1, <2>3
  <2> QED BY <1>0, <2>1, <2>2, <2>3, <2>4 DEF NatTypes
<1>6. CASE DeleteRuleFails(c)
  <2>1. /\ rules' = rules /\ pc' = pc /\ added' = added
        /\ err' = [err EXCEPT ![c] = TRUE]
        /\ numbers' = [numbers EXCEPT ![c] = numbers[c] \ {Max(numbers[c])}]
    BY <1>6 DEF DeleteRuleFails
  <2>2. numbers[c] \ {Max(numbers[c])} \subseteq numbers[c]
    OBVIOUS
  <2>3. /\ numbers' \in [Cleaners -> SUBSET (Nat \ {0})]
        /\ \A d \in Cleaners : numbers'[d] \subseteq numbers[d]
        /\ \A d \in Cleaners : Bounded(numbers'[d])
    BY <2>1, <2>2, FewerNumbers
  <2>4. \A d \in Cleaners : numbers'[d] # {} => pc'[d] = "delete"
    BY <1>0, <2>1, <2>3
  <2>5. err' \in [Cleaners -> BOOLEAN]
    BY <1>0, <2>1
  <2> QED BY <1>0, <2>1, <2>3, <2>4, <2>5 DEF NatTypes
<1>7. CASE DeletesDone(c)
  <2>1. /\ rules' = rules /\ added' = added /\ numbers' = numbers /\ err' = err
        /\ numbers[c] = {} /\ pc' = [pc EXCEPT ![c] = "cleaned"]
    BY <1>7 DEF DeletesDone, Goto
  <2>2. pc' \in [Cleaners -> Places]
    BY <1>0, <2>1 DEF Places
  <2>3. \A d \in Cleaners : numbers'[d] # {} => pc'[d] = "delete"
    BY <1>0, <2>1
  <2> QED BY <1>0, <2>1, <2>2, <2>3 DEF NatTypes
<1> QED BY <1>1, <1>2, <1>3, <1>4, <1>5, <1>6, <1>7 DEF Cleanup, Create

-----------------------------------------------------------------------------
(* NewServer deletes no rule: the prefix of the subnet is shorter than any *)
(* address, so it is the destination of none.                              *)
LEMMA PrefixMatchesNothing ==
  ASSUME rules \in Seq(RuleSet)
  PROVE  NumbersFor(AddressOf(Server)) = {}
<1>1. Len(IPPrefix) # 4
  <2>1. Subnet \in Seq(Nat) /\ Len(Subnet) = 4
    BY SubnetAssumption
  <2>2. PICK m \in 1..3 : m = Mask \div 8
    BY SubnetAssumption
  <2>3. ASSUME NEW i \in 1..m PROVE Subnet[i] \in Nat
    <3>1. i \in 1..Len(Subnet)
      BY <2>1
    <3> QED BY <2>1, <3>1, ElementOfSeq
  <2>4. Len(SubSeq(Subnet, 1, m)) = m
    BY <2>3, SubSeqProperties
  <2> QED BY <2>2, <2>4 DEF IPPrefix
<1>2. \A i \in DOMAIN rules : rules[i].to # IPPrefix
  <2> SUFFICES ASSUME NEW i \in DOMAIN rules PROVE rules[i].to # IPPrefix
    OBVIOUS
  <2>1. rules[i] \in RuleSet
    BY ChainDomain
  <2>2. PICK r \in Requests : rules[i].to = Address[r]
    BY <2>1 DEF RuleSet, Rule
  <2> QED BY <1>1, <2>2, SubnetAssumption
<1> QED BY <1>2 DEF NumbersFor, Matches, AddressOf

(* The types of the whole host, and that NewServer never has a rule to     *)
(* delete.                                                                 *)
HostTypes ==
  /\ life \in 0..Lives
  /\ at \in {"down", "rmTaps", "rmBridge", "rmRules", "look", "setup", "serving"}
  /\ step \in 1..(Len(Setup) + 1)
  /\ host \subseteq Effects
  /\ taps \in [Taps -> Requests \cup {None}]
  /\ bridged \subseteq Existing
  /\ missed \in BOOLEAN

StartupTypes == NatTypes /\ HostTypes /\ numbers[Server] = {}

LEMMA InitTypes == StartupInit => StartupTypes
<1> SUFFICES ASSUME StartupInit PROVE StartupTypes
  OBVIOUS
<1> USE DEF StartupInit, Init
<1>1. NatTypes
  <2>1. rules \in Seq(RuleSet)
    BY EmptySeq
  <2>2. pc \in [Cleaners -> Places]
    BY DEF Places
  <2>3. added \in [Requests -> 0..NumForwards]
    BY ForwardsAssumption
  <2>4. \A c \in Cleaners : numbers[c] = {}
    OBVIOUS
  <2> QED BY <2>1, <2>2, <2>3, <2>4 DEF NatTypes, Bounded
<1>2. HostTypes
  <2>1. Lives \in Nat /\ 0 \in 0..Lives /\ 1 \in 1..(Len(Setup) + 1)
    BY LivesAssumption, SetupIsASequence
  <2>2. taps \in [Taps -> Requests \cup {None}]
    OBVIOUS
  <2> QED BY <2>1, <2>2 DEF HostTypes
<1>3. numbers[Server] = {}
  BY DEF Cleaners
<1> QED BY <1>1, <1>2, <1>3 DEF StartupTypes

(* A step that leaves the chain and the requests' creations and clean-ups  *)
(* alone, but for what NewServer keeps of its own.                         *)
LEMMA ServerPlaceTypes ==
  ASSUME NatTypes, numbers[Server] = {}, rules' = rules, added' = added,
         numbers' = numbers \/ numbers' = [numbers EXCEPT ![Server] = {}],
         err' = err \/ err' = [err EXCEPT ![Server] = FALSE],
         \E l \in Places : pc' = [pc EXCEPT ![Server] = l]
  PROVE  NatTypes' /\ numbers'[Server] = {}
<1>1. Server \in Cleaners
  BY DEF Cleaners
<1>2. /\ pc \in [Cleaners -> Places] /\ err \in [Cleaners -> BOOLEAN]
      /\ numbers \in [Cleaners -> SUBSET (Nat \ {0})]
      /\ \A d \in Cleaners : numbers[d] # {} => pc[d] = "delete"
  BY DEF NatTypes
<1>3. PICK l \in Places : pc' = [pc EXCEPT ![Server] = l]
  OBVIOUS
<1>4. pc' \in [Cleaners -> Places] /\ err' \in [Cleaners -> BOOLEAN]
  BY <1>1, <1>2, <1>3
<1>5. numbers' = numbers
  BY <1>1, <1>2
<1>6. \A d \in Cleaners : numbers'[d] # {} => pc'[d] = "delete"
  BY <1>1, <1>2, <1>3, <1>5
<1> QED BY <1>4, <1>5, <1>6 DEF NatTypes

LEMMA TypesStep == StartupTypes /\ [StartupNext]_allVars => StartupTypes'
<1> SUFFICES ASSUME StartupTypes, [StartupNext]_allVars PROVE StartupTypes'
  OBVIOUS
<1>0. /\ NatTypes /\ HostTypes /\ numbers[Server] = {} /\ Server \in Cleaners
      /\ pc \in [Cleaners -> Places]
      /\ numbers \in [Cleaners -> SUBSET (Nat \ {0})]
  BY DEF StartupTypes, NatTypes, Cleaners
<1>a. ASSUME chain' = chain PROVE NatTypes' /\ numbers'[Server] = {}
  BY <1>0, <1>a DEF NatTypes, chain
<1>b. ASSUME place' = place, network' = network PROVE HostTypes'
  BY <1>0, <1>b DEF HostTypes, place, network, Existing
<1>1. CASE Start
  <2>1. NatTypes' /\ numbers'[Server] = {}
    BY <1>0, <1>1, ServerPlaceTypes DEF Start, Places
  <2>2. HostTypes'
    <3>1. /\ life < Lives /\ life' = life + 1 /\ at' = "rmTaps" /\ step' = 1
          /\ host' = host /\ taps' = taps /\ bridged' = bridged /\ missed' = FALSE
      BY <1>1 DEF Start, Move
    <3>2. life' \in 0..Lives /\ step' \in 1..(Len(Setup) + 1)
      <4>1. Lives \in Nat /\ life \in 0..Lives
        BY <1>0, LivesAssumption DEF HostTypes
      <4> QED BY <3>1, <4>1, SetupIsASequence
    <3> QED BY <1>0, <3>1, <3>2 DEF HostTypes, Existing
  <2> QED BY <2>1, <2>2 DEF StartupTypes
<1>2. CASE Dies
  BY <1>0, <1>2, <1>a DEF StartupTypes, HostTypes, Dies, network, Existing
<1>3. CASE CleanupTapDevices
  <2>1. PICK left \in SUBSET Existing :
          /\ taps' = [t \in Taps |-> IF t \in left THEN taps[t] ELSE None]
          /\ bridged' = bridged \cap left
    BY <1>3 DEF CleanupTapDevices
  <2>2. taps' \in [Taps -> Requests \cup {None}] /\ bridged' \subseteq Existing'
    BY <1>0, <2>1 DEF HostTypes, Existing
  <2> QED BY <1>0, <1>3, <1>a, <2>2 DEF StartupTypes, HostTypes,
             CleanupTapDevices, Move
<1>4. CASE DeleteBridge
  <2>1. NatTypes' /\ numbers'[Server] = {}
    BY <1>0, <1>4, ServerPlaceTypes DEF DeleteBridge, Places
  <2>2. HostTypes'
    BY <1>0, <1>4 DEF HostTypes, DeleteBridge, Move
  <2> QED BY <2>1, <2>2 DEF StartupTypes
<1>5. CASE NoBridgeSeen
  <2>1. NatTypes' /\ numbers'[Server] = {}
    BY <1>0, <1>5, ServerPlaceTypes DEF NoBridgeSeen, Places
  <2>2. HostTypes'
    BY <1>0, <1>5 DEF HostTypes, NoBridgeSeen, Move, Existing
  <2> QED BY <2>1, <2>2 DEF StartupTypes
<1>6. CASE CleanupRules
  <2>1. NatTypes'
    BY <1>0, <1>6, NatStepTypes DEF CleanupRules
  <2>2. numbers'[Server] = {}
    <3>1. NumbersFor(AddressOf(Server)) = {}
      BY <1>0, PrefixMatchesNothing DEF NatTypes
    <3> QED BY <1>0, <1>6, <3>1 DEF CleanupRules, Cleanup, ListRules,
               ListRulesFails, DeleteRule, DeleteRuleFails, DeletesDone
  <2>3. HostTypes'
    BY <1>6, <1>b DEF CleanupRules
  <2> QED BY <2>1, <2>2, <2>3 DEF StartupTypes
<1>7. CASE RulesCleaned
  BY <1>0, <1>7, <1>a
     DEF StartupTypes, HostTypes, RulesCleaned, Move, network, Existing
<1>8. CASE AlreadySetUp
  BY <1>0, <1>8, <1>a
     DEF StartupTypes, HostTypes, AlreadySetUp, Move, network, Existing
<1>9. CASE BeginSetup
  BY <1>0, <1>9, <1>a
     DEF StartupTypes, HostTypes, BeginSetup, Move, network, Existing
<1>10. CASE SetupCommand
  <2>1. /\ step \in 1..8 /\ step' = step + 1 /\ chain' = chain /\ life' = life
        /\ at' = at /\ taps' = taps /\ bridged' = bridged /\ missed' = missed
        /\ host' = host \cup {Setup[step]}
    BY <1>10, SetupIsASequence DEF SetupCommand
  <2>2. Setup[step] \in Effects
    BY <2>1, SetupIsASequence DEF Effects
  <2>3. step' \in 1..(Len(Setup) + 1)
    BY <2>1, SetupIsASequence
  <2> QED BY <1>0, <1>a, <2>1, <2>2, <2>3 DEF StartupTypes, HostTypes, Existing
<1>11. CASE Serve
  BY <1>0, <1>11, <1>a
     DEF StartupTypes, HostTypes, Serve, Move, network, Existing
<1>12. ASSUME NEW r \in Requests, CreateTapDevice(r) PROVE StartupTypes'
  <2>1. /\ chain' = chain /\ place' = place /\ host' = host /\ missed' = missed
        /\ taps[Tap[r]] = None /\ taps' = [taps EXCEPT ![Tap[r]] = r]
        /\ bridged' \subseteq bridged \cup {Tap[r]}
    BY <1>12 DEF CreateTapDevice
  <2>2. Tap[r] \in Taps /\ r # None
    BY NoneAssumption DEF Taps
  <2>3. taps' \in [Taps -> Requests \cup {None}] /\ bridged' \subseteq Existing'
    BY <1>0, <2>1, <2>2 DEF HostTypes, Existing
  <2> QED BY <1>0, <1>a, <2>1, <2>3 DEF StartupTypes, HostTypes, place
<1>13. ASSUME NEW r \in Requests, Serving(r) PROVE StartupTypes'
  <2>0. r \in Cleaners /\ r # Server
    BY FailingAssumption DEF Cleaners
  <2>1. NatTypes'
    BY <1>0, <1>13, <2>0, NatStepTypes DEF Serving
  <2>2. numbers'[Server] = {}
    BY <1>0, <1>13, <2>0 DEF Serving, Create, AddRule, ForwardsDone, CreationFails,
       Cleanup, ListRules, ListRulesFails, DeleteRule, DeleteRuleFails, DeletesDone
  <2>3. HostTypes'
    BY <1>13, <1>b DEF Serving
  <2> QED BY <2>1, <2>2, <2>3 DEF StartupTypes
<1>14. CASE UNCHANGED allVars
  BY <1>0, <1>14, <1>a, <1>b DEF StartupTypes, allVars
<1> QED
  BY <1>1, <1>2, <1>3, <1>4, <1>5, <1>6, <1>7, <1>8, <1>9, <1>10, <1>11, <1>12,
     <1>13, <1>14 DEF StartupNext, NewServer

LEMMA TypesAlways == StartupSpec => []StartupTypes
BY InitTypes, TypesStep, PTL DEF StartupSpec

(* Every variable stays in its type through any number of restarts.        *)
THEOREM StartupTypeCorrect == StartupSpec => []StartupTypeOK
<1>1. StartupTypes => StartupTypeOK
  BY NatTypesImply DEF StartupTypes, HostTypes, StartupTypeOK
<1> QED BY <1>1, TypesAlways, PTL

-----------------------------------------------------------------------------
(* The rules of the VMs                                                    *)

(* What RulesKept needs, and no lock of the server ensures: two clean-ups  *)
(* of one process are never deleting at the same time.                     *)
OneCleanup ==
  \A r, q \in Requests :
    Current(r) /\ Current(q) /\ pc[r] = "delete" /\ pc[q] = "delete" => r = q

(* The rules r was given are in the chain while its creation goes on; the  *)
(* numbers it noted are those of rules for its address, and of all of them *)
(* unless it met an error.                                                 *)
RulesOf(r) ==
  /\ pc[r] \in {"adding", "forwarded"} =>
       \A k \in 1..added[r] : \E i \in 1..Len(rules) : rules[i] = Rule(r, k)
  /\ pc[r] = "delete" =>
       \A i \in numbers[r] : i \in 1..Len(rules) /\ rules[i].to = Address[r]
  /\ pc[r] = "delete" /\ ~err[r] =>
       \A i \in 1..Len(rules) : rules[i].to = Address[r] => i \in numbers[r]
  /\ pc[r] = "cleaned" /\ ~err[r] =>
       \A i \in 1..Len(rules) : rules[i].to # Address[r]

(* Requests that have not arrived added nothing.                           *)
ChainInv ==
  /\ StartupTypes
  /\ \A r \in Requests : LifeOf[r] > life => pc[r] = "adding" /\ added[r] = 0
  /\ \A r \in Requests : Current(r) => RulesOf(r)

(* A step that leaves the chain and r's own state alone keeps RulesOf(r).  *)
LEMMA SameRules ==
  ASSUME NEW r \in Requests, RulesOf(r), rules' = rules,
         pc'[r] = pc[r], added'[r] = added[r], numbers'[r] = numbers[r],
         err'[r] = err[r]
  PROVE  RulesOf(r)'
BY DEF RulesOf, Rule

(* A rule for another address, appended, keeps RulesOf(q).                 *)
LEMMA AnothersRule ==
  ASSUME StartupTypes, NEW q \in Requests, RulesOf(q),
         NEW x \in RuleSet, x.to # Address[q], rules' = Append(rules, x),
         pc' = pc, added'[q] = added[q], numbers' = numbers, err' = err
  PROVE  RulesOf(q)'
<1>1. rules \in Seq(RuleSet) /\ Len(rules) \in Nat
  BY ChainDomain DEF StartupTypes, NatTypes
<1>2. /\ Len(rules') = Len(rules) + 1
      /\ \A i \in 1..Len(rules) : rules'[i] = rules[i]
      /\ rules'[Len(rules) + 1] = x
  BY <1>1, AppendProperties
<1>3. \A i \in 1..Len(rules') : i \in 1..Len(rules) \/ i = Len(rules) + 1
  BY <1>1, <1>2
<1>4. 1..Len(rules) \subseteq 1..Len(rules')
  BY <1>1, <1>2
<1> QED BY <1>2, <1>3, <1>4 DEF RulesOf, Rule

(* r's own next rule. *)
LEMMA OwnRule ==
  ASSUME StartupTypes, NEW r \in Requests, RulesOf(r), AddRule(r)
  PROVE  RulesOf(r)'
<1>1. /\ rules \in Seq(RuleSet) /\ Len(rules) \in Nat
      /\ added \in [Requests -> 0..NumForwards] /\ NumForwards \in Nat
  BY ChainDomain, ForwardsAssumption DEF StartupTypes, NatTypes
<1>2. /\ pc[r] = "adding" /\ pc' = pc
      /\ added[r] \in 0..NumForwards /\ added[r] < NumForwards
      /\ added'[r] = added[r] + 1
      /\ rules' = Append(rules, Rule(r, added[r] + 1))
  BY <1>1 DEF AddRule
<1>3. Rule(r, added[r] + 1) \in RuleSet
  <2>1. added[r] + 1 \in 1..NumForwards
    BY <1>1, <1>2
  <2> QED BY <2>1 DEF RuleSet
<1>4. /\ Len(rules') = Len(rules) + 1
      /\ \A i \in 1..Len(rules) : rules'[i] = rules[i]
      /\ rules'[Len(rules) + 1] = Rule(r, added[r] + 1)
  BY <1>1, <1>2, <1>3, AppendProperties
<1>5. ASSUME NEW k \in 1..added'[r]
      PROVE  \E i \in 1..Len(rules') : rules'[i] = Rule(r, k)
  <2>1. CASE k \in 1..added[r]
    <3>1. PICK i \in 1..Len(rules) : rules[i] = Rule(r, k)
      BY <1>2, <2>1 DEF RulesOf
    <3>2. i \in 1..Len(rules') /\ rules'[i] = Rule(r, k)
      BY <1>1, <1>4, <3>1
    <3> QED BY <3>2
  <2>2. CASE k = added[r] + 1
    <3>1. Len(rules) + 1 \in 1..Len(rules')
      BY <1>1, <1>4
    <3> QED BY <3>1, <2>2, <1>4
  <2> QED BY <1>1, <1>2, <2>1, <2>2
<1> QED BY <1>2, <1>5 DEF RulesOf, Rule

(* The deletion of a rule for another address: the rules of q move up.     *)
LEMMA AnothersDeletion ==
  ASSUME StartupTypes, NEW q \in Requests, RulesOf(q), pc[q] # "delete",
         NEW i \in 1..Len(rules), rules[i].to # Address[q],
         Len(rules') = Len(rules) - 1,
         \A j \in 1..(Len(rules) - 1) :
           rules'[j] = IF j < i THEN rules[j] ELSE rules[j + 1],
         pc' = pc, added' = added, err' = err
  PROVE  RulesOf(q)'
<1>1. Len(rules) \in Nat
  BY ChainDomain DEF StartupTypes, NatTypes
<1>2. ASSUME NEW k \in 1..added[q], pc[q] \in {"adding", "forwarded"}
      PROVE  \E j \in 1..Len(rules') : rules'[j] = Rule(q, k)
  <2>1. PICK h \in 1..Len(rules) : rules[h] = Rule(q, k)
    BY <1>2 DEF RulesOf
  <2>2. h # i
    BY <2>1 DEF Rule
  <2>3. CASE h < i
    <3>1. h \in 1..(Len(rules) - 1) /\ rules'[h] = rules[h]
      BY <1>1, <2>3
    <3> QED BY <2>1, <3>1
  <2>4. CASE h > i
    <3>1. h - 1 \in 1..(Len(rules) - 1) /\ ~(h - 1 < i) /\ (h - 1) + 1 = h
      BY <1>1, <2>4
    <3>2. rules'[h - 1] = rules[h]
      BY <3>1
    <3> QED BY <2>1, <3>1, <3>2
  <2> QED BY <1>1, <2>2, <2>3, <2>4
<1>3. ASSUME NEW j \in 1..Len(rules')
      PROVE  \E h \in 1..Len(rules) : rules'[j] = rules[h]
  <2>1. j \in 1..Len(rules) /\ j + 1 \in 1..Len(rules)
    BY <1>1
  <2>2. rules'[j] = rules[j] \/ rules'[j] = rules[j + 1]
    OBVIOUS
  <2> QED BY <2>1, <2>2
<1> QED BY <1>2, <1>3 DEF RulesOf, Rule

(* r's own deletion: what it still has to delete is in front of the rule   *)
(* that goes, and does not move.                                           *)
LEMMA OwnDeletion ==
  ASSUME StartupTypes, NEW r \in Requests, RulesOf(r), pc[r] = "delete",
         NEW i \in 1..Len(rules), i \in numbers[r],
         \A j \in numbers[r] : j <= i,
         Len(rules') = Len(rules) - 1,
         \A j \in 1..(Len(rules) - 1) :
           rules'[j] = IF j < i THEN rules[j] ELSE rules[j + 1],
         numbers'[r] = numbers[r] \ {i},
         pc' = pc, err' = err
  PROVE  RulesOf(r)'
<1>1. Len(rules) \in Nat
  BY ChainDomain DEF StartupTypes, NatTypes
<1>2. \A j \in numbers[r] : j \in 1..Len(rules) /\ rules[j].to = Address[r]
  BY DEF RulesOf
<1>3. ASSUME NEW j \in numbers'[r]
      PROVE  j \in 1..Len(rules') /\ rules'[j].to = Address[r]
  <2>1. j \in numbers[r] /\ j # i /\ j <= i /\ j \in 1..Len(rules)
    BY <1>2
  <2>2. j < i /\ j \in 1..(Len(rules) - 1)
    BY <1>1, <2>1
  <2> QED BY <1>2, <2>1, <2>2
<1>4. ASSUME ~err[r], NEW j \in 1..Len(rules'), rules'[j].to = Address[r]
      PROVE  j \in numbers'[r]
  <2>0. \A h \in 1..Len(rules) : rules[h].to = Address[r] => h \in numbers[r]
    BY <1>4 DEF RulesOf
  <2>1. CASE j < i
    <3>1. j \in 1..Len(rules) /\ rules[j].to = Address[r]
      BY <1>1, <1>4, <2>1
    <3> QED BY <2>0, <2>1, <3>1
  <2>2. CASE ~(j < i)
    <3>1. j + 1 \in 1..Len(rules) /\ rules[j + 1].to = Address[r] /\ ~(j + 1 <= i)
      BY <1>1, <1>4, <2>2
    <3> QED BY <2>0, <3>1
  <2> QED BY <2>1, <2>2
<1> QED BY <1>3, <1>4 DEF RulesOf

(* A step of one request's creation or clean-up. *)
LEMMA ServingKeepsRules ==
  ASSUME ChainInv, OneCleanup, NEW r \in Requests, Serving(r)
  PROVE  \A q \in Requests : Current(q) => RulesOf(q)'
<1>0. /\ StartupTypes /\ Current(r) /\ RulesOf(r) /\ r \in Cleaners
      /\ rules \in Seq(RuleSet) /\ Len(rules) \in Nat
      /\ DOMAIN rules = 1..Len(rules)
      /\ pc \in [Cleaners -> Places]
      /\ added \in [Requests -> 0..NumForwards]
      /\ numbers \in [Cleaners -> SUBSET (Nat \ {0})]
      /\ err \in [Cleaners -> BOOLEAN]
      /\ \A q \in Requests : Current(q) => RulesOf(q)
  BY ChainDomain DEF ChainInv, Serving, Cleaners, StartupTypes, NatTypes
<1> SUFFICES ASSUME NEW q \in Requests, Current(q) PROVE RulesOf(q)'
  OBVIOUS
<1>a. RulesOf(q) /\ q \in Cleaners
  BY <1>0 DEF Cleaners
<1>b. q # r => Address[q] # Address[r]
  <2>1. LifeOf[q] = LifeOf[r]
    BY <1>0 DEF Current
  <2> QED BY <2>1, LivesAssumption
<1>1. CASE AddRule(r)
  <2>1. CASE q = r
    BY <1>0, <1>1, <2>1, OwnRule
  <2>2. CASE q # r
    <3>1. /\ rules' = Append(rules, Rule(r, added[r] + 1))
          /\ pc' = pc /\ added'[q] = added[q] /\ numbers' = numbers /\ err' = err
          /\ added[r] < NumForwards
      BY <1>0, <1>1, <2>2 DEF AddRule
    <3>2. added[r] + 1 \in 1..NumForwards
      BY <1>0, <3>1, ForwardsAssumption
    <3>3. Rule(r, added[r] + 1) \in RuleSet
      BY <3>2 DEF RuleSet
    <3>4. Rule(r, added[r] + 1).to # Address[q]
      BY <1>b, <2>2 DEF Rule
    <3> QED BY <1>0, <1>a, <3>1, <3>3, <3>4, AnothersRule
  <2> QED BY <2>1, <2>2
<1>2. CASE ForwardsDone(r)
  <2>1. /\ rules' = rules /\ added' = added /\ numbers' = numbers /\ err' = err
        /\ pc[r] = "adding" /\ pc' = [pc EXCEPT ![r] = "forwarded"]
    BY <1>2 DEF ForwardsDone, Goto
  <2>2. CASE q = r
    BY <1>0, <2>1, <2>2 DEF RulesOf, Rule
  <2>3. CASE q # r
    BY <1>0, <1>a, <2>1, <2>3, SameRules
  <2> QED BY <2>2, <2>3
<1>3. CASE CreationFails(r)
  <2>1. /\ rules' = rules /\ added' = added /\ numbers' = numbers /\ err' = err
        /\ pc' = [pc EXCEPT ![r] = "list"]
    BY <1>3 DEF CreationFails, Goto
  <2>2. CASE q = r
    BY <1>0, <2>1, <2>2 DEF RulesOf
  <2>3. CASE q # r
    BY <1>0, <1>a, <2>1, <2>3, SameRules
  <2> QED BY <2>2, <2>3
<1>4. CASE ListRules(r)
  <2>1. /\ rules' = rules /\ added' = added /\ err' = err
        /\ pc' = [pc EXCEPT ![r] = "delete"]
        /\ numbers' = [numbers EXCEPT ![r] = NumbersFor(AddressOf(r))]
    BY <1>4 DEF ListRules, Goto
  <2>2. CASE q = r
    <3>1. AddressOf(r) = Address[r]
      BY FailingAssumption DEF AddressOf
    <3>2. numbers'[r] = {i \in 1..Len(rules) : rules[i].to = Address[r]}
      BY <1>0, <2>1, <3>1 DEF NumbersFor, Matches
    <3>3. pc'[r] = "delete"
      BY <1>0, <2>1
    <3> QED BY <2>1, <2>2, <3>2, <3>3 DEF RulesOf
  <2>3. CASE q # r
    BY <1>0, <1>a, <2>1, <2>3, SameRules
  <2> QED BY <2>2, <2>3
<1>5. CASE ListRulesFails(r)
  <2>1. /\ rules' = rules /\ added' = added /\ numbers' = numbers
        /\ pc' = [pc EXCEPT ![r] = "cleaned"] /\ err' = [err EXCEPT ![r] = TRUE]
    BY <1>5 DEF ListRulesFails, Goto
  <2>2. CASE q = r
    BY <1>0, <2>1, <2>2 DEF RulesOf
  <2>3. CASE q # r
    BY <1>0, <1>a, <2>1, <2>3, SameRules
  <2> QED BY <2>2, <2>3
<1>6. CASE DeleteRule(r)
  <2>1. pc[r] = "delete" /\ pc' = pc /\ added' = added /\ err' = err
    BY <1>6 DEF DeleteRule
  <2>2. PICK i \in 1..Len(rules) :
          /\ i \in numbers[r]
          /\ \A j \in numbers[r] : j <= i
          /\ Len(rules') = Len(rules) - 1
          /\ \A j \in 1..(Len(rules) - 1) :
               rules'[j] = IF j < i THEN rules[j] ELSE rules[j + 1]
          /\ numbers' = [numbers EXCEPT ![r] = numbers[r] \ {i}]
    BY <1>0, <1>6, DeleteRuleRemoves DEF StartupTypes
  <2>3. CASE q = r
    <3>1. numbers'[r] = numbers[r] \ {i}
      BY <1>0, <2>2
    <3> QED BY <1>0, <2>1, <2>2, <2>3, <3>1, OwnDeletion
  <2>4. CASE q # r
    <3>1. pc[q] # "delete"
      BY <1>0, <2>1, <2>4 DEF OneCleanup
    <3>2. rules[i].to = Address[r]
      BY <1>0, <2>1, <2>2 DEF RulesOf
    <3>3. rules[i].to # Address[q]
      BY <1>b, <2>4, <3>2
    <3> QED BY <1>0, <1>a, <2>1, <2>2, <3>1, <3>3, AnothersDeletion
  <2> QED BY <2>3, <2>4
<1>7. CASE DeleteRuleFails(r)
  <2>1. /\ rules' = rules /\ pc' = pc /\ added' = added /\ pc[r] = "delete"
        /\ err' = [err EXCEPT ![r] = TRUE]
        /\ numbers' = [numbers EXCEPT ![r] = numbers[r] \ {Max(numbers[r])}]
    BY <1>7 DEF DeleteRuleFails
  <2>2. CASE q = r
    <3>1. err'[r] = TRUE /\ numbers'[r] \subseteq numbers[r]
      BY <1>0, <2>1
    <3> QED BY <1>0, <2>1, <2>2, <3>1 DEF RulesOf
  <2>3. CASE q # r
    BY <1>0, <1>a, <2>1, <2>3, SameRules
  <2> QED BY <2>2, <2>3
<1>8. CASE DeletesDone(r)
  <2>1. /\ rules' = rules /\ added' = added /\ numbers' = numbers /\ err' = err
        /\ numbers[r] = {} /\ pc[r] = "delete"
        /\ pc' = [pc EXCEPT ![r] = "cleaned"]
    BY <1>8 DEF DeletesDone, Goto
  <2>2. CASE q = r
    BY <1>0, <2>1, <2>2 DEF RulesOf
  <2>3. CASE q # r
    BY <1>0, <1>a, <2>1, <2>3, SameRules
  <2> QED BY <2>2, <2>3
<1> QED BY <1>1, <1>2, <1>3, <1>4, <1>5, <1>6, <1>7, <1>8
        DEF Serving, Create, Cleanup

(* Steps that leave the requests' creations and clean-ups alone.           *)
LEMMA OthersKeepRules ==
  ASSUME ChainInv, StartupTypes', life' = life, rules' = rules, added' = added,
         \A r \in Requests :
           pc'[r] = pc[r] /\ numbers'[r] = numbers[r] /\ err'[r] = err[r]
  PROVE  ChainInv'
<1>1. ASSUME NEW r \in Requests, Current(r)'
      PROVE  RulesOf(r)'
  <2>1. RulesOf(r)
    BY <1>1 DEF ChainInv, Current
  <2> QED BY <2>1, SameRules
<1>2. \A r \in Requests : LifeOf[r] > life' => pc'[r] = "adding" /\ added'[r] = 0
  BY DEF ChainInv
<1> QED BY <1>1, <1>2 DEF ChainInv

LEMMA ChainInvStep ==
  ChainInv /\ OneCleanup /\ [StartupNext]_allVars => ChainInv'
<1> SUFFICES ASSUME ChainInv, OneCleanup, [StartupNext]_allVars PROVE ChainInv'
  OBVIOUS
<1>0. /\ StartupTypes' /\ numbers[Server] = {}
      /\ pc \in [Cleaners -> Places]
      /\ numbers \in [Cleaners -> SUBSET (Nat \ {0})]
      /\ err \in [Cleaners -> BOOLEAN]
      /\ added \in [Requests -> 0..NumForwards]
      /\ \A r \in Requests : r \in Cleaners /\ r # Server
  BY TypesStep, FailingAssumption
     DEF ChainInv, StartupTypes, NatTypes, Cleaners
<1>l. /\ life \in Nat /\ \A r \in Requests : LifeOf[r] \in Nat
  <2>1. Lives \in Nat /\ \A r \in Requests : LifeOf[r] \in 1..Lives
    BY LivesAssumption
  <2> QED BY <2>1 DEF ChainInv, StartupTypes, HostTypes
<1>1. CASE Start
  <2>1. /\ life' = life + 1 /\ rules' = rules /\ added' = added
        /\ pc' = [pc EXCEPT ![Server] = "cleaned"]
    BY <1>1 DEF Start
  <2>2. \A r \in Requests : pc'[r] = pc[r]
    BY <1>0, <2>1
  <2>3. ASSUME NEW r \in Requests, LifeOf[r] > life'
        PROVE  pc'[r] = "adding" /\ added'[r] = 0
    BY <1>l, <2>1, <2>2, <2>3 DEF ChainInv
  <2>4. ASSUME NEW r \in Requests, Current(r)' PROVE RulesOf(r)'
    <3>1. LifeOf[r] > life
      BY <1>l, <2>1, <2>4 DEF Current
    <3>2. pc'[r] = "adding" /\ added'[r] = 0
      BY <2>1, <2>2, <3>1 DEF ChainInv
    <3> QED BY <3>2 DEF RulesOf
  <2> QED BY <1>0, <2>3, <2>4 DEF ChainInv
<1>2. CASE Dies
  BY <1>0, <1>2, OthersKeepRules DEF Dies, chain
<1>3. CASE CleanupTapDevices
  BY <1>0, <1>3, OthersKeepRules DEF CleanupTapDevices, chain
<1>4. CASE DeleteBridge
  BY <1>0, <1>4, OthersKeepRules DEF DeleteBridge
<1>5. CASE NoBridgeSeen
  BY <1>0, <1>5, OthersKeepRules DEF NoBridgeSeen
<1>6. CASE CleanupRules
  <2>1. life' = life /\ Cleanup(Server)
    BY <1>6 DEF CleanupRules, place
  <2>2. rules' = rules /\ added' = added
    BY <1>0, <2>1 DEF Cleanup, ListRules, ListRulesFails, DeleteRule,
       DeleteRuleFails, DeletesDone
  <2>3. \A r \in Requests :
          pc'[r] = pc[r] /\ numbers'[r] = numbers[r] /\ err'[r] = err[r]
    BY <1>0, <2>1 DEF Cleanup, ListRules, ListRulesFails, DeleteRule,
       DeleteRuleFails, DeletesDone, Goto
  <2> QED BY <1>0, <2>1, <2>2, <2>3, OthersKeepRules
<1>7. CASE RulesCleaned
  BY <1>0, <1>7, OthersKeepRules DEF RulesCleaned, chain
<1>8. CASE AlreadySetUp
  BY <1>0, <1>8, OthersKeepRules DEF AlreadySetUp, chain
<1>9. CASE BeginSetup
  BY <1>0, <1>9, OthersKeepRules DEF BeginSetup, chain
<1>10. CASE SetupCommand
  BY <1>0, <1>10, OthersKeepRules DEF SetupCommand, chain
<1>11. CASE Serve
  BY <1>0, <1>11, OthersKeepRules DEF Serve, chain
<1>12. ASSUME NEW r \in Requests, CreateTapDevice(r) PROVE ChainInv'
  BY <1>0, <1>12, OthersKeepRules DEF CreateTapDevice, chain, place
<1>13. ASSUME NEW r \in Requests, Serving(r) PROVE ChainInv'
  <2>1. LifeOf[r] = life /\ life' = life /\ (Create(r) \/ Cleanup(r))
    BY <1>13 DEF Serving, Current, place
  <2>2. \A q \in Requests : Current(q)' => RulesOf(q)'
    BY <1>13, <2>1, ServingKeepsRules DEF Current
  <2>3. \A q \in Requests \ {r} : pc'[q] = pc[q] /\ added'[q] = added[q]
    BY <1>0, <2>1 DEF Create, Cleanup, AddRule, ForwardsDone, CreationFails,
       ListRules, ListRulesFails, DeleteRule, DeleteRuleFails, DeletesDone, Goto
  <2>4. ASSUME NEW q \in Requests, LifeOf[q] > life'
        PROVE  pc'[q] = "adding" /\ added'[q] = 0
    <3>1. q # r /\ LifeOf[q] > life
      BY <1>l, <2>1, <2>4
    <3> QED BY <2>3, <3>1 DEF ChainInv
  <2> QED BY <1>0, <2>2, <2>4 DEF ChainInv
<1>14. CASE UNCHANGED allVars
  BY <1>0, <1>14, OthersKeepRules DEF allVars, chain, place
<1> QED
  BY <1>1, <1>2, <1>3, <1>4, <1>5, <1>6, <1>7, <1>8, <1>9, <1>10, <1>11, <1>12,
     <1>13, <1>14 DEF StartupNext, NewServer

LEMMA InitChain == StartupInit => ChainInv
<1> SUFFICES ASSUME StartupInit PROVE ChainInv
  OBVIOUS
<1>1. \A r \in Requests :
        pc[r] = "adding" /\ added[r] = 0
  BY FailingAssumption DEF StartupInit, Init, Cleaners
<1>2. \A r \in Requests : RulesOf(r)
  BY <1>1 DEF RulesOf
<1> QED BY <1>1, <1>2, InitTypes DEF ChainInv

LEMMA ChainAlways == StartupSpec /\ []OneCleanup => []ChainInv
BY InitChain, ChainInvStep, PTL DEF StartupSpec

(* While one clean-up deletes at a time, a VM keeps every rule it was      *)
(* given, whatever earlier lives of the server left in the chain and       *)
(* whatever rules are appended meanwhile (server.go:343).                  *)
THEOREM RulesAlwaysKept == StartupSpec /\ []OneCleanup => []RulesKept
<1>1. ASSUME ChainInv PROVE RulesKept
  <2> SUFFICES ASSUME NEW r \in Requests, Current(r),
                      pc[r] \in {"adding", "forwarded"}, NEW k \in 1..added[r]
               PROVE  k \in 1..NumForwards /\ Contains(rules, Rule(r, k))
    BY DEF RulesKept, KeepsRules, InChain
  <2>1. added[r] \in 0..NumForwards /\ NumForwards \in Nat
    BY <1>1, ForwardsAssumption DEF ChainInv, StartupTypes, NatTypes
  <2>2. \E i \in 1..Len(rules) : rules[i] = Rule(r, k)
    BY <1>1 DEF ChainInv, RulesOf
  <2>3. rules \in Seq(RuleSet)
    BY <1>1 DEF ChainInv, StartupTypes, NatTypes
  <2> QED BY <2>1, <2>2, <2>3 DEF Contains
<1> QED BY <1>1, ChainAlways, PTL

(* While one clean-up deletes at a time, one that met no error left no     *)
(* rule for its address (server.go:982-1004).                              *)
THEOREM RulesAlwaysGone == StartupSpec /\ []OneCleanup => []RulesGone
<1>1. ASSUME ChainInv PROVE RulesGone
  <2>1. DOMAIN rules = 1..Len(rules)
    BY <1>1, ChainDomain DEF ChainInv, StartupTypes, NatTypes
  <2> QED BY <1>1, <2>1
          DEF ChainInv, RulesOf, RulesGone, LeavesNoRule, NumbersFor, Matches
<1> QED BY <1>1, ChainAlways, PTL

(* The hypothesis of the two theorems holds, for one, when at most one     *)
(* creation of each life of the server fails.                              *)
OneFails == \A r, q \in Failing : LifeOf[r] = LifeOf[q] => r = q

OnlyFailingClean ==
  /\ StartupTypes
  /\ \A r \in Requests : pc[r] \in {"list", "delete", "cleaned"} => r \in Failing

LEMMA OnlyFailingCleanStep ==
  OnlyFailingClean /\ [StartupNext]_allVars => OnlyFailingClean'
<1> SUFFICES ASSUME OnlyFailingClean, [StartupNext]_allVars
             PROVE  OnlyFailingClean'
  OBVIOUS
<1>1. /\ StartupTypes' /\ pc \in [Cleaners -> Places]
      /\ \A r \in Requests : r \in Cleaners /\ r # Server
  BY TypesStep, FailingAssumption
     DEF OnlyFailingClean, StartupTypes, NatTypes, Cleaners
<1>2. ASSUME NEW r \in Requests, Serving(r)
      PROVE  \A q \in Requests :
               pc'[q] \in {"list", "delete", "cleaned"} =>
                 pc[q] \in {"list", "delete", "cleaned"} \/ q \in Failing
  BY <1>1, <1>2 DEF Serving, Create, Cleanup, AddRule, ForwardsDone, CreationFails,
     ListRules, ListRulesFails, DeleteRule, DeleteRuleFails, DeletesDone, Goto
<1>3. ASSUME \A r \in Requests : ~Serving(r)
      PROVE  \A q \in Requests : pc'[q] = pc[q]
  <2>1. ASSUME Cleanup(Server) PROVE \A q \in Requests : pc'[q] = pc[q]
    BY <1>1, <2>1 DEF Cleanup, ListRules, ListRulesFails, DeleteRule,
       DeleteRuleFails, DeletesDone, Goto
  <2> QED BY <1>1, <1>3, <2>1 DEF StartupNext, NewServer, Start, Dies,
       CleanupTapDevices, DeleteBridge, NoBridgeSeen, CleanupRules, RulesCleaned,
       AlreadySetUp, BeginSetup, SetupCommand, Serve, CreateTapDevice,
       allVars, chain
<1>4. \A q \in Requests :
        pc'[q] \in {"list", "delete", "cleaned"} =>
          pc[q] \in {"list", "delete", "cleaned"} \/ q \in Failing
  BY <1>2, <1>3
<1> QED BY <1>1, <1>4 DEF OnlyFailingClean

THEOREM OneFailureOneCleanup == OneFails => (StartupSpec => []OneCleanup)
<1>1. StartupInit => OnlyFailingClean
  BY InitTypes, FailingAssumption
     DEF OnlyFailingClean, StartupInit, Init, Cleaners
<1>2. OneFails /\ OnlyFailingClean => OneCleanup
  BY DEF OneFails, OnlyFailingClean, OneCleanup, Current
<1>3. StartupSpec => []OnlyFailingClean
  BY <1>1, OnlyFailingCleanStep, PTL DEF StartupSpec
<1>4. OneFails => [](OnlyFailingClean => OneCleanup)
  <2> SUFFICES ASSUME OneFails PROVE [](OnlyFailingClean => OneCleanup)
    OBVIOUS
  <2>1. OnlyFailingClean => OneCleanup
    BY <1>2
  <2> QED BY <2>1, PTL
<1> QED BY <1>3, <1>4, PTL

-----------------------------------------------------------------------------
(* The destinations of the forwards                                        *)

(* The rules that requests up to this life can have made. *)
SoFar ==
  {Rule(r, k) : r \in {q \in Requests : LifeOf[q] <= life}, k \in 1..NumForwards}

Forwards ==
  /\ rules \in Seq(SoFar)
  /\ \A r \in Requests : pc[r] = "forwarded" => added[r] = NumForwards

LEMMA ForwardsStep ==
  StartupTypes /\ Forwards /\ [StartupNext]_allVars => Forwards'
<1> SUFFICES ASSUME StartupTypes, Forwards, [StartupNext]_allVars PROVE Forwards'
  OBVIOUS
<1>0. /\ pc \in [Cleaners -> Places] /\ added \in [Requests -> 0..NumForwards]
      /\ NumForwards \in Nat /\ life \in Nat
      /\ \A r \in Requests : r \in Cleaners /\ r # Server /\ LifeOf[r] \in Nat
  <2>1. Lives \in Nat /\ \A r \in Requests : LifeOf[r] \in 1..Lives
    BY LivesAssumption
  <2> QED BY <2>1, FailingAssumption, ForwardsAssumption
          DEF StartupTypes, NatTypes, HostTypes, Cleaners
<1>1. ASSUME rules' = rules, life' \in {life, life + 1} PROVE rules' \in Seq(SoFar')
  <2>1. SoFar \subseteq SoFar'
    <3>1. \A q \in Requests : LifeOf[q] <= life => LifeOf[q] <= life'
      BY <1>0, <1>1
    <3> QED BY <3>1 DEF SoFar, Rule
  <2> QED BY <1>1, <2>1, SeqMonotonic DEF Forwards
<1>2. ASSUME \A r \in Requests : ~Serving(r) PROVE Forwards'
  <2>1. /\ rules' = rules /\ added' = added /\ life' \in {life, life + 1}
        /\ \A q \in Requests : pc'[q] = pc[q]
    <3>1. ASSUME Cleanup(Server)
          PROVE  /\ rules' = rules /\ added' = added
                 /\ \A q \in Requests : pc'[q] = pc[q]
      BY <1>0, <3>1 DEF StartupTypes, Cleanup, ListRules, ListRulesFails,
         DeleteRule, DeleteRuleFails, DeletesDone, Goto
    <3> QED BY <1>0, <1>2, <3>1 DEF StartupNext, NewServer, Start, Dies,
         CleanupTapDevices, DeleteBridge, NoBridgeSeen, CleanupRules, RulesCleaned,
         AlreadySetUp, BeginSetup, SetupCommand, Serve, CreateTapDevice,
         allVars, chain, place
  <2> QED BY <1>1, <2>1 DEF Forwards
<1>3. ASSUME NEW r \in Requests, Serving(r) PROVE Forwards'
  <2>1. /\ LifeOf[r] = life /\ life' = life /\ SoFar' = SoFar
        /\ Create(r) \/ Cleanup(r)
    BY <1>3 DEF Serving, Current, place, SoFar, Rule
  <2>2. \A q \in Requests : pc'[q] = "forwarded" => added'[q] = NumForwards
    BY <1>0, <2>1 DEF Forwards, Create, Cleanup, AddRule, ForwardsDone,
       CreationFails, ListRules, ListRulesFails, DeleteRule, DeleteRuleFails,
       DeletesDone, Goto
  <2>3. CASE AddRule(r)
    <3>1. /\ added[r] + 1 \in 1..NumForwards
          /\ rules' = Append(rules, Rule(r, added[r] + 1))
      BY <1>0, <2>3 DEF AddRule
    <3>2. Rule(r, added[r] + 1) \in SoFar
      BY <1>0, <2>1, <3>1 DEF SoFar
    <3> QED BY <2>1, <2>2, <3>1, <3>2, AppendProperties DEF Forwards
  <2>4. CASE DeleteRule(r)
    <3>1. PICK i \in DOMAIN rules : rules' = RemoveAt(rules, i)
      BY <2>4 DEF DeleteRule
    <3>2. rules \in Seq(SoFar) /\ DOMAIN rules = 1..Len(rules)
      BY ChainDomain DEF Forwards, StartupTypes, NatTypes
    <3>3. RemoveAt(rules, i) \in Seq(SoFar)
      BY <3>1, <3>2, RemoveAtIndex
    <3> QED BY <2>1, <2>2, <3>1, <3>3 DEF Forwards
  <2>5. CASE ~AddRule(r) /\ ~DeleteRule(r)
    <3>1. rules' = rules
      BY <2>1, <2>5 DEF Create, Cleanup, ForwardsDone, CreationFails, ListRules,
         ListRulesFails, DeleteRuleFails, DeletesDone
    <3> QED BY <2>1, <2>2, <3>1 DEF Forwards
  <2> QED BY <2>3, <2>4, <2>5
<1> QED BY <1>2, <1>3

(* Host ports lead to their VMs until the server is started again: of the  *)
(* rules of one life, one alone is for a given host port.  It is the rules *)
(* an earlier life left (server.go:739) that lead elsewhere, run           *)
(* stale_forwards.                                                         *)
THEOREM FirstLifeForwardsReach ==
  StartupSpec /\ []OneCleanup => [](life <= 1 => ForwardsReach)
<1>1. ASSUME ChainInv, Forwards, life <= 1 PROVE ForwardsReach
  <2> SUFFICES ASSUME NEW r \in Requests, Current(r), pc[r] = "forwarded",
                      NEW k \in 1..NumForwards
               PROVE  Destination(HostPort[r][k]) = <<Address[r], k>>
    BY DEF ForwardsReach
  <2> DEFINE S == {i \in DOMAIN rules : rules[i].dport = HostPort[r][k]}
  <2>1. /\ Len(rules) \in Nat /\ DOMAIN rules = 1..Len(rules)
        /\ \A i \in 1..Len(rules) : rules[i] \in SoFar
    <3>1. rules \in Seq(RuleSet) /\ rules \in Seq(SoFar)
      BY <1>1 DEF ChainInv, StartupTypes, NatTypes, Forwards
    <3> QED BY <3>1, ChainDomain, ElementOfSeq
  <2>2. S # {}
    <3>1. added[r] = NumForwards
      BY <1>1 DEF Forwards
    <3>2. PICK i \in 1..Len(rules) : rules[i] = Rule(r, k)
      BY <1>1, <3>1 DEF ChainInv, RulesOf
    <3> QED BY <2>1, <3>2 DEF Rule
  <2>3. Min(S) \in S
    <3>1. S \in SUBSET Nat
      BY <2>1
    <3>2. \E m \in S : \A n \in S : m <= n
      BY <2>2, <3>1, LeastOf
    <3> HIDE DEF S
    <3> QED BY <3>2 DEF Min
  <2>4. PICK q \in Requests, j \in 1..NumForwards :
          /\ rules[Min(S)] = Rule(q, j) /\ LifeOf[q] <= life
          /\ rules[Min(S)].dport = HostPort[r][k]
    <3>1. \A i \in S : rules[i] \in SoFar /\ rules[i].dport = HostPort[r][k]
      BY <2>1
    <3> HIDE DEF S
    <3>2. rules[Min(S)] \in SoFar /\ rules[Min(S)].dport = HostPort[r][k]
      BY <3>1, <2>3
    <3> QED BY <3>2 DEF SoFar
  <2>5. HostPort[q][j] = HostPort[r][k]
    BY <2>4 DEF Rule
  <2>6. LifeOf[q] = LifeOf[r]
    <3>1. /\ LifeOf[r] = life /\ Lives \in Nat
          /\ LifeOf[r] \in 1..Lives /\ LifeOf[q] \in 1..Lives
      BY LivesAssumption DEF Current
    <3> QED BY <1>1, <2>4, <3>1
  <2>7. q = r /\ j = k
    BY <2>5, <2>6, LivesAssumption, PortsAssumption
  <2> QED BY <2>4, <2>7 DEF Destination, Rule
<1>2. StartupInit => Forwards
  BY FailingAssumption DEF StartupInit, Init, Forwards, Cleaners
<1>3. StartupSpec => []Forwards
  BY <1>2, ForwardsStep, TypesAlways, PTL DEF StartupSpec
<1> QED BY <1>1, <1>3, ChainAlways, PTL
=============================================================================
