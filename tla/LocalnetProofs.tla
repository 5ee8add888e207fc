--------------------------- MODULE LocalnetProofs ---------------------------
(***************************************************************************)
(* Theorems about Localnet: a relayed flow keeps to the device its check   *)
(* approved, and to the host's own networks while the routes are those of  *)
(* the check, and an address on them is approved, for any routes and       *)
(* addresses.                                                              *)
(***************************************************************************)
EXTENDS Localnet, WellFoundedInduction, TLAPS

\* Numbers with the same quotient are the same but for the rest.
LEMMA QuotientMask ==
    ASSUME NEW n \in Nat, NEW m \in Nat, NEW block \in Nat \ {0}
    PROVE  (n \div block = m \div block) <=> (n - (n % block) = m - (m % block))
<1>1. /\ n - (n % block) = block * (n \div block)
      /\ m - (m % block) = block * (m \div block)
  OBVIOUS
<1>2. n \div block \in Nat /\ m \div block \in Nat
  OBVIOUS
<1>3. ASSUME NEW a \in Nat, NEW b \in Nat, block * a = block * b PROVE a = b
  BY <1>3
<1> QED BY <1>1, <1>2, <1>3

\* A shift right compares what a mask does, a shift of the whole width included.
LEMMA ShiftMask ==
    ASSUME NEW n \in Nat, NEW m \in Nat, NEW count \in 0..Bits,
           count = Bits => n < Pow[Bits] /\ m < Pow[Bits]
    PROVE  (shr(n, count) = shr(m, count)) <=> (masked(n, count) = masked(m, count))
<1>1. Pow[count] \in Nat \ {0}
  BY LocalnetAssumption
<1>2. CASE count < Bits
  BY <1>1, <1>2, QuotientMask DEF shr, masked
<1>3. CASE count = Bits
  <2>1. ASSUME NEW a \in Nat, NEW block \in Nat \ {0}, a < block
        PROVE  a - (a % block) = 0
    BY <2>1, SMTT(30)
  <2>2. masked(n, count) = 0 /\ masked(m, count) = 0
    BY <1>1, <1>3, <2>1 DEF masked
  <2> QED BY <1>3, <2>2, LocalnetAssumption DEF shr
<1> QED BY <1>2, <1>3, LocalnetAssumption

\* The relay and the kernel agree on the addresses a route is for.
LEMMA ContainsCovers ==
    ASSUME NEW route \in Routes, NEW ip \in Addrs, route.up
    PROVE  contains(route, ip) <=> Covers(route, ip)
<1>1. CASE route.family # ip.family
  BY <1>1 DEF contains, Covers
<1>2. CASE route.family = ip.family
  <2> DEFINE width == Width[ip.family]
             count == width - route.prefix
  <2>1. width \in 1..Bits /\ Bits \in Nat
    BY LocalnetAssumption
  <2>2. ip.bits \in Nat /\ ip.bits < Pow[width]
    BY <2>1, LocalnetAssumption
  <2>3. /\ route.net \in Nat /\ route.net < Pow[width]
        /\ route.prefix \in 0..Bits /\ route.prefix <= width
    <3>1. route \in Route
      BY LocalnetAssumption
    <3>2. /\ route.net \in 0..(Pow[width] - 1)
          /\ route.prefix <= width
      BY <1>2, LocalnetAssumption
    <3>3. Pow[width] \in Nat
      BY <2>1, LocalnetAssumption
    <3> QED BY <3>1, <3>2, <3>3 DEF Route
  <2>4. count \in 0..Bits /\ (count = Bits => width = Bits)
    BY <2>1, <2>3
  <2>5. (shr(route.net, count) = shr(ip.bits, count))
          <=> (masked(route.net, count) = masked(ip.bits, count))
    BY <2>2, <2>3, <2>4, ShiftMask
  <2> QED BY <1>2, <2>5 DEF contains, Covers, same_prefix
<1> QED BY <1>1, <1>2

\* While the routes are those of the check, no packet of a socket bound to the
\* device it approved goes beyond the host's own networks.
LEMMA NotBeyond ==
    ASSUME NEW t \in SUBSET Routes, NEW ip \in Addrs, NEW device \in egress(t, ip),
           NEW way \in Ways(t, ip, {device})
    PROVE  ~way.beyond
<1>1. \A route \in best(t, ip) : on_link(route)
  BY DEF egress
<1>2. PICK chosen \in best(t, ip) : chosen.device = device
  BY DEF egress
<1>3. chosen \in t /\ chosen.up /\ Covers(chosen, ip)
  BY <1>2, ContainsCovers DEF best, routes
<1> DEFINE usable == {route \in t : route.device \in {device} /\ Covers(route, ip)}
<1>4. chosen \in usable
  BY <1>2, <1>3
<1>5. PICK route \in usable :
        /\ \A other \in usable : other.prefix <= route.prefix
        /\ way = Way(route.device, route.gateway # None \/ route.prefix = 0)
  BY <1>4 DEF Ways
<1>6. route \in best(t, ip)
  <2>1. route \in routes(t) /\ contains(route, ip)
    BY <1>5, ContainsCovers DEF Covers, routes
  <2>2. chosen.prefix <= route.prefix
    BY <1>4, <1>5
  <2>3. ASSUME NEW other \in routes(t), contains(other, ip)
        PROVE  other.prefix <= route.prefix
    <3>1. other.prefix <= chosen.prefix
      BY <1>2, <2>3 DEF best
    <3>2. /\ other.prefix \in Int /\ chosen.prefix \in Int /\ route.prefix \in Int
      BY <1>3, <2>1, LocalnetAssumption DEF routes, Route
    <3> QED BY <2>2, <3>1, <3>2
  <2> QED BY <2>1, <2>3 DEF best
<1>7. on_link(route) /\ route.prefix \in Int
  BY <1>1, <1>6, LocalnetAssumption DEF best, routes, Route
<1>8. ~(route.gateway # None \/ route.prefix = 0)
  BY <1>7 DEF on_link
<1>9. way.beyond = (route.gateway # None \/ route.prefix = 0)
  BY <1>5, Zenon DEF Way
<1> QED BY <1>8, <1>9

\* However a socket is routed, it is routed on a device it may use.
LEMMA WayDevice ==
    ASSUME NEW t, NEW ip, NEW device, NEW way \in Ways(t, ip, {device})
    PROVE  way.device = device
<1> DEFINE usable == {route \in t : route.device \in {device} /\ Covers(route, ip)}
<1>1. CASE usable = {}
  <2>1. Ways(t, ip, {device}) = {Way(d, FALSE) : d \in {device}}
    BY <1>1 DEF Ways
  <2> QED BY <2>1 DEF Way
<1>2. CASE usable # {}
  <2>1. PICK route \in usable :
          way = Way(route.device, route.gateway # None \/ route.prefix = 0)
    BY <1>2 DEF Ways
  <2> QED BY <2>1 DEF Way
<1> QED BY <1>1, <1>2
-----------------------------------------------------------------------------
(* The inductive invariant *)

FlowRecord ==
    [state : States, protocol : Protocols, target : Addrs \cup {None},
     device : Devices \cup {None}, routes : {"same", "changed"}]

FlowType == flow \in [Flows -> FlowRecord]

\* Nothing has been sent before there is a socket; what has been sent left by the
\* approved device; and until the routes change, the check still holds.
FlowOK(f) ==
    /\ flow[f].state \in {"none", "accepted", "approved"} => took[f] = {}
    /\ \A t \in took[f] : t.way.device = flow[f].device
    /\ \A t \in took[f] : t.way.beyond => t.routes = "changed"
    /\ flow[f].state \in Holding =>
         /\ flow[f].target \in Addrs
         /\ flow[f].routes = "same" => flow[f].device \in egress(table, flow[f].target)
    /\ flow[f].state # "none" => flow[f].target \in Addrs

LInv ==
    /\ table \subseteq Routes
    /\ FlowType
    /\ took = [f \in Flows |-> took[f]]
    /\ \A f \in Flows : FlowOK(f)

LEMMA LInit == Init => LInv
<1> SUFFICES ASSUME Init PROVE LInv
  OBVIOUS
<1>1. table \subseteq Routes
  BY DEF Init, Tables
<1>2. FlowType
  BY DEF Init, NoFlow, FlowType, FlowRecord, States, Protocols
<1>3. took = [f \in Flows |-> took[f]]
  BY DEF Init
<1>4. ASSUME NEW f \in Flows PROVE FlowOK(f)
  BY DEF Init, NoFlow, FlowOK, Holding
<1> QED BY <1>1, <1>2, <1>3, <1>4 DEF LInv

\* A device that egress() picks is one of the host's.
LEMMA EgressDevice ==
    ASSUME NEW t \in SUBSET Routes, NEW ip
    PROVE  egress(t, ip) \subseteq Devices
BY LocalnetAssumption DEF egress, best, routes, Route

\* What a step that only moves a flow to another state leaves as it is
LEMMA Becomes ==
    ASSUME FlowType, NEW f \in Flows, NEW state \in States, Become(f, state)
    PROVE  /\ FlowType'
           /\ \A g \in Flows \ {f} : flow'[g] = flow[g]
           /\ flow'[f].state = state /\ flow'[f].target = flow[f].target
           /\ flow'[f].device = flow[f].device /\ flow'[f].routes = flow[f].routes
BY DEF Become, FlowType, FlowRecord

\* A flow that only moves on keeps what it has sent and where.
LEMMA MovesOn ==
    ASSUME LInv, NEW f \in Flows, NEW state \in States, Become(f, state),
           table' = table, took' = took,
           state \in {"refused", "hung", "closed"}, flow[f].state # "none"
    PROVE  LInv'
<1>1. ASSUME NEW g \in Flows PROVE FlowOK(g)'
  BY Becomes DEF LInv, FlowOK, Holding
<1> QED BY <1>1, Becomes DEF LInv

\* The packets of a flow that has been approved, by an approval that still holds or
\* one that does not
LEMMA TakesWay ==
    ASSUME LInv, NEW f \in Flows, flow[f].state \in Holding, Takes(f),
           table' = table,
           \/ flow' = flow /\ flow[f].state = "relayed"
           \/ Become(f, "relayed")
    PROVE  LInv'
<1>0. /\ FlowType'
      /\ \A g \in Flows \ {f} : flow'[g] = flow[g]
      /\ flow'[f].state = "relayed" /\ flow'[f].target = flow[f].target
      /\ flow'[f].device = flow[f].device /\ flow'[f].routes = flow[f].routes
  <2>1. CASE flow' = flow /\ flow[f].state = "relayed"
    BY <2>1 DEF LInv, FlowType
  <2>2. CASE Become(f, "relayed")
    BY <2>2, Becomes DEF LInv, States
  <2> QED BY <2>1, <2>2
<1>1. PICK way \in Ways(table, flow[f].target, {flow[f].device}) :
        took' = [took EXCEPT ![f] = @ \cup {[way |-> way, routes |-> flow[f].routes]}]
  BY DEF Takes, Bound
<1>2. way.device = flow[f].device
  BY WayDevice
<1>3. way.beyond => flow[f].routes = "changed"
  <2>1. flow[f].target \in Addrs
    BY DEF LInv, FlowOK
  <2>2. CASE flow[f].routes = "same"
    <3>1. flow[f].device \in egress(table, flow[f].target)
      BY <2>2 DEF LInv, FlowOK
    <3> QED BY <2>1, <3>1, NotBeyond DEF LInv
  <2>3. flow[f].routes \in {"same", "changed"}
    BY DEF LInv, FlowType, FlowRecord
  <2> QED BY <2>2, <2>3
<1>4. FlowType'
  BY <1>0
<1>5. took' = [g \in Flows |-> took'[g]]
  BY <1>1 DEF LInv
<1>6. ASSUME NEW g \in Flows PROVE FlowOK(g)'
  <2>1. /\ flow'[g].device = flow[g].device /\ flow'[g].routes = flow[g].routes
        /\ flow'[g].target = flow[g].target
        /\ flow'[f].state = "relayed"
    BY <1>0
  <2>2. CASE g # f
    <3>1. took'[g] = took[g] /\ flow'[g] = flow[g]
      BY <1>0, <1>1, <2>2 DEF LInv
    <3> QED BY <3>1 DEF LInv, FlowOK
  <2>3. CASE g = f
    <3>1. took'[f] = took[f] \cup {[way |-> way, routes |-> flow[f].routes]}
      BY <1>1 DEF LInv
    <3>3. \A t \in took'[f] : t.way.device = flow'[f].device
      <4>1. ASSUME NEW t \in took[f] PROVE t.way.device = flow[f].device
        BY DEF LInv, FlowOK
      <4>2. ASSUME NEW t, t = [way |-> way, routes |-> flow[f].routes]
            PROVE  t.way.device = flow[f].device
        BY <1>2, <4>2, Zenon
      <4>3. flow'[f].device = flow[f].device
        BY <1>0
      <4>4. \A t \in took'[f] : t \in took[f] \/ t = [way |-> way, routes |-> flow[f].routes]
        BY <3>1, Zenon
      <4> QED BY <4>1, <4>2, <4>3, <4>4, Zenon
    <3>4. \A t \in took'[f] : t.way.beyond => t.routes = "changed"
      <4>1. ASSUME NEW t \in took[f] PROVE t.way.beyond => t.routes = "changed"
        BY DEF LInv, FlowOK
      <4>2. ASSUME NEW t, t = [way |-> way, routes |-> flow[f].routes]
            PROVE  t.way.beyond => t.routes = "changed"
        BY <1>3, <4>2, Zenon
      <4> QED BY <3>1, <4>1, <4>2, Zenon
    <3>5. /\ flow'[f].target \in Addrs
          /\ flow'[f].routes = "same" => flow'[f].device \in egress(table', flow'[f].target)
      <4>1. /\ flow[f].target \in Addrs
            /\ flow[f].routes = "same" => flow[f].device \in egress(table, flow[f].target)
        BY DEF LInv, FlowOK
      <4> QED BY <2>1, <2>3, <4>1
    <3>6. flow'[f].state = "relayed"
      BY <2>1
    <3> QED BY <2>3, <3>3, <3>4, <3>5, <3>6 DEF FlowOK
  <2> QED BY <2>2, <2>3
<1> QED BY <1>4, <1>5, <1>6 DEF LInv

LEMMA LNext == LInv /\ [Next]_vars => LInv'
<1> SUFFICES ASSUME LInv, [Next]_vars PROVE LInv'
  OBVIOUS
<1>1. ASSUME UNCHANGED <<table, flow, took>> PROVE LInv'
  BY <1>1 DEF LInv, FlowType, FlowOK
<1>2. CASE start \/ stack_ends \/ shutdown_background \/ UNCHANGED vars
  BY <1>1, <1>2 DEF start, stack_ends, shutdown_background, vars
<1>3. ASSUME NEW route \in Routes, route_change(route) PROVE LInv'
  <2>1. table' \subseteq Routes
    BY <1>3 DEF route_change, LInv
  <2>2. /\ took' = took
        /\ \A f \in Flows :
             flow'[f] = [flow[f] EXCEPT !.routes = "changed"]
    BY <1>3 DEF route_change
  <2>3. FlowType' /\ \A f \in Flows :
          /\ flow'[f].state = flow[f].state /\ flow'[f].device = flow[f].device
          /\ flow'[f].target = flow[f].target
          /\ flow'[f].routes = "changed"
    <3>1. flow' = [f \in Flows |-> [flow[f] EXCEPT !.routes = "changed"]]
      BY <1>3 DEF route_change
    <3>2. ASSUME NEW f \in Flows
          PROVE  LET new == [flow[f] EXCEPT !.routes = "changed"]
                 IN  /\ new \in FlowRecord
                     /\ new.state = flow[f].state /\ new.device = flow[f].device
                     /\ new.target = flow[f].target /\ new.routes = "changed"
      <4>1. flow[f] \in FlowRecord
        BY DEF LInv, FlowType
      <4> QED BY <4>1 DEF FlowRecord
    <3> QED BY <3>1, <3>2 DEF FlowType
  <2>4. ASSUME NEW f \in Flows PROVE FlowOK(f)'
    <3>1. /\ flow'[f].state = flow[f].state /\ flow'[f].device = flow[f].device
          /\ flow'[f].target = flow[f].target
          /\ flow'[f].routes = "changed"
      BY <2>3
    <3>2. took'[f] = took[f]
      BY <2>2
    <3> QED BY <3>1, <3>2 DEF LInv, FlowOK, Holding
  <2> QED BY <2>1, <2>2, <2>3, <2>4 DEF LInv
<1>4. ASSUME NEW f \in Flows, NEW protocol \in Protocols, NEW target \in Addrs,
             accept(f, protocol, target)
      PROVE  LInv'
  <2> DEFINE new == [state |-> "accepted", protocol |-> protocol, target |-> target,
                     device |-> None, routes |-> "same"]
  <2>1. flow' = [flow EXCEPT ![f] = new]
    BY <1>4 DEF accept
  <2>2. new \in FlowRecord
    BY DEF FlowRecord, States
  <2>3. ASSUME NEW g \in Flows PROVE FlowOK(g)'
    <3>1. CASE g = f
      <4>1. flow'[f] = new /\ took'[f] = {}
        BY <1>4, <2>1 DEF accept, LInv, FlowType
      <4> QED BY <3>1, <4>1 DEF FlowOK, Holding
    <3>2. CASE g # f
      <4>1. flow'[g] = flow[g] /\ took'[g] = took[g] /\ table' = table
        BY <1>4, <2>1, <3>2 DEF accept, LInv, FlowType
      <4> QED BY <4>1 DEF LInv, FlowOK
    <3> QED BY <3>1, <3>2
  <2>4. FlowType'
    BY <2>1, <2>2 DEF LInv, FlowType
  <2>5. took' = [g \in Flows |-> took'[g]]
    BY <1>4 DEF accept, LInv
  <2> QED BY <1>4, <2>3, <2>4, <2>5 DEF accept, LInv
<1>5. ASSUME NEW f \in Flows, check(f) PROVE LInv'
  <2>1. CASE Refuse(f)
    BY <1>5, <2>1, MovesOn DEF check, Running, Refuse, States
  <2>2. ASSUME NEW device \in egress(table, flow[f].target),
               flow' = [flow EXCEPT ![f].state = "approved", ![f].device = device,
                                    ![f].routes = "same"]
        PROVE  LInv'
    <3>1. device \in Devices
      BY EgressDevice DEF LInv
    <3> DEFINE new == [flow[f] EXCEPT !.state = "approved", !.device = device,
                                      !.routes = "same"]
    <3>2. /\ new \in FlowRecord
          /\ new.state = "approved" /\ new.device = device /\ new.target = flow[f].target
      <4>1. flow[f] \in FlowRecord
        BY DEF LInv, FlowType
      <4> QED BY <3>1, <4>1 DEF FlowRecord, States
    <3>3. flow' = [flow EXCEPT ![f] = new]
      BY <2>2
    <3>4. FlowType'
      BY <3>2, <3>3 DEF LInv, FlowType
    <3>5. /\ took' = took /\ table' = table /\ flow[f].state = "accepted"
      BY <1>5 DEF check, Running
    <3>6. ASSUME NEW g \in Flows PROVE FlowOK(g)'
      <4>1. CASE g = f
        <5>1. took[f] = {} /\ flow[f].target \in Addrs
          BY <3>5 DEF LInv, FlowOK
        <5>2. flow'[f] = new
          BY <3>3 DEF LInv, FlowType
        <5>3. /\ flow'[f].state = "approved" /\ flow'[f].device = device
              /\ flow'[f].target = flow[f].target
          BY <3>2, <5>2
        <5> QED BY <2>2, <3>5, <4>1, <5>1, <5>3 DEF FlowOK, Holding
      <4>2. CASE g # f
        <5>1. flow'[g] = flow[g]
          BY <3>3, <4>2 DEF LInv, FlowType
        <5> QED BY <3>5, <5>1 DEF LInv, FlowOK
      <4> QED BY <4>1, <4>2
    <3> QED BY <3>4, <3>5, <3>6 DEF LInv
  <2> QED BY <1>5, <2>1, <2>2 DEF check
<1>6. ASSUME NEW f \in Flows, connect(f) PROVE LInv'
  <2>1. CASE Takes(f) /\ Become(f, "relayed")
    BY <1>6, <2>1, TakesWay DEF connect, Running, Holding
  <2>2. CASE Refuse(f) /\ UNCHANGED took
    BY <1>6, <2>2, MovesOn DEF connect, Running, Refuse, States
  <2> QED BY <1>6, <2>1, <2>2 DEF connect
<1>7. ASSUME NEW f \in Flows, shutdown(f) \/ finish(f) \/ abort(f) PROVE LInv'
  BY <1>7, MovesOn DEF shutdown, finish, abort, Running, States
<1>8. ASSUME NEW f \in Flows, send(f) PROVE LInv'
  BY <1>8, TakesWay DEF send, Running, Holding
<1> QED BY <1>2, <1>3, <1>4, <1>5, <1>6, <1>7, <1>8 DEF Next, Task

\* localnet.rs:327: whatever becomes of the routes, no packet of a flow leaves by another
\* device than its check approved, for any number of flows and any routes.
THEOREM KeepsToDevice == Spec => []HeldToDevice
<1>1. LInv => HeldToDevice
  BY DEF LInv, FlowOK, HeldToDevice
<1> QED BY LInit, LNext, <1>1, PTL DEF Spec

\* localnet.rs:22-24: a flow only goes past a gateway, or where a default route leads, if
\* the routes changed after its check, for any number of flows and any routes.
THEOREM StaysOnLink == Spec => []NothingPastGateway
<1>1. LInv => NothingPastGateway
  BY DEF LInv, FlowOK, NothingPastGateway
<1> QED BY LInit, LNext, <1>1, PTL DEF Spec
-----------------------------------------------------------------------------
(* Types, and what the check approves *)

\* What a flow is, beside what LInv says of it
FlowTyped(f) ==
    /\ took[f] \subseteq
         [way : [device : Devices, beyond : BOOLEAN], routes : {"same", "changed"}]
    /\ flow[f].state = "none" => flow[f].target = None
    /\ flow[f].state \in Holding => flow[f].device # None
    /\ flow[f].state = "refused" => flow[f].protocol = "tcp"

TInv ==
    /\ LInv
    /\ table \in Tables /\ relay \in {"down", "up", "ended", "gone", "failed"}
    /\ v6 \in BOOLEAN
    /\ \A f \in Flows : FlowTyped(f)

\* However the kernel routes a packet, it is a way off the host or onto its networks.
LEMMA WayType ==
    ASSUME NEW t \in SUBSET Routes, NEW ip, NEW device \in Devices,
           NEW way \in Ways(t, ip, {device})
    PROVE  way \in [device : Devices, beyond : BOOLEAN]
<1> DEFINE usable == {route \in t : route.device \in {device} /\ Covers(route, ip)}
<1>1. CASE usable = {}
  <2>1. Ways(t, ip, {device}) = {Way(d, FALSE) : d \in {device}}
    BY <1>1 DEF Ways
  <2>2. way = [device |-> device, beyond |-> FALSE]
    BY <2>1 DEF Way
  <2> QED BY <2>2
<1>2. CASE usable # {}
  <2>1. PICK route \in usable :
          way = Way(route.device, route.gateway # None \/ route.prefix = 0)
    BY <1>2 DEF Ways
  <2> QED BY <2>1 DEF Way
<1> QED BY <1>1, <1>2

\* A step that sends packets of one flow at most, and moves that flow at most
LEMMA TypedStep ==
    ASSUME TInv, NEW f \in Flows, FlowTyped(f)',
           \A g \in Flows \ {f} : flow'[g] = flow[g] /\ took'[g] = took[g],
           UNCHANGED <<table, relay, v6>>, LInv'
    PROVE  TInv'
<1>1. ASSUME NEW g \in Flows \ {f} PROVE FlowTyped(g)'
  BY DEF TInv, FlowTyped
<1> QED BY <1>1 DEF TInv

LEMMA TypedTakes ==
    ASSUME TInv, NEW f \in Flows, flow[f].state \in Holding, Takes(f)
    PROVE  /\ \A g \in Flows \ {f} : took'[g] = took[g]
           /\ took'[f] \subseteq
                [way : [device : Devices, beyond : BOOLEAN], routes : {"same", "changed"}]
<1>1. PICK way \in Ways(table, flow[f].target, {flow[f].device}) :
        took' = [took EXCEPT ![f] = @ \cup {[way |-> way, routes |-> flow[f].routes]}]
  BY DEF Takes, Bound
<1>2. flow[f].device \in Devices /\ flow[f].routes \in {"same", "changed"}
  BY DEF TInv, LInv, FlowType, FlowRecord, FlowTyped
<1>3. way \in [device : Devices, beyond : BOOLEAN]
  BY <1>2, WayType DEF TInv, LInv
<1>4. [way |-> way, routes |-> flow[f].routes]
        \in [way : [device : Devices, beyond : BOOLEAN], routes : {"same", "changed"}]
  BY <1>2, <1>3
<1> QED BY <1>1, <1>4 DEF TInv, LInv, FlowTyped

\* A flow that moves on, and may send as it does
LEMMA TypedMove ==
    ASSUME TInv, LInv', NEW f \in Flows, NEW state \in {"relayed", "refused", "hung", "closed"},
           Become(f, state), UNCHANGED <<table, relay, v6>>,
           state = "refused" => flow[f].protocol = "tcp",
           state = "relayed" => flow[f].state \in Holding,
           took' = took \/ (Takes(f) /\ flow[f].state \in Holding), flow[f].state # "none"
    PROVE  TInv'
<1>1. FlowType /\ state \in States
  BY DEF TInv, LInv, States
<1>2. /\ \A g \in Flows \ {f} : flow'[g] = flow[g]
      /\ flow'[f].state = state /\ flow'[f].device = flow[f].device
      /\ flow'[f].protocol = flow[f].protocol
  <2>1. flow'[f].protocol = flow[f].protocol
    BY <1>1 DEF Become, FlowType, FlowRecord
  <2> QED BY <1>1, <2>1, Becomes
<1>3. /\ \A g \in Flows \ {f} : took'[g] = took[g]
      /\ took'[f] \subseteq
           [way : [device : Devices, beyond : BOOLEAN], routes : {"same", "changed"}]
  BY TypedTakes DEF TInv, FlowTyped
<1>4. FlowTyped(f)'
  BY <1>2, <1>3 DEF TInv, FlowTyped, Holding
<1> QED BY <1>2, <1>3, <1>4, TypedStep

\* A flow that is refused
LEMMA TypedRefuse ==
    ASSUME TInv, LInv', NEW f \in Flows, Refuse(f), UNCHANGED <<table, relay, v6, took>>,
           flow[f].state # "none"
    PROVE  TInv'
<1>1. CASE flow[f].protocol = "tcp"
  BY <1>1, TypedMove DEF Refuse
<1>2. CASE flow[f].protocol # "tcp"
  BY <1>2, TypedMove DEF Refuse
<1> QED BY <1>1, <1>2

LEMMA TNext == TInv /\ [Next]_vars => TInv'
<1> SUFFICES ASSUME TInv, [Next]_vars PROVE TInv'
  OBVIOUS
<1>1. LInv' /\ LInv /\ FlowType
  BY LNext DEF TInv, LInv
<1>2. CASE start \/ stack_ends \/ shutdown_background \/ UNCHANGED vars
  <2>1. relay' \in {"down", "up", "ended", "gone", "failed"} /\ v6' \in BOOLEAN
    BY <1>2 DEF TInv, start, stack_ends, shutdown_background, vars
  <2> QED BY <1>1, <1>2, <2>1 DEF TInv, FlowTyped, start, stack_ends, shutdown_background, vars
<1>3. ASSUME NEW route \in Routes, route_change(route) PROVE TInv'
  <2>1. /\ table' \in Tables /\ UNCHANGED <<relay, v6, took>>
        /\ flow' = [f \in Flows |-> [flow[f] EXCEPT !.routes = "changed"]]
    BY <1>3 DEF route_change
  <2>2. ASSUME NEW f \in Flows PROVE FlowTyped(f)'
    <3>1. flow[f] \in FlowRecord /\ flow'[f] = [flow[f] EXCEPT !.routes = "changed"]
      BY <1>1, <2>1 DEF FlowType
    <3>2. /\ flow'[f].state = flow[f].state /\ flow'[f].device = flow[f].device
          /\ flow'[f].target = flow[f].target /\ flow'[f].protocol = flow[f].protocol
      BY <3>1 DEF FlowRecord
    <3> QED BY <2>1, <3>2 DEF TInv, FlowTyped
  <2> QED BY <1>1, <2>1, <2>2 DEF TInv
<1>4. ASSUME NEW f \in Flows, NEW protocol \in Protocols, NEW target \in Addrs,
             accept(f, protocol, target)
      PROVE  TInv'
  <2> DEFINE new == [state |-> "accepted", protocol |-> protocol, target |-> target,
                     device |-> None, routes |-> "same"]
  <2>1. /\ flow' = [flow EXCEPT ![f] = new] /\ took' = [took EXCEPT ![f] = {}]
        /\ UNCHANGED <<table, relay, v6>>
    BY <1>4 DEF accept
  <2>2. /\ flow'[f] = new /\ took'[f] = {}
        /\ \A g \in Flows \ {f} : flow'[g] = flow[g] /\ took'[g] = took[g]
    BY <1>1, <2>1 DEF LInv, FlowType
  <2>3. FlowTyped(f)'
    BY <2>2 DEF FlowTyped, Holding
  <2> QED BY <1>1, <2>1, <2>2, <2>3, TypedStep
<1>5. ASSUME NEW f \in Flows, check(f) PROVE TInv'
  <2>1. CASE Refuse(f)
    BY <1>1, <1>5, <2>1, TypedRefuse DEF check, Running
  <2>2. ASSUME NEW device \in egress(table, flow[f].target),
               flow' = [flow EXCEPT ![f].state = "approved", ![f].device = device,
                                    ![f].routes = "same"]
        PROVE  TInv'
    <3>1. device # None
      BY <1>1, EgressDevice, LocalnetAssumption DEF LInv
    <3>2. /\ \A g \in Flows \ {f} : flow'[g] = flow[g]
          /\ flow'[f].state = "approved" /\ flow'[f].device = device
      BY <1>1, <2>2 DEF FlowType, FlowRecord
    <3>3. took' = took /\ UNCHANGED <<table, relay, v6>>
      BY <1>5 DEF check
    <3>4. FlowTyped(f)'
      BY <3>1, <3>2, <3>3 DEF TInv, FlowTyped
    <3> QED BY <1>1, <3>2, <3>3, <3>4, TypedStep
  <2> QED BY <1>5, <2>1, <2>2 DEF check
<1>6. ASSUME NEW f \in Flows, connect(f) PROVE TInv'
  <2>1. CASE Takes(f) /\ Become(f, "relayed")
    BY <1>1, <1>6, <2>1, TypedMove DEF connect, Running, Holding
  <2>2. CASE Refuse(f) /\ UNCHANGED took
    BY <1>1, <1>6, <2>2, TypedRefuse DEF connect, Running
  <2> QED BY <1>6, <2>1, <2>2 DEF connect
<1>7. ASSUME NEW f \in Flows, shutdown(f) \/ finish(f) \/ abort(f) PROVE TInv'
  <2>1. PICK state \in {"hung", "closed"} : Become(f, state)
    BY <1>7 DEF shutdown, finish, abort
  <2>2. UNCHANGED <<table, relay, v6, took>> /\ flow[f].state # "none"
    BY <1>7 DEF shutdown, finish, abort, Running
  <2> QED BY <1>1, <2>1, <2>2, TypedMove
<1>8. ASSUME NEW f \in Flows, send(f) PROVE TInv'
  <2>1. Takes(f) /\ flow' = flow /\ UNCHANGED <<table, relay, v6>> /\ flow[f].state = "relayed"
    BY <1>8 DEF send, Running
  <2>2. /\ \A g \in Flows \ {f} : took'[g] = took[g]
        /\ took'[f] \subseteq
             [way : [device : Devices, beyond : BOOLEAN], routes : {"same", "changed"}]
    BY <2>1, TypedTakes DEF Holding
  <2>3. FlowTyped(f)'
    BY <2>1, <2>2 DEF TInv, FlowTyped
  <2> QED BY <1>1, <2>1, <2>2, <2>3, TypedStep
<1> QED BY <1>2, <1>3, <1>4, <1>5, <1>6, <1>7, <1>8 DEF Next, Task

LEMMA TInit == Init => TInv
<1> SUFFICES ASSUME Init PROVE TInv
  OBVIOUS
<1>1. ASSUME NEW f \in Flows PROVE FlowTyped(f)
  BY DEF Init, NoFlow, FlowTyped, Holding
<1> QED BY <1>1, LInit DEF Init, TInv

\* localnet.rs: a flow the stack has accepted is for an address, one that is approved or
\* relayed has its device, and only a TCP connection waits to be closed.
THEOREM LocalnetTypeCorrect == Spec => []TypeOK
<1>1. TInv => TypeOK
  <2> SUFFICES ASSUME TInv PROVE TypeOK
    OBVIOUS
  <2>1. ASSUME NEW f \in Flows PROVE (flow[f].target = None) = (flow[f].state = "none")
    BY LocalnetAssumption DEF TInv, LInv, FlowTyped, FlowOK
  <2> QED BY <2>1 DEF TInv, LInv, FlowType, FlowRecord, FlowTyped, TypeOK
<1> QED BY TInit, TNext, <1>1, PTL DEF Spec

Less == {pair \in Nat \X Nat : pair[1] < pair[2]}

\* Of prefixes, which are bounded, there is a longest.
LEMMA Longest ==
    ASSUME NEW S, S \subseteq 0..Bits, S # {}
    PROVE  \E longest \in S : \A n \in S : n <= longest
<1>1. IsWellFoundedOn(Less, Nat)
  BY NatLessThanWellFounded DEF OpToRel, Less
<1> DEFINE T == {Bits - n : n \in S}
<1>2. Bits \in Nat /\ T \subseteq Nat /\ T # {}
  BY LocalnetAssumption
<1>3. \E x \in T : \A y \in T : <<y, x>> \notin Less
  BY <1>1, <1>2, WFMin
<1>4. PICK x \in T : \A y \in T : ~(y < x)
  BY <1>2, <1>3 DEF Less
<1>5. PICK longest \in S : x = Bits - longest
  BY <1>4
<1>6. ASSUME NEW n \in S PROVE n <= longest
  <2>1. ~(Bits - n < Bits - longest)
    BY <1>4, <1>5
  <2>2. n \in Int /\ longest \in Int
    OBVIOUS
  <2> QED BY <1>2, <2>1, <2>2
<1> QED BY <1>6

\* README.md:253: an address that every route the kernel may pick leads straight to is
\* approved, for any routes and addresses: the relay picks among the kernel's routes.
THEOREM OwnNetworksReached == Spec => []LanReached
<1>1. TInv => LanReached
  <2> SUFFICES ASSUME TInv, NEW ip \in Addrs \ Special,
                      {route \in table : Covers(route, ip)} # {},
                      \A route \in {r \in table : Covers(r, ip)} :
                         \/ /\ route.gateway = None /\ ~route.reject
                            /\ route.prefix > 0 /\ route.device # Lo
                         \/ \E other \in {r \in table : Covers(r, ip)} :
                              other.prefix > route.prefix
               PROVE  egress(table, ip) # {}
    BY DEF LanReached
  <2> DEFINE covering == {route \in table : Covers(route, ip)}
  <2>1. \A route \in covering : route \in Routes /\ route.up /\ route.prefix \in 0..Bits
    BY LocalnetAssumption DEF TInv, LInv, Covers, Route
  <2>2. covering = {route \in routes(table) : contains(route, ip)}
    BY <2>1, ContainsCovers DEF TInv, LInv, Covers, routes
  <2>3. PICK longest \in covering : \A other \in covering : other.prefix <= longest.prefix
    <3> DEFINE S == {route.prefix : route \in covering}
    <3>1. S \subseteq 0..Bits /\ S # {}
      BY <2>1
    <3>2. PICK n \in S : \A m \in S : m <= n
      BY <3>1, Longest
    <3> QED BY <3>2
  <2>4. longest \in best(table, ip)
    BY <2>2, <2>3 DEF best
  <2>5. ASSUME NEW route \in best(table, ip) PROVE on_link(route)
    <3>1. route \in covering /\ \A other \in covering : other.prefix <= route.prefix
      BY <2>2 DEF best
    <3>2. ~\E other \in covering : other.prefix > route.prefix
      BY <2>1, <3>1
    <3> QED BY <3>1, <3>2 DEF on_link
  <2> QED BY <2>4, <2>5 DEF egress, is_unicast
<1> QED BY TInit, TNext, <1>1, PTL DEF Spec
=============================================================================
