------------------------------ MODULE Localnet ------------------------------
(***************************************************************************)
(* The LAN relay of src/src/localnet.rs.  A userspace stack turns what a   *)
(* container sends into its TUN device into flows, and a task per flow     *)
(* relays it through a socket of the host, if the host's routes lead       *)
(* straight onto one of its own networks.  The routes change at any time.  *)
(* The kernel's routing and the stack are external: the kernel picks the   *)
(* most specific route among those of the device a socket is bound to.     *)
(***************************************************************************)
EXTENDS Integers, FiniteSets

CONSTANTS
    Flows,      \* places for a flow
    Width,      \* Width[family]: the bits of an address, 32 and 128
    Bits,       \* the width of u128, and of the widest address
    Pow,        \* powers of two
    Addrs,      \* addresses, as records of a family and its bits
    Special,    \* those that are unspecified, broadcast or multicast
    Devices,    \* the interfaces of the host
    Lo,         \* the loopback one
    Routes,     \* the routes the host may have
    MaxRoutes,  \* bound on those it has at a time
    None        \* no gateway, no device

VARIABLES
    table,      \* the host's routes
    relay,      \* "down", "up", "ended" when accept() has failed, "gone" or "failed"
    v6,         \* whether the TUN device has its IPv6 address
    flow,       \* the flows and where their tasks are
    took        \* history: the ways a flow's packets have gone

vars == <<table, relay, v6, flow, took>>

Protocols == {"tcp", "udp"}
States == {"none", "accepted", "approved", "relayed", "refused", "hung", "closed"}
NoFlow == [state |-> "none", protocol |-> "tcp", target |-> None, device |-> None,
           routes |-> "same"]

Tables == {t \in SUBSET Routes : Cardinality(t) <= MaxRoutes}
Route ==
    [family : DOMAIN Width, net : Nat, prefix : 0..Bits, gateway : Addrs \cup {None},
     reject : BOOLEAN, device : Devices, up : BOOLEAN]

ASSUME LocalnetAssumption ==
    /\ Bits \in Nat \ {0}
    /\ Width \in [DOMAIN Width -> 1..Bits]
    /\ Pow \in [0..Bits -> Nat \ {0}]
    /\ \A n \in 1..Bits : Pow[n] = 2 * Pow[n - 1]
    /\ \A ip \in Addrs :
         /\ ip.family \in DOMAIN Width
         /\ ip.bits \in 0..(Pow[Width[ip.family]] - 1)
    /\ \A route \in Routes :
         /\ route \in Route
         /\ route.net \in 0..(Pow[Width[route.family]] - 1)
         /\ route.prefix <= Width[route.family]
    /\ Lo \in Devices
    /\ None \notin Devices /\ None \notin Addrs
-----------------------------------------------------------------------------
(* The check *)

\* checked_shr(): a shift of the whole width leaves nothing.
shr(n, count) == IF count < Bits THEN n \div Pow[count] ELSE 0

\* Mutant: one bit more is compared than the prefix has.
same_prefix_narrow(a, b, width, prefix) ==
    IF width = prefix THEN a = b ELSE shr(a, width - prefix - 1) = shr(b, width - prefix - 1)

same_prefix(a, b, width, prefix) == shr(a, width - prefix) = shr(b, width - prefix)

contains(route, ip) ==
    /\ route.family = ip.family
    /\ same_prefix(route.net, ip.bits, Width[ip.family], route.prefix)

on_link(route) ==
    /\ route.gateway = None /\ ~route.reject
    /\ route.prefix > 0
    /\ route.device # Lo

routes(t) == {route \in t : route.up}
is_unicast(ip) == ip \notin Special

\* The most specific of the routes to an address
best(t, ip) ==
    {route \in routes(t) :
        /\ contains(route, ip)
        /\ \A other \in routes(t) : contains(other, ip) => other.prefix <= route.prefix}

\* Mutant: one route without a gateway is enough.
egress_any(t, ip) ==
    IF is_unicast(ip) THEN {route.device : route \in {r \in best(t, ip) : on_link(r)}} ELSE {}

\* The device of the route listed first, whichever that is; none refuses the address.
egress(t, ip) ==
    IF is_unicast(ip) /\ \A route \in best(t, ip) : on_link(route)
    THEN {route.device : route \in best(t, ip)}
    ELSE {}
-----------------------------------------------------------------------------
(* The kernel *)

masked(n, count) == n - (n % Pow[count])

Covers(route, ip) ==
    /\ route.up /\ route.family = ip.family
    /\ masked(route.net, Width[ip.family] - route.prefix)
         = masked(ip.bits, Width[ip.family] - route.prefix)

Way(device, beyond) == [device |-> device, beyond |-> beyond]

\* Where a packet of a socket that may use the given devices can go, and whether that
\* is beyond the host's own networks.  An address no route of a bound device covers is
\* taken to be on its link; a rejecting route drops the packet.
Ways(t, ip, devices) ==
    LET usable == {route \in t : route.device \in devices /\ Covers(route, ip)}
        picked == {route \in usable : \A other \in usable : other.prefix <= route.prefix}
    IN  IF usable = {} THEN {Way(device, FALSE) : device \in devices}
        ELSE {Way(route.device, route.gateway # None \/ route.prefix = 0) :
                route \in {r \in picked : ~r.reject}}
-----------------------------------------------------------------------------
(* The relay *)

\* create_tun() in the helper and start(); IPv6 may be turned off.
start ==
    /\ relay = "down"
    /\ \/ relay' = "up" /\ v6' \in BOOLEAN
       \/ relay' = "failed" /\ UNCHANGED v6
    /\ UNCHANGED <<table, flow, took>>

\* The container begins a flow that the stack has accepted: relay() spawns its task.
accept(f, protocol, target) ==
    /\ relay = "up" /\ flow[f].state \in {"none", "closed", "hung"}
    /\ target.family = "v6" => v6
    /\ flow' = [flow EXCEPT ![f] =
                  [state |-> "accepted", protocol |-> protocol, target |-> target,
                   device |-> None, routes |-> "same"]]
    /\ took' = [took EXCEPT ![f] = {}]
    /\ UNCHANGED <<table, relay, v6>>

Running(f, state) == relay \in {"up", "ended"} /\ flow[f].state = state
Become(f, state) == flow' = [flow EXCEPT ![f].state = state]

\* Mutant: a UDP flow is refused like a TCP connection.
Refuse_either(f) == Become(f, "refused")

\* Mutant: a TCP connection is dropped like a UDP flow, which tells the container nothing.
Refuse_dropped(f) == Become(f, IF flow[f].protocol = "tcp" THEN "hung" ELSE "closed")

\* relay_tcp() has to close the connection yet; relay_udp() returns.
Refuse(f) == Become(f, IF flow[f].protocol = "tcp" THEN "refused" ELSE "closed")

\* egress(), on the routes as they are now
check(f) ==
    /\ Running(f, "accepted")
    /\ \/ egress(table, flow[f].target) = {} /\ Refuse(f)
       \/ \E device \in egress(table, flow[f].target) :
            flow' = [flow EXCEPT ![f].state = "approved", ![f].device = device,
                                 ![f].routes = "same"]
    /\ UNCHANGED <<table, relay, v6, took>>

\* Mutant: the socket is not bound to the device.
Unbound(f) == Devices

\* bind_device()
Bound(f) == {flow[f].device}

Takes(f) ==
    \E way \in Ways(table, flow[f].target, Bound(f)) :
        took' = [took EXCEPT ![f] = @ \cup {[way |-> way, routes |-> flow[f].routes]}]

\* connect(), after bind_device(): it is made, is refused or times out.
connect(f) ==
    /\ Running(f, "approved")
    /\ \/ Takes(f) /\ Become(f, "relayed")
       \/ Refuse(f) /\ UNCHANGED took
    /\ UNCHANGED <<table, relay, v6>>

\* The stack's own task sees to the end of the connection.
shutdown(f) ==
    /\ relay = "up" /\ flow[f].state = "refused"
    /\ Become(f, "closed")
    /\ UNCHANGED <<table, relay, v6, took>>

\* The kernel routes each packet of a relayed flow for itself.
send(f) ==
    /\ Running(f, "relayed")
    /\ Takes(f)
    /\ UNCHANGED <<table, relay, v6, flow>>

\* Either side ends the flow, or the stack's timeout does.  An error drops it, as
\* when the host's side is reset, which tells a container's connection nothing.
finish(f) ==
    /\ Running(f, "relayed")
    /\ \/ Become(f, "closed")
       \/ flow[f].protocol = "tcp" /\ Become(f, "hung")
    /\ UNCHANGED <<table, relay, v6, took>>

\* The host joins or leaves a network: a route is added, or one is deleted.
route_change(route) ==
    /\ table' \in {t \in {table \cup {route}, table \ {route}} : t \in Tables /\ t # table}
    /\ flow' = [f \in Flows |-> [flow[f] EXCEPT !.routes = "changed"]]
    /\ UNCHANGED <<relay, v6, took>>

\* accept() fails, as it does once the container is gone.
stack_ends ==
    /\ relay = "up"
    /\ relay' = "ended"
    /\ UNCHANGED <<table, v6, flow, took>>

\* Forwarder::drop does not wait for the tasks.
shutdown_background ==
    /\ relay \in {"up", "ended"}
    /\ relay' = "gone"
    /\ UNCHANGED <<table, v6, flow, took>>

\* A task still running when the runtime goes is dropped where it waits.
abort(f) ==
    /\ relay = "gone"
    /\ flow[f].state \in {"accepted", "approved", "relayed", "refused"}
    /\ Become(f, "closed")
    /\ UNCHANGED <<table, relay, v6, took>>
-----------------------------------------------------------------------------
Init ==
    /\ table \in Tables
    /\ relay = "down"
    /\ v6 = FALSE
    /\ flow = [f \in Flows |-> NoFlow]
    /\ took = [f \in Flows |-> {}]

Task(f) == check(f) \/ connect(f) \/ shutdown(f) \/ abort(f)

Next ==
    \/ start \/ stack_ends \/ shutdown_background
    \/ \E route \in Routes : route_change(route)
    \/ \E f \in Flows :
         \/ \E protocol \in Protocols, target \in Addrs : accept(f, protocol, target)
         \/ Task(f) \/ send(f) \/ finish(f)

Spec == Init /\ [][Next]_vars

\* The runtime runs every task that can go on, on threads of its own, and the kernel
\* gives up on a connection in the end.  Nothing else has to happen.
LiveSpec == Spec /\ \A f \in Flows : WF_vars(Task(f))
-----------------------------------------------------------------------------
Holding == {"approved", "relayed"}

TypeOK ==
    /\ table \in Tables
    /\ relay \in {"down", "up", "ended", "gone", "failed"}
    /\ v6 \in BOOLEAN
    /\ flow \in [Flows ->
         [state : States, protocol : Protocols, target : Addrs \cup {None},
          device : Devices \cup {None}, routes : {"same", "changed"}]]
    /\ \A f \in Flows :
         /\ took[f] \subseteq [way : [device : Devices, beyond : BOOLEAN], routes : {"same", "changed"}]
         /\ (flow[f].target = None) = (flow[f].state = "none")
         /\ flow[f].state \in Holding => flow[f].device # None
         /\ flow[f].state = "refused" => flow[f].protocol = "tcp"

\* localnet.rs:327, "Held to the interface the check approved": whatever becomes of
\* the routes while a flow is set up and relayed, none of its packets leaves by another.
HeldToDevice ==
    \A f \in Flows : \A t \in took[f] : t.way.device = flow[f].device

\* localnet.rs:22-24, "nothing travels past one": a flow goes to a gateway, or to where
\* a default route leads, only if the routes changed after its check.  That is so as
\* far as the kernel keeps to the one table the relay reads: with policy routing it
\* may take another table's route on the same interface (localnet.rs:206-208).
NothingPastGateway ==
    \A f \in Flows : \A t \in took[f] : t.way.beyond => t.routes = "changed"

\* README.md:253: an address that every route the kernel may pick leads straight to is
\* approved, on whichever of its networks the host has it.
LanReached ==
    \A ip \in Addrs \ Special :
        LET covering == {route \in table : Covers(route, ip)}
        IN  /\ covering # {}
            /\ \A route \in covering :
                 \/ route.gateway = None /\ ~route.reject /\ route.prefix > 0 /\ route.device # Lo
                 \/ \E other \in covering : other.prefix > route.prefix
            => egress(table, ip) # {}

\* localnet.rs:338, "Closing it at least ends it now": a connection the stack has
\* accepted is relayed or closed, and does not hang, while the relay is there.
TcpAnswered ==
    \A f \in Flows :
        flow[f].state = "accepted" /\ flow[f].protocol = "tcp"
          ~> flow[f].state \in {"relayed", "closed"} \/ relay # "up"
=============================================================================
