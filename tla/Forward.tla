------------------------------ MODULE Forward ------------------------------
(***************************************************************************)
(* The loopback bridge of src/src/forward.rs: each run's forward_loop()    *)
(* scans its container and the host for listening ports and mirrors each   *)
(* side's services on the other.  Runs meet on the host, where they see    *)
(* each other's mirrors.  Services come and go, and take addresses that a  *)
(* mirror wanted, at any point of a scan.                                  *)
(***************************************************************************)
EXTENDS Naturals, FiniteSets

CONSTANTS
    Bridges,    \* the runs with `network = "localhost"` or `"localnet"`
    Ports,
    Tried,      \* the addresses of loopback_addrs(): 127.0.0.1 and ::1
    Other,      \* further loopback addresses, such as 127.0.0.2
    Host,       \* the host's network namespace; a run stands for its container's
    Refusals    \* the sets `refused` ranges over

Free == "free"
Service == "service"
Namespaces == Bridges \cup {Host}
Addrs == Tried \cup Other

ASSUME ForwardAssumption ==
    /\ Host \notin Bridges
    /\ Tried # {} /\ Tried \cap Other = {}
    /\ {Free, Service} \cap Bridges = {}
    /\ Refusals \subseteq SUBSET (Namespaces \X Ports)

VARIABLES
    listen,     \* who listens in a namespace on a port and address
    at,         \* where forward_loop() is, or "down"
    host,       \* the local `host` of rescan()
    container,  \* the local `container`
    wanted,     \* the mirrors rescan() is about to make: <<namespace, port>>
    refused     \* never changes: the <<namespace, port>> the kernel lets no mirror
                \* bind, such as ports below 1024 without privileges

vars == <<listen, at, host, container, wanted, refused>>
scanVars == <<at, host, container, wanted>>

Goto(b, label) == at' = [at EXCEPT ![b] = label]

\* The ports some address of a namespace is listened on by one of S
Heard(n, S) == {p \in Ports : \E a \in Addrs : listen[n][p][a] \in S}
\* The mirrors of a run: inbound ones listen on the host, outbound ones inside.
ours_host(b) == Heard(Host, {b})
ours_container(b) == Heard(b, {b})
\* listening_ports() reads /proc/net: wildcards and loopback addresses count.
listening_ports(n) == Heard(n, {Service} \cup Bridges)
-----------------------------------------------------------------------------
\* A service binds some addresses of a port, for which they have to be free.
service_starts(n, p, A) ==
    /\ n # Host => at[n] # "down"
    /\ A # {}
    /\ \A a \in Addrs : listen[n][p][a] # Service
    /\ \A a \in A : listen[n][p][a] = Free
    /\ listen' = [listen EXCEPT ![n][p] = [a \in Addrs |-> IF a \in A THEN Service ELSE @[a]]]
    /\ UNCHANGED scanVars

service_stops(n, p) ==
    /\ p \in Heard(n, {Service})
    /\ listen' = [listen EXCEPT ![n][p] = [a \in Addrs |-> IF @[a] = Service THEN Free ELSE @[a]]]
    /\ UNCHANGED scanVars

\* Forwarder::start
run_starts(b) ==
    /\ at[b] = "down"
    /\ Goto(b, "poll")
    /\ UNCHANGED <<listen, host, container, wanted>>

\* Mutant: the thread is not joined and keeps its mirrors on the host.
run_ends_unjoined(b) ==
    /\ at[b] # "down"
    /\ Goto(b, "down")
    /\ listen' = [listen EXCEPT ![b] = [p \in Ports |-> [a \in Addrs |-> Free]]]
    /\ host' = [host EXCEPT ![b] = {}]
    /\ container' = [container EXCEPT ![b] = {}]
    /\ wanted' = [wanted EXCEPT ![b] = {}]

\* Forwarder::drop and the end of the container close every socket of theirs.
run_ends(b) ==
    /\ at[b] # "down"
    /\ Goto(b, "down")
    /\ listen' = [n \in Namespaces |-> [p \in Ports |-> [a \in Addrs |->
                     IF n = b \/ listen[n][p][a] = b THEN Free ELSE listen[n][p][a]]]]
    /\ host' = [host EXCEPT ![b] = {}]
    /\ container' = [container EXCEPT ![b] = {}]
    /\ wanted' = [wanted EXCEPT ![b] = {}]
-----------------------------------------------------------------------------
(* rescan(), once per SCAN_INTERVAL *)

\* Mutant: the mirrors on the host count as services of the host.
scan_host_all(b) ==
    /\ at[b] = "poll"
    /\ host' = [host EXCEPT ![b] = listening_ports(Host)]
    /\ Goto(b, "scan")
    /\ UNCHANGED <<listen, container, wanted>>

scan_host(b) ==
    /\ at[b] = "poll"
    /\ host' = [host EXCEPT ![b] = listening_ports(Host) \ ours_host(b)]
    /\ Goto(b, "scan")
    /\ UNCHANGED <<listen, container, wanted>>

scan_container(b) ==
    /\ at[b] = "scan"
    /\ container' = [container EXCEPT ![b] = listening_ports(b) \ ours_container(b)]
    /\ Goto(b, "retain")
    /\ UNCHANGED <<listen, host, wanted>>

outbound(b) == host[b] \ container[b]
inbound(b) == container[b] \ host[b]

\* The mirrors of a scan that may stay in a namespace, and those yet to be made.
Kept(b, n) == IF n = Host THEN inbound(b) ELSE outbound(b)

\* Mutant: every service is mirrored, also one whose port both sides listen on.
Missing_both(b) ==
    ({b} \X (host[b] \ ours_container(b))) \cup ({Host} \X (container[b] \ ours_host(b)))

Missing(b) ==
    ({b} \X (outbound(b) \ ours_container(b))) \cup ({Host} \X (inbound(b) \ ours_host(b)))

\* Mutant: a mirror stays for as long as the run.
retain_all(b) ==
    /\ at[b] = "retain"
    /\ wanted' = [wanted EXCEPT ![b] = Missing(b)]
    /\ Goto(b, "bind")
    /\ UNCHANGED <<listen, host, container>>

retain(b) ==
    /\ at[b] = "retain"
    /\ listen' = [n \in Namespaces |-> [p \in Ports |-> [a \in Addrs |->
                     IF listen[n][p][a] = b /\ p \notin Kept(b, n)
                     THEN Free ELSE listen[n][p][a]]]]
    /\ wanted' = [wanted EXCEPT ![b] = Missing(b)]
    /\ Goto(b, "bind")
    /\ UNCHANGED <<host, container>>

\* listen_on(), here or in the helper: every address of the two that is free,
\* unless the bind is refused.  The requests to the helper come first.
listen_on(b) ==
    /\ at[b] = "bind"
    /\ \E m \in wanted[b] :
         /\ m[1] = Host => \A k \in wanted[b] : k[1] = Host
         /\ wanted' = [wanted EXCEPT ![b] = @ \ {m}]
         /\ listen' = [listen EXCEPT ![m[1]][m[2]] =
                          [a \in Addrs |-> IF a \in Tried /\ @[a] = Free /\ m \notin refused
                                          THEN b ELSE @[a]]]
    /\ UNCHANGED <<at, host, container>>

rescan_done(b) ==
    /\ at[b] = "bind"
    /\ wanted[b] = {}
    /\ Goto(b, "poll")
    /\ host' = [host EXCEPT ![b] = {}]
    /\ container' = [container EXCEPT ![b] = {}]
    /\ UNCHANGED <<listen, wanted>>

rescan(b) ==
    scan_host(b) \/ scan_container(b) \/ retain(b) \/ listen_on(b) \/ rescan_done(b)
-----------------------------------------------------------------------------
Init ==
    /\ listen = [n \in Namespaces |-> [p \in Ports |-> [a \in Addrs |-> Free]]]
    /\ at = [b \in Bridges |-> "down"]
    /\ host = [b \in Bridges |-> {}]
    /\ container = [b \in Bridges |-> {}]
    /\ wanted = [b \in Bridges |-> {}]
    /\ refused \in Refusals

Next ==
    /\ \/ \E n \in Namespaces, p \in Ports :
            service_stops(n, p) \/ \E A \in SUBSET Addrs : service_starts(n, p, A)
       \/ \E b \in Bridges : run_starts(b) \/ run_ends(b) \/ rescan(b)
    /\ UNCHANGED refused

Spec == Init /\ [][Next]_vars

\* The thread of a run is scheduled and scans by the clock.
FairSpec == Spec /\ \A b \in Bridges : WF_vars(rescan(b) /\ UNCHANGED refused)
-----------------------------------------------------------------------------
TypeOK ==
    /\ listen \in [Namespaces -> [Ports -> [Addrs -> Bridges \cup {Free, Service}]]]
    /\ at \in [Bridges -> {"down", "poll", "scan", "retain", "bind"}]
    /\ host \in [Bridges -> SUBSET Ports]
    /\ container \in [Bridges -> SUBSET Ports]
    /\ wanted \in [Bridges -> SUBSET (Namespaces \X Ports)]
    /\ refused \in Refusals
    /\ \A n \in Namespaces, b \in Bridges :
         Heard(n, {b}) # {} => n \in {Host, b} /\ at[b] # "down"

\* forward.rs:331-332, "or each side would look to the other like it hosts the
\* other's services": no port is mirrored both ways by a run at any moment, so a
\* connection never goes round from one mirror to the other.
NoLoop == \A b \in Bridges : ours_host(b) \cap ours_container(b) = {}

\* A service of a container becomes reachable at a loopback address of the host
\* and stays so, as long as nothing else on the host wants the port and the run
\* may bind it;
ContainerReachable ==
    \A b \in Bridges, p \in Ports :
        <>[](/\ <<Host, p>> \notin refused
             /\ \E a \in Tried : listen[b][p][a] = Service
             /\ \A a \in Addrs : listen[Host][p][a] \in {Free, b})
        => <>[](p \in ours_host(b))

\* and likewise a service of the host, or what another run mirrors there, inside.
HostReachable ==
    \A b \in Bridges, p \in Ports :
        <>[](/\ at[b] # "down" /\ <<b, p>> \notin refused
             /\ \E a \in Tried : listen[Host][p][a] \in (Bridges \ {b}) \cup {Service}
             /\ \A a \in Addrs : listen[b][p][a] \in {Free, b})
        => <>[](p \in ours_container(b))

\* README.md: the bridge takes each side to the other's services, whatever binds have
\* failed before and whichever scan a port was missing from.
Reachable == ContainerReachable /\ HostReachable

\* Once the last service of a port has gone its mirrors go too: those of several
\* runs never keep each other.
MirrorsGo ==
    \A p \in Ports :
        <>[](\A n \in Namespaces : p \notin Heard(n, {Service}))
        => <>[](\A n \in Namespaces : p \notin Heard(n, Bridges))
-----------------------------------------------------------------------------
(* The inductive invariant of the proofs *)

\* While it binds, a run's mirrors are those its scan called for.
ScanOK(b) ==
    at[b] = "bind" =>
        /\ ours_host(b) \subseteq inbound(b)
        /\ ours_container(b) \subseteq outbound(b)
        /\ wanted[b] \subseteq ({b} \X outbound(b)) \cup ({Host} \X inbound(b))

IInv == TypeOK /\ NoLoop /\ \A b \in Bridges : ScanOK(b)
=============================================================================
