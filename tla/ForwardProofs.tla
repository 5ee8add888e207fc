--------------------------- MODULE ForwardProofs ---------------------------
(***************************************************************************)
(* The loopback bridge mirrors no port both ways, whatever the number of   *)
(* runs, ports and loopback addresses and however their scans and the      *)
(* services they look at interleave.                                       *)
(***************************************************************************)
EXTENDS Forward, TLAPS

\* A namespace is the host's or a container's.
LEMMA NamespaceTypes == Host \in Namespaces /\ Bridges \subseteq Namespaces
  BY DEF Namespaces

\* What a scan calls for is made of the ports it read, and never both ways.
LEMMA ScanTypes ==
    ASSUME TypeOK, NEW b \in Bridges
    PROVE  /\ outbound(b) \subseteq Ports /\ inbound(b) \subseteq Ports
           /\ outbound(b) \cap inbound(b) = {}
           /\ Missing(b) \subseteq ({b} \X outbound(b)) \cup ({Host} \X inbound(b))
           /\ Missing(b) \subseteq Namespaces \X Ports
  <1>1. host[b] \subseteq Ports /\ container[b] \subseteq Ports
    BY DEF TypeOK
  <1>2. outbound(b) \subseteq Ports /\ inbound(b) \subseteq Ports
    BY <1>1 DEF outbound, inbound
  <1>3. outbound(b) \cap inbound(b) = {}
    BY DEF outbound, inbound
  <1>4. Missing(b) \subseteq ({b} \X outbound(b)) \cup ({Host} \X inbound(b))
    BY DEF Missing
  <1>5. Missing(b) \subseteq Namespaces \X Ports
    BY <1>2, <1>4, NamespaceTypes
  <1> QED BY <1>2, <1>3, <1>4, <1>5

\* A step that gives no run a new mirror, in terms of what listens.
Fewer == \A n \in Namespaces, c \in Bridges, p \in Ports, a \in Addrs :
            listen'[n][p][a] = c => listen[n][p][a] = c

LEMMA HeardFewer ==
    ASSUME Fewer, NEW n \in Namespaces, NEW c \in Bridges
    PROVE  Heard(n, {c})' \subseteq Heard(n, {c})
  BY DEF Fewer, Heard

\* Such a step closes no circle.
LEMMA FewerNoLoop ==
    ASSUME Fewer, NoLoop
    PROVE  NoLoop'
  <1> SUFFICES ASSUME NEW c \in Bridges
               PROVE  (ours_host(c) \cap ours_container(c) = {})'
    BY DEF NoLoop
  <1>1. ours_host(c)' \subseteq ours_host(c)
    BY HeardFewer, NamespaceTypes DEF ours_host
  <1>2. ours_container(c)' \subseteq ours_container(c)
    BY HeardFewer, NamespaceTypes DEF ours_container
  <1>3. ours_host(c) \cap ours_container(c) = {}
    BY DEF NoLoop
  <1> QED BY <1>1, <1>2, <1>3

\* Nor does it disturb a run that is not moving.
LEMMA FewerScanOK ==
    ASSUME Fewer, NEW c \in Bridges, ScanOK(c),
           at'[c] = at[c], host'[c] = host[c], container'[c] = container[c],
           wanted'[c] = wanted[c]
    PROVE  ScanOK(c)'
  <1>1. ours_host(c)' \subseteq ours_host(c)
    BY HeardFewer, NamespaceTypes DEF ours_host
  <1>2. ours_container(c)' \subseteq ours_container(c)
    BY HeardFewer, NamespaceTypes DEF ours_container
  <1>3. outbound(c)' = outbound(c) /\ inbound(c)' = inbound(c)
    BY DEF outbound, inbound
  <1> QED BY <1>1, <1>2, <1>3 DEF ScanOK

-----------------------------------------------------------------------------
(* Every step keeps the type and what a scan has found out *)

\* The conjuncts of TypeOK.
ListenOK == listen \in [Namespaces -> [Ports -> [Addrs -> Bridges \cup {Free, Service}]]]
ScanTypeOK ==
    /\ at \in [Bridges -> {"down", "poll", "scan", "retain", "bind"}]
    /\ host \in [Bridges -> SUBSET Ports]
    /\ container \in [Bridges -> SUBSET Ports]
    /\ wanted \in [Bridges -> SUBSET (Namespaces \X Ports)]
    /\ refused \in Refusals
PlaceOK == \A n \in Namespaces, b \in Bridges :
              Heard(n, {b}) # {} => n \in {Host, b} /\ at[b] # "down"

LEMMA TypeParts == TypeOK <=> ListenOK /\ ScanTypeOK /\ PlaceOK
  BY DEF TypeOK, ListenOK, ScanTypeOK, PlaceOK

\* A step without new mirrors that ends no run leaves the mirrors in place.
LEMMA FewerPlaceOK ==
    ASSUME Fewer, PlaceOK, \A c \in Bridges : at[c] # "down" => at'[c] # "down"
    PROVE  PlaceOK'
  <1> SUFFICES ASSUME NEW n \in Namespaces, NEW c \in Bridges, Heard(n, {c})' # {}
               PROVE  n \in {Host, c} /\ at'[c] # "down"
    BY DEF PlaceOK
  <1>1. Heard(n, {c}) # {}
    BY HeardFewer
  <1> QED BY <1>1 DEF PlaceOK

\* A step of a service, which neither takes nor touches a mirror's address.
LEMMA ServiceStep ==
    ASSUME IInv, UNCHANGED refused, Fewer, ListenOK', UNCHANGED scanVars
    PROVE  IInv'
  <1>1. ListenOK /\ ScanTypeOK /\ PlaceOK
    BY TypeParts DEF IInv
  <1>2. UNCHANGED <<at, host, container, wanted>>
    BY DEF scanVars
  <1>3. ScanTypeOK'
    BY <1>1, <1>2 DEF ScanTypeOK
  <1>4. PlaceOK'
    BY <1>1, <1>2, FewerPlaceOK
  <1>5. TypeOK'
    BY <1>3, <1>4 DEF TypeOK, ListenOK, ScanTypeOK, PlaceOK
  <1>6. NoLoop'
    BY FewerNoLoop DEF IInv
  <1>7. \A c \in Bridges : ScanOK(c)'
    BY <1>2, FewerScanOK DEF IInv
  <1> QED BY <1>5, <1>6, <1>7 DEF IInv

\* A service that starts takes free addresses, never a mirror's.
LEMMA ServiceStarts ==
    ASSUME IInv, UNCHANGED refused, NEW n \in Namespaces, NEW p \in Ports, NEW A \in SUBSET Addrs,
           service_starts(n, p, A)
    PROVE  IInv'
  <1>1. ListenOK
    BY TypeParts DEF IInv
  <1>2. ListenOK' /\ Fewer
    BY <1>1, ForwardAssumption DEF service_starts, ListenOK, Fewer
  <1>3. UNCHANGED scanVars
    BY DEF service_starts
  <1> QED BY <1>2, <1>3, ServiceStep

\* A service that stops takes no mirror with it.
LEMMA ServiceStops ==
    ASSUME IInv, UNCHANGED refused, NEW n \in Namespaces, NEW p \in Ports, service_stops(n, p)
    PROVE  IInv'
  <1>1. ListenOK
    BY TypeParts DEF IInv
  <1>2. ListenOK' /\ Fewer
    BY <1>1, ForwardAssumption DEF service_stops, ListenOK, Fewer
  <1>3. UNCHANGED scanVars
    BY DEF service_stops
  <1> QED BY <1>2, <1>3, ServiceStep

\* The moves of one run: its scan's results change, mirrors only go.
LEMMA RunStep ==
    ASSUME IInv, NEW b \in Bridges, Fewer, ListenOK', ScanTypeOK', PlaceOK', ScanOK(b)',
           \A c \in Bridges \ {b} :
              /\ at'[c] = at[c] /\ host'[c] = host[c]
              /\ container'[c] = container[c] /\ wanted'[c] = wanted[c]
    PROVE  IInv'
  <1>1. TypeOK'
    BY DEF TypeOK, ListenOK, ScanTypeOK, PlaceOK
  <1>2. NoLoop'
    BY FewerNoLoop DEF IInv
  <1>3. \A c \in Bridges : ScanOK(c)'
    BY FewerScanOK DEF IInv
  <1> QED BY <1>1, <1>2, <1>3 DEF IInv

\* A run starts without a mirror.
LEMMA RunStarts ==
    ASSUME IInv, UNCHANGED refused, NEW b \in Bridges, run_starts(b)
    PROVE  IInv'
  <1>1. ListenOK /\ ScanTypeOK /\ PlaceOK
    BY TypeParts DEF IInv
  <1>2. Fewer /\ ListenOK'
    BY <1>1 DEF run_starts, Fewer, ListenOK
  <1>3. ScanTypeOK' /\ at'[b] = "poll"
    BY <1>1 DEF run_starts, Goto, ScanTypeOK
  <1>4. \A c \in Bridges : at[c] # "down" => at'[c] # "down"
    BY <1>1 DEF run_starts, Goto, ScanTypeOK
  <1>5. PlaceOK'
    BY <1>1, <1>2, <1>4, FewerPlaceOK
  <1>6. ScanOK(b)'
    BY <1>3 DEF ScanOK
  <1>7. \A c \in Bridges \ {b} :
           /\ at'[c] = at[c] /\ host'[c] = host[c]
           /\ container'[c] = container[c] /\ wanted'[c] = wanted[c]
    BY <1>1 DEF run_starts, Goto, ScanTypeOK
  <1> QED BY <1>2, <1>3, <1>5, <1>6, <1>7, RunStep

\* A run that ends takes all of its mirrors with it, and its container's sockets.
LEMMA RunEnds ==
    ASSUME IInv, UNCHANGED refused, NEW b \in Bridges, run_ends(b)
    PROVE  IInv'
  <1>1. ListenOK /\ ScanTypeOK /\ PlaceOK
    BY TypeParts DEF IInv
  <1>2. Fewer /\ ListenOK'
    BY <1>1, ForwardAssumption DEF run_ends, Fewer, ListenOK
  <1>3. ScanTypeOK' /\ at'[b] = "down"
    BY <1>1 DEF run_ends, Goto, ScanTypeOK
  <1>4. \A n \in Namespaces, p \in Ports, a \in Addrs : listen'[n][p][a] # b
    BY <1>1, ForwardAssumption DEF run_ends
  <1>5. \A c \in Bridges \ {b} : at'[c] = at[c]
    BY <1>1 DEF run_ends, Goto, ScanTypeOK
  <1>6. PlaceOK'
    <2> SUFFICES ASSUME NEW n \in Namespaces, NEW c \in Bridges, Heard(n, {c})' # {}
                 PROVE  n \in {Host, c} /\ at'[c] # "down"
      BY DEF PlaceOK
    <2>1. c # b
      BY <1>4 DEF Heard
    <2>2. Heard(n, {c}) # {}
      BY <1>2, HeardFewer
    <2> QED BY <1>1, <1>5, <2>1, <2>2 DEF PlaceOK
  <1>7. ScanOK(b)'
    BY <1>3 DEF ScanOK
  <1>8. \A c \in Bridges \ {b} :
           /\ at'[c] = at[c] /\ host'[c] = host[c]
           /\ container'[c] = container[c] /\ wanted'[c] = wanted[c]
    BY <1>1, <1>5 DEF run_ends, ScanTypeOK
  <1> QED BY <1>2, <1>3, <1>6, <1>7, <1>8, RunStep

\* Reading the tables of listening sockets changes no mirror.
LEMMA Scan ==
    ASSUME IInv, UNCHANGED refused, NEW b \in Bridges, scan_host(b) \/ scan_container(b)
    PROVE  IInv'
  <1>1. ListenOK /\ ScanTypeOK /\ PlaceOK
    BY TypeParts DEF IInv
  <1>2. Fewer /\ ListenOK'
    BY <1>1 DEF scan_host, scan_container, Fewer, ListenOK
  <1>3. \A S : \A n \in Namespaces : Heard(n, S) \subseteq Ports
    BY DEF Heard
  <1>4. listening_ports(Host) \subseteq Ports /\ listening_ports(b) \subseteq Ports
    BY <1>3, NamespaceTypes DEF listening_ports
  <1>5. ScanTypeOK' /\ at'[b] \in {"scan", "retain"}
    BY <1>1, <1>4 DEF scan_host, scan_container, Goto, ScanTypeOK
  <1>6. \A c \in Bridges : at[c] # "down" => at'[c] # "down"
    BY <1>1 DEF scan_host, scan_container, Goto, ScanTypeOK
  <1>7. PlaceOK'
    BY <1>1, <1>2, <1>6, FewerPlaceOK
  <1>8. ScanOK(b)'
    BY <1>5 DEF ScanOK
  <1>9. \A c \in Bridges \ {b} :
           /\ at'[c] = at[c] /\ host'[c] = host[c]
           /\ container'[c] = container[c] /\ wanted'[c] = wanted[c]
    BY <1>1 DEF scan_host, scan_container, Goto, ScanTypeOK
  <1> QED BY <1>2, <1>5, <1>7, <1>8, <1>9, RunStep

\* The mirrors that stay are those the scan calls for.
LEMMA Retain ==
    ASSUME IInv, UNCHANGED refused, NEW b \in Bridges, retain(b)
    PROVE  IInv'
  <1>1. ListenOK /\ ScanTypeOK /\ PlaceOK /\ TypeOK
    BY TypeParts DEF IInv
  <1>2. Fewer /\ ListenOK'
    BY <1>1, ForwardAssumption DEF retain, Fewer, ListenOK
  <1>3. /\ wanted' = [wanted EXCEPT ![b] = Missing(b)]
        /\ at' = [at EXCEPT ![b] = "bind"]
        /\ UNCHANGED <<host, container>>
    BY DEF retain, Goto
  <1>4. ScanTypeOK' /\ at'[b] = "bind"
    BY <1>1, <1>3, ScanTypes DEF ScanTypeOK
  <1>5. \A c \in Bridges : at[c] # "down" => at'[c] # "down"
    BY <1>1, <1>3 DEF ScanTypeOK
  <1>6. PlaceOK'
    BY <1>1, <1>2, <1>5, FewerPlaceOK
  <1>7. ScanOK(b)'
    <2>1. inbound(b)' = inbound(b) /\ outbound(b)' = outbound(b)
      BY <1>3 DEF inbound, outbound
    <2>2. \A n \in Namespaces : Heard(n, {b})' \subseteq Kept(b, n)
      <3> SUFFICES ASSUME NEW n \in Namespaces, NEW p \in Ports, NEW a \in Addrs,
                          listen'[n][p][a] = b
                   PROVE  p \in Kept(b, n)
        BY DEF Heard
      <3>1. listen'[n][p][a] = IF listen[n][p][a] = b /\ p \notin Kept(b, n)
                               THEN Free ELSE listen[n][p][a]
        BY DEF retain
      <3> QED BY <3>1, ForwardAssumption
    <2>3. ours_host(b)' \subseteq inbound(b)
      BY <2>2, NamespaceTypes DEF ours_host, Kept
    <2>4. ours_container(b)' \subseteq outbound(b)
      BY <2>2, NamespaceTypes, ForwardAssumption DEF ours_container, Kept
    <2>5. wanted'[b] \subseteq ({b} \X outbound(b)) \cup ({Host} \X inbound(b))
      BY <1>1, <1>3, ScanTypes DEF ScanTypeOK
    <2> QED BY <2>1, <2>3, <2>4, <2>5 DEF ScanOK
  <1>8. \A c \in Bridges \ {b} :
           /\ at'[c] = at[c] /\ host'[c] = host[c]
           /\ container'[c] = container[c] /\ wanted'[c] = wanted[c]
    BY <1>1, <1>3 DEF ScanTypeOK
  <1> QED BY <1>2, <1>4, <1>6, <1>7, <1>8, RunStep

\* The end of a scan forgets what it read.
LEMMA RescanDone ==
    ASSUME IInv, UNCHANGED refused, NEW b \in Bridges, rescan_done(b)
    PROVE  IInv'
  <1>1. ListenOK /\ ScanTypeOK /\ PlaceOK
    BY TypeParts DEF IInv
  <1>2. Fewer /\ ListenOK'
    BY <1>1 DEF rescan_done, Fewer, ListenOK
  <1>3. ScanTypeOK' /\ at'[b] = "poll"
    BY <1>1 DEF rescan_done, Goto, ScanTypeOK
  <1>4. \A c \in Bridges : at[c] # "down" => at'[c] # "down"
    BY <1>1 DEF rescan_done, Goto, ScanTypeOK
  <1>5. PlaceOK'
    BY <1>1, <1>2, <1>4, FewerPlaceOK
  <1>6. ScanOK(b)'
    BY <1>3 DEF ScanOK
  <1>7. \A c \in Bridges \ {b} :
           /\ at'[c] = at[c] /\ host'[c] = host[c]
           /\ container'[c] = container[c] /\ wanted'[c] = wanted[c]
    BY <1>1 DEF rescan_done, Goto, ScanTypeOK
  <1> QED BY <1>2, <1>3, <1>5, <1>6, <1>7, RunStep

\* A new mirror is one that the scan called for, so that its port is not
\* mirrored the other way.
LEMMA ListenOn ==
    ASSUME IInv, UNCHANGED refused, NEW b \in Bridges, listen_on(b)
    PROVE  IInv'
  <1>1. ListenOK /\ ScanTypeOK /\ PlaceOK /\ TypeOK
    BY TypeParts DEF IInv
  <1>2. at[b] = "bind" /\ UNCHANGED <<at, host, container>>
    BY DEF listen_on
  <1>3. PICK m \in wanted[b] :
           /\ wanted' = [wanted EXCEPT ![b] = @ \ {m}]
           /\ listen' = [listen EXCEPT ![m[1]][m[2]] =
                            [a \in Addrs |-> IF a \in Tried /\ @[a] = Free /\ m \notin refused
                                            THEN b ELSE @[a]]]
    BY DEF listen_on
  <1>4. m \in ({b} \X outbound(b)) \cup ({Host} \X inbound(b))
    BY <1>2 DEF IInv, ScanOK
  <1>5. m[1] \in Namespaces /\ m[2] \in Ports
    BY <1>4, <1>1, ScanTypes, NamespaceTypes
  <1>6. ListenOK'
    BY <1>1, <1>3, <1>5 DEF ListenOK
  <1>7. ScanTypeOK'
    BY <1>1, <1>2, <1>3 DEF ScanTypeOK
  <1>8. \A n \in Namespaces, c \in Bridges :
           /\ c # b => Heard(n, {c})' \subseteq Heard(n, {c})
           /\ n # m[1] => Heard(n, {c})' \subseteq Heard(n, {c})
           /\ Heard(n, {c})' \subseteq Heard(n, {c}) \cup {m[2]}
    <2> SUFFICES ASSUME NEW n \in Namespaces, NEW c \in Bridges, NEW p \in Ports,
                        NEW a \in Addrs, listen'[n][p][a] = c
                 PROVE  \/ listen[n][p][a] = c
                        \/ c = b /\ n = m[1] /\ p = m[2]
      BY DEF Heard
    <2>1. CASE n = m[1] /\ p = m[2]
      BY <1>1, <1>3, <2>1, ForwardAssumption DEF ListenOK
    <2>2. CASE ~(n = m[1] /\ p = m[2])
      BY <1>1, <1>3, <1>5, <2>2 DEF ListenOK
    <2> QED BY <2>1, <2>2
  <1>9. PlaceOK'
    <2> SUFFICES ASSUME NEW n \in Namespaces, NEW c \in Bridges, Heard(n, {c})' # {}
                 PROVE  n \in {Host, c} /\ at'[c] # "down"
      BY DEF PlaceOK
    <2>1. CASE Heard(n, {c}) # {}
      BY <1>1, <1>2, <2>1 DEF PlaceOK
    <2>2. CASE Heard(n, {c}) = {}
      <3>1. c = b /\ n = m[1]
        BY <1>8, <2>2
      <3> QED BY <1>2, <1>4, <3>1
    <2> QED BY <2>1, <2>2
  <1>10. \A c \in Bridges : inbound(c)' = inbound(c) /\ outbound(c)' = outbound(c)
    BY <1>2 DEF inbound, outbound
  <1>11. ScanOK(b)'
    <2>1. /\ ours_host(b) \subseteq inbound(b)
          /\ ours_container(b) \subseteq outbound(b)
          /\ wanted[b] \subseteq ({b} \X outbound(b)) \cup ({Host} \X inbound(b))
      BY <1>2 DEF IInv, ScanOK
    <2>2. ours_host(b)' \subseteq inbound(b)
      <3>1. CASE m[1] = Host
        <4>1. m[2] \in inbound(b)
          BY <1>4, <3>1, ForwardAssumption
        <4> QED BY <1>8, <2>1, <4>1, NamespaceTypes DEF ours_host
      <3>2. CASE m[1] # Host
        BY <1>8, <2>1, <3>2, NamespaceTypes DEF ours_host
      <3> QED BY <3>1, <3>2
    <2>3. ours_container(b)' \subseteq outbound(b)
      <3>1. CASE m[1] = b
        <4>1. m[2] \in outbound(b)
          BY <1>4, <3>1, ForwardAssumption
        <4> QED BY <1>8, <2>1, <4>1, NamespaceTypes DEF ours_container
      <3>2. CASE m[1] # b
        BY <1>8, <2>1, <3>2, NamespaceTypes DEF ours_container
      <3> QED BY <3>1, <3>2
    <2>4. wanted'[b] \subseteq wanted[b]
      BY <1>1, <1>3 DEF ScanTypeOK
    <2> QED BY <1>10, <2>1, <2>2, <2>3, <2>4 DEF ScanOK
  <1>12. \A c \in Bridges : ScanOK(c)'
    <2> SUFFICES ASSUME NEW c \in Bridges, c # b
                 PROVE  ScanOK(c)'
      BY <1>11
    <2>1. ours_host(c)' \subseteq ours_host(c) /\ ours_container(c)' \subseteq ours_container(c)
      BY <1>8, NamespaceTypes DEF ours_host, ours_container
    <2>2. at'[c] = at[c] /\ wanted'[c] = wanted[c]
      BY <1>1, <1>2, <1>3 DEF ScanTypeOK
    <2>3. ScanOK(c)
      BY DEF IInv
    <2> QED BY <1>10, <2>1, <2>2, <2>3 DEF ScanOK
  <1>13. NoLoop'
    <2> SUFFICES ASSUME NEW c \in Bridges
                 PROVE  (ours_host(c) \cap ours_container(c) = {})'
      BY DEF NoLoop
    <2>1. CASE c = b
      <3>1. ours_host(b)' \subseteq inbound(b)' /\ ours_container(b)' \subseteq outbound(b)'
        BY <1>2, <1>11 DEF ScanOK
      <3> QED BY <1>1, <1>10, <2>1, <3>1, ScanTypes
    <2>2. CASE c # b
      <3>1. ours_host(c)' \subseteq ours_host(c) /\ ours_container(c)' \subseteq ours_container(c)
        BY <1>8, <2>2, NamespaceTypes DEF ours_host, ours_container
      <3>2. ours_host(c) \cap ours_container(c) = {}
        BY DEF IInv, NoLoop
      <3> QED BY <3>1, <3>2
    <2> QED BY <2>1, <2>2
  <1>14. TypeOK'
    BY <1>6, <1>7, <1>9 DEF TypeOK, ListenOK, ScanTypeOK, PlaceOK
  <1> QED BY <1>12, <1>13, <1>14 DEF IInv

-----------------------------------------------------------------------------
(* The theorems *)

\* Nothing listens and nobody scans before the first run.
LEMMA InitIInv ==
    ASSUME Init
    PROVE  IInv
  <1>1. \A n \in Namespaces, c \in Bridges : Heard(n, {c}) = {}
    BY ForwardAssumption DEF Init, Heard
  <1>2. TypeOK
    BY <1>1 DEF Init, TypeOK
  <1>3. NoLoop
    BY <1>1, NamespaceTypes DEF NoLoop, ours_host
  <1>4. \A c \in Bridges : ScanOK(c)
    BY DEF Init, ScanOK
  <1> QED BY <1>2, <1>3, <1>4 DEF IInv

\* Whatever runs and services do, scan by scan, the mirrors are those that the
\* scan in progress called for, and never both ways.
THEOREM Inductive == Spec => []IInv
  <1>1. IInv /\ [Next]_vars => IInv'
    <2> SUFFICES ASSUME IInv, [Next]_vars
                 PROVE  IInv'
      OBVIOUS
    <2>0. UNCHANGED refused
      BY DEF Next, vars
    <2>1. ASSUME NEW n \in Namespaces, NEW p \in Ports, service_stops(n, p)
          PROVE  IInv'
      BY <2>0, <2>1, ServiceStops
    <2>2. ASSUME NEW n \in Namespaces, NEW p \in Ports, NEW A \in SUBSET Addrs,
                 service_starts(n, p, A)
          PROVE  IInv'
      BY <2>0, <2>2, ServiceStarts
    <2>3. ASSUME NEW b \in Bridges, run_starts(b) \/ run_ends(b) \/ rescan(b)
          PROVE  IInv'
      BY <2>0, <2>3, RunStarts, RunEnds, Scan, Retain, ListenOn, RescanDone DEF rescan
    <2>4. CASE UNCHANGED vars
      <3>1. UNCHANGED <<listen, scanVars, refused>>
        BY <2>4 DEF vars, scanVars
      <3>2. Fewer /\ ListenOK'
        BY <3>1, TypeParts DEF IInv, Fewer, ListenOK
      <3> QED BY <3>1, <3>2, ServiceStep
    <2> QED BY <2>1, <2>2, <2>3, <2>4 DEF Next
  <1> QED BY InitIInv, <1>1, PTL DEF Spec

\* The state keeps its type, and a mirror is where its run may put one.
THEOREM TypeCorrect == Spec => []TypeOK
  <1>1. IInv => TypeOK
    BY DEF IInv
  <1> QED BY Inductive, <1>1, PTL

\* forward.rs:331-332: for any number of runs and ports, no run ever mirrors a
\* port both ways, whatever services do between its scans and its binds.
THEOREM NeverLoops == Spec => []NoLoop
  <1>1. IInv => NoLoop
    BY DEF IInv
  <1> QED BY Inductive, <1>1, PTL
=============================================================================
