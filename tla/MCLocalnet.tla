----------------------------- MODULE MCLocalnet -----------------------------
(***************************************************************************)
(* Localnet for TLC: IPv4 addresses of two bits and IPv6 ones of three, so *)
(* that a default route shifts a whole width out of one family and not of  *)
(* the other.  The host has any three of these routes at a time.           *)
(***************************************************************************)
EXTENDS Localnet

MCPow == [n \in 0..3 |-> 2^n]
MCWidth == [v4 |-> 2, v6 |-> 3]
V4(bits) == [family |-> "v4", bits |-> bits]
V6(bits) == [family |-> "v6", bits |-> bits]
MCAddrs == {V4(n) : n \in 0..3} \cup {V6(n) : n \in {1, 3, 4, 5, 7}}
MCSpecial == {V4(0), V4(3), V6(7)}

Link(ip, prefix, device) ==
    [family |-> ip.family, net |-> ip.bits, prefix |-> prefix, gateway |-> None,
     reject |-> FALSE, device |-> device, up |-> TRUE]
Via(ip, prefix, device, gateway) == [Link(ip, prefix, device) EXCEPT !.gateway = gateway]

MCRoutes ==
    {Link(V4(0), 1, "eth"), Link(V4(0), 1, "wifi"), Link(V4(2), 2, "wifi"),
     Via(V4(0), 0, "eth", V4(1)), Via(V4(2), 2, "wifi", V4(1)),
     Link(V6(4), 1, "eth"), Link(V6(5), 3, "lo"), Via(V6(0), 0, "eth", V6(5)),
     Link(V6(0), 0, "wifi"),
     [Link(V6(4), 2, "eth") EXCEPT !.reject = TRUE],
     [Link(V4(1), 2, "eth") EXCEPT !.up = FALSE]}
=============================================================================
