--------------------------- MODULE MCSwitchSessions ---------------------------
(* An instance of SwitchSessions: two requests on two switches of two ports, *)
(* with one thread for each request.                                         *)
EXTENDS SwitchSessions, TLC

CONSTANTS r1, r2, s1, s2, p1, p2, g, vlan1, vlan10, vlan100

\* The text "Access Mode VLAN: 10" is found in that of VLAN 100.
MCPrefixes == {<<vlan10, vlan100>>}

Order(kind, on, to) == [kind |-> kind, on |-> on, to |-> to]

MCOperations ==
    {Order("bounce", {p1, p2}, vlan1), Order("default", {p1}, vlan1),
     Order("set", {p1, p2}, vlan10), Order("set", {p1}, vlan100),
     Order("up", {p1}, vlan1), Order("down", {p2}, vlan1),
     Order("deploy", {}, vlan1), Order("save", {}, vlan1), Order("backup", {}, vlan1)}

Symmetric == Permutations({r1, r2}) \cup Permutations({s1, s2})
=============================================================================
