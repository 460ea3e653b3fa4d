--------------------------- MODULE BranchInventory ---------------------------
(***************************************************************************)
(* The Nautobot objects that make up the reservation of one branch, the     *)
(* orders in which the program visits them, and what a complete             *)
(* reservation is.                                                          *)
(*                                                                          *)
(* A resource is a pair <<kind, number>>: prefixes 1 and 2 are the LAN and  *)
(* the management loopback, prefix 2+t the overlay of tunnel t; IP address  *)
(* and endpoint 2t-1 are the Palo Alto side of tunnel t, 2t the FortiGate   *)
(* side.  An object of the inventory is a pair <<resource, stamp>>: the     *)
(* stamp stands for the id Nautobot gives every new object and is the       *)
(* deployment that created it, or Foreign for an object entered by hand.    *)
(* An endpoint holds the id of the IP address created just before it, a     *)
(* tunnel the ids of the endpoints created just before it, so references    *)
(* join objects of one stamp.                                               *)
(***************************************************************************)
EXTENDS Integers, Sequences, FiniteSets

CONSTANTS
    NumTunnels,     \* VPN tunnels per branch: 2 in the program
    Branches,       \* the branch ids that can be planned
    Attempts,       \* the deployments
    Foreign         \* the stamp of objects the program did not create

ASSUME InventoryAssumption ==
    /\ NumTunnels \in Nat \ {0}
    /\ Branches \subseteq Nat
    /\ Foreign \notin Attempts

Stamps == Attempts \cup {Foreign}

Numbered(kind, count) == {<<kind, n>> : n \in 1..count}

Prefixes   == Numbered("prefix", 2 + NumTunnels)
IPs        == Numbered("ip", 2 * NumTunnels)
Vpns       == Numbered("vpn", NumTunnels)
Endpoints  == Numbered("endpoint", 2 * NumTunnels)
TunnelObjs == Numbered("tunnel", NumTunnels)

\* What reserve creates: for two tunnels, sixteen objects.
Basic == Prefixes \cup IPs \cup Vpns \cup Endpoints \cup TunnelObjs

\* What enrich_reservation looks up or creates.
Policies == {<<"phase1", 1>>, <<"phase2", 1>>, <<"profile", 1>>}

Resources == Basic \cup Policies

Objects == Resources \X Stamps

\* Resources found by a natural key; endpoints have none and are matched by
\* the IP address they name.
LookedUp == Basic \ Endpoints

-----------------------------------------------------------------------------
(* References between resources.                                            *)

AddressOf(e)  == <<"ip", e[2]>>
EndpointsOf(u) == {<<"endpoint", 2 * u[2] - 1>>, <<"endpoint", 2 * u[2]>>}
VpnOf(u)      == <<"vpn", u[2]>>

\* The overlay a resource belongs to; 0 for the prefixes.
OverlayOf(o) == CASE o[1] = "prefix"            -> 0
                  [] o[1] \in {"ip", "endpoint"} -> (o[2] + 1) \div 2
                  [] OTHER                       -> o[2]

-----------------------------------------------------------------------------
(* The orders of the program's loops.                                       *)

Position(kinds, o) == CHOOSE k \in DOMAIN kinds : kinds[k] = o[1]

Ascending(kinds, o, p) ==
    \/ Position(kinds, o) < Position(kinds, p)
    \/ o[1] = p[1] /\ o[2] <= p[2]

Descending(kinds, o, p) ==
    \/ Position(kinds, o) < Position(kinds, p)
    \/ o[1] = p[1] /\ o[2] >= p[2]

LookupOrder == <<"prefix", "ip", "vpn", "tunnel">>
NextToLookUp(S) == {o \in S : \A p \in S : Ascending(LookupOrder, o, p)}

CreateOrder == <<"prefix", "ip", "vpn", "endpoint", "tunnel">>
NextToCreate(S) ==
    {o \in S : \A p \in S :
        \/ OverlayOf(o) < OverlayOf(p)
        \/ OverlayOf(o) = OverlayOf(p) /\ Ascending(CreateOrder, o, p)}

PolicyOrder == <<"phase1", "phase2", "profile">>
NextPolicy(S) == {o \in S : \A p \in S : Ascending(PolicyOrder, o, p)}

\* (Mutated form: addresses go before the endpoints that name them.)
AddressesFirst == <<"ip", "prefix", "tunnel", "endpoint", "vpn", "profile",
                    "phase2", "phase1">>

ReleaseOrder == <<"tunnel", "endpoint", "vpn", "profile", "phase2", "phase1",
                  "ip", "prefix">>
NextToRelease(S) == {o \in S : \A p \in S : Descending(ReleaseOrder, o, p)}

\* What creating o adds to the dictionary of created objects: a prefix itself,
\* the last object of an overlay the whole overlay, any other object nothing.
RecordedWith(o) ==
    CASE o[1] = "prefix" -> {o}
      [] o[1] = "tunnel" -> {p \in Basic : p[1] # "prefix"
                                        /\ OverlayOf(p) = OverlayOf(o)}
      [] OTHER           -> {}

-----------------------------------------------------------------------------
(* Reading an inventory inv, a set of objects.                              *)

Ids(inv, o) == {i \in Stamps : <<o, i>> \in inv}

Exists(inv, o) == Ids(inv, o) # {}

\* Endpoints whose source address is among the addresses in found.
MatchedEndpoints(inv, found) ==
    {q \in inv : q[1] \in Endpoints /\ <<AddressOf(q[1]), q[2]>> \in found}

\* Endpoints the tunnels in found refer to.
ReferencedEndpoints(found) ==
    UNION {EndpointsOf(q[1]) \X {q[2]} : q \in {r \in found : r[1] \in TunnelObjs}}

\* Every looked-up resource was found, and none belongs to someone else.
NothingMissing(found) ==
    \A o \in LookedUp : \E i \in Attempts : <<o, i>> \in found

\* (Mutated form: one endpoint a tunnel is enough.)
OneEndPerTunnel(matched, found) ==
    /\ Cardinality(matched) = NumTunnels
    /\ matched = ReferencedEndpoints(found)

\* The four endpoints are there and are the ones the tunnels name.
EndpointsAgree(matched, found) ==
    /\ Cardinality(matched) = 2 * NumTunnels
    /\ matched = ReferencedEndpoints(found)

\* The whole reservation of a branch is in the inventory.
Complete(inv) ==
    \A o \in Basic : \E i \in Attempts : <<o, i>> \in inv

\* A branch counts as taken when a prefix carries its name.
Taken(inv) == \E o \in Prefixes, i \in Attempts : <<o, i>> \in inv
=============================================================================
