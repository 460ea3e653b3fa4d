--------------------------- MODULE DeviceInventory ---------------------------
(***************************************************************************)
(* What a persistent device registry promises: every device it knows has an *)
(* id of its own, a host is known under one id at most, restarts change     *)
(* nothing, and an id whose removal was reported never comes back.          *)
(***************************************************************************)
CONSTANTS
    InventoryIds,    \* the ids
    InventoryHosts,  \* the hosts
    NoHost           \* the host of an id that is not known

VARIABLES
    known,           \* the host each id is known for
    gone             \* the ids whose removal was reported

inventory == <<known, gone>>

InventoryInit == /\ known = [i \in InventoryIds |-> NoHost]
                 /\ gone = {}

Register(i, h) == /\ i \notin gone
                  /\ known[i] = NoHost
                  /\ \A j \in InventoryIds : known[j] # h
                  /\ known' = [known EXCEPT ![i] = h]
                  /\ UNCHANGED gone

Retire(i) == /\ known' = [known EXCEPT ![i] = NoHost]
             /\ gone' = gone \cup {i}

InventoryNext == \E i \in InventoryIds :
                    Retire(i) \/ \E h \in InventoryHosts : Register(i, h)

InventorySpec == InventoryInit /\ [][InventoryNext]_inventory

\* A registry that forgets a device without promising that it stays away.
Forget(i) == /\ known' = [known EXCEPT ![i] = NoHost]
             /\ UNCHANGED gone

LooseInventoryNext == InventoryNext \/ \E i \in InventoryIds : Forget(i)

LooseInventorySpec == InventoryInit /\ [][LooseInventoryNext]_inventory
=============================================================================
