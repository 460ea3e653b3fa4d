-------------------------- MODULE FortiGateRegistry --------------------------
(***************************************************************************)
(* FortiGateManager and the requests that use it.  The manager keeps a      *)
(* dictionary of device objects and one SQLite row for each; it writes the  *)
(* row while it holds the lock of the dictionary.  Requests keep the object *)
(* they were given while they talk to the device, and change its status     *)
(* without the lock.                                                        *)
(***************************************************************************)
EXTENDS Integers, FiniteSets

CONSTANTS
    Ids,          \* the ids uuid4 may give
    Hosts,        \* the addresses of the firewalls
    Credentials,  \* user names with passwords
    Requests,     \* the HTTP requests
    MaxFaults,    \* bound: how many writes to SQLite fail
    MaxRestarts   \* bound: how many restarts of the server happen

ASSUME RegistryAssumption ==
    /\ MaxFaults \in Nat
    /\ MaxRestarts \in Nat
    /\ "none" \notin Hosts

VARIABLES
    object,    \* the device objects ever made
    devices,   \* the ids in the dictionary
    rows,      \* the rows of the table
    pc,        \* where each request is
    mine,      \* the device it was given
    removed,   \* history: the ids whose removal was reported
    faults,    \* failed writes so far
    restarts   \* restarts so far

vars == <<object, devices, rows, pc, mine, removed, faults, restarts>>

NoDevice == [host |-> "none", cred |-> "none", status |-> "none"]

Statuses == {"new", "connected", "error"}
Devices  == [host : Hosts, cred : Credentials, status : Statuses]

Waiting == {"discover", "save", "deploy", "store"}

TypeOK ==
    /\ object \in [Ids -> Devices \cup {NoDevice}]
    /\ devices \subseteq Ids
    /\ rows \in [Ids -> Devices \cup {NoDevice}]
    /\ pc \in [Requests -> {"idle", "ok", "failed", "dead"} \cup Waiting]
    /\ mine \in [Requests -> SUBSET Ids]
    /\ removed \subseteq Ids
    /\ faults \in 0..MaxFaults
    /\ restarts \in 0..MaxRestarts

Init ==
    /\ object = [i \in Ids |-> NoDevice]
    /\ devices = {}
    /\ rows = [i \in Ids |-> NoDevice]
    /\ pc = [r \in Requests |-> "idle"]
    /\ mine = [r \in Requests |-> {}]
    /\ removed = {}
    /\ faults = 0
    /\ restarts = 0

Stored(i) == rows[i] # NoDevice
Persisted == {i \in Ids : Stored(i)}

GoTo(r, state) == pc' = [pc EXCEPT ![r] = state]

Fault == faults < MaxFaults /\ faults' = faults + 1
Fine  == UNCHANGED faults

\* The host of a device is not in the row of another one: the table refuses a
\* second row for it.
Unique(i, device) == \A j \in Persisted \ {i} : rows[j].host # device.host

\* _save_device, on the object as it is now; otherwise it raises.
Written(i, device) == /\ Unique(i, device)
                      /\ rows' = [rows EXCEPT ![i] = device]
                      /\ Fine
NotWritten(i, device) == /\ \/ ~Unique(i, device) /\ Fine
                            \/ Fault
                         /\ UNCHANGED rows

\* (Mutated form: the status is cleared.)
ClearStatus(i, status) == object' = [object EXCEPT ![i].status = "none"]

SetStatus(i, status) == object' = [object EXCEPT ![i].status = status]

-----------------------------------------------------------------------------
(* POST /api/firewalls                                                      *)

\* (Mutated form: a host that is known is added again.)
EveryIdFree(h) == {i \in Ids : object[i] = NoDevice}

\* The ids upsert may use for host h: that of the device that has it, or, when
\* none has, one never used.
IdsFor(h) ==
    LET having == {i \in devices : object[i].host = h} IN
    IF having # {} THEN having ELSE {i \in Ids : object[i] = NoDevice}

\* upsert: an existing device takes the new credentials, under the lock.  If
\* the row cannot be written the dictionary keeps the change.
Upsert(r) ==
    /\ pc[r] = "idle"
    /\ \E h \in Hosts, c \in Credentials : \E i \in IdsFor(h) :
        LET device == IF i \in devices
                      THEN [object[i] EXCEPT !.cred = c]
                      ELSE [host |-> h, cred |-> c, status |-> "new"]
        IN /\ object' = [object EXCEPT ![i] = device]
           /\ devices' = devices \cup {i}
           /\ \/ /\ Written(i, device)
                 /\ GoTo(r, "discover")
                 /\ mine' = [mine EXCEPT ![r] = {i}]
              \/ /\ NotWritten(i, device)
                 /\ GoTo(r, "failed")
                 /\ UNCHANGED mine
    /\ UNCHANGED <<removed, restarts>>

\* The session with the firewall: its outcome is written to the object, and
\* saved only when it is a success.
Discover(r) ==
    /\ pc[r] = "discover"
    /\ \E i \in mine[r] :
        \/ SetStatus(i, "connected") /\ GoTo(r, "save")
        \/ SetStatus(i, "error") /\ GoTo(r, "failed")
    /\ UNCHANGED <<devices, rows, mine, removed, faults, restarts>>

\* (Mutated form: the row is written whether or not the device is still there.)
AnyDevice(i) == TRUE

Registered(i) == i \in devices

\* save, under the lock: it raises when the device was removed meanwhile.
Save(r) ==
    /\ pc[r] \in {"save", "store"}
    /\ \E i \in mine[r] :
        \/ /\ Registered(i) /\ Written(i, object[i])
           /\ GoTo(r, "ok")
           /\ UNCHANGED object
        \/ /\ \/ Registered(i) /\ NotWritten(i, object[i])
              \/ ~Registered(i) /\ Fine /\ UNCHANGED rows
           /\ GoTo(r, "failed")
           /\ IF pc[r] = "save" THEN SetStatus(i, "error") ELSE UNCHANGED object
    /\ UNCHANGED <<devices, mine, removed, restarts>>

-----------------------------------------------------------------------------
(* POST /api/firewalls/provision/candidates/<id>/deploy                     *)

GetForDeploy(r) ==
    /\ pc[r] = "idle"
    /\ \E i \in devices : mine' = [mine EXCEPT ![r] = {i}]
    /\ GoTo(r, "deploy")
    /\ UNCHANGED <<object, devices, rows, removed, faults, restarts>>

\* A deployment that fails does not touch the device.
Deployed(r) ==
    /\ pc[r] = "deploy"
    /\ \E i \in mine[r] :
        \/ SetStatus(i, "connected") /\ GoTo(r, "store")
        \/ GoTo(r, "failed") /\ UNCHANGED object
    /\ UNCHANGED <<devices, rows, mine, removed, faults, restarts>>

-----------------------------------------------------------------------------
(* DELETE /api/firewalls/<id>                                               *)

\* (Mutated form: the row is forgotten.)
KeepRow(i) == UNCHANGED rows

DeleteRow(i) == rows' = [rows EXCEPT ![i] = NoDevice]

Remove(r) ==
    /\ pc[r] = "idle"
    /\ \E i \in devices :
        /\ devices' = devices \ {i}
        /\ \/ /\ DeleteRow(i) /\ Fine
              /\ removed' = removed \cup {i}
              /\ GoTo(r, "ok")
           \/ /\ Fault
              /\ GoTo(r, "failed")
              /\ UNCHANGED <<rows, removed>>
    /\ UNCHANGED <<object, mine, restarts>>

-----------------------------------------------------------------------------

\* _load_database builds the dictionary from the rows; objects without a row
\* are gone with the process.
Restart ==
    /\ restarts < MaxRestarts
    /\ restarts' = restarts + 1
    /\ devices' = Persisted
    /\ object' = [i \in Ids |-> IF Stored(i) THEN rows[i] ELSE object[i]]
    /\ pc' = [r \in Requests |-> IF pc[r] \in Waiting THEN "dead" ELSE pc[r]]
    /\ UNCHANGED <<rows, mine, removed, faults>>

Next ==
    \/ Restart
    \/ \E r \in Requests : \/ Upsert(r) \/ Discover(r) \/ Save(r)
                           \/ GetForDeploy(r) \/ Deployed(r) \/ Remove(r)

Spec == Init /\ [][Next]_vars

-----------------------------------------------------------------------------
(* Properties *)

\* The dictionary never holds two devices for one host, also after a restart
\* and after writes that failed: upsert relies on it to find the device.
OneDevicePerHost ==
    \A i, j \in devices : object[i].host = object[j].host => i = j

\* While no write failed, the dictionary and the table hold the same devices
\* with the same credentials, between any two steps of any requests: a restart
\* then loses nothing and brings nothing back.
PersistedUnlessFault ==
    faults = 0 =>
        /\ devices = Persisted
        /\ \A i \in devices : /\ rows[i].host = object[i].host
                              /\ rows[i].cred = object[i].cred

\* Once a removal was reported, no request that still holds the device, and no
\* restart, puts its id back into the dictionary or the table.
RemovedStaysRemoved ==
    \A i \in removed : i \notin devices /\ ~Stored(i)

Inventory == INSTANCE DeviceInventory WITH
                 InventoryIds   <- Ids,
                 InventoryHosts <- Hosts,
                 NoHost         <- "none",
                 known          <- [i \in Ids |-> rows[i].host],
                 gone           <- removed

\* The table is a persistent inventory, whatever interleaves and fails.
ImplementsInventory == Inventory!InventorySpec
=============================================================================
