---------------------------- MODULE SwitchRegistry ----------------------------
(***************************************************************************)
(* DeviceManager and the requests that use it.  As for the FortiGates there *)
(* is a dictionary of device objects and a SQLite row for each, but here    *)
(* only the dictionary is changed under the lock: the row is written after  *)
(* it was released, from the object as it is then, and discovery saves the  *)
(* objects it was given without asking whether they are still registered.   *)
(***************************************************************************)
EXTENDS Integers, FiniteSets

CONSTANTS
    Ids,          \* the ids uuid4 may give
    Hosts,        \* the addresses of the switches
    Credentials,  \* user names with passwords
    Requests,     \* the HTTP requests
    MaxFaults,    \* bound: how many writes to SQLite fail
    MaxRestarts   \* bound: how many restarts of the server happen

ASSUME SwitchRegistryAssumption ==
    /\ MaxFaults \in Nat
    /\ MaxRestarts \in Nat
    /\ "none" \notin Hosts

VARIABLES
    object,    \* the device objects ever made
    devices,   \* the ids in the dictionary
    rows,      \* the rows of the table
    pc,        \* where each request is
    mine,      \* the device it works on
    todo,      \* the devices whose discovery it still waits for
    values,    \* the values it is about to write
    retired,   \* history: the ids removed while no other request held them
    upset,     \* history: the hosts with a failed write or two requests at once
    faults,    \* failed writes so far
    restarts   \* restarts so far

vars == <<object, devices, rows, pc, mine, todo, values, retired, upset,
          faults, restarts>>
work == <<mine, todo, values>>

NoDevice == [host |-> "none", cred |-> "none", info |-> "none"]

\* info: the host name, the status and the error of a device.  "renamed" is a
\* host name set on the object by a configuration, which saves nothing.
Infos   == {"new", "connected", "error", "renamed"}
Devices == [host : Hosts, cred : Credentials, info : Infos]

UnderWay == {"take", "store", "collect", "read", "write", "reread", "rewrite",
             "session", "delete"}

TypeOK ==
    /\ object \in [Ids -> Devices \cup {NoDevice}]
    /\ devices \subseteq Ids
    /\ rows \in [Ids -> Devices \cup {NoDevice}]
    /\ pc \in [Requests -> {"idle", "ok", "failed", "dead"} \cup UnderWay]
    /\ mine \in [Requests -> SUBSET Ids]
    /\ todo \in [Requests -> SUBSET Ids]
    /\ values \in [Requests -> Devices \cup {NoDevice}]
    /\ retired \subseteq Ids
    /\ upset \subseteq Hosts
    /\ faults \in 0..MaxFaults
    /\ restarts \in 0..MaxRestarts

Init ==
    /\ object = [i \in Ids |-> NoDevice]
    /\ devices = {}
    /\ rows = [i \in Ids |-> NoDevice]
    /\ pc = [r \in Requests |-> "idle"]
    /\ mine = [r \in Requests |-> {}]
    /\ todo = [r \in Requests |-> {}]
    /\ values = [r \in Requests |-> NoDevice]
    /\ retired = {}
    /\ upset = {}
    /\ faults = 0
    /\ restarts = 0

Stored(i) == rows[i] # NoDevice
Persisted == {i \in Ids : Stored(i)}

\* The devices a request has in its hands.
Held(r)  == mine[r] \cup todo[r]
HostsOf(D) == {object[i].host : i \in D}
HeldByOthers(r) == UNION {Held(q) : q \in Requests \ {r}}

\* A request takes devices D in hand; their hosts are upset when another one
\* has a device of the same host.
Overlap(r, D) == upset \cup (HostsOf(D) \cap HostsOf(HeldByOthers(r)))

\* (Mutated form: the status is cleared.)
ClearInfo(i, info) == object' = [object EXCEPT ![i].info = "none"]

SetInfo(i, info) == object' = [object EXCEPT ![i].info = info]

GoTo(r, state) == pc' = [pc EXCEPT ![r] = state]

Finish(r, answer) == /\ GoTo(r, answer)
                     /\ mine' = [mine EXCEPT ![r] = {}]
                     /\ todo' = [todo EXCEPT ![r] = {}]
                     /\ values' = [values EXCEPT ![r] = NoDevice]

Fault == faults < MaxFaults /\ faults' = faults + 1
Fine  == UNCHANGED faults

\* (Mutated form: the column host is not unique.)
AnyHost(i, device) == TRUE

\* The column host of the table is unique.
Unique(i, device) == \A j \in Persisted \ {i} : rows[j].host # device.host

-----------------------------------------------------------------------------
(* POST /api/devices: upsert                                                *)

\* (Mutated form: a host that is known is added again.)
AnyFreeId(h) == {i \in Ids : object[i] = NoDevice}

\* The ids upsert may use for host h: that of the device that has it, or, when
\* none has, one never used.
IdsFor(h) ==
    LET having == {i \in devices : object[i].host = h} IN
    IF having # {} THEN having ELSE {i \in Ids : object[i] = NoDevice}

\* Under the lock: a known device takes the new credentials and loses its
\* error, another one is added to the dictionary.
Upsert(r) ==
    /\ pc[r] = "idle"
    /\ \E h \in Hosts, c \in Credentials : \E i \in IdsFor(h) :
        /\ object' = [object EXCEPT ![i] =
                        IF i \in devices THEN [@ EXCEPT !.cred = c]
                        ELSE [host |-> h, cred |-> c, info |-> "new"]]
        /\ devices' = devices \cup {i}
        /\ mine' = [mine EXCEPT ![r] = {i}]
        /\ upset' = upset \cup ({h} \cap HostsOf(HeldByOthers(r)))
    /\ GoTo(r, "take")
    /\ UNCHANGED <<rows, todo, values, retired, faults, restarts>>

-----------------------------------------------------------------------------
(* _save_device, without the lock: the values are taken from the object,    *)
(* encrypted, and then written.  take, store: the save of upsert; read, write:  *)
(* that of a discovery; reread, rewrite: that of its except clause.         *)

\* (Mutated form: the values of the row that is there.)
OldValues(i) == IF Stored(i) THEN rows[i] ELSE object[i]

ValuesOf(i) == object[i]

Evaluate(r) ==
    /\ pc[r] \in {"take", "read", "reread"}
    /\ \E i \in mine[r] : values' = [values EXCEPT ![r] = ValuesOf(i)]
    /\ GoTo(r, CASE pc[r] = "take"   -> "store"
                 [] pc[r] = "read"   -> "write"
                 [] pc[r] = "reread" -> "rewrite")
    /\ UNCHANGED <<object, devices, rows, mine, todo, retired, upset, faults,
                   restarts>>

\* A device is done: discovery goes on to the next outcome, or ends.
Saved(r) ==
    IF todo[r] = {}
    THEN Finish(r, "ok")
    ELSE /\ GoTo(r, "collect")
         /\ mine' = [mine EXCEPT ![r] = {}]
         /\ values' = [values EXCEPT ![r] = NoDevice]
         /\ UNCHANGED todo

AtWrite(r) == pc[r] \in {"store", "write", "rewrite"}

Write(r) ==
    /\ AtWrite(r)
    /\ \E i \in mine[r] : /\ Unique(i, values[r])
                          /\ rows' = [rows EXCEPT ![i] = values[r]]
    /\ Saved(r)
    /\ UNCHANGED <<object, devices, retired, upset, faults, restarts>>

\* The write raises: in a discovery the device is marked and saved again; there
\* and in upsert a second error leaves the handler.
WriteFails(r) ==
    /\ AtWrite(r)
    /\ \E i \in mine[r] :
        /\ \/ ~Unique(i, values[r]) /\ Fine /\ UNCHANGED upset
           \/ Fault /\ upset' = upset \cup HostsOf({i})
        /\ IF pc[r] = "write"
           THEN /\ SetInfo(i, "error")
                /\ GoTo(r, "reread")
                /\ values' = [values EXCEPT ![r] = NoDevice]
                /\ UNCHANGED <<mine, todo>>
           ELSE Finish(r, "failed") /\ UNCHANGED object
    /\ UNCHANGED <<devices, rows, retired, restarts>>

-----------------------------------------------------------------------------
(* POST /api/devices/discover and /api/devices/workspace: discover_many     *)

\* Every device is looked up before the first session starts.
StartDiscovery(r) ==
    /\ pc[r] = "idle"
    /\ \E D \in (SUBSET devices) \ {{}} :
        /\ todo' = [todo EXCEPT ![r] = D]
        /\ upset' = Overlap(r, D)
    /\ GoTo(r, "collect")
    /\ UNCHANGED <<object, devices, rows, mine, values, retired, faults, restarts>>

\* The sessions run in parallel; their outcomes are taken one by one, as they
\* complete, by the thread of the request.
Outcome(r) ==
    /\ pc[r] = "collect"
    /\ \E i \in todo[r], o \in {"connected", "error"} :
        /\ SetInfo(i, o)
        /\ mine' = [mine EXCEPT ![r] = {i}]
        /\ todo' = [todo EXCEPT ![r] = @ \ {i}]
        /\ GoTo(r, IF o = "connected" THEN "read" ELSE "reread")
    /\ UNCHANGED <<devices, rows, values, retired, upset, faults, restarts>>

-----------------------------------------------------------------------------
(* POST /api/devices/general/configure                                      *)

StartConfigure(r) ==
    /\ pc[r] = "idle"
    /\ \E i \in devices : /\ mine' = [mine EXCEPT ![r] = {i}]
                          /\ upset' = Overlap(r, {i})
    /\ GoTo(r, "session")
    /\ UNCHANGED <<object, devices, rows, todo, values, retired, faults, restarts>>

\* The host name that was set goes to the object and nowhere else.
Configured(r) ==
    /\ pc[r] = "session"
    /\ \/ /\ \E i \in mine[r] : SetInfo(i, "renamed")
          /\ Finish(r, "ok")
       \/ Finish(r, "failed") /\ UNCHANGED object
    /\ UNCHANGED <<devices, rows, retired, upset, faults, restarts>>

-----------------------------------------------------------------------------
(* DELETE /api/devices/<id>: remove                                         *)

Pop(r) ==
    /\ pc[r] = "idle"
    /\ \E i \in devices : /\ devices' = devices \ {i}
                          /\ mine' = [mine EXCEPT ![r] = {i}]
                          /\ upset' = Overlap(r, {i})
    /\ GoTo(r, "delete")
    /\ UNCHANGED <<object, rows, todo, values, retired, faults, restarts>>

\* (Mutated form: the row is forgotten.)
KeepRow(i) == UNCHANGED rows

DeleteRow(i) == rows' = [rows EXCEPT ![i] = NoDevice]

Delete(r) ==
    /\ pc[r] = "delete"
    /\ \E i \in mine[r] :
        \/ /\ DeleteRow(i) /\ Fine
           /\ retired' = retired \cup ({i} \ HeldByOthers(r))
           /\ Finish(r, "ok")
           /\ UNCHANGED upset
        \/ /\ Fault
           /\ upset' = upset \cup HostsOf({i})
           /\ Finish(r, "failed")
           /\ UNCHANGED <<rows, retired>>
    /\ UNCHANGED <<object, devices, restarts>>

-----------------------------------------------------------------------------

\* enable_persistence builds the dictionary from the rows; what differed is
\* gone, and so are the requests.
Restart ==
    /\ restarts < MaxRestarts
    /\ restarts' = restarts + 1
    /\ devices' = Persisted
    /\ object' = [i \in Ids |-> IF Stored(i) THEN rows[i] ELSE object[i]]
    /\ pc' = [r \in Requests |-> IF pc[r] \in UnderWay THEN "dead" ELSE pc[r]]
    /\ mine' = [r \in Requests |-> {}]
    /\ todo' = [r \in Requests |-> {}]
    /\ values' = [r \in Requests |-> NoDevice]
    /\ upset' = {}
    /\ UNCHANGED <<rows, retired, faults>>

Next ==
    \/ Restart
    \/ \E r \in Requests : \/ Upsert(r) \/ Evaluate(r) \/ Write(r) \/ WriteFails(r)
                           \/ StartDiscovery(r) \/ Outcome(r)
                           \/ StartConfigure(r) \/ Configured(r)
                           \/ Pop(r) \/ Delete(r)

Spec == Init /\ [][Next]_vars

-----------------------------------------------------------------------------
(* Properties *)

\* The dictionary never holds two devices for one host, also after removals
\* that the table has not seen yet, rows that discovery brought back, and a
\* restart from such a table: upsert relies on it to find the device.
OneDevicePerHost ==
    \A i, j \in devices : object[i].host = object[j].host => i = j

\* Whatever happens to other hosts, a host whose requests did not overlap and
\* whose writes did not fail is the same in the dictionary and in the table as
\* soon as no request works on it; only a host name set by a configuration is
\* not saved.
QuietHostsAgree ==
    \A h \in Hosts \ (upset \cup HostsOf(UNION {Held(r) : r \in Requests})) :
        /\ {i \in devices : object[i].host = h} = {i \in Persisted : rows[i].host = h}
        /\ \A i \in devices : object[i].host = h =>
            /\ rows[i].cred = object[i].cred
            /\ rows[i].info = object[i].info \/ object[i].info = "renamed"

\* An id that was removed while no other request held the device never comes
\* back, neither to the dictionary nor to the table, whatever discoveries,
\* additions of the same host and restarts follow.
RetiredStaysRetired ==
    \A i \in retired : i \notin devices /\ ~Stored(i)

Inventory == INSTANCE DeviceInventory WITH
                 InventoryIds   <- Ids,
                 InventoryHosts <- Hosts,
                 NoHost         <- "none",
                 known          <- [i \in Ids |-> rows[i].host],
                 gone           <- retired

\* The table is a persistent inventory whose removals are final when nothing
\* else held the device.
ImplementsLooseInventory == Inventory!LooseInventorySpec
=============================================================================
