----------------------- MODULE FortiGateRegistryProofs -----------------------
(***************************************************************************)
(* Proofs about FortiGateRegistry, for every set of ids, hosts, credentials *)
(* and requests, and every number of failed writes and restarts.            *)
(***************************************************************************)
EXTENDS FortiGateRegistry, TLAPS

\* An id that is or was in use has an object, so that upsert never picks it again.
IdsInUse ==
    /\ \A i \in devices \cup removed : object[i] # NoDevice
    /\ \A r \in Requests : \A i \in mine[r] : object[i] # NoDevice

\* A row belongs to an object and has its host: nothing ever moves a device.
RowsOfObjects ==
    \A i \in Ids : Stored(i) => rows[i].host = object[i].host /\ object[i] # NoDevice

OneRowPerHost ==
    \A i, j \in Persisted : rows[i].host = rows[j].host => i = j

\* The inductive invariant.
RegistryInv ==
    /\ TypeOK
    /\ IdsInUse
    /\ RowsOfObjects
    /\ OneRowPerHost
    /\ OneDevicePerHost
    /\ RemovedStaysRemoved
    /\ PersistedUnlessFault

-----------------------------------------------------------------------------
(* Devices and the helpers.                                                 *)

LEMMA DeviceIsNoNoDevice == NoDevice \notin Devices
  BY RegistryAssumption DEF NoDevice, Devices

\* The device upsert stores: in either case one of host h.
LEMMA UpsertedDevice ==
    ASSUME RegistryInv, NEW h \in Hosts, NEW c \in Credentials, NEW i \in IdsFor(h),
           NEW device,
           device = IF i \in devices THEN [object[i] EXCEPT !.cred = c]
                    ELSE [host |-> h, cred |-> c, status |-> "new"]
    PROVE  /\ i \in Ids
           /\ device \in Devices
           /\ device.host = h
           /\ device.cred = c
           /\ i \in devices => object[i].host = h
           /\ i \notin devices => /\ object[i] = NoDevice
                                  /\ ~Stored(i)
                                  /\ \A j \in devices : object[j].host # h
           /\ i \notin removed
  <1>1. i \in Ids
    BY DEF IdsFor, RegistryInv, TypeOK
  <1>2. CASE i \in devices
    <2>1. object[i] \in Devices
      BY <1>1, <1>2 DEF RegistryInv, TypeOK, IdsInUse
    <2>2. object[i].host = h
      BY <1>2 DEF IdsFor, RegistryInv, IdsInUse
    <2>3. device = [object[i] EXCEPT !.cred = c]
      BY <1>2
    <2>4. /\ device \in Devices
          /\ device.host = h
          /\ device.cred = c
      BY <2>1, <2>2, <2>3 DEF Devices
    <2> QED
      BY <1>1, <1>2, <2>2, <2>4 DEF RegistryInv, RemovedStaysRemoved
  <1>3. CASE i \notin devices
    <2>1. object[i] = NoDevice /\ \A j \in devices : object[j].host # h
      BY <1>3 DEF IdsFor
    <2>2. device = [host |-> h, cred |-> c, status |-> "new"]
      BY <1>3
    <2>3. device \in Devices /\ device.host = h /\ device.cred = c
      BY <2>2 DEF Devices, Statuses
    <2> QED
      BY <1>1, <1>3, <2>1, <2>3 DEF RegistryInv, IdsInUse, RowsOfObjects
  <1> QED
    BY <1>2, <1>3

\* A status changes nothing else of an object.
LEMMA StatusOnly ==
    ASSUME RegistryInv, NEW i \in Ids, object[i] # NoDevice,
           NEW status \in Statuses, SetStatus(i, status)
    PROVE  /\ object' \in [Ids -> Devices \cup {NoDevice}]
           /\ \A j \in Ids : /\ object'[j].host = object[j].host
                             /\ object'[j].cred = object[j].cred
                             /\ object'[j] = NoDevice <=> object[j] = NoDevice
  <1>1. object[i] \in Devices
    BY DEF RegistryInv, TypeOK
  <1>2. object' = [object EXCEPT ![i] = [object[i] EXCEPT !.status = status]]
    BY DEF SetStatus
  <1>3. /\ [object[i] EXCEPT !.status = status] \in Devices
        /\ [object[i] EXCEPT !.status = status].host = object[i].host
        /\ [object[i] EXCEPT !.status = status].cred = object[i].cred
    BY <1>1 DEF Devices
  <1> QED
    BY <1>1, <1>2, <1>3, DeviceIsNoNoDevice DEF RegistryInv, TypeOK

\* A row that was written belongs to a device of its host, and to no other.
LEMMA WrittenRow ==
    ASSUME RegistryInv, NEW i \in Ids, NEW device \in Devices, Written(i, device),
           Stored(i) => rows[i].host = device.host
    PROVE  /\ rows' \in [Ids -> Devices \cup {NoDevice}]
           /\ rows'[i] = device
           /\ \A j \in Ids \ {i} : rows'[j] = rows[j]
           /\ Persisted' = Persisted \cup {i}
           /\ \A j, k \in Persisted' : rows'[j].host = rows'[k].host => j = k
  <1>1. rows' = [rows EXCEPT ![i] = device]
    BY DEF Written
  <1>2. /\ rows' \in [Ids -> Devices \cup {NoDevice}]
        /\ rows'[i] = device
        /\ \A j \in Ids \ {i} : rows'[j] = rows[j]
    BY <1>1 DEF RegistryInv, TypeOK
  <1>3. Persisted' = Persisted \cup {i}
    BY <1>2, DeviceIsNoNoDevice DEF Persisted, Stored
  <1>4. \A j \in Persisted \ {i} : rows[j].host # device.host
    BY DEF Written, Unique
  <1>5. ASSUME NEW j \in Persisted', NEW k \in Persisted',
               rows'[j].host = rows'[k].host
        PROVE  j = k
    <2>1. j \in Ids /\ k \in Ids
      BY DEF Persisted
    <2>2. CASE j = i \/ k = i
      BY <1>2, <1>3, <1>4, <1>5, <2>1, <2>2
    <2>3. CASE j # i /\ k # i
      BY <1>2, <1>3, <1>5, <2>1, <2>3 DEF RegistryInv, OneRowPerHost
    <2> QED
      BY <2>2, <2>3
  <1> QED
    BY <1>2, <1>3, <1>5

-----------------------------------------------------------------------------
(* The invariant.                                                           *)

LEMMA InitRegistryInv == Init => RegistryInv
  BY RegistryAssumption
  DEF Init, RegistryInv, TypeOK, IdsInUse, RowsOfObjects, OneRowPerHost,
      OneDevicePerHost, RemovedStaysRemoved, PersistedUnlessFault, Stored, Persisted

\* A step that only changes the status of an object keeps the invariant: this is
\* what the requests do without the lock.
LEMMA StatusPreserves ==
    ASSUME RegistryInv, NEW r \in Requests, NEW i \in mine[r], NEW status \in Statuses,
           SetStatus(i, status), pc' \in [Requests -> {"idle", "ok", "failed", "dead"} \cup Waiting],
           UNCHANGED <<devices, rows, mine, removed, faults, restarts>>
    PROVE  RegistryInv'
  <1>1. i \in Ids /\ object[i] # NoDevice
    BY DEF RegistryInv, TypeOK, IdsInUse
  <1>2. /\ object' \in [Ids -> Devices \cup {NoDevice}]
        /\ \A j \in Ids : /\ object'[j].host = object[j].host
                          /\ object'[j].cred = object[j].cred
                          /\ object'[j] = NoDevice <=> object[j] = NoDevice
    BY <1>1, StatusOnly
  <1>3. TypeOK'
    BY <1>2 DEF RegistryInv, TypeOK
  <1>4. IdsInUse'
    BY <1>2 DEF RegistryInv, TypeOK, IdsInUse
  <1>5. RowsOfObjects'
    BY <1>2 DEF RegistryInv, RowsOfObjects, Stored
  <1>6. OneRowPerHost'
    BY DEF RegistryInv, OneRowPerHost, Persisted, Stored
  <1>7. OneDevicePerHost'
    BY <1>2 DEF RegistryInv, TypeOK, OneDevicePerHost
  <1>8. RemovedStaysRemoved'
    BY DEF RegistryInv, RemovedStaysRemoved, Stored
  <1>9. PersistedUnlessFault'
    BY <1>2 DEF RegistryInv, TypeOK, PersistedUnlessFault, Persisted, Stored
  <1> QED
    BY <1>3, <1>4, <1>5, <1>6, <1>7, <1>8, <1>9 DEF RegistryInv

\* A step that moves a request and nothing else.
LEMMA MovePreserves ==
    ASSUME RegistryInv,
           pc' \in [Requests -> {"idle", "ok", "failed", "dead"} \cup Waiting],
           mine' \in [Requests -> SUBSET Ids],
           \A r \in Requests : mine'[r] \subseteq mine[r] \cup devices,
           UNCHANGED <<object, devices, rows, removed, restarts>>,
           faults' \in 0..MaxFaults, faults' >= faults
    PROVE  RegistryInv'
  <1>1. TypeOK'
    BY DEF RegistryInv, TypeOK
  <1>2. IdsInUse'
    BY DEF RegistryInv, TypeOK, IdsInUse
  <1>3. RowsOfObjects' /\ OneRowPerHost' /\ OneDevicePerHost' /\ RemovedStaysRemoved'
    BY DEF RegistryInv, RowsOfObjects, OneRowPerHost, OneDevicePerHost,
           RemovedStaysRemoved, Persisted, Stored
  <1>4. PersistedUnlessFault'
    <2>1. faults' = 0 => faults = 0
      BY RegistryAssumption DEF RegistryInv, TypeOK
    <2> QED
      BY <2>1 DEF RegistryInv, PersistedUnlessFault, Persisted, Stored
  <1> QED
    BY <1>1, <1>2, <1>3, <1>4 DEF RegistryInv

\* The two outcomes of upsert, for the device it stored.
LEMMA UpsertedPreserves ==
    ASSUME RegistryInv, NEW h \in Hosts, NEW c \in Credentials, NEW i \in IdsFor(h),
           NEW device,
           device = IF i \in devices THEN [object[i] EXCEPT !.cred = c]
                    ELSE [host |-> h, cred |-> c, status |-> "new"],
           object' = [object EXCEPT ![i] = device],
           devices' = devices \cup {i},
           Written(i, device) \/ NotWritten(i, device),
           mine' \in [Requests -> SUBSET Ids],
           \A r \in Requests : mine'[r] \subseteq mine[r] \cup {i},
           pc' \in [Requests -> {"idle", "ok", "failed", "dead"} \cup Waiting],
           UNCHANGED <<removed, restarts>>
    PROVE  RegistryInv'
  <1>1. /\ i \in Ids
        /\ device \in Devices
        /\ device.host = h
        /\ i \in devices => object[i].host = h
        /\ i \notin devices => /\ object[i] = NoDevice
                               /\ ~Stored(i)
                               /\ \A j \in devices : object[j].host # h
        /\ i \notin removed
    BY UpsertedDevice
  <1>2. /\ object' \in [Ids -> Devices \cup {NoDevice}]
        /\ object'[i] = device
        /\ \A j \in Ids \ {i} : object'[j] = object[j]
    BY <1>1 DEF RegistryInv, TypeOK
  <1>3. device # NoDevice
    BY <1>1, DeviceIsNoNoDevice
  <1>4. Stored(i) => rows[i].host = h
    BY <1>1 DEF RegistryInv, RowsOfObjects
  <1>5. OneDevicePerHost'
    BY <1>1, <1>2 DEF RegistryInv, TypeOK, OneDevicePerHost
  <1>6. IdsInUse'
    BY <1>1, <1>2, <1>3 DEF RegistryInv, TypeOK, IdsInUse
  <1>7. faults' \in 0..MaxFaults /\ (faults' = 0 => faults = 0)
    BY RegistryAssumption DEF RegistryInv, TypeOK, Written, NotWritten, Fine, Fault
  <1>8. CASE Written(i, device)
    <2>1. /\ rows' \in [Ids -> Devices \cup {NoDevice}]
          /\ rows'[i] = device
          /\ \A j \in Ids \ {i} : rows'[j] = rows[j]
          /\ Persisted' = Persisted \cup {i}
          /\ \A j, k \in Persisted' : rows'[j].host = rows'[k].host => j = k
      BY <1>1, <1>4, <1>8, WrittenRow
    <2>2. TypeOK'
      BY <1>1, <1>2, <1>7, <2>1 DEF RegistryInv, TypeOK
    <2>3. RowsOfObjects'
      BY <1>1, <1>2, <1>3, <2>1 DEF RegistryInv, RowsOfObjects, Stored
    <2>4. OneRowPerHost'
      BY <2>1 DEF OneRowPerHost
    <2>5. RemovedStaysRemoved'
      BY <1>1, <2>1 DEF RegistryInv, TypeOK, RemovedStaysRemoved, Stored
    <2>6. PersistedUnlessFault'
      <3>1. SUFFICES ASSUME faults' = 0
                     PROVE  /\ devices' = Persisted'
                            /\ \A j \in devices' : /\ rows'[j].host = object'[j].host
                                                  /\ rows'[j].cred = object'[j].cred
        BY DEF PersistedUnlessFault
      <3>2. /\ devices = Persisted
            /\ \A j \in devices : /\ rows[j].host = object[j].host
                                 /\ rows[j].cred = object[j].cred
        BY <1>7, <3>1 DEF RegistryInv, PersistedUnlessFault
      <3>3. devices' = Persisted'
        BY <2>1, <3>2
      <3>4. ASSUME NEW j \in devices'
            PROVE  rows'[j].host = object'[j].host /\ rows'[j].cred = object'[j].cred
        <4>1. CASE j = i
          BY <1>2, <2>1, <4>1
        <4>2. CASE j # i
          <5>1. j \in devices /\ j \in Ids
            BY <4>2 DEF RegistryInv, TypeOK
          <5> QED
            BY <1>2, <2>1, <3>2, <4>2, <5>1
        <4> QED
          BY <4>1, <4>2
      <3> QED
        BY <3>3, <3>4
    <2> QED
      BY <1>5, <1>6, <2>2, <2>3, <2>4, <2>5, <2>6 DEF RegistryInv
  <1>9. CASE NotWritten(i, device)
    <2>1. rows' = rows
      BY <1>9 DEF NotWritten
    <2>2. TypeOK'
      BY <1>1, <1>2, <1>7, <2>1 DEF RegistryInv, TypeOK
    <2>3. RowsOfObjects'
      BY <1>1, <1>2, <1>3, <1>4, <2>1 DEF RegistryInv, RowsOfObjects, Stored
    <2>4. OneRowPerHost'
      BY <2>1 DEF RegistryInv, OneRowPerHost, Persisted, Stored
    <2>5. RemovedStaysRemoved'
      BY <1>1, <2>1 DEF RegistryInv, TypeOK, RemovedStaysRemoved, Stored
    <2>6. PersistedUnlessFault'
      \* Without a failed write the row was refused, so another device has the host.
      <3>1. SUFFICES ASSUME faults' = 0 PROVE FALSE
        BY DEF PersistedUnlessFault
      <3>2. faults = 0 /\ ~Unique(i, device)
        BY <1>7, <1>9, <3>1, RegistryAssumption
        DEF NotWritten, Fault, Fine, RegistryInv, TypeOK
      <3>3. PICK j \in Persisted \ {i} : rows[j].host = h
        BY <1>1, <3>2 DEF Unique
      <3>4. j \in devices /\ object[j].host = h
        BY <3>2, <3>3 DEF RegistryInv, PersistedUnlessFault
      <3> QED
        BY <1>1, <3>3, <3>4 DEF RegistryInv, OneDevicePerHost
    <2> QED
      BY <1>5, <1>6, <2>2, <2>3, <2>4, <2>5, <2>6 DEF RegistryInv
  <1> QED
    BY <1>8, <1>9

LEMMA UpsertPreserves ==
    ASSUME RegistryInv, NEW r \in Requests, Upsert(r)
    PROVE  RegistryInv'
  <1>1. PICK h \in Hosts, c \in Credentials : \E i \in IdsFor(h) :
          LET device == IF i \in devices THEN [object[i] EXCEPT !.cred = c]
                        ELSE [host |-> h, cred |-> c, status |-> "new"]
          IN /\ object' = [object EXCEPT ![i] = device]
             /\ devices' = devices \cup {i}
             /\ \/ /\ Written(i, device)
                   /\ GoTo(r, "discover")
                   /\ mine' = [mine EXCEPT ![r] = {i}]
                \/ /\ NotWritten(i, device)
                   /\ GoTo(r, "failed")
                   /\ UNCHANGED mine
    BY DEF Upsert
  <1>2. PICK i \in IdsFor(h) :
          LET device == IF i \in devices THEN [object[i] EXCEPT !.cred = c]
                        ELSE [host |-> h, cred |-> c, status |-> "new"]
          IN /\ object' = [object EXCEPT ![i] = device]
             /\ devices' = devices \cup {i}
             /\ \/ /\ Written(i, device)
                   /\ GoTo(r, "discover")
                   /\ mine' = [mine EXCEPT ![r] = {i}]
                \/ /\ NotWritten(i, device)
                   /\ GoTo(r, "failed")
                   /\ UNCHANGED mine
    BY <1>1
  <1>3. PICK device :
          /\ device = IF i \in devices THEN [object[i] EXCEPT !.cred = c]
                      ELSE [host |-> h, cred |-> c, status |-> "new"]
          /\ object' = [object EXCEPT ![i] = device]
          /\ devices' = devices \cup {i}
          /\ \/ /\ Written(i, device)
                /\ GoTo(r, "discover")
                /\ mine' = [mine EXCEPT ![r] = {i}]
             \/ /\ NotWritten(i, device)
                /\ GoTo(r, "failed")
                /\ UNCHANGED mine
    BY <1>2
  <1>4. i \in Ids
    BY DEF IdsFor, RegistryInv, TypeOK
  <1>5. /\ mine' \in [Requests -> SUBSET Ids]
        /\ \A q \in Requests : mine'[q] \subseteq mine[q] \cup {i}
    BY <1>3, <1>4 DEF RegistryInv, TypeOK
  <1>6. pc' \in [Requests -> {"idle", "ok", "failed", "dead"} \cup Waiting]
    BY <1>3 DEF RegistryInv, TypeOK, GoTo, Waiting
  <1>7. UNCHANGED <<removed, restarts>>
    BY DEF Upsert
  <1>8. Written(i, device) \/ NotWritten(i, device)
    BY <1>3
  <1>9. /\ device = IF i \in devices THEN [object[i] EXCEPT !.cred = c]
                    ELSE [host |-> h, cred |-> c, status |-> "new"]
        /\ object' = [object EXCEPT ![i] = device]
        /\ devices' = devices \cup {i}
    BY <1>3
  <1> QED
    BY <1>5, <1>6, <1>7, <1>8, <1>9, UpsertedPreserves

LEMMA DiscoverPreserves ==
    ASSUME RegistryInv, NEW r \in Requests, Discover(r)
    PROVE  RegistryInv'
  <1>1. PICK i \in mine[r], status \in Statuses : SetStatus(i, status)
    BY DEF Discover, Statuses
  <1>2. pc' \in [Requests -> {"idle", "ok", "failed", "dead"} \cup Waiting]
    BY DEF Discover, RegistryInv, TypeOK, GoTo, Waiting
  <1>3. UNCHANGED <<devices, rows, mine, removed, faults, restarts>>
    BY DEF Discover
  <1> QED
    BY <1>1, <1>2, <1>3, StatusPreserves

\* save writes the row of a device that is registered, with the host it had.
LEMMA SavePreserves ==
    ASSUME RegistryInv, NEW r \in Requests, Save(r)
    PROVE  RegistryInv'
  <1>1. pc' \in [Requests -> {"idle", "ok", "failed", "dead"} \cup Waiting]
    BY DEF Save, RegistryInv, TypeOK, GoTo, Waiting
  <1>2. PICK i \in mine[r] :
          \/ Registered(i) /\ Written(i, object[i]) /\ UNCHANGED object
          \/ /\ \/ Registered(i) /\ NotWritten(i, object[i])
                \/ ~Registered(i) /\ Fine /\ UNCHANGED rows
             /\ IF pc[r] = "save" THEN SetStatus(i, "error") ELSE UNCHANGED object
    BY DEF Save
  <1>3. UNCHANGED <<devices, mine, removed, restarts>>
    BY DEF Save
  <1>4. i \in Ids /\ object[i] \in Devices
    BY DEF RegistryInv, TypeOK, IdsInUse
  <1>5. faults' \in 0..MaxFaults /\ (faults' = 0 => faults = 0)
    BY <1>2, RegistryAssumption
    DEF RegistryInv, TypeOK, Written, NotWritten, Fine, Fault
  <1>6. CASE Registered(i) /\ Written(i, object[i]) /\ UNCHANGED object
    <2>1. Stored(i) => rows[i].host = object[i].host
      BY <1>4 DEF RegistryInv, RowsOfObjects
    <2>2. /\ rows' \in [Ids -> Devices \cup {NoDevice}]
          /\ rows'[i] = object[i]
          /\ \A j \in Ids \ {i} : rows'[j] = rows[j]
          /\ Persisted' = Persisted \cup {i}
          /\ \A j, k \in Persisted' : rows'[j].host = rows'[k].host => j = k
      BY <1>4, <1>6, <2>1, WrittenRow
    <2>3. TypeOK'
      BY <1>1, <1>3, <1>5, <1>6, <2>2 DEF RegistryInv, TypeOK
    <2>4. IdsInUse'
      BY <1>3, <1>6 DEF RegistryInv, IdsInUse
    <2>5. RowsOfObjects'
      BY <1>4, <1>6, <2>2, DeviceIsNoNoDevice DEF RegistryInv, RowsOfObjects, Stored
    <2>6. OneRowPerHost'
      BY <2>2 DEF OneRowPerHost
    <2>7. OneDevicePerHost'
      BY <1>3, <1>6 DEF RegistryInv, OneDevicePerHost
    <2>8. RemovedStaysRemoved'
      BY <1>3, <1>6, <2>2 DEF RegistryInv, TypeOK, RemovedStaysRemoved, Stored, Registered
    <2>9. PersistedUnlessFault'
      BY <1>3, <1>5, <1>6, <2>2
      DEF RegistryInv, TypeOK, PersistedUnlessFault, Registered
    <2> QED
      BY <2>3, <2>4, <2>5, <2>6, <2>7, <2>8, <2>9 DEF RegistryInv
  <1>7. CASE /\ \/ Registered(i) /\ NotWritten(i, object[i])
                \/ ~Registered(i) /\ Fine /\ UNCHANGED rows
             /\ IF pc[r] = "save" THEN SetStatus(i, "error") ELSE UNCHANGED object
    <2>1. rows' = rows
      BY <1>7 DEF NotWritten
    <2>2. /\ object' \in [Ids -> Devices \cup {NoDevice}]
          /\ \A j \in Ids : /\ object'[j].host = object[j].host
                            /\ object'[j].cred = object[j].cred
                            /\ object'[j] = NoDevice <=> object[j] = NoDevice
      <3>1. CASE UNCHANGED object
        BY <3>1 DEF RegistryInv, TypeOK
      <3>2. CASE SetStatus(i, "error")
        <4>1. "error" \in Statuses
          BY DEF Statuses
        <4>2. object[i] # NoDevice
          BY <1>4, DeviceIsNoNoDevice
        <4> QED
          BY <1>4, <3>2, <4>1, <4>2, StatusOnly
      <3> QED
        BY <1>7, <3>1, <3>2
    <2>3. TypeOK'
      BY <1>1, <1>3, <1>5, <2>1, <2>2 DEF RegistryInv, TypeOK
    <2>4. IdsInUse'
      BY <1>3, <2>2 DEF RegistryInv, TypeOK, IdsInUse
    <2>5. RowsOfObjects'
      BY <2>1, <2>2 DEF RegistryInv, RowsOfObjects, Stored
    <2>6. OneRowPerHost'
      BY <2>1 DEF RegistryInv, OneRowPerHost, Persisted, Stored
    <2>7. OneDevicePerHost'
      BY <1>3, <2>2 DEF RegistryInv, TypeOK, OneDevicePerHost
    <2>8. RemovedStaysRemoved'
      BY <1>3, <2>1 DEF RegistryInv, RemovedStaysRemoved, Stored
    <2>9. PersistedUnlessFault'
      BY <1>3, <1>5, <2>1, <2>2
      DEF RegistryInv, TypeOK, PersistedUnlessFault, Persisted, Stored
    <2> QED
      BY <2>3, <2>4, <2>5, <2>6, <2>7, <2>8, <2>9 DEF RegistryInv
  <1> QED
    BY <1>2, <1>6, <1>7

LEMMA GetForDeployPreserves ==
    ASSUME RegistryInv, NEW r \in Requests, GetForDeploy(r)
    PROVE  RegistryInv'
  <1>1. /\ mine' \in [Requests -> SUBSET Ids]
        /\ \A q \in Requests : mine'[q] \subseteq mine[q] \cup devices
    BY DEF GetForDeploy, RegistryInv, TypeOK
  <1>2. pc' \in [Requests -> {"idle", "ok", "failed", "dead"} \cup Waiting]
    BY DEF GetForDeploy, RegistryInv, TypeOK, GoTo, Waiting
  <1>3. /\ UNCHANGED <<object, devices, rows, removed, restarts>>
        /\ faults' = faults
    BY DEF GetForDeploy
  <1>4. faults' \in 0..MaxFaults /\ faults' >= faults
    BY <1>3, RegistryAssumption DEF RegistryInv, TypeOK
  <1> QED
    BY <1>1, <1>2, <1>3, <1>4, MovePreserves

LEMMA DeployedPreserves ==
    ASSUME RegistryInv, NEW r \in Requests, Deployed(r)
    PROVE  RegistryInv'
  <1>1. pc' \in [Requests -> {"idle", "ok", "failed", "dead"} \cup Waiting]
    BY DEF Deployed, RegistryInv, TypeOK, GoTo, Waiting
  <1>2. UNCHANGED <<devices, rows, mine, removed, faults, restarts>>
    BY DEF Deployed
  <1>3. PICK i \in mine[r] : SetStatus(i, "connected") \/ UNCHANGED object
    BY DEF Deployed
  <1>4. CASE SetStatus(i, "connected")
    <2>1. "connected" \in Statuses
      BY DEF Statuses
    <2> QED
      BY <1>1, <1>2, <1>4, <2>1, StatusPreserves
  <1>5. CASE UNCHANGED object
    <2>1. /\ mine' \in [Requests -> SUBSET Ids]
          /\ \A q \in Requests : mine'[q] \subseteq mine[q] \cup devices
          /\ UNCHANGED <<object, devices, rows, removed, restarts>>
      BY <1>2, <1>5 DEF RegistryInv, TypeOK
    <2>2. faults' \in 0..MaxFaults /\ faults' >= faults
      BY <1>2, RegistryAssumption DEF RegistryInv, TypeOK
    <2> QED
      BY <1>1, <2>1, <2>2, MovePreserves
  <1> QED
    BY <1>3, <1>4, <1>5

LEMMA RemovePreserves ==
    ASSUME RegistryInv, NEW r \in Requests, Remove(r)
    PROVE  RegistryInv'
  <1>1. pc' \in [Requests -> {"idle", "ok", "failed", "dead"} \cup Waiting]
    BY DEF Remove, RegistryInv, TypeOK, GoTo, Waiting
  <1>2. UNCHANGED <<object, mine, restarts>>
    BY DEF Remove
  <1>3. PICK i \in devices :
          /\ devices' = devices \ {i}
          /\ \/ DeleteRow(i) /\ Fine /\ removed' = removed \cup {i}
             \/ Fault /\ UNCHANGED <<rows, removed>>
    BY DEF Remove
  <1>4. i \in Ids /\ object[i] # NoDevice
    BY DEF RegistryInv, TypeOK, IdsInUse
  <1>5. OneDevicePerHost'
    BY <1>2, <1>3 DEF RegistryInv, OneDevicePerHost
  <1>6. CASE DeleteRow(i) /\ Fine /\ removed' = removed \cup {i}
    <2>1. /\ rows' \in [Ids -> Devices \cup {NoDevice}]
          /\ rows'[i] = NoDevice
          /\ \A j \in Ids \ {i} : rows'[j] = rows[j]
      BY <1>4, <1>6 DEF DeleteRow, RegistryInv, TypeOK
    <2>2. Persisted' = Persisted \ {i}
      BY <2>1 DEF Persisted, Stored
    <2>3. TypeOK'
      BY <1>1, <1>2, <1>3, <1>4, <1>6, <2>1 DEF RegistryInv, TypeOK, Fine
    <2>4. IdsInUse'
      BY <1>2, <1>3, <1>4, <1>6 DEF RegistryInv, IdsInUse
    <2>5. RowsOfObjects'
      BY <1>2, <2>1 DEF RegistryInv, RowsOfObjects, Stored
    <2>6. OneRowPerHost'
      BY <2>1, <2>2 DEF RegistryInv, OneRowPerHost, Persisted
    <2>7. RemovedStaysRemoved'
      BY <1>3, <1>6, <2>1 DEF RegistryInv, TypeOK, RemovedStaysRemoved, Stored
    <2>8. PersistedUnlessFault'
      BY <1>2, <1>3, <1>6, <2>1, <2>2
      DEF Fine, RegistryInv, TypeOK, PersistedUnlessFault
    <2> QED
      BY <1>5, <2>3, <2>4, <2>5, <2>6, <2>7, <2>8 DEF RegistryInv
  <1>7. CASE Fault /\ UNCHANGED <<rows, removed>>
    <2>1. faults' \in 0..MaxFaults /\ faults' # 0
      BY <1>7, RegistryAssumption DEF Fault, RegistryInv, TypeOK
    <2>2. TypeOK'
      BY <1>1, <1>2, <1>3, <1>7, <2>1 DEF RegistryInv, TypeOK
    <2>3. IdsInUse'
      BY <1>2, <1>3, <1>7 DEF RegistryInv, IdsInUse
    <2>4. RowsOfObjects' /\ OneRowPerHost'
      BY <1>2, <1>7 DEF RegistryInv, RowsOfObjects, OneRowPerHost, Persisted, Stored
    <2>5. RemovedStaysRemoved'
      BY <1>3, <1>7 DEF RegistryInv, RemovedStaysRemoved, Stored
    <2>6. PersistedUnlessFault'
      BY <2>1 DEF PersistedUnlessFault
    <2> QED
      BY <1>5, <2>2, <2>3, <2>4, <2>5, <2>6 DEF RegistryInv
  <1> QED
    BY <1>3, <1>6, <1>7

\* The table is what a restart finds, and it is a registry on its own.
LEMMA RestartPreserves ==
    ASSUME RegistryInv, Restart
    PROVE  RegistryInv'
  <1>1. pc' \in [Requests -> {"idle", "ok", "failed", "dead"} \cup Waiting]
    BY DEF Restart, RegistryInv, TypeOK, Waiting
  <1>2. /\ devices' = Persisted
        /\ UNCHANGED <<rows, mine, removed, faults>>
        /\ restarts' \in 0..MaxRestarts
    BY RegistryAssumption DEF Restart, RegistryInv, TypeOK
  <1>3. /\ object' \in [Ids -> Devices \cup {NoDevice}]
        /\ \A j \in Ids : /\ Stored(j) => object'[j] = rows[j]
                          /\ ~Stored(j) => object'[j] = object[j]
    BY DEF Restart, RegistryInv, TypeOK
  <1>4. Persisted' = Persisted /\ Persisted \subseteq Ids
    BY <1>2 DEF Persisted, Stored
  <1>5. TypeOK'
    BY <1>1, <1>2, <1>3, <1>4 DEF RegistryInv, TypeOK
  <1>6. IdsInUse'
    BY <1>2, <1>3, <1>4 DEF RegistryInv, TypeOK, IdsInUse, Persisted, Stored
  <1>7. RowsOfObjects'
    BY <1>2, <1>3 DEF RegistryInv, RowsOfObjects, Stored
  <1>8. OneRowPerHost'
    BY <1>2, <1>4 DEF RegistryInv, OneRowPerHost
  <1>9. OneDevicePerHost'
    BY <1>2, <1>3, <1>4 DEF RegistryInv, OneRowPerHost, OneDevicePerHost, Persisted
  <1>10. RemovedStaysRemoved'
    BY <1>2, <1>4 DEF RegistryInv, RemovedStaysRemoved, Persisted, Stored
  <1>11. PersistedUnlessFault'
    BY <1>2, <1>3, <1>4 DEF PersistedUnlessFault, Persisted
  <1> QED
    BY <1>5, <1>6, <1>7, <1>8, <1>9, <1>10, <1>11 DEF RegistryInv

LEMMA NextRegistryInv == RegistryInv /\ [Next]_vars => RegistryInv'
  <1> SUFFICES ASSUME RegistryInv, [Next]_vars
               PROVE  RegistryInv'
    OBVIOUS
  <1>1. CASE Restart
    BY <1>1, RestartPreserves
  <1>2. ASSUME NEW r \in Requests, Upsert(r) PROVE RegistryInv'
    BY <1>2, UpsertPreserves
  <1>3. ASSUME NEW r \in Requests, Discover(r) PROVE RegistryInv'
    BY <1>3, DiscoverPreserves
  <1>4. ASSUME NEW r \in Requests, Save(r) PROVE RegistryInv'
    BY <1>4, SavePreserves
  <1>5. ASSUME NEW r \in Requests, GetForDeploy(r) PROVE RegistryInv'
    BY <1>5, GetForDeployPreserves
  <1>6. ASSUME NEW r \in Requests, Deployed(r) PROVE RegistryInv'
    BY <1>6, DeployedPreserves
  <1>7. ASSUME NEW r \in Requests, Remove(r) PROVE RegistryInv'
    BY <1>7, RemovePreserves
  <1>8. CASE UNCHANGED vars
    BY <1>8 DEF vars, RegistryInv, TypeOK, IdsInUse, RowsOfObjects, OneRowPerHost,
       OneDevicePerHost, RemovedStaysRemoved, PersistedUnlessFault, Persisted, Stored
  <1> QED
    BY <1>1, <1>2, <1>3, <1>4, <1>5, <1>6, <1>7, <1>8 DEF Next

LEMMA SpecRegistryInv == Spec => []RegistryInv
  BY InitRegistryInv, NextRegistryInv, PTL DEF Spec

\* The variables keep their types.
THEOREM RegistryTypeOK == Spec => []TypeOK
  <1>1. RegistryInv => TypeOK
    BY DEF RegistryInv
  <1> QED
    BY <1>1, SpecRegistryInv, PTL

\* upsert always finds the one device of a host (fortigate_manager.upsert).
THEOREM RegistryOneDevicePerHost == Spec => []OneDevicePerHost
  <1>1. RegistryInv => OneDevicePerHost
    BY DEF RegistryInv
  <1> QED
    BY <1>1, SpecRegistryInv, PTL

\* While no write failed, dictionary and table agree (fortigate_manager, the
\* writes under the lock).
THEOREM RegistryPersistedUnlessFault == Spec => []PersistedUnlessFault
  <1>1. RegistryInv => PersistedUnlessFault
    BY DEF RegistryInv
  <1> QED
    BY <1>1, SpecRegistryInv, PTL

\* A removal that was reported is final (fortigate_manager.save, remove).
THEOREM RegistryRemovedStaysRemoved == Spec => []RemovedStaysRemoved
  <1>1. RegistryInv => RemovedStaysRemoved
    BY DEF RegistryInv
  <1> QED
    BY <1>1, SpecRegistryInv, PTL

-----------------------------------------------------------------------------
(* The table implements the inventory.                                      *)

LEMMA InitInventory == Init => Inventory!InventoryInit
  BY DEF Init, NoDevice, Inventory!InventoryInit

\* A written row is a registration or, when the device had one, a stutter.
LEMMA WrittenInventory ==
    ASSUME RegistryInv, NEW i \in Ids, NEW device \in Devices, Written(i, device),
           Stored(i) => rows[i].host = device.host, i \notin removed,
           UNCHANGED removed
    PROVE  [Inventory!InventoryNext]_(Inventory!inventory)
  <1>1. /\ rows' = [rows EXCEPT ![i] = device]
        /\ \A j \in Persisted \ {i} : rows[j].host # device.host
    BY DEF Written, Unique
  <1>2. /\ rows'[i] = device
        /\ \A j \in Ids \ {i} : rows'[j] = rows[j]
    BY <1>1 DEF RegistryInv, TypeOK
  <1>3. CASE Stored(i)
    <2>1. [j \in Ids |-> rows[j].host]' = [j \in Ids |-> rows[j].host]
      BY <1>2, <1>3
    <2> QED
      BY <2>1 DEF Inventory!inventory
  <1>4. CASE ~Stored(i)
    <2>1. device.host \in Hosts /\ device.host # "none"
      BY RegistryAssumption DEF Devices
    <2>2. \A j \in Ids : rows[j].host # device.host
      BY <1>1, <1>4, <2>1 DEF Persisted, Stored, NoDevice
    <2>3. [j \in Ids |-> rows[j].host]'
            = [[j \in Ids |-> rows[j].host] EXCEPT ![i] = device.host]
      BY <1>2
    <2>4. rows[i].host = "none"
      BY <1>4 DEF Stored, NoDevice
    <2>5. Inventory!Register(i, device.host)
      BY <2>2, <2>3, <2>4 DEF Inventory!Register
    <2> QED
      BY <2>1, <2>5 DEF Inventory!InventoryNext
  <1> QED
    BY <1>3, <1>4

LEMMA SameTableInventory ==
    ASSUME UNCHANGED <<rows, removed>>
    PROVE  [Inventory!InventoryNext]_(Inventory!inventory)
  BY DEF Inventory!inventory

LEMMA UpsertInventory ==
    ASSUME RegistryInv, NEW r \in Requests, Upsert(r)
    PROVE  [Inventory!InventoryNext]_(Inventory!inventory)
  <1>1. PICK h \in Hosts, c \in Credentials : \E i \in IdsFor(h) : \E device :
          /\ device = IF i \in devices THEN [object[i] EXCEPT !.cred = c]
                      ELSE [host |-> h, cred |-> c, status |-> "new"]
          /\ Written(i, device) \/ NotWritten(i, device)
    BY DEF Upsert
  <1>2. PICK i \in IdsFor(h) : \E device :
          /\ device = IF i \in devices THEN [object[i] EXCEPT !.cred = c]
                      ELSE [host |-> h, cred |-> c, status |-> "new"]
          /\ Written(i, device) \/ NotWritten(i, device)
    BY <1>1
  <1>3. PICK device :
          /\ device = IF i \in devices THEN [object[i] EXCEPT !.cred = c]
                      ELSE [host |-> h, cred |-> c, status |-> "new"]
          /\ Written(i, device) \/ NotWritten(i, device)
    BY <1>2
  <1>4. UNCHANGED removed
    BY DEF Upsert
  <1>5. CASE Written(i, device)
    <2>1. /\ i \in Ids
          /\ device \in Devices
          /\ device.host = h
          /\ i \in devices => object[i].host = h
          /\ i \notin devices => ~Stored(i)
          /\ i \notin removed
      BY <1>3, UpsertedDevice
    <2>2. Stored(i) => rows[i].host = device.host
      BY <2>1 DEF RegistryInv, RowsOfObjects
    <2> QED
      BY <1>4, <1>5, <2>1, <2>2, WrittenInventory
  <1>6. CASE NotWritten(i, device)
    BY <1>4, <1>6, SameTableInventory DEF NotWritten
  <1> QED
    BY <1>3, <1>5, <1>6

LEMMA SaveInventory ==
    ASSUME RegistryInv, NEW r \in Requests, Save(r)
    PROVE  [Inventory!InventoryNext]_(Inventory!inventory)
  <1>1. PICK i \in mine[r] : \/ Registered(i) /\ Written(i, object[i])
                             \/ UNCHANGED rows
    BY DEF Save, NotWritten
  <1>2. UNCHANGED removed
    BY DEF Save
  <1>3. CASE Registered(i) /\ Written(i, object[i])
    <2>1. i \in Ids /\ object[i] \in Devices
      BY DEF RegistryInv, TypeOK, IdsInUse
    <2>2. Stored(i) => rows[i].host = object[i].host
      BY <2>1 DEF RegistryInv, RowsOfObjects
    <2>3. i \notin removed
      BY <1>3 DEF RegistryInv, RemovedStaysRemoved, Registered
    <2> QED
      BY <1>2, <1>3, <2>1, <2>2, <2>3, WrittenInventory
  <1>4. CASE UNCHANGED rows
    BY <1>2, <1>4, SameTableInventory
  <1> QED
    BY <1>1, <1>3, <1>4

LEMMA RemoveInventory ==
    ASSUME RegistryInv, NEW r \in Requests, Remove(r)
    PROVE  [Inventory!InventoryNext]_(Inventory!inventory)
  <1>1. PICK i \in devices : \/ DeleteRow(i) /\ removed' = removed \cup {i}
                             \/ UNCHANGED <<rows, removed>>
    BY DEF Remove
  <1>2. CASE DeleteRow(i) /\ removed' = removed \cup {i}
    <2>1. i \in Ids
      BY DEF RegistryInv, TypeOK
    <2>2. /\ rows'[i].host = "none"
          /\ \A j \in Ids \ {i} : rows'[j] = rows[j]
      BY <1>2, <2>1 DEF DeleteRow, NoDevice, RegistryInv, TypeOK
    <2>3. [j \in Ids |-> rows[j].host]'
            = [[j \in Ids |-> rows[j].host] EXCEPT ![i] = "none"]
      BY <2>2
    <2>4. Inventory!Retire(i)
      BY <1>2, <2>3 DEF Inventory!Retire
    <2> QED
      BY <2>1, <2>4 DEF Inventory!InventoryNext
  <1>3. CASE UNCHANGED <<rows, removed>>
    BY <1>3, SameTableInventory
  <1> QED
    BY <1>1, <1>2, <1>3

LEMMA NextInventory ==
    RegistryInv /\ [Next]_vars => [Inventory!InventoryNext]_(Inventory!inventory)
  <1> SUFFICES ASSUME RegistryInv, [Next]_vars
               PROVE  [Inventory!InventoryNext]_(Inventory!inventory)
    OBVIOUS
  <1>1. CASE Restart
    BY <1>1, SameTableInventory DEF Restart
  <1>2. ASSUME NEW r \in Requests, Upsert(r)
        PROVE  [Inventory!InventoryNext]_(Inventory!inventory)
    BY <1>2, UpsertInventory
  <1>3. ASSUME NEW r \in Requests, Discover(r) \/ GetForDeploy(r) \/ Deployed(r)
        PROVE  [Inventory!InventoryNext]_(Inventory!inventory)
    BY <1>3, SameTableInventory DEF Discover, GetForDeploy, Deployed
  <1>4. ASSUME NEW r \in Requests, Save(r)
        PROVE  [Inventory!InventoryNext]_(Inventory!inventory)
    BY <1>4, SaveInventory
  <1>5. ASSUME NEW r \in Requests, Remove(r)
        PROVE  [Inventory!InventoryNext]_(Inventory!inventory)
    BY <1>5, RemoveInventory
  <1>6. CASE UNCHANGED vars
    BY <1>6, SameTableInventory DEF vars
  <1> QED
    BY <1>1, <1>2, <1>3, <1>4, <1>5, <1>6 DEF Next

\* The table of the registry is a persistent inventory of devices, whatever
\* requests interleave, writes fail and restarts happen (fortigate_manager).
THEOREM RegistryImplementsInventory == Spec => ImplementsInventory
  BY InitInventory, NextInventory, SpecRegistryInv, PTL
  DEF Spec, ImplementsInventory, Inventory!InventorySpec
=============================================================================
