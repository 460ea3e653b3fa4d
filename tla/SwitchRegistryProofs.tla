------------------------- MODULE SwitchRegistryProofs -------------------------
(***************************************************************************)
(* Proofs about SwitchRegistry, for every set of ids, hosts, credentials    *)
(* and requests, and every number of failed writes and restarts.            *)
(***************************************************************************)
EXTENDS SwitchRegistry, TLAPS

\* An id that is or was in use has an object, so that upsert never takes it for
\* one that is free.
IdsInUse ==
    /\ \A i \in devices \cup retired : object[i] # NoDevice
    /\ \A r \in Requests : \A i \in Held(r) : object[i] # NoDevice

\* A row belongs to an object and has its host.
RowsOfObjects ==
    \A i \in Ids : Stored(i) => rows[i].host = object[i].host /\ object[i] # NoDevice

OneRowPerHost ==
    \A i, j \in Persisted : rows[i].host = rows[j].host => i = j

\* Nobody has a retired device in hand, and could bring it back.
RetiredUnheld == \A r \in Requests : Held(r) \cap retired = {}

\* A request works on one device; one that deletes it has taken it out of the
\* dictionary; and what one is about to write is a device of the same host.
HandFits(r) ==
    /\ \A i, j \in mine[r] : i = j
    /\ pc[r] = "delete" => mine[r] \cap devices = {}
    /\ AtWrite(r) => /\ values[r] \in Devices
                     /\ \A i \in mine[r] : values[r].host = object[i].host

\* The inductive invariant.
RegistryInv ==
    /\ TypeOK
    /\ IdsInUse
    /\ RowsOfObjects
    /\ OneRowPerHost
    /\ OneDevicePerHost
    /\ RetiredStaysRetired
    /\ RetiredUnheld
    /\ \A r \in Requests : HandFits(r)

HostsKept == \A i \in Ids : /\ object'[i].host = object[i].host
                            /\ object'[i] = NoDevice <=> object[i] = NoDevice

-----------------------------------------------------------------------------
(* Devices and the helpers                                                  *)

LEMMA DeviceIsNoNoDevice == NoDevice \notin Devices
  BY SwitchRegistryAssumption DEF NoDevice, Devices

\* A status or a host name changes nothing else of an object.
LEMMA InfoOnly ==
    ASSUME RegistryInv, NEW i \in Ids, object[i] # NoDevice,
           NEW info \in Infos, SetInfo(i, info)
    PROVE  /\ object' \in [Ids -> Devices \cup {NoDevice}]
           /\ HostsKept
  <1>1. object[i] \in Devices
    BY DEF RegistryInv, TypeOK
  <1>2. object' = [object EXCEPT ![i] = [object[i] EXCEPT !.info = info]]
    BY DEF SetInfo
  <1>3. /\ [object[i] EXCEPT !.info = info] \in Devices
        /\ [object[i] EXCEPT !.info = info].host = object[i].host
    BY <1>1 DEF Devices
  <1> QED
    BY <1>1, <1>2, <1>3, DeviceIsNoNoDevice DEF RegistryInv, TypeOK, HostsKept

\* What ends a request keeps the types of what it had.
LEMMA FinishTyped ==
    ASSUME TypeOK, NEW r \in Requests, NEW answer \in {"ok", "failed"}, Finish(r, answer)
    PROVE  /\ pc' \in [Requests -> {"idle", "ok", "failed", "dead"} \cup UnderWay]
           /\ mine' \in [Requests -> SUBSET Ids]
           /\ todo' \in [Requests -> SUBSET Ids]
           /\ values' \in [Requests -> Devices \cup {NoDevice}]
           /\ Held(r)' = {}
           /\ pc'[r] = answer
           /\ \A q \in Requests \ {r} : /\ pc'[q] = pc[q]
                                        /\ mine'[q] = mine[q]
                                        /\ todo'[q] = todo[q]
                                        /\ values'[q] = values[q]
  BY DEF TypeOK, Finish, GoTo, Held

\* Another request's hand still fits as long as hosts are kept and no device
\* appears that it has in hand.
LEMMA OtherHandFits ==
    ASSUME RegistryInv, NEW q \in Requests, HostsKept,
           mine[q] \cap devices' \subseteq devices,
           pc'[q] = pc[q], mine'[q] = mine[q], values'[q] = values[q]
    PROVE  HandFits(q)'
  <1>1. HandFits(q) /\ mine[q] \subseteq Ids
    BY DEF RegistryInv, TypeOK
  <1> QED
    BY <1>1 DEF HandFits, AtWrite, HostsKept

\* A step that leaves the table alone and adds no device keeps the invariant.
LEMMA QuietStep ==
    ASSUME RegistryInv, TypeOK', HostsKept,
           UNCHANGED <<rows, retired>>, devices' \subseteq devices,
           \A q \in Requests : Held(q)' \subseteq Held(q) \cup devices,
           \A q \in Requests : HandFits(q)'
    PROVE  RegistryInv'
  <1>1. IdsInUse'
    BY DEF RegistryInv, TypeOK, IdsInUse, HostsKept, Held
  <1>2. RowsOfObjects'
    BY DEF RegistryInv, RowsOfObjects, Stored, HostsKept
  <1>3. OneRowPerHost'
    BY DEF RegistryInv, OneRowPerHost, Persisted, Stored
  <1>4. OneDevicePerHost'
    BY DEF RegistryInv, TypeOK, OneDevicePerHost, HostsKept
  <1>5. RetiredStaysRetired'
    BY DEF RegistryInv, RetiredStaysRetired, Stored
  <1>6. RetiredUnheld'
    BY DEF RegistryInv, RetiredUnheld, RetiredStaysRetired
  <1> QED
    BY <1>1, <1>2, <1>3, <1>4, <1>5, <1>6 DEF RegistryInv

-----------------------------------------------------------------------------
(* The invariant, action by action                                          *)

LEMMA InitRegistryInv == Init => RegistryInv
  BY SwitchRegistryAssumption
  DEF Init, RegistryInv, TypeOK, IdsInUse, RowsOfObjects, OneRowPerHost, Held, AtWrite,
      OneDevicePerHost, RetiredStaysRetired, RetiredUnheld, HandFits, Stored, Persisted

LEMMA UpsertPreserves ==
    ASSUME RegistryInv, NEW r \in Requests, Upsert(r)
    PROVE  RegistryInv'
  <1>0. \A h \in Hosts : IdsFor(h) \subseteq Ids
    BY DEF IdsFor, RegistryInv, TypeOK
  <1>1. PICK h \in Hosts, c \in Credentials, i \in Ids :
          /\ i \in IdsFor(h)
          /\ object' = [object EXCEPT ![i] = IF i \in devices THEN [object[i] EXCEPT !.cred = c]
                                             ELSE [host |-> h, cred |-> c, info |-> "new"]]
          /\ devices' = devices \cup {i}
          /\ mine' = [mine EXCEPT ![r] = {i}]
          /\ upset' = upset \cup ({h} \cap HostsOf(HeldByOthers(r)))
    BY <1>0 DEF Upsert
  <1>2. /\ i \in Ids
        /\ i \in devices => object[i] \in Devices /\ object[i].host = h
        /\ i \notin devices => object[i] = NoDevice /\ \A j \in devices : object[j].host # h
    BY <1>1 DEF IdsFor, RegistryInv, TypeOK, IdsInUse
  <1>3. /\ object'[i] \in Devices /\ object'[i].host = h
        /\ \A j \in Ids \ {i} : object'[j] = object[j]
        /\ object' \in [Ids -> Devices \cup {NoDevice}]
    <2>1. CASE i \in devices
      <3>1. [object[i] EXCEPT !.cred = c] \in Devices /\ [object[i] EXCEPT !.cred = c].host = h
        BY <1>2, <2>1 DEF Devices
      <3> QED
        BY <1>1, <1>2, <2>1, <3>1 DEF RegistryInv, TypeOK
    <2>2. CASE i \notin devices
      <3>1. [host |-> h, cred |-> c, info |-> "new"] \in Devices
        BY DEF Devices, Infos
      <3> QED
        BY <1>1, <1>2, <2>2, <3>1 DEF RegistryInv, TypeOK
    <2> QED
      BY <2>1, <2>2
  <1>4. object'[i] # NoDevice
    BY <1>3, DeviceIsNoNoDevice
  <1>5. /\ pc' = [pc EXCEPT ![r] = "take"]
        /\ UNCHANGED <<rows, todo, values, retired, faults, restarts>>
    BY DEF Upsert, GoTo
  <1>6. TypeOK'
    BY <1>1, <1>2, <1>3, <1>5 DEF RegistryInv, TypeOK, UnderWay
  <1>7. i \notin retired
    BY <1>2 DEF RegistryInv, RetiredStaysRetired, IdsInUse
  <1>8. \A q \in Requests : Held(q)' \subseteq Held(q) \cup {i}
    BY <1>1, <1>5 DEF RegistryInv, TypeOK, Held
  <1>9. IdsInUse'
    BY <1>1, <1>2, <1>3, <1>4, <1>5, <1>8 DEF RegistryInv, TypeOK, IdsInUse, Held
  <1>10. RowsOfObjects'
    BY <1>2, <1>3, <1>4, <1>5 DEF RegistryInv, RowsOfObjects, Stored
  <1>11. OneRowPerHost'
    BY <1>5 DEF RegistryInv, OneRowPerHost, Persisted, Stored
  <1>12. OneDevicePerHost'
    BY <1>1, <1>2, <1>3 DEF RegistryInv, TypeOK, OneDevicePerHost
  <1>13. RetiredStaysRetired' /\ RetiredUnheld'
    BY <1>1, <1>5, <1>7, <1>8
    DEF RegistryInv, RetiredStaysRetired, RetiredUnheld, Stored
  <1>14. ASSUME NEW q \in Requests PROVE HandFits(q)'
    <2>1. CASE q = r
      BY <1>1, <1>5, <2>1 DEF HandFits, AtWrite, RegistryInv, TypeOK
    <2>2. CASE q # r
      <3>1. /\ pc'[q] = pc[q] /\ mine'[q] = mine[q] /\ values'[q] = values[q]
            /\ HandFits(q) /\ mine[q] \subseteq Ids
        BY <1>1, <1>5, <2>2 DEF RegistryInv, TypeOK
      <3>2. \A j \in mine[q] : object[j] # NoDevice
        BY DEF RegistryInv, IdsInUse, Held
      <3>3. \A j \in mine[q] : object'[j].host = object[j].host
        BY <1>2, <1>3, <3>1, <3>2
      <3>4. mine[q] \cap devices' \subseteq devices
        BY <1>1, <1>2, <3>2
      <3> QED
        BY <3>1, <3>3, <3>4 DEF HandFits, AtWrite
    <2> QED
      BY <2>1, <2>2
  <1> QED
    BY <1>6, <1>9, <1>10, <1>11, <1>12, <1>13, <1>14 DEF RegistryInv

LEMMA EvaluatePreserves ==
    ASSUME RegistryInv, NEW r \in Requests, Evaluate(r)
    PROVE  RegistryInv'
  <1>1. PICK i \in mine[r] : values' = [values EXCEPT ![r] = object[i]]
    BY DEF Evaluate, ValuesOf
  <1>2. /\ i \in Ids /\ object[i] \in Devices
        /\ pc[r] \in {"take", "read", "reread"}
        /\ UNCHANGED <<object, devices, rows, mine, todo, retired, upset, faults, restarts>>
    BY DEF Evaluate, RegistryInv, TypeOK, IdsInUse, Held
  <1>3. PICK place \in {"store", "write", "rewrite"} : pc' = [pc EXCEPT ![r] = place]
    BY <1>2 DEF Evaluate, GoTo
  <1>4. TypeOK'
    BY <1>1, <1>2, <1>3 DEF RegistryInv, TypeOK, UnderWay
  <1>5. HostsKept
    BY <1>2 DEF HostsKept
  <1>6. HandFits(r)'
    BY <1>1, <1>2, <1>3 DEF RegistryInv, TypeOK, HandFits, AtWrite
  <1>7. \A q \in Requests \ {r} : HandFits(q)'
    BY <1>1, <1>2, <1>3, <1>5, OtherHandFits DEF RegistryInv, TypeOK
  <1> QED
    BY <1>2, <1>4, <1>5, <1>6, <1>7, QuietStep DEF Held

\* What both outcomes of a write leave of the request.
LEMMA SavedTyped ==
    ASSUME TypeOK, NEW r \in Requests, Saved(r)
    PROVE  /\ pc' \in [Requests -> {"idle", "ok", "failed", "dead"} \cup UnderWay]
           /\ mine' \in [Requests -> SUBSET Ids]
           /\ todo' \in [Requests -> SUBSET Ids]
           /\ values' \in [Requests -> Devices \cup {NoDevice}]
           /\ mine'[r] = {} /\ todo'[r] \subseteq todo[r]
           /\ pc'[r] \in {"ok", "collect"}
           /\ \A q \in Requests \ {r} : /\ pc'[q] = pc[q]
                                        /\ mine'[q] = mine[q]
                                        /\ todo'[q] = todo[q]
                                        /\ values'[q] = values[q]
  <1>1. CASE todo[r] = {}
    BY <1>1, FinishTyped DEF Saved, Held
  <1>2. CASE todo[r] # {}
    BY <1>2 DEF Saved, GoTo, TypeOK, UnderWay
  <1> QED
    BY <1>1, <1>2

LEMMA WritePreserves ==
    ASSUME RegistryInv, NEW r \in Requests, Write(r)
    PROVE  RegistryInv'
  <1>1. PICK i \in mine[r] : Unique(i, values[r]) /\ rows' = [rows EXCEPT ![i] = values[r]]
    BY DEF Write
  <1>2. /\ AtWrite(r) /\ Saved(r)
        /\ UNCHANGED <<object, devices, retired, upset, faults, restarts>>
    BY DEF Write
  <1>3. /\ i \in Ids /\ object[i] # NoDevice /\ i \notin retired
        /\ values[r] \in Devices /\ values[r].host = object[i].host
    BY <1>2 DEF RegistryInv, TypeOK, IdsInUse, RetiredUnheld, HandFits, Held
  <1>4. /\ pc' \in [Requests -> {"idle", "ok", "failed", "dead"} \cup UnderWay]
        /\ mine' \in [Requests -> SUBSET Ids]
        /\ todo' \in [Requests -> SUBSET Ids]
        /\ values' \in [Requests -> Devices \cup {NoDevice}]
        /\ mine'[r] = {} /\ todo'[r] \subseteq todo[r]
        /\ pc'[r] \in {"ok", "collect"}
        /\ \A q \in Requests \ {r} : /\ pc'[q] = pc[q]
                                     /\ mine'[q] = mine[q]
                                     /\ todo'[q] = todo[q]
                                     /\ values'[q] = values[q]
    BY <1>2, SavedTyped DEF RegistryInv
  <1>5. /\ rows' \in [Ids -> Devices \cup {NoDevice}]
        /\ rows'[i] = values[r] /\ \A j \in Ids \ {i} : rows'[j] = rows[j]
        /\ Persisted' = Persisted \cup {i}
    BY <1>1, <1>3, DeviceIsNoNoDevice DEF RegistryInv, TypeOK, Persisted, Stored
  <1>6. TypeOK'
    BY <1>2, <1>4, <1>5 DEF RegistryInv, TypeOK
  <1>7. \A q \in Requests : Held(q)' \subseteq Held(q)
    BY <1>4 DEF Held
  <1>8. IdsInUse' /\ RetiredUnheld'
    BY <1>2, <1>7 DEF RegistryInv, IdsInUse, RetiredUnheld
  <1>9. RowsOfObjects'
    BY <1>2, <1>3, <1>5 DEF RegistryInv, RowsOfObjects, Stored
  <1>10. OneRowPerHost'
    <2>1. SUFFICES ASSUME NEW j \in Persisted', NEW k \in Persisted',
                          rows'[j].host = rows'[k].host
                   PROVE  j = k
      BY DEF OneRowPerHost
    <2>2. \A m \in Persisted \ {i} : rows[m].host # values[r].host
      BY <1>1 DEF Unique
    <2>3. j \in Ids /\ k \in Ids
      BY DEF Persisted
    <2>4. CASE j = i \/ k = i
      BY <1>5, <2>1, <2>2, <2>3, <2>4
    <2>5. CASE j # i /\ k # i
      BY <1>5, <2>1, <2>3, <2>5 DEF RegistryInv, OneRowPerHost
    <2> QED
      BY <2>4, <2>5
  <1>11. OneDevicePerHost'
    BY <1>2 DEF RegistryInv, OneDevicePerHost
  <1>12. RetiredStaysRetired'
    BY <1>2, <1>3, <1>5 DEF RegistryInv, TypeOK, RetiredStaysRetired, Stored
  <1>13. ASSUME NEW q \in Requests PROVE HandFits(q)'
    <2>1. CASE q = r
      BY <1>4, <2>1 DEF HandFits, AtWrite
    <2>2. CASE q # r
      BY <1>2, <1>4, <2>2, OtherHandFits DEF HostsKept
    <2> QED
      BY <2>1, <2>2
  <1> QED
    BY <1>6, <1>8, <1>9, <1>10, <1>11, <1>12, <1>13 DEF RegistryInv

LEMMA WriteFailsPreserves ==
    ASSUME RegistryInv, NEW r \in Requests, WriteFails(r)
    PROVE  RegistryInv'
  <1>1. PICK i \in mine[r] :
          /\ \/ ~Unique(i, values[r]) /\ Fine /\ UNCHANGED upset
             \/ Fault /\ upset' = upset \cup HostsOf({i})
          /\ IF pc[r] = "write"
             THEN /\ SetInfo(i, "error") /\ GoTo(r, "reread")
                  /\ values' = [values EXCEPT ![r] = NoDevice]
                  /\ UNCHANGED <<mine, todo>>
             ELSE Finish(r, "failed") /\ UNCHANGED object
    BY DEF WriteFails
  <1>2. UNCHANGED <<devices, rows, retired, restarts>>
    BY DEF WriteFails
  <1>3. i \in Ids /\ object[i] \in Devices /\ object[i] # NoDevice
    BY DEF RegistryInv, TypeOK, IdsInUse, Held
  <1>4. upset' \subseteq Hosts /\ faults' \in 0..MaxFaults
    BY <1>1, <1>3, SwitchRegistryAssumption
    DEF RegistryInv, TypeOK, Fine, Fault, HostsOf, Devices
  <1>5. CASE pc[r] = "write"
    <2>1. object' \in [Ids -> Devices \cup {NoDevice}] /\ HostsKept
      BY <1>1, <1>3, <1>5, InfoOnly DEF Infos
    <2>2. TypeOK'
      BY <1>1, <1>2, <1>4, <1>5, <2>1 DEF RegistryInv, TypeOK, GoTo, UnderWay
    <2>3. /\ pc'[r] = "reread" /\ mine'[r] = mine[r]
          /\ \A q \in Requests \ {r} :
                pc'[q] = pc[q] /\ mine'[q] = mine[q] /\ values'[q] = values[q]
      BY <1>1, <1>5 DEF RegistryInv, TypeOK, GoTo
    <2>4. HandFits(r)'
      BY <2>3 DEF RegistryInv, HandFits, AtWrite
    <2>5. \A q \in Requests \ {r} : HandFits(q)'
      BY <1>2, <2>1, <2>3, OtherHandFits
    <2> QED
      BY <1>1, <1>2, <1>5, <2>1, <2>2, <2>4, <2>5, QuietStep DEF Held
  <1>6. CASE pc[r] # "write"
    <2>1. Finish(r, "failed") /\ UNCHANGED object
      BY <1>1, <1>6
    <2>2. /\ pc' \in [Requests -> {"idle", "ok", "failed", "dead"} \cup UnderWay]
          /\ mine' \in [Requests -> SUBSET Ids]
          /\ todo' \in [Requests -> SUBSET Ids]
          /\ values' \in [Requests -> Devices \cup {NoDevice}]
          /\ Held(r)' = {} /\ pc'[r] = "failed"
          /\ \A q \in Requests \ {r} : /\ pc'[q] = pc[q]
                                       /\ mine'[q] = mine[q]
                                       /\ todo'[q] = todo[q]
                                       /\ values'[q] = values[q]
      BY <2>1, FinishTyped DEF RegistryInv
    <2>3. TypeOK' /\ HostsKept
      BY <1>2, <1>4, <2>1, <2>2 DEF RegistryInv, TypeOK, HostsKept
    <2>4. HandFits(r)'
      BY <2>2 DEF HandFits, AtWrite, Held
    <2>5. \A q \in Requests \ {r} : HandFits(q)'
      BY <1>2, <2>2, <2>3, OtherHandFits
    <2>6. \A q \in Requests : Held(q)' \subseteq Held(q) \cup devices
      BY <2>2 DEF Held
    <2> QED
      BY <1>2, <2>3, <2>4, <2>5, <2>6, QuietStep
  <1> QED
    BY <1>5, <1>6

\* Taking devices of the dictionary in hand, which may be taken out of it.
LEMMA TakePreserves ==
    ASSUME RegistryInv, NEW r \in Requests, NEW D \in SUBSET devices,
           NEW place \in {"collect", "session", "delete"},
           pc' = [pc EXCEPT ![r] = place],
           \/ mine' = mine /\ todo' = [todo EXCEPT ![r] = D] /\ place = "collect"
           \/ todo' = todo /\ \E i \in devices : D = {i} /\ mine' = [mine EXCEPT ![r] = D],
           devices' \subseteq devices, place = "delete" => devices' \cap mine'[r] = {},
           upset' = Overlap(r, D),
           UNCHANGED <<object, rows, values, retired, faults, restarts>>
    PROVE  RegistryInv'
  <1>1. upset' \subseteq Hosts
    <2>1. \A i \in D : object[i] \in Devices
      BY DEF RegistryInv, TypeOK, IdsInUse
    <2> QED
      BY <2>1 DEF Overlap, HostsOf, Devices, RegistryInv, TypeOK
  <1>2. D \subseteq Ids
    BY DEF RegistryInv, TypeOK
  <1>3. TypeOK'
    BY <1>1, <1>2 DEF RegistryInv, TypeOK, UnderWay
  <1>4. HostsKept
    BY DEF HostsKept
  <1>5. HandFits(r)'
    BY DEF RegistryInv, TypeOK, HandFits, AtWrite
  <1>6. \A q \in Requests \ {r} : HandFits(q)'
    BY <1>4, OtherHandFits DEF RegistryInv, TypeOK
  <1>7. \A q \in Requests : Held(q)' \subseteq Held(q) \cup devices
    BY DEF Held, RegistryInv, TypeOK
  <1> QED
    BY <1>3, <1>4, <1>5, <1>6, <1>7, QuietStep

LEMMA OutcomePreserves ==
    ASSUME RegistryInv, NEW r \in Requests, Outcome(r)
    PROVE  RegistryInv'
  <1>1. PICK i \in todo[r], o \in {"connected", "error"} :
          /\ SetInfo(i, o)
          /\ mine' = [mine EXCEPT ![r] = {i}]
          /\ todo' = [todo EXCEPT ![r] = @ \ {i}]
          /\ GoTo(r, IF o = "connected" THEN "read" ELSE "reread")
    BY DEF Outcome
  <1>2. UNCHANGED <<devices, rows, values, retired, upset, faults, restarts>>
    BY DEF Outcome
  <1>3. i \in Ids /\ object[i] # NoDevice
    BY DEF RegistryInv, TypeOK, IdsInUse, Held
  <1>4. object' \in [Ids -> Devices \cup {NoDevice}] /\ HostsKept
    BY <1>1, <1>3, InfoOnly DEF Infos
  <1>5. PICK place \in {"read", "reread"} : pc' = [pc EXCEPT ![r] = place]
    BY <1>1 DEF GoTo
  <1>6. TypeOK'
    BY <1>1, <1>2, <1>3, <1>4, <1>5 DEF RegistryInv, TypeOK, UnderWay
  <1>7. HandFits(r)'
    BY <1>1, <1>5 DEF RegistryInv, TypeOK, HandFits, AtWrite
  <1>8. \A q \in Requests \ {r} : HandFits(q)'
    BY <1>1, <1>2, <1>4, <1>5, OtherHandFits DEF RegistryInv, TypeOK
  <1>9. \A q \in Requests : Held(q)' \subseteq Held(q) \cup devices
    BY <1>1 DEF Held, RegistryInv, TypeOK
  <1> QED
    BY <1>2, <1>4, <1>6, <1>7, <1>8, <1>9, QuietStep

LEMMA ConfiguredPreserves ==
    ASSUME RegistryInv, NEW r \in Requests, Configured(r)
    PROVE  RegistryInv'
  <1>1. UNCHANGED <<devices, rows, retired, upset, faults, restarts>>
    BY DEF Configured
  <1>2. object' \in [Ids -> Devices \cup {NoDevice}] /\ HostsKept
    <2>1. CASE UNCHANGED object
      BY <2>1 DEF HostsKept, RegistryInv, TypeOK
    <2>2. CASE \E i \in mine[r] : SetInfo(i, "renamed")
      <3>1. PICK i \in mine[r] : SetInfo(i, "renamed")
        BY <2>2
      <3>2. i \in Ids /\ object[i] # NoDevice
        BY DEF RegistryInv, TypeOK, IdsInUse, Held
      <3> QED
        BY <3>1, <3>2, InfoOnly DEF Infos
    <2> QED
      BY <2>1, <2>2 DEF Configured
  <1>3. PICK answer \in {"ok", "failed"} : Finish(r, answer)
    BY DEF Configured
  <1>4. /\ pc' \in [Requests -> {"idle", "ok", "failed", "dead"} \cup UnderWay]
        /\ mine' \in [Requests -> SUBSET Ids]
        /\ todo' \in [Requests -> SUBSET Ids]
        /\ values' \in [Requests -> Devices \cup {NoDevice}]
        /\ Held(r)' = {} /\ pc'[r] = answer
        /\ \A q \in Requests \ {r} : /\ pc'[q] = pc[q]
                                     /\ mine'[q] = mine[q]
                                     /\ todo'[q] = todo[q]
                                     /\ values'[q] = values[q]
    BY <1>3, FinishTyped DEF RegistryInv
  <1>5. TypeOK'
    BY <1>1, <1>2, <1>4 DEF RegistryInv, TypeOK
  <1>6. HandFits(r)'
    BY <1>4 DEF HandFits, AtWrite, Held
  <1>7. \A q \in Requests \ {r} : HandFits(q)'
    BY <1>1, <1>2, <1>4, OtherHandFits
  <1>8. \A q \in Requests : Held(q)' \subseteq Held(q) \cup devices
    BY <1>4 DEF Held
  <1> QED
    BY <1>1, <1>2, <1>5, <1>6, <1>7, <1>8, QuietStep

LEMMA DeletePreserves ==
    ASSUME RegistryInv, NEW r \in Requests, Delete(r)
    PROVE  RegistryInv'
  <1>1. PICK i \in mine[r] :
        \/ /\ DeleteRow(i) /\ Fine
           /\ retired' = retired \cup ({i} \ HeldByOthers(r))
           /\ Finish(r, "ok")
           /\ UNCHANGED upset
        \/ /\ Fault
           /\ upset' = upset \cup HostsOf({i})
           /\ Finish(r, "failed")
           /\ UNCHANGED <<rows, retired>>
    BY DEF Delete
  <1>2. UNCHANGED <<object, devices, restarts>> /\ pc[r] = "delete"
    BY DEF Delete
  <1>3. /\ i \in Ids /\ object[i] # NoDevice /\ object[i] \in Devices /\ i \notin devices
    BY <1>2 DEF RegistryInv, TypeOK, IdsInUse, Held, HandFits
  <1>4. PICK answer \in {"ok", "failed"} : Finish(r, answer)
    BY <1>1
  <1>5. /\ pc' \in [Requests -> {"idle", "ok", "failed", "dead"} \cup UnderWay]
        /\ mine' \in [Requests -> SUBSET Ids]
        /\ todo' \in [Requests -> SUBSET Ids]
        /\ values' \in [Requests -> Devices \cup {NoDevice}]
        /\ Held(r)' = {} /\ pc'[r] = answer
        /\ \A q \in Requests \ {r} : /\ pc'[q] = pc[q]
                                     /\ mine'[q] = mine[q]
                                     /\ todo'[q] = todo[q]
                                     /\ values'[q] = values[q]
    BY <1>4, FinishTyped DEF RegistryInv
  <1>6. HostsKept
    BY <1>2 DEF HostsKept
  <1>7. HandFits(r)'
    BY <1>5 DEF HandFits, AtWrite, Held
  <1>8. \A q \in Requests \ {r} : HandFits(q)'
    BY <1>2, <1>5, <1>6, OtherHandFits
  <1>9. \A q \in Requests : Held(q)' \subseteq Held(q)
    BY <1>5 DEF Held
  <1>10. CASE UNCHANGED <<rows, retired>> /\ Fault /\ upset' = upset \cup HostsOf({i})
    <2>1. upset' \subseteq Hosts /\ faults' \in 0..MaxFaults
      BY <1>3, <1>10, SwitchRegistryAssumption
      DEF HostsOf, Devices, RegistryInv, TypeOK, Fault
    <2>2. TypeOK'
      BY <1>2, <1>5, <1>10, <2>1 DEF RegistryInv, TypeOK
    <2> QED
      BY <1>2, <1>6, <1>7, <1>8, <1>9, <1>10, <2>2, QuietStep
  <1>11. CASE /\ DeleteRow(i) /\ Fine /\ UNCHANGED upset
              /\ retired' = retired \cup ({i} \ HeldByOthers(r))
    <2>1. /\ rows' \in [Ids -> Devices \cup {NoDevice}]
          /\ rows'[i] = NoDevice /\ \A j \in Ids \ {i} : rows'[j] = rows[j]
      BY <1>3, <1>11 DEF DeleteRow, RegistryInv, TypeOK
    <2>2. TypeOK'
      BY <1>2, <1>3, <1>5, <1>11, <2>1 DEF RegistryInv, TypeOK, Fine
    <2>3. IdsInUse'
      BY <1>2, <1>3, <1>9, <1>11 DEF RegistryInv, IdsInUse
    <2>4. RowsOfObjects'
      BY <1>2, <2>1 DEF RegistryInv, RowsOfObjects, Stored
    <2>5. Persisted' = Persisted \ {i}
      BY <2>1 DEF Persisted, Stored
    <2>6. OneRowPerHost'
      BY <2>1, <2>5 DEF RegistryInv, OneRowPerHost, Persisted
    <2>7. OneDevicePerHost'
      BY <1>2 DEF RegistryInv, OneDevicePerHost
    <2>8. RetiredStaysRetired'
      BY <1>2, <1>3, <1>11, <2>1 DEF RegistryInv, TypeOK, RetiredStaysRetired, Stored
    <2>9. RetiredUnheld'
      <3>1. \A q \in Requests \ {r} : Held(q) \subseteq HeldByOthers(r)
        BY DEF HeldByOthers
      <3> QED
        BY <1>5, <1>9, <1>11, <3>1 DEF RegistryInv, RetiredUnheld
    <2> QED
      BY <1>7, <1>8, <2>2, <2>3, <2>4, <2>6, <2>7, <2>8, <2>9 DEF RegistryInv
  <1> QED
    BY <1>1, <1>10, <1>11

LEMMA RestartPreserves ==
    ASSUME RegistryInv, Restart
    PROVE  RegistryInv'
  <1>1. /\ restarts' = restarts + 1 /\ restarts < MaxRestarts
        /\ devices' = Persisted
        /\ object' = [i \in Ids |-> IF Stored(i) THEN rows[i] ELSE object[i]]
        /\ pc' = [r \in Requests |-> IF pc[r] \in UnderWay THEN "dead" ELSE pc[r]]
        /\ mine' = [r \in Requests |-> {}]
        /\ todo' = [r \in Requests |-> {}]
        /\ values' = [r \in Requests |-> NoDevice]
        /\ upset' = {}
        /\ UNCHANGED <<rows, retired, faults>>
    BY DEF Restart
  <1>2. object' \in [Ids -> Devices \cup {NoDevice}] /\ HostsKept
    BY <1>1 DEF RegistryInv, TypeOK, RowsOfObjects, Stored, HostsKept
  <1>3. TypeOK'
    <2>1. pc' \in [Requests -> {"idle", "ok", "failed", "dead"} \cup UnderWay]
      BY <1>1 DEF RegistryInv, TypeOK
    <2>2. restarts' \in 0..MaxRestarts
      BY <1>1, SwitchRegistryAssumption DEF RegistryInv, TypeOK
    <2> QED
      BY <1>1, <1>2, <2>1, <2>2 DEF RegistryInv, TypeOK, Persisted
  <1>4. \A r \in Requests : Held(r)' = {}
    BY <1>1 DEF Held
  <1>5. IdsInUse'
    BY <1>1, <1>2, <1>4
    DEF RegistryInv, TypeOK, IdsInUse, RowsOfObjects, Persisted, HostsKept
  <1>6. RowsOfObjects'
    BY <1>1, <1>2 DEF RegistryInv, RowsOfObjects, Stored, HostsKept
  <1>7. OneRowPerHost'
    BY <1>1 DEF RegistryInv, OneRowPerHost, Persisted, Stored
  <1>8. OneDevicePerHost'
    <2>1. \A i \in Persisted : i \in Ids /\ object'[i].host = rows[i].host
      BY <1>1 DEF Persisted
    <2> QED
      BY <1>1, <2>1 DEF RegistryInv, OneDevicePerHost, OneRowPerHost
  <1>9. RetiredStaysRetired' /\ RetiredUnheld'
    BY <1>1, <1>4 DEF RegistryInv, RetiredStaysRetired, RetiredUnheld, Persisted, Stored
  <1>10. ASSUME NEW r \in Requests PROVE HandFits(r)'
    BY <1>1 DEF HandFits, AtWrite, UnderWay
  <1> QED
    BY <1>3, <1>5, <1>6, <1>7, <1>8, <1>9, <1>10 DEF RegistryInv

LEMMA StartPreserves ==
    ASSUME RegistryInv, NEW r \in Requests,
           StartDiscovery(r) \/ StartConfigure(r) \/ Pop(r)
    PROVE  RegistryInv'
  <1>1. CASE StartDiscovery(r)
    <2>1. PICK D \in SUBSET devices :
            todo' = [todo EXCEPT ![r] = D] /\ upset' = Overlap(r, D)
      BY <1>1 DEF StartDiscovery
    <2> QED
      BY <1>1, <2>1, TakePreserves DEF StartDiscovery, GoTo
  <1>2. CASE StartConfigure(r)
    <2>1. PICK i \in devices : /\ mine' = [mine EXCEPT ![r] = {i}]
                               /\ upset' = Overlap(r, {i})
      BY <1>2 DEF StartConfigure
    <2>2. {i} \in SUBSET devices
      BY <2>1
    <2> QED
      BY <1>2, <2>1, <2>2, TakePreserves DEF StartConfigure, GoTo
  <1>3. CASE Pop(r)
    <2>1. PICK i \in devices : /\ devices' = devices \ {i}
                               /\ mine' = [mine EXCEPT ![r] = {i}]
                               /\ upset' = Overlap(r, {i})
      BY <1>3 DEF Pop
    <2>2. {i} \in SUBSET devices
      BY <2>1
    <2>3. devices' \subseteq devices /\ devices' \cap mine'[r] = {}
      BY <2>1 DEF RegistryInv, TypeOK
    <2> QED
      BY <1>3, <2>1, <2>2, <2>3, TakePreserves DEF Pop, GoTo
  <1> QED
    BY <1>1, <1>2, <1>3

LEMMA StutterPreserves == RegistryInv /\ UNCHANGED vars => RegistryInv'
  <1> SUFFICES ASSUME RegistryInv, UNCHANGED vars PROVE RegistryInv'
    OBVIOUS
  <1>1. TypeOK' /\ HostsKept
    BY DEF vars, RegistryInv, TypeOK, HostsKept
  <1>2. \A q \in Requests : HandFits(q)'
    BY DEF vars, RegistryInv, HandFits, AtWrite
  <1> QED
    BY <1>1, <1>2, QuietStep DEF vars, Held

LEMMA NextPreserves == RegistryInv /\ [Next]_vars => RegistryInv'
  BY UpsertPreserves, EvaluatePreserves, WritePreserves, WriteFailsPreserves,
     StartPreserves, OutcomePreserves, ConfiguredPreserves, DeletePreserves,
     RestartPreserves, StutterPreserves
  DEF Next

LEMMA SpecRegistryInv == Spec => []RegistryInv
  BY InitRegistryInv, NextPreserves, PTL DEF Spec

\* The registry of switches keeps its types.
THEOREM RegistryTypeOK == Spec => []TypeOK
  <1>1. RegistryInv => TypeOK
    BY DEF RegistryInv
  <1> QED
    BY <1>1, SpecRegistryInv, PTL

\* The dictionary never holds two devices for one host, whatever rows a
\* discovery writes after a removal and whatever a restart finds (upsert).
THEOREM OneDevicePerHostHolds == Spec => []OneDevicePerHost
  <1>1. RegistryInv => OneDevicePerHost
    BY DEF RegistryInv
  <1> QED
    BY <1>1, SpecRegistryInv, PTL

\* A device removed while no other request held it never comes back (remove).
THEOREM RetiredStaysRetiredHolds == Spec => []RetiredStaysRetired
  <1>1. RegistryInv => RetiredStaysRetired
    BY DEF RegistryInv
  <1> QED
    BY <1>1, SpecRegistryInv, PTL

-----------------------------------------------------------------------------
(* Dictionary and table agree on the hosts nobody works on.  What has to be  *)
(* known of a host on the way depends on where the request is that works on *)
(* it, and on nothing else: until the host is upset there is only one.      *)

DevicesOf(h) == {i \in devices : object[i].host = h}
RowsOf(h)    == {i \in Persisted : rows[i].host = h}

Agrees(h) ==
    /\ DevicesOf(h) = RowsOf(h)
    /\ \A i \in DevicesOf(h) : /\ rows[i].cred = object[i].cred
                               /\ rows[i].info = object[i].info \/ object[i].info = "renamed"

Unheld(h) == \A r \in Requests : \A i \in Held(r) : object[i].host # h

\* A device that waits for its outcome, or is being configured, still agrees
\* with its row; one that is to be written or deleted may differ from it, but
\* no other row has its host, and what will be written is the object.
Ready(r, i) ==
    /\ i \in todo[r] \/ pc[r] = "session" => i \in devices /\ Agrees(object[i].host)
    /\ i \in mine[r] =>
        /\ RowsOf(object[i].host) \subseteq {i}
        /\ IF pc[r] = "delete" THEN DevicesOf(object[i].host) = {} ELSE i \in devices
        /\ AtWrite(r) => values[r] = object[i]

Quiet(h) ==
    h \notin upset =>
        /\ \A q, r \in Requests : \A i \in Held(q), j \in Held(r) :
              object[i].host = h /\ object[j].host = h => q = r /\ i = j
        /\ Unheld(h) => Agrees(h)
        /\ \A r \in Requests : \A i \in Held(r) : object[i].host = h => Ready(r, i)

InPhase(r) ==
    /\ pc[r] \notin UnderWay => Held(r) = {}
    /\ pc[r] = "collect" => mine[r] = {}
    /\ pc[r] = "session" => mine[r] # {}
    /\ mine[r] \cap todo[r] = {}

\* The inductive invariant, on top of RegistryInv.
QuietInv == /\ \A h \in Hosts : Quiet(h)
            /\ \A r \in Requests : InPhase(r)

\* What a step of r leaves of the other requests.
OthersWait(r) == \A q \in Requests \ {r} : /\ pc'[q] = pc[q]
                                           /\ mine'[q] = mine[q]
                                           /\ todo'[q] = todo[q]
                                           /\ values'[q] = values[q]

\* All that changes is device i, which has host g: its object, its row and
\* whether it is in the dictionary.
OnlyDevice(i, g) ==
    /\ object[i].host = g \/ object[i] = NoDevice
    /\ object'[i].host = g
    /\ rows'[i].host \in {g, "none"}
    /\ \A j \in Ids \ {i} : /\ object'[j] = object[j]
                            /\ rows'[j] = rows[j]
                            /\ j \in devices' <=> j \in devices
    /\ upset \subseteq upset'

LEMMA NoneIsNoHost == "none" \notin Hosts /\ NoDevice.host = "none"
  BY SwitchRegistryAssumption DEF NoDevice

LEMMA HeldIsDevice ==
    ASSUME RegistryInv, NEW r \in Requests, NEW i \in Held(r)
    PROVE  /\ i \in Ids /\ object[i] \in Devices /\ object[i] # NoDevice
           /\ object[i].host \in Hosts
  <1>1. i \in Ids /\ object[i] \in Devices /\ object[i] # NoDevice
    BY DEF RegistryInv, TypeOK, IdsInUse, Held
  <1> QED
    BY <1>1 DEF Devices

\* A row has the host of its object, if it is there at all.
LEMMA RowHost ==
    ASSUME RegistryInv, NEW i \in Ids
    PROVE  /\ rows[i].host = object[i].host \/ rows[i].host = "none"
           /\ Stored(i) <=> rows[i].host # "none"
           /\ rows[i].host \in Hosts \cup {"none"}
           /\ object[i].host \in Hosts \cup {"none"}
  <1>1. CASE Stored(i)
    <2>1. rows[i] \in Devices
      BY <1>1 DEF Stored, RegistryInv, TypeOK
    <2> QED
      BY <1>1, <2>1, NoneIsNoHost DEF RegistryInv, RowsOfObjects, Devices, TypeOK
  <1>2. CASE ~Stored(i)
    BY <1>2, NoneIsNoHost DEF Stored, RegistryInv, TypeOK, Devices
  <1> QED
    BY <1>1, <1>2

\* A step of one request on a device of host g, from which it may drop devices
\* of other hosts it waited for, keeps those hosts quiet.
LEMMA OneHostStep ==
    ASSUME RegistryInv, RegistryInv', QuietInv, NEW r \in Requests, NEW i \in Ids,
           NEW g \in Hosts, OnlyDevice(i, g), OthersWait(r),
           mine[r] \subseteq {i}, mine'[r] \subseteq {i}, todo'[r] \subseteq todo[r]
    PROVE  \A h \in Hosts \ {g} : Quiet(h)'
  <1> SUFFICES ASSUME NEW h \in Hosts, h # g, h \notin upset'
               PROVE  /\ \A q, s \in Requests : \A k \in Held(q)', j \in Held(s)' :
                            object'[k].host = h /\ object'[j].host = h => q = s /\ k = j
                      /\ Unheld(h)' => Agrees(h)'
                      /\ \A q \in Requests : \A j \in Held(q)' :
                            object'[j].host = h => Ready(q, j)'
    BY DEF Quiet
  <1>1. h # "none" /\ h \notin upset /\ Quiet(h)
    BY NoneIsNoHost DEF OnlyDevice, QuietInv
  <1>2. object[i].host # h /\ object'[i].host # h /\ rows[i].host # h /\ rows'[i].host # h
    BY <1>1, NoneIsNoHost, RowHost DEF OnlyDevice
  <1>3. \A j \in Ids : /\ object[j].host = h <=> object'[j].host = h
                       /\ object[j].host = h => /\ j # i /\ object'[j] = object[j]
                                                /\ rows'[j] = rows[j]
                                                /\ j \in devices' <=> j \in devices
    BY <1>2 DEF OnlyDevice
  <1>4. DevicesOf(h)' = DevicesOf(h)
    BY <1>3 DEF DevicesOf, RegistryInv, TypeOK
  <1>5. RowsOf(h)' = RowsOf(h)
    <2>1. \A j \in Ids : rows[j].host = h \/ rows'[j].host = h =>
                            j # i /\ rows'[j] = rows[j]
      BY <1>2 DEF OnlyDevice
    <2> QED
      BY <2>1 DEF RowsOf, Persisted, Stored
  <1>6. Agrees(h)' <=> Agrees(h)
    <2>1. \A j \in DevicesOf(h) : j \in Ids /\ object'[j] = object[j] /\ rows'[j] = rows[j]
      BY <1>3 DEF DevicesOf, RegistryInv, TypeOK
    <2> QED
      BY <1>4, <1>5, <2>1 DEF Agrees
  <1>7. ASSUME NEW q \in Requests, NEW j \in Held(q)', object'[j].host = h
        PROVE  /\ j \in Ids /\ object[j].host = h /\ object'[j] = object[j] /\ j # i
               /\ j \in devices' <=> j \in devices
               /\ j \in Held(q)
               /\ q = r => j \in todo[r] /\ j \notin mine'[r]
    <2>1. j \in Ids
      BY <1>7 DEF Held, RegistryInv, TypeOK
    <2>2. object[j].host = h /\ object'[j] = object[j] /\ j # i
          /\ (j \in devices' <=> j \in devices)
      BY <1>3, <1>7, <2>1
    <2> QED
      BY <1>7, <2>1, <2>2 DEF Held, OthersWait
  <1>8. \A q, s \in Requests : \A k \in Held(q)', j \in Held(s)' :
            object'[k].host = h /\ object'[j].host = h => q = s /\ k = j
    BY <1>1, <1>7 DEF Quiet
  <1>9. Unheld(h)' => Agrees(h)'
    <2>1. CASE Unheld(h)
      BY <1>1, <1>6, <2>1 DEF Quiet
    <2>2. CASE ~Unheld(h)
      <3>0. PICK q \in Requests : \E j \in Held(q) : object[j].host = h
        BY <2>2 DEF Unheld
      <3>1. PICK j \in Held(q) : object[j].host = h
        BY <3>0
      <3>2. j \in Ids /\ object'[j].host = h /\ j # i
        BY <1>3, <3>1, HeldIsDevice
      <3>3. CASE q = r
        <4>1. j \in todo[r]
          BY <3>1, <3>2, <3>3 DEF Held
        <4>2. Agrees(h)
          BY <1>1, <3>1, <3>3, <4>1 DEF Quiet, Ready
        <4> QED
          BY <1>6, <4>2
      <3>4. CASE q # r
        <4>1. j \in Held(q)'
          BY <3>1, <3>4 DEF Held, OthersWait
        <4> QED
          BY <3>2, <4>1 DEF Unheld
      <3> QED
        BY <3>3, <3>4
    <2> QED
      BY <2>1, <2>2
  <1>10. ASSUME NEW q \in Requests, NEW j \in Held(q)', object'[j].host = h
         PROVE  Ready(q, j)'
    <2>1. /\ j \in Ids /\ object[j].host = h /\ object'[j] = object[j] /\ j # i
          /\ j \in devices' <=> j \in devices
          /\ j \in Held(q)
          /\ q = r => j \in todo[r] /\ j \notin mine'[r]
      BY <1>7, <1>10
    <2>2. Ready(q, j)
      BY <1>1, <2>1 DEF Quiet
    <2>3. CASE q = r
      BY <1>6, <1>10, <2>1, <2>2, <2>3 DEF Ready
    <2>4. CASE q # r
      <3>1. pc'[q] = pc[q] /\ mine'[q] = mine[q] /\ todo'[q] = todo[q]
            /\ values'[q] = values[q]
        BY <2>4 DEF OthersWait
      <3>2. AtWrite(q)' <=> AtWrite(q)
        BY <3>1 DEF AtWrite
      <3> QED
        BY <1>4, <1>5, <1>6, <1>10, <2>1, <2>2, <3>1, <3>2 DEF Ready
    <2> QED
      BY <2>3, <2>4
  <1> QED
    BY <1>8, <1>9, <1>10

\* The host of a device in hand is the request's alone until it is upset.
LEMMA Alone ==
    ASSUME RegistryInv, QuietInv, NEW r \in Requests, NEW i \in Held(r),
           object[i].host \notin upset
    PROVE  /\ \A q \in Requests \ {r} : \A j \in Held(q) : object[j].host # object[i].host
           /\ \A j \in Held(r) : object[j].host = object[i].host => j = i
           /\ Ready(r, i)
  <1>1. object[i].host \in Hosts
    BY HeldIsDevice
  <1> QED
    BY <1>1 DEF QuietInv, Quiet

\* A host that is taken in hand and not upset by it was nobody's.
LEMMA TakenAlone ==
    ASSUME RegistryInv, QuietInv, NEW r \in Requests, pc[r] = "idle",
           NEW g \in Hosts, g \notin upset, g \notin HostsOf(HeldByOthers(r))
    PROVE  Unheld(g) /\ Agrees(g)
  <1>1. Held(r) = {}
    BY DEF QuietInv, InPhase, UnderWay
  <1>2. \A q \in Requests \ {r} : Held(q) \subseteq HeldByOthers(r)
    BY DEF HeldByOthers
  <1>3. Unheld(g)
    BY <1>1, <1>2 DEF Unheld, HostsOf
  <1> QED
    BY <1>3 DEF QuietInv, Quiet

LEMMA OneDevice ==
    ASSUME RegistryInv, NEW i \in devices
    PROVE  DevicesOf(object[i].host) = {i}
  BY DEF DevicesOf, RegistryInv, OneDevicePerHost

\* The host of the device a request has in hand after its step.
LEMMA HeldHostQuiet ==
    ASSUME NEW g \in Hosts, NEW r \in Requests, NEW i \in Held(r)',
           \A q \in Requests \ {r} : \A j \in Held(q)' : object'[j].host # g,
           \A j \in Held(r)' : object'[j].host = g => j = i,
           object'[i].host = g, Ready(r, i)'
    PROVE  Quiet(g)'
  BY DEF Quiet, Unheld

\* The host of a device that was let go.
LEMMA FreedHostQuiet ==
    ASSUME NEW g \in Hosts, Unheld(g)', Agrees(g)'
    PROVE  Quiet(g)'
  BY DEF Quiet, Unheld

LEMMA UpsetHostQuiet ==
    ASSUME NEW g \in Hosts, g \in upset'
    PROVE  Quiet(g)'
  BY DEF Quiet

LEMMA QuietAssembled ==
    ASSUME QuietInv, NEW r \in Requests, OthersWait(r), InPhase(r)', NEW g \in Hosts,
           \A h \in Hosts \ {g} : Quiet(h)', Quiet(g)'
    PROVE  QuietInv'
  <1>1. \A q \in Requests \ {r} : InPhase(q)'
    BY DEF QuietInv, InPhase, OthersWait, Held
  <1> QED
    BY <1>1 DEF QuietInv

LEMMA InitQuiet == Init => QuietInv
  <1> SUFFICES ASSUME Init PROVE QuietInv
    OBVIOUS
  <1>1. \A r \in Requests : Held(r) = {} /\ pc[r] = "idle" /\ mine[r] = {}
    BY DEF Init, Held
  <1>2. \A r \in Requests : InPhase(r)
    BY <1>1 DEF InPhase
  <1>3. \A h \in Hosts : DevicesOf(h) = {} /\ RowsOf(h) = {}
    BY DEF Init, DevicesOf, RowsOf, Persisted, Stored
  <1>4. \A h \in Hosts : Quiet(h)
    BY <1>1, <1>3 DEF Quiet, Agrees
  <1> QED
    BY <1>2, <1>4 DEF QuietInv

LEMMA EvaluateQuiet ==
    ASSUME RegistryInv, RegistryInv', QuietInv, NEW r \in Requests, Evaluate(r)
    PROVE  QuietInv'
  <1>1. PICK i \in mine[r] : values' = [values EXCEPT ![r] = object[i]]
    BY DEF Evaluate, ValuesOf
  <1>2. PICK place \in {"store", "write", "rewrite"} : pc' = [pc EXCEPT ![r] = place]
    BY DEF Evaluate, GoTo
  <1>3. /\ pc[r] \in {"take", "read", "reread"}
        /\ UNCHANGED <<object, devices, rows, mine, todo, retired, upset, faults, restarts>>
    BY DEF Evaluate
  <1>4. PICK g \in Hosts : g = object[i].host
    BY <1>1, HeldIsDevice DEF Held
  <1>5. /\ i \in Ids /\ i \in Held(r) /\ mine[r] = {i}
        /\ pc'[r] = place /\ values'[r] = object[i]
    BY <1>1, <1>2 DEF RegistryInv, TypeOK, HandFits, Held
  <1>6. OthersWait(r)
    BY <1>1, <1>2, <1>3 DEF OthersWait, RegistryInv, TypeOK
  <1>7. InPhase(r)'
    BY <1>3, <1>5 DEF QuietInv, InPhase, UnderWay
  <1>8. OnlyDevice(i, g)
    BY <1>3, <1>4, <1>5, RowHost DEF OnlyDevice
  <1>9. \A h \in Hosts \ {g} : Quiet(h)'
    BY <1>3, <1>5, <1>6, <1>8, OneHostStep
  <1>10. CASE g \notin upset
    <2>1. /\ \A q \in Requests \ {r} : \A j \in Held(q) : object[j].host # g
          /\ \A j \in Held(r) : object[j].host = g => j = i
          /\ Ready(r, i)
      BY <1>4, <1>5, <1>10, Alone
    <2>2. i \notin todo[r]
      BY <1>5 DEF QuietInv, InPhase
    <2>3. Ready(r, i)'
      BY <1>2, <1>3, <1>5, <2>1, <2>2 DEF Ready, AtWrite, RowsOf, DevicesOf, Persisted, Stored
    <2> QED
      BY <1>3, <1>4, <1>5, <1>6, <1>7, <1>9, <2>1, <2>3, HeldHostQuiet, QuietAssembled
      DEF Held
  <1>11. CASE g \in upset
    BY <1>3, <1>6, <1>7, <1>9, <1>11, UpsetHostQuiet, QuietAssembled
  <1> QED
    BY <1>10, <1>11

\* What the end of a save leaves of the request.
LEMMA SavedPhase ==
    ASSUME RegistryInv, NEW r \in Requests, Saved(r)
    PROVE  /\ mine'[r] = {} /\ todo'[r] \subseteq todo[r]
           /\ pc'[r] \in {"ok", "collect"}
           /\ OthersWait(r) /\ InPhase(r)'
  <1>1. CASE todo[r] = {}
    BY <1>1, FinishTyped DEF Saved, Held, OthersWait, InPhase, RegistryInv
  <1>2. CASE todo[r] # {}
    BY <1>2 DEF Saved, GoTo, RegistryInv, TypeOK, UnderWay, OthersWait, InPhase, Held
  <1> QED
    BY <1>1, <1>2

LEMMA WriteQuiet ==
    ASSUME RegistryInv, RegistryInv', QuietInv, NEW r \in Requests, Write(r)
    PROVE  QuietInv'
  <1>1. PICK i \in mine[r] : rows' = [rows EXCEPT ![i] = values[r]]
    BY DEF Write
  <1>2. /\ AtWrite(r) /\ Saved(r)
        /\ UNCHANGED <<object, devices, retired, upset, faults, restarts>>
    BY DEF Write
  <1>3. PICK g \in Hosts : g = object[i].host
    BY <1>1, HeldIsDevice DEF Held
  <1>4. /\ i \in Ids /\ i \in Held(r) /\ mine[r] = {i}
        /\ values[r] \in Devices /\ values[r].host = g
        /\ rows'[i] = values[r] /\ \A j \in Ids \ {i} : rows'[j] = rows[j]
    BY <1>1, <1>2, <1>3 DEF RegistryInv, TypeOK, HandFits, Held
  <1>5. /\ mine'[r] = {} /\ todo'[r] \subseteq todo[r]
        /\ pc'[r] \in {"ok", "collect"}
        /\ OthersWait(r) /\ InPhase(r)'
    BY <1>2, SavedPhase
  <1>6. OnlyDevice(i, g)
    BY <1>2, <1>3, <1>4 DEF OnlyDevice
  <1>7. \A h \in Hosts \ {g} : Quiet(h)'
    BY <1>4, <1>5, <1>6, OneHostStep
  <1>8. CASE g \notin upset
    <2>1. /\ \A q \in Requests \ {r} : \A j \in Held(q) : object[j].host # g
          /\ \A j \in Held(r) : object[j].host = g => j = i
          /\ Ready(r, i)
      BY <1>3, <1>4, <1>8, Alone
    <2>2. i \notin todo[r]
      BY <1>4 DEF QuietInv, InPhase
    <2>3. Unheld(g)'
      BY <1>2, <1>5, <2>1, <2>2 DEF Unheld, Held, OthersWait
    <2>4. RowsOf(g) \subseteq {i} /\ i \in devices /\ values[r] = object[i]
      BY <1>2, <1>3, <1>4, <2>1 DEF Ready, AtWrite
    <2>5. DevicesOf(g)' = {i}
      BY <1>2, <1>3, <2>4, OneDevice DEF DevicesOf
    <2>6. RowsOf(g)' = {i}
      <3>1. \A j \in Ids \ {i} : ~(Stored(j) /\ rows[j].host = g)
        BY <2>4 DEF RowsOf, Persisted
      <3>2. Stored(i)'
        BY <1>4, DeviceIsNoNoDevice DEF Stored
      <3> QED
        BY <1>4, <3>1, <3>2 DEF RowsOf, Persisted, Stored
    <2>7. Agrees(g)'
      BY <1>2, <1>4, <2>4, <2>5, <2>6 DEF Agrees
    <2> QED
      BY <1>5, <1>7, <2>3, <2>7, FreedHostQuiet, QuietAssembled
  <1>9. CASE g \in upset
    BY <1>2, <1>5, <1>7, <1>9, UpsetHostQuiet, QuietAssembled
  <1> QED
    BY <1>8, <1>9

\* What the end of a request leaves of it.
LEMMA FinishPhase ==
    ASSUME RegistryInv, NEW r \in Requests, NEW answer \in {"ok", "failed"},
           Finish(r, answer)
    PROVE  /\ mine'[r] = {} /\ todo'[r] = {} /\ OthersWait(r) /\ InPhase(r)'
  BY FinishTyped DEF RegistryInv, Held, OthersWait, InPhase, UnderWay

LEMMA WriteFailsQuiet ==
    ASSUME RegistryInv, RegistryInv', QuietInv, NEW r \in Requests, WriteFails(r)
    PROVE  QuietInv'
  <1>1. PICK i \in mine[r] :
          /\ \/ ~Unique(i, values[r]) /\ Fine /\ UNCHANGED upset
             \/ Fault /\ upset' = upset \cup HostsOf({i})
          /\ IF pc[r] = "write"
             THEN /\ SetInfo(i, "error") /\ GoTo(r, "reread")
                  /\ values' = [values EXCEPT ![r] = NoDevice]
                  /\ UNCHANGED <<mine, todo>>
             ELSE Finish(r, "failed") /\ UNCHANGED object
    BY DEF WriteFails
  <1>2. AtWrite(r) /\ UNCHANGED <<devices, rows, retired, restarts>>
    BY DEF WriteFails
  <1>3. PICK g \in Hosts : g = object[i].host
    BY <1>1, HeldIsDevice DEF Held
  <1>4. /\ i \in Ids /\ i \in Held(r) /\ mine[r] = {i} /\ object[i] # NoDevice
        /\ values[r].host = g
    BY <1>1, <1>2, <1>3, HeldIsDevice DEF RegistryInv, TypeOK, HandFits, Held
  <1>5. /\ OthersWait(r) /\ InPhase(r)'
        /\ mine'[r] \subseteq {i} /\ todo'[r] \subseteq todo[r]
    <2>1. CASE pc[r] = "write"
      BY <1>1, <1>4, <2>1
      DEF RegistryInv, TypeOK, GoTo, OthersWait, QuietInv, InPhase, UnderWay, Held
    <2>2. CASE pc[r] # "write"
      BY <1>1, <2>2, FinishPhase
    <2> QED
      BY <2>1, <2>2
  <1>6. object'[i].host = g /\ \A j \in Ids \ {i} : object'[j] = object[j]
    <2>1. CASE SetInfo(i, "error")
      BY <1>3, <1>4, <2>1, InfoOnly DEF SetInfo, RegistryInv, TypeOK, HostsKept, Infos
    <2>2. CASE UNCHANGED object
      BY <1>3, <2>2
    <2> QED
      BY <1>1, <2>1, <2>2
  <1>7. OnlyDevice(i, g)
    BY <1>1, <1>2, <1>3, <1>4, <1>6, RowHost DEF OnlyDevice
  <1>8. \A h \in Hosts \ {g} : Quiet(h)'
    BY <1>4, <1>5, <1>7, OneHostStep
  <1>9. g \in upset'
    <2>1. CASE upset' = upset \cup HostsOf({i})
      BY <1>3, <2>1 DEF HostsOf
    <2>2. CASE ~Unique(i, values[r]) /\ UNCHANGED upset
      <3>1. SUFFICES ASSUME g \notin upset PROVE FALSE
        BY <2>2
      <3>2. Ready(r, i)
        BY <1>3, <1>4, <3>1, Alone
      <3>3. RowsOf(g) \subseteq {i}
        BY <1>3, <1>4, <3>2 DEF Ready
      <3>4. Unique(i, values[r])
        BY <1>4, <3>3 DEF Unique, RowsOf
      <3> QED
        BY <2>2, <3>4
    <2> QED
      BY <1>1, <2>1, <2>2
  <1> QED
    BY <1>5, <1>8, <1>9, UpsetHostQuiet, QuietAssembled

LEMMA OutcomeQuiet ==
    ASSUME RegistryInv, RegistryInv', QuietInv, NEW r \in Requests, Outcome(r)
    PROVE  QuietInv'
  <1>1. PICK i \in todo[r], o \in {"connected", "error"} :
          /\ SetInfo(i, o)
          /\ mine' = [mine EXCEPT ![r] = {i}]
          /\ todo' = [todo EXCEPT ![r] = @ \ {i}]
          /\ pc' = [pc EXCEPT ![r] = IF o = "connected" THEN "read" ELSE "reread"]
    BY DEF Outcome, GoTo
  <1>2. pc[r] = "collect" /\ UNCHANGED <<devices, rows, values, retired, upset, faults, restarts>>
    BY DEF Outcome
  <1>3. PICK g \in Hosts : g = object[i].host
    BY <1>1, HeldIsDevice DEF Held
  <1>4. i \in Ids /\ i \in Held(r) /\ mine[r] = {} /\ object[i] # NoDevice
    BY <1>1, <1>2, HeldIsDevice DEF RegistryInv, TypeOK, Held, QuietInv, InPhase
  <1>5. /\ mine'[r] = {i} /\ todo'[r] = todo[r] \ {i} /\ pc'[r] \in {"read", "reread"}
        /\ OthersWait(r)
    BY <1>1, <1>2 DEF RegistryInv, TypeOK, OthersWait
  <1>6. InPhase(r)'
    BY <1>5 DEF InPhase, UnderWay
  <1>7. object'[i].host = g /\ \A j \in Ids \ {i} : object'[j] = object[j]
    BY <1>1, <1>3, <1>4, InfoOnly DEF SetInfo, RegistryInv, TypeOK, HostsKept, Infos
  <1>8. OnlyDevice(i, g)
    BY <1>2, <1>3, <1>4, <1>7, RowHost DEF OnlyDevice
  <1>9. \A h \in Hosts \ {g} : Quiet(h)'
    BY <1>4, <1>5, <1>8, OneHostStep
  <1>10. CASE g \notin upset
    <2>1. /\ \A q \in Requests \ {r} : \A j \in Held(q) : object[j].host # g
          /\ \A j \in Held(r) : object[j].host = g => j = i
          /\ Ready(r, i)
      BY <1>3, <1>4, <1>10, Alone
    <2>2. i \in devices /\ Agrees(g)
      BY <1>1, <1>3, <2>1 DEF Ready
    <2>3. RowsOf(g) = {i}
      BY <1>3, <2>2, OneDevice DEF Agrees
    <2>4. Ready(r, i)'
      BY <1>2, <1>5, <1>7, <2>2, <2>3 DEF Ready, AtWrite, RowsOf, Persisted, Stored
    <2>5. \A q \in Requests : \A j \in Held(q)' : j \in Held(q) /\ object'[j].host = object[j].host
      <3>1. \A j \in Ids : object'[j].host = object[j].host
        BY <1>3, <1>7
      <3> QED
        BY <1>4, <1>5, <3>1, HeldIsDevice DEF Held, OthersWait
    <2> QED
      BY <1>5, <1>6, <1>7, <1>9, <2>1, <2>4, <2>5, HeldHostQuiet, QuietAssembled DEF Held
  <1>11. CASE g \in upset
    BY <1>2, <1>5, <1>6, <1>9, <1>11, UpsetHostQuiet, QuietAssembled
  <1> QED
    BY <1>10, <1>11

LEMMA ConfiguredQuiet ==
    ASSUME RegistryInv, RegistryInv', QuietInv, NEW r \in Requests, Configured(r)
    PROVE  QuietInv'
  <1>1. /\ pc[r] = "session"
        /\ UNCHANGED <<devices, rows, retired, upset, faults, restarts>>
    BY DEF Configured
  <1>2. PICK answer \in {"ok", "failed"} : Finish(r, answer)
    BY DEF Configured
  <1>3. mine'[r] = {} /\ todo'[r] = {} /\ OthersWait(r) /\ InPhase(r)'
    BY <1>2, FinishPhase
  <1>4. PICK i \in mine[r] : SetInfo(i, "renamed") \/ UNCHANGED object
    BY <1>1 DEF Configured, QuietInv, InPhase
  <1>5. PICK g \in Hosts : g = object[i].host
    BY <1>4, HeldIsDevice DEF Held
  <1>6. i \in Ids /\ i \in Held(r) /\ mine[r] = {i} /\ object[i] \in Devices /\ object[i] # NoDevice
    BY <1>4, HeldIsDevice DEF RegistryInv, TypeOK, HandFits, Held
  <1>7. /\ object'[i].host = g /\ object'[i].cred = object[i].cred
        /\ object'[i].info \in {object[i].info, "renamed"}
        /\ \A j \in Ids \ {i} : object'[j] = object[j]
    <2>1. CASE SetInfo(i, "renamed")
      <3>1. object'[i] = [object[i] EXCEPT !.info = "renamed"]
        BY <1>6, <2>1 DEF SetInfo, RegistryInv, TypeOK
      <3> QED
        BY <1>5, <1>6, <2>1, <3>1 DEF SetInfo, RegistryInv, TypeOK, Devices
    <2>2. CASE UNCHANGED object
      BY <1>5, <2>2
    <2> QED
      BY <1>4, <2>1, <2>2
  <1>8. OnlyDevice(i, g)
    BY <1>1, <1>5, <1>6, <1>7, RowHost DEF OnlyDevice
  <1>9. \A h \in Hosts \ {g} : Quiet(h)'
    BY <1>3, <1>6, <1>8, OneHostStep
  <1>10. CASE g \notin upset
    <2>1. /\ \A q \in Requests \ {r} : \A j \in Held(q) : object[j].host # g
          /\ Ready(r, i)
      BY <1>5, <1>6, <1>10, Alone
    <2>2. \A j \in Ids : object'[j].host = object[j].host
      BY <1>5, <1>7
    <2>3. Unheld(g)'
      BY <1>3, <2>1, <2>2, HeldIsDevice DEF Unheld, Held, OthersWait
    <2>4. Agrees(g) /\ i \in devices
      BY <1>1, <1>5, <2>1 DEF Ready
    <2>5. DevicesOf(g)' = DevicesOf(g) /\ RowsOf(g)' = RowsOf(g)
      BY <1>1, <2>2 DEF DevicesOf, RowsOf, Persisted, Stored, RegistryInv, TypeOK
    <2>6. DevicesOf(g) \subseteq {i}
      BY <1>5, <2>4, OneDevice
    <2>7. Agrees(g)'
      BY <1>1, <1>7, <2>4, <2>5, <2>6 DEF Agrees
    <2> QED
      BY <1>3, <1>9, <2>3, <2>7, FreedHostQuiet, QuietAssembled
  <1>11. CASE g \in upset
    BY <1>1, <1>3, <1>9, <1>11, UpsetHostQuiet, QuietAssembled
  <1> QED
    BY <1>10, <1>11

\* A configuration or a removal takes one device in hand.
LEMMA TakeOneQuiet ==
    ASSUME RegistryInv, RegistryInv', QuietInv, NEW r \in Requests,
           pc[r] = "idle", NEW i \in devices, NEW place \in {"session", "delete"},
           devices' = IF place = "delete" THEN devices \ {i} ELSE devices,
           mine' = [mine EXCEPT ![r] = {i}], upset' = Overlap(r, {i}),
           GoTo(r, place), UNCHANGED <<object, rows, todo, values>>
    PROVE  QuietInv'
  <1>1. /\ i \in Ids /\ object[i] \in Devices
        /\ \A q \in Requests \ {r} : Held(q) \subseteq HeldByOthers(r)
    BY DEF RegistryInv, TypeOK, IdsInUse, HeldByOthers
  <1>2. PICK g \in Hosts : g = object[i].host
    BY <1>1 DEF Devices
  <1>3. Held(r) = {} /\ mine[r] = {} /\ todo[r] = {}
    BY DEF QuietInv, InPhase, UnderWay, Held
  <1>4. mine'[r] = {i} /\ todo'[r] = {} /\ pc'[r] = place /\ OthersWait(r)
    BY <1>3 DEF GoTo, RegistryInv, TypeOK, OthersWait
  <1>5. InPhase(r)'
    BY <1>4 DEF InPhase, UnderWay
  <1>6. upset \subseteq upset' /\ (g \in HostsOf(HeldByOthers(r)) => g \in upset')
    BY <1>2 DEF Overlap, HostsOf
  <1>7. OnlyDevice(i, g)
    BY <1>1, <1>2, <1>6, RowHost DEF OnlyDevice
  <1>8. \A h \in Hosts \ {g} : Quiet(h)'
    BY <1>1, <1>3, <1>4, <1>7, OneHostStep
  <1>9. CASE g \notin upset'
    <2>1. Unheld(g) /\ Agrees(g)
      BY <1>6, <1>9, TakenAlone
    <2>2. DevicesOf(g) = {i} /\ RowsOf(g) = {i}
      BY <1>2, <2>1, OneDevice DEF Agrees
    <2>3. Ready(r, i)'
      <3>1. RowsOf(g)' = {i}
        BY <2>2 DEF RowsOf, Persisted, Stored
      <3>2. CASE place = "session"
        BY <1>2, <1>4, <2>1, <2>2, <3>1, <3>2
        DEF Ready, Agrees, DevicesOf, RowsOf, Persisted, Stored, AtWrite
      <3>3. CASE place = "delete"
        <4>1. DevicesOf(g)' = {}
          BY <2>2, <3>3 DEF DevicesOf
        <4> QED
          BY <1>2, <1>4, <3>1, <3>3, <4>1 DEF Ready, AtWrite
      <3> QED
        BY <3>2, <3>3
    <2>4. \A q \in Requests \ {r} : \A j \in Held(q)' : object'[j].host # g
      BY <1>4, <2>1 DEF Unheld, Held, OthersWait
    <2>5. Held(r)' = {i}
      BY <1>4 DEF Held
    <2> QED
      BY <1>2, <1>4, <1>5, <1>8, <2>3, <2>4, <2>5, HeldHostQuiet, QuietAssembled
  <1>10. CASE g \in upset'
    BY <1>4, <1>5, <1>8, <1>10, UpsetHostQuiet, QuietAssembled
  <1> QED
    BY <1>9, <1>10

\* A discovery takes several, of different hosts.
LEMMA StartDiscoveryQuiet ==
    ASSUME RegistryInv, RegistryInv', QuietInv, NEW r \in Requests, StartDiscovery(r)
    PROVE  QuietInv'
  <1>1. PICK D \in SUBSET devices :
          todo' = [todo EXCEPT ![r] = D] /\ upset' = Overlap(r, D)
    BY DEF StartDiscovery
  <1>2. /\ pc[r] = "idle" /\ pc' = [pc EXCEPT ![r] = "collect"]
        /\ UNCHANGED <<object, devices, rows, mine, values>>
    BY DEF StartDiscovery, GoTo
  <1>3. Held(r) = {} /\ mine[r] = {}
    BY <1>2 DEF QuietInv, InPhase, UnderWay, Held
  <1>4. /\ Held(r)' = D /\ mine'[r] = {} /\ pc'[r] = "collect" /\ OthersWait(r)
        /\ \A q \in Requests \ {r} : Held(q)' = Held(q)
        /\ \A q \in Requests \ {r} : Held(q) \subseteq HeldByOthers(r)
    BY <1>1, <1>2, <1>3 DEF Held, HeldByOthers, OthersWait, RegistryInv, TypeOK
  <1>5. ASSUME NEW q \in Requests PROVE InPhase(q)'
    BY <1>4 DEF QuietInv, InPhase, OthersWait, Held, UnderWay
  <1>6. \A h : (Agrees(h)' <=> Agrees(h))
               /\ DevicesOf(h)' = DevicesOf(h) /\ RowsOf(h)' = RowsOf(h)
    BY <1>2 DEF Agrees, DevicesOf, RowsOf, Persisted, Stored
  <1>7. ASSUME NEW h \in Hosts PROVE Quiet(h)'
    <2>1. SUFFICES ASSUME h \notin upset' PROVE Quiet(h)'
      BY DEF Quiet
    <2>2. /\ h \notin upset /\ Quiet(h)
          /\ h \in HostsOf(D) => h \notin HostsOf(HeldByOthers(r))
      BY <1>1, <2>1 DEF Overlap, QuietInv
    <2>3. ASSUME NEW q \in Requests \ {r}, NEW j \in Held(q), object[j].host = h
          PROVE  Ready(q, j)'
      <3>1. Ready(q, j) /\ (AtWrite(q)' <=> AtWrite(q))
        BY <1>4, <2>2, <2>3 DEF Quiet, OthersWait, AtWrite
      <3> QED
        BY <1>2, <1>4, <1>6, <3>1 DEF Ready, OthersWait
    <2>4. CASE h \in HostsOf(D)
      <3>1. PICK i \in D : object[i].host = h
        BY <2>4 DEF HostsOf
      <3>2. Unheld(h) /\ Agrees(h)
        BY <1>2, <2>2, <2>4, TakenAlone
      <3>3. Ready(r, i)'
        BY <1>1, <1>2, <1>4, <1>6, <3>1, <3>2 DEF Ready
      <3>4. \A j \in D : object[j].host = h => j = i
        BY <3>1 DEF RegistryInv, OneDevicePerHost
      <3> QED
        BY <1>2, <1>4, <3>1, <3>2, <3>3, <3>4, HeldHostQuiet DEF Unheld
    <2>5. CASE h \notin HostsOf(D)
      <3>1. \A q \in Requests : \A j \in Held(q)' : object'[j].host = h => q # r /\ j \in Held(q)
        BY <1>2, <1>4, <2>5 DEF HostsOf
      <3>2. Unheld(h)' <=> Unheld(h)
        BY <1>2, <1>3, <1>4, <3>1 DEF Unheld
      <3> QED
        BY <1>2, <1>6, <2>2, <2>3, <3>1, <3>2 DEF Quiet
    <2> QED
      BY <2>4, <2>5
  <1> QED
    BY <1>5, <1>7 DEF QuietInv

LEMMA DeleteQuiet ==
    ASSUME RegistryInv, RegistryInv', QuietInv, NEW r \in Requests, Delete(r)
    PROVE  QuietInv'
  <1>1. PICK i \in mine[r] :
        \/ DeleteRow(i) /\ Finish(r, "ok") /\ UNCHANGED upset
        \/ /\ upset' = upset \cup HostsOf({i})
           /\ Finish(r, "failed") /\ UNCHANGED rows
    BY DEF Delete
  <1>2. UNCHANGED <<object, devices, restarts>> /\ pc[r] = "delete"
    BY DEF Delete
  <1>3. PICK g \in Hosts : g = object[i].host
    BY <1>1, HeldIsDevice DEF Held
  <1>4. i \in Ids /\ i \in Held(r) /\ mine[r] = {i}
    BY <1>1 DEF RegistryInv, TypeOK, HandFits, Held
  <1>5. mine'[r] = {} /\ todo'[r] = {} /\ OthersWait(r) /\ InPhase(r)'
    BY <1>1, FinishPhase
  <1>6. /\ rows'[i] = NoDevice \/ UNCHANGED rows
        /\ \A j \in Ids \ {i} : rows'[j] = rows[j]
    BY <1>1, <1>4 DEF DeleteRow, RegistryInv, TypeOK
  <1>7. OnlyDevice(i, g)
    BY <1>1, <1>2, <1>3, <1>4, <1>6, RowHost, NoneIsNoHost DEF OnlyDevice
  <1>8. \A h \in Hosts \ {g} : Quiet(h)'
    BY <1>4, <1>5, <1>7, OneHostStep
  <1>9. CASE g \notin upset'
    <2>1. g \notin upset /\ DeleteRow(i)
      BY <1>1, <1>3, <1>9 DEF HostsOf
    <2>2. /\ \A q \in Requests \ {r} : \A j \in Held(q) : object[j].host # g
          /\ Ready(r, i)
      BY <1>3, <1>4, <2>1, Alone
    <2>3. Unheld(g)'
      BY <1>2, <1>5, <2>2 DEF Unheld, Held, OthersWait
    <2>4. RowsOf(g) \subseteq {i} /\ DevicesOf(g) = {}
      BY <1>2, <1>3, <1>4, <2>2 DEF Ready
    <2>5. DevicesOf(g)' = {}
      BY <1>2, <2>4 DEF DevicesOf
    <2>6. RowsOf(g)' = {}
      <3>1. ~Stored(i)'
        BY <1>4, <2>1 DEF DeleteRow, Stored, RegistryInv, TypeOK
      <3>2. \A j \in Ids \ {i} : ~(Stored(j) /\ rows[j].host = g)
        BY <2>4 DEF RowsOf, Persisted
      <3> QED
        BY <1>6, <3>1, <3>2 DEF RowsOf, Persisted, Stored
    <2>7. Agrees(g)'
      BY <2>5, <2>6 DEF Agrees
    <2> QED
      BY <1>5, <1>8, <2>3, <2>7, FreedHostQuiet, QuietAssembled
  <1>10. CASE g \in upset'
    BY <1>5, <1>8, <1>10, UpsetHostQuiet, QuietAssembled
  <1> QED
    BY <1>9, <1>10

LEMMA UpsertQuiet ==
    ASSUME RegistryInv, RegistryInv', QuietInv, NEW r \in Requests, Upsert(r)
    PROVE  QuietInv'
  <1>1. PICK g \in Hosts, c \in Credentials : \E i \in IdsFor(g) :
          /\ object' = [object EXCEPT ![i] = IF i \in devices THEN [object[i] EXCEPT !.cred = c]
                                             ELSE [host |-> g, cred |-> c, info |-> "new"]]
          /\ devices' = devices \cup {i}
          /\ mine' = [mine EXCEPT ![r] = {i}]
          /\ upset' = upset \cup ({g} \cap HostsOf(HeldByOthers(r)))
    BY DEF Upsert
  <1>2. PICK i \in IdsFor(g) :
          /\ object' = [object EXCEPT ![i] = IF i \in devices THEN [object[i] EXCEPT !.cred = c]
                                             ELSE [host |-> g, cred |-> c, info |-> "new"]]
          /\ devices' = devices \cup {i}
          /\ mine' = [mine EXCEPT ![r] = {i}]
          /\ upset' = upset \cup ({g} \cap HostsOf(HeldByOthers(r)))
    BY <1>1
  <1>3. /\ pc[r] = "idle" /\ pc' = [pc EXCEPT ![r] = "take"]
        /\ UNCHANGED <<rows, todo, values>>
    BY DEF Upsert, GoTo
  <1>4. /\ i \in Ids
        /\ i \in devices => object[i] \in Devices /\ object[i].host = g
        /\ i \notin devices => object[i] = NoDevice /\ DevicesOf(g) = {}
    BY DEF IdsFor, RegistryInv, TypeOK, IdsInUse, DevicesOf
  <1>5. Held(r) = {} /\ mine[r] = {} /\ todo[r] = {}
    BY <1>3 DEF QuietInv, InPhase, UnderWay, Held
  <1>6. /\ mine'[r] = {i} /\ todo'[r] = {} /\ pc'[r] = "take" /\ OthersWait(r)
        /\ Held(r)' = {i}
    BY <1>2, <1>3, <1>5 DEF RegistryInv, TypeOK, OthersWait, Held
  <1>7. InPhase(r)'
    BY <1>6 DEF InPhase, UnderWay
  <1>8. object'[i].host = g /\ \A j \in Ids \ {i} : object'[j] = object[j]
    <2>1. CASE i \in devices
      <3>1. object'[i] = [object[i] EXCEPT !.cred = c]
        BY <1>2, <1>4, <2>1 DEF RegistryInv, TypeOK
      <3> QED
        BY <1>2, <1>4, <2>1, <3>1 DEF RegistryInv, TypeOK, Devices
    <2>2. CASE i \notin devices
      BY <1>2, <1>4, <2>2 DEF RegistryInv, TypeOK
    <2> QED
      BY <2>1, <2>2
  <1>9. rows'[i].host \in {g, "none"}
    BY <1>3, <1>4, RowHost, NoneIsNoHost
  <1>10. OnlyDevice(i, g)
    BY <1>2, <1>3, <1>4, <1>8, <1>9 DEF OnlyDevice
  <1>11. \A h \in Hosts \ {g} : Quiet(h)'
    BY <1>4, <1>5, <1>6, <1>10, OneHostStep
  <1>12. CASE g \notin upset'
    <2>1. Unheld(g) /\ Agrees(g)
      BY <1>2, <1>3, <1>12, TakenAlone
    <2>2. RowsOf(g) \subseteq {i}
      BY <1>4, <2>1, OneDevice DEF Agrees
    <2>3. RowsOf(g)' = RowsOf(g)
      BY <1>3 DEF RowsOf, Persisted, Stored
    <2>4. Ready(r, i)'
      BY <1>2, <1>6, <1>8, <2>2, <2>3 DEF Ready, AtWrite
    <2>5. \A q \in Requests \ {r} : \A j \in Held(q)' : object'[j].host # g
      <3> SUFFICES ASSUME NEW q \in Requests \ {r}, NEW j \in Held(q)'
                   PROVE  object'[j].host # g
        OBVIOUS
      <3>1. j \in Held(q)
        BY <1>6 DEF Held, OthersWait
      <3>2. j \in Ids /\ object[j] # NoDevice /\ object[j].host # g
        BY <2>1, <3>1, HeldIsDevice DEF Unheld
      <3>3. j # i
        BY <1>4, <3>2
      <3> QED
        BY <1>8, <3>2, <3>3
    <2> QED
      BY <1>6, <1>7, <1>8, <1>11, <2>4, <2>5, HeldHostQuiet, QuietAssembled
  <1>13. CASE g \in upset'
    BY <1>6, <1>7, <1>11, <1>13, UpsetHostQuiet, QuietAssembled
  <1> QED
    BY <1>12, <1>13

LEMMA RestartQuiet ==
    ASSUME RegistryInv, Restart
    PROVE  QuietInv'
  <1>1. /\ devices' = Persisted /\ UNCHANGED rows
        /\ object' = [i \in Ids |-> IF Stored(i) THEN rows[i] ELSE object[i]]
        /\ \A r \in Requests : /\ mine'[r] = {} /\ Held(r)' = {}
                               /\ pc'[r] \notin {"collect", "session"}
    BY DEF Restart, Held, UnderWay
  <1>2. \A r \in Requests : InPhase(r)'
    BY <1>1 DEF InPhase
  <1>3. \A i \in Persisted : i \in Ids /\ object'[i] = rows[i]
    BY <1>1 DEF Persisted
  <1>4. ASSUME NEW h \in Hosts PROVE Quiet(h)'
    <2>1. DevicesOf(h)' = RowsOf(h)'
      BY <1>1, <1>3 DEF DevicesOf, RowsOf, Persisted, Stored
    <2>2. Agrees(h)'
      BY <1>1, <1>3, <2>1 DEF Agrees, DevicesOf
    <2>3. Unheld(h)'
      BY <1>1 DEF Unheld
    <2> QED
      BY <2>2, <2>3, FreedHostQuiet
  <1> QED
    BY <1>2, <1>4 DEF QuietInv

LEMMA StutterQuiet == QuietInv /\ UNCHANGED vars => QuietInv'
  BY DEF vars, QuietInv, Quiet, InPhase, Unheld, Ready, Agrees, DevicesOf, RowsOf,
         Persisted, Stored, AtWrite, Held

LEMMA NextQuiet ==
    ASSUME RegistryInv, RegistryInv', QuietInv, [Next]_vars
    PROVE  QuietInv'
  <1>1. ASSUME NEW r \in Requests, StartConfigure(r) PROVE QuietInv'
    <2>1. PICK i \in devices : mine' = [mine EXCEPT ![r] = {i}] /\ upset' = Overlap(r, {i})
      BY <1>1 DEF StartConfigure
    <2> QED
      BY <1>1, <2>1, TakeOneQuiet DEF StartConfigure
  <1>2. ASSUME NEW r \in Requests, Pop(r) PROVE QuietInv'
    <2>1. PICK i \in devices : /\ devices' = devices \ {i}
                               /\ mine' = [mine EXCEPT ![r] = {i}]
                               /\ upset' = Overlap(r, {i})
      BY <1>2 DEF Pop
    <2> QED
      BY <1>2, <2>1, TakeOneQuiet DEF Pop
  <1> QED
    BY <1>1, <1>2, UpsertQuiet, EvaluateQuiet, WriteQuiet, WriteFailsQuiet,
       StartDiscoveryQuiet, OutcomeQuiet, ConfiguredQuiet, DeleteQuiet, RestartQuiet,
       StutterQuiet
    DEF Next

\* Nobody's hosts that are not upset agree: the part of Quiet that is promised.
LEMMA QuietAgree == RegistryInv /\ QuietInv => QuietHostsAgree
  <1> SUFFICES ASSUME RegistryInv, QuietInv, NEW h \in Hosts, h \notin upset,
                      h \notin HostsOf(UNION {Held(r) : r \in Requests})
               PROVE  /\ {i \in devices : object[i].host = h}
                           = {i \in Persisted : rows[i].host = h}
                      /\ \A i \in devices : object[i].host = h =>
                          /\ rows[i].cred = object[i].cred
                          /\ rows[i].info = object[i].info \/ object[i].info = "renamed"
    BY DEF QuietHostsAgree
  <1>1. Unheld(h)
    BY DEF Unheld, HostsOf
  <1>2. Agrees(h)
    BY <1>1 DEF QuietInv, Quiet
  <1> QED
    BY <1>2 DEF Agrees, DevicesOf, RowsOf

\* A host whose requests did not overlap and whose writes did not fail is the
\* same in the dictionary and in the table as soon as no request works on it,
\* whatever happens to the other hosts (_save_device, which is called without
\* the lock by upsert and by discover_many).
THEOREM QuietHostsAgreeHolds == Spec => []QuietHostsAgree
  BY InitQuiet, NextQuiet, QuietAgree, SpecRegistryInv, PTL DEF Spec

-----------------------------------------------------------------------------
(* The table is a loose inventory                                           *)

InventoryStep == [Inventory!LooseInventoryNext]_(Inventory!inventory)

LEMMA SameTable ==
    ASSUME UNCHANGED <<rows, retired>>
    PROVE  InventoryStep
  BY DEF InventoryStep, Inventory!inventory

LEMMA WriteInventory ==
    ASSUME RegistryInv, NEW r \in Requests, Write(r)
    PROVE  InventoryStep
  <1>1. PICK i \in mine[r] : Unique(i, values[r]) /\ rows' = [rows EXCEPT ![i] = values[r]]
    BY DEF Write
  <1>2. AtWrite(r) /\ UNCHANGED retired
    BY DEF Write
  <1>3. /\ i \in Ids /\ i \notin retired
        /\ values[r] \in Devices /\ values[r].host = object[i].host
    BY <1>2 DEF RegistryInv, TypeOK, RetiredUnheld, HandFits, Held
  <1>4. values[r].host \in Hosts
    BY <1>3 DEF Devices
  <1>5. [j \in Ids |-> rows[j].host]'
          = [[j \in Ids |-> rows[j].host] EXCEPT ![i] = values[r].host]
    BY <1>1, <1>3 DEF RegistryInv, TypeOK
  <1>6. CASE Stored(i)
    <2>1. rows[i].host = values[r].host
      BY <1>3, <1>6 DEF RegistryInv, RowsOfObjects
    <2>2. [j \in Ids |-> rows[j].host]' = [j \in Ids |-> rows[j].host]
      BY <1>5, <2>1
    <2> QED
      BY <1>2, <2>2 DEF InventoryStep, Inventory!inventory
  <1>7. CASE ~Stored(i)
    <2>1. rows[i].host = "none"
      BY <1>7 DEF Stored, NoDevice
    <2>2. \A j \in Ids : rows[j].host # values[r].host
      <3> SUFFICES ASSUME NEW j \in Ids PROVE rows[j].host # values[r].host
        OBVIOUS
      <3>1. CASE Stored(j)
        BY <1>1, <1>7, <3>1 DEF Unique, Persisted
      <3>2. CASE ~Stored(j)
        BY <1>4, <3>2, SwitchRegistryAssumption DEF Stored, NoDevice
      <3> QED
        BY <3>1, <3>2
    <2>3. PICK h \in Hosts : h = values[r].host
      BY <1>4
    <2>4. Inventory!Register(i, h)
      BY <1>2, <1>3, <1>5, <2>1, <2>2, <2>3 DEF Inventory!Register
    <2>5. Inventory!InventoryNext
      BY <1>3, <2>4 DEF Inventory!InventoryNext
    <2> QED
      BY <2>5 DEF InventoryStep, Inventory!LooseInventoryNext
  <1> QED
    BY <1>6, <1>7

LEMMA DeleteInventory ==
    ASSUME RegistryInv, NEW r \in Requests, Delete(r)
    PROVE  InventoryStep
  <1>1. PICK i \in mine[r] :
          \/ DeleteRow(i) /\ retired' = retired \cup ({i} \ HeldByOthers(r))
          \/ UNCHANGED <<rows, retired>>
    BY DEF Delete
  <1>2. CASE DeleteRow(i) /\ retired' = retired \cup ({i} \ HeldByOthers(r))
    <2>1. i \in Ids
      BY DEF RegistryInv, TypeOK
    <2>2. /\ rows'[i].host = "none"
          /\ \A j \in Ids \ {i} : rows'[j] = rows[j]
      BY <1>2, <2>1 DEF DeleteRow, NoDevice, RegistryInv, TypeOK
    <2>3. [j \in Ids |-> rows[j].host]'
            = [[j \in Ids |-> rows[j].host] EXCEPT ![i] = "none"]
      BY <2>2
    <2>4. retired' = retired \cup {i} \/ retired' = retired
      BY <1>2
    <2>5. Inventory!Retire(i) \/ Inventory!Forget(i)
      BY <2>3, <2>4 DEF Inventory!Retire, Inventory!Forget
    <2> QED
      BY <2>1, <2>5
      DEF InventoryStep, Inventory!LooseInventoryNext, Inventory!InventoryNext
  <1>3. CASE UNCHANGED <<rows, retired>>
    BY <1>3, SameTable
  <1> QED
    BY <1>1, <1>2, <1>3

LEMMA InitInventory == Init => Inventory!InventoryInit
  BY DEF Init, Inventory!InventoryInit, NoDevice

LEMMA NextInventory == RegistryInv /\ [Next]_vars => InventoryStep
  <1> SUFFICES ASSUME RegistryInv, [Next]_vars PROVE InventoryStep
    OBVIOUS
  <1>1. ASSUME NEW r \in Requests, Write(r) PROVE InventoryStep
    BY <1>1, WriteInventory
  <1>2. ASSUME NEW r \in Requests, Delete(r) PROVE InventoryStep
    BY <1>2, DeleteInventory
  <1>3. ASSUME NEW r \in Requests,
               \/ Upsert(r) \/ Evaluate(r) \/ WriteFails(r) \/ StartDiscovery(r)
               \/ Outcome(r) \/ StartConfigure(r) \/ Configured(r) \/ Pop(r)
        PROVE  InventoryStep
    BY <1>3, SameTable
    DEF Upsert, Evaluate, WriteFails, StartDiscovery, Outcome, StartConfigure,
        Configured, Pop
  <1>4. CASE Restart
    BY <1>4, SameTable DEF Restart
  <1>5. CASE UNCHANGED vars
    BY <1>5, SameTable DEF vars
  <1> QED
    BY <1>1, <1>2, <1>3, <1>4, <1>5 DEF Next

\* The table of switches is a persistent inventory: a host has one row at most,
\* an id keeps its host, and a removal nobody else interfered with is final
\* (_save_device, remove, enable_persistence).
THEOREM RegistryImplementsLooseInventory == Spec => ImplementsLooseInventory
  BY InitInventory, NextInventory, SpecRegistryInv, PTL
  DEF Spec, ImplementsLooseInventory, Inventory!LooseInventorySpec, InventoryStep
=============================================================================
