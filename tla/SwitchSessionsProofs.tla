------------------------- MODULE SwitchSessionsProofs -------------------------
(***************************************************************************)
(* Proofs about SwitchSessions, for every set of switches, ports, requests, *)
(* values and operations, every number of blocks and threads, and every     *)
(* number of faults and reloads.                                            *)
(***************************************************************************)
EXTENDS SwitchSessions, TLAPS

\* What is true of session now of request r with switch s: it has a request
\* that was asked something, its place is one of that operation, a bounce has
\* left only ports it was asked for, and all the blocks before the next one of a
\* deployment went by.
Fits(r, s) ==
    /\ session[r][s].at # "none" => job[r] \in Operations
    /\ session[r][s].at = "shut" => /\ job[r].kind = "bounce"
                                    /\ session[r][s].left \subseteq job[r].on
    /\ session[r][s].at = "send" => job[r].kind \in {"default", "set", "up", "down"}
    /\ session[r][s].at = "block" =>
        \A j \in 1..(session[r][s].next - 1) :
            Passed(running[s], session[r][s].version, j)

\* Port p is among those of E, whatever the cause.
Named(E, p) == \E e \in E : e[1] = p

\* A session that has failed, or is a bounce that noted a failure and has still to
\* open ports or to end.
Failing(r, s) ==
    \/ session[r][s].at = "failed"
    \/ session[r][s].at \in {"open", "check"} /\ session[r][s].spoiled

\* Every port that is down is accounted for.
Accounted ==
    \A s \in Switches : \A p \in running[s].down :
        Named(excused[s], p) \/ \E r \in Requests : p \in Pending(r, s)

\* A request that is named as the cause is on the way to report it.
Blamed ==
    \A s \in Switches : \A e \in excused[s] : e[2] \in Requests => Failing(e[2], s)

\* The inductive invariant.
SessionsInv ==
    /\ TypeOK
    /\ \A r \in Requests : job[r] \in Operations \cup {NoJob}
    /\ \A r \in Requests, s \in Switches : Fits(r, s)
    /\ DeployInOrder
    /\ Accounted
    /\ Blamed

-----------------------------------------------------------------------------
(* Sessions and configurations                                              *)

Places == Active \cup Ended \cup {"none", "wait"}

LEMMA IdleTyped == \A place \in Places : Idle(place) \in Sessions
  BY SessionsAssumption DEF Idle, Sessions, Places

LEMMA IdleFields ==
    \A place : /\ Idle(place).at = place
               /\ Idle(place).next = 1
               /\ Idle(place).left = {}
  BY DEF Idle

LEMMA OperationsTyped ==
    ASSUME NEW o \in Operations
    PROVE  /\ o \in Jobs /\ o # NoJob
           /\ o.kind \in {"bounce", "default", "up", "down"} => o.on \subseteq Ports
  BY SessionsAssumption DEF Jobs, Kinds, NoJob

LEMMA ShutTyped ==
    ASSUME NEW c \in Configurations, NEW P \in SUBSET Ports
    PROVE  /\ Shut(c, P) \in Configurations /\ Shut(c, P).done = c.done
           /\ Shut(c, P).down = c.down \cup P
           /\ Open(c, P) \in Configurations /\ Open(c, P).done = c.done
           /\ Open(c, P).down = c.down \ P
  BY DEF Configurations, Shut, Open

LEMMA AppliedTyped ==
    ASSUME NEW o \in Operations, o.kind \in {"default", "set", "up", "down"},
           NEW part \in SUBSET o.on, NEW c \in Configurations
    PROVE  /\ Applied(o, part, c) \in Configurations
           /\ Applied(o, part, c).done = c.done
           /\ \A p \in Applied(o, part, c).down :
                 p \in c.down \/ Named(Ordered(o, part), p)
           /\ Ordered(o, part) \subseteq Ports \X {"ordered"}
  <1>1. o \in Jobs /\ (o.kind # "set" => part \subseteq Ports)
    BY OperationsTyped
  <1>2. o.to \in Values /\ Base \in Values
    BY <1>1, SessionsAssumption DEF Jobs
  <1>3. CASE o.kind = "set"
    BY <1>2, <1>3 DEF Applied, Ordered, Configurations
  <1>4. CASE o.kind = "down"
    <2>1. /\ Applied(o, part, c) = Shut(c, part)
          /\ Ordered(o, part) = part \X {"ordered"}
      BY <1>4 DEF Applied, Ordered
    <2>2. ASSUME NEW p \in part PROVE Named(part \X {"ordered"}, p)
      <3>1. <<p, "ordered">> \in part \X {"ordered"}
        OBVIOUS
      <3> QED
        BY <3>1 DEF Named
    <2>3. /\ Shut(c, part) \in Configurations /\ Shut(c, part).done = c.done
          /\ Shut(c, part).down = c.down \cup part
      BY <1>1, <1>4, ShutTyped
    <2>4. part \X {"ordered"} \subseteq Ports \X {"ordered"}
      BY <1>1, <1>4
    <2> QED
      BY <2>1, <2>2, <2>3, <2>4
  <1>5. CASE o.kind = "up"
    BY <1>1, <1>5, ShutTyped DEF Applied, Ordered
  <1>6. CASE o.kind = "default"
    <2>1. /\ Open(c, part) \in Configurations /\ Open(c, part).done = c.done
          /\ Open(c, part).down \subseteq c.down
      BY <1>1, <1>6, ShutTyped
    <2> QED
      BY <1>2, <1>6, <2>1 DEF Applied, Ordered, Configurations
  <1> QED
    BY <1>3, <1>4, <1>5, <1>6

LEMMA SentTyped ==
    ASSUME NEW c \in Configurations, NEW v \in Versions, NEW k \in 1..Blocks,
           InOrder(c), \A j \in 1..(k - 1) : Passed(c, v, j),
           NEW fate \in Fates
    PROVE  LET sent == WithBlock(c, v, k, fate)
           IN  /\ sent \in Configurations /\ InOrder(sent)
               /\ c.done \subseteq sent.done /\ sent.down = c.down
               /\ \A j \in 1..(k - 1) : Passed(sent, v, j)
               /\ fate # "partly" => Passed(sent, v, k)
  <1> DEFINE sent == WithBlock(c, v, k, fate)
  <1>1. /\ sent \in Configurations /\ sent.done = c.done \cup {<<v, k, fate>>}
        /\ sent.down = c.down
    BY DEF Configurations, WithBlock
  <1>2. \A w, j : Passed(c, w, j) => Passed(sent, w, j)
    BY <1>1 DEF Passed
  <1> HIDE DEF sent
  <1>3. fate # "partly" => Passed(sent, v, k)
    BY <1>1 DEF Passed, Fates
  <1>4. InOrder(sent)
    <2> SUFFICES ASSUME NEW e \in sent.done, NEW j \in 1..(e[2] - 1)
                 PROVE  Passed(sent, e[1], j)
      BY DEF InOrder
    <2>1. CASE e \in c.done
      BY <1>2, <2>1 DEF InOrder
    <2>2. CASE e = <<v, k, fate>>
      BY <1>2, <2>2
    <2> QED
      BY <1>1, <2>1, <2>2
  <1>5. \A j \in 1..(k - 1) : Passed(sent, v, j)
    BY <1>2
  <1>6. c.done \subseteq sent.done
    BY <1>1
  <1> QED
    BY <1>1, <1>3, <1>4, <1>5, <1>6 DEF sent

-----------------------------------------------------------------------------
(* A step of one session                                                    *)

\* A step of session r, s keeps the invariant if its own place fits, no block
\* is lost, and every port that is down is accounted for.
LEMMA StepOn ==
    ASSUME SessionsInv, TypeOK', NEW r \in Requests, NEW s \in Switches,
           UNCHANGED job,
           \A q \in Requests, t \in Switches : (q = r /\ t = s) \/
              /\ session'[q][t].at = session[q][t].at
              /\ session'[q][t].left = session[q][t].left
              /\ session'[q][t].next = session[q][t].next
              /\ session'[q][t].version = session[q][t].version
              /\ session'[q][t].spoiled = session[q][t].spoiled,
           Fits(r, s)',
           \A t \in Switches \ {s} : running'[t] = running[t] /\ excused'[t] = excused[t],
           running[s].done \subseteq running'[s].done, InOrder(running'[s]),
           \A t \in Switches : startup'[t] \in {startup[t], running[t]},
           \A p \in running'[s].down :
              \/ Named(excused'[s], p) \/ p \in Pending(r, s)'
              \/ p \in running[s].down /\ ~Named(excused[s], p) /\ p \notin Pending(r, s),
           \A e \in excused'[s] :
              e \in excused[s] \/ e[2] \notin Requests \/ (e[2] = r /\ Failing(r, s)'),
           Failing(r, s) => Failing(r, s)'
    PROVE  SessionsInv'
  <1>1. ASSUME NEW q \in Requests, NEW t \in Switches PROVE Fits(q, t)'
    <2>1. CASE q = r /\ t = s
      BY <2>1
    <2>2. CASE ~(q = r /\ t = s)
      <3>1. Fits(q, t) /\ running[t].done \subseteq running'[t].done
        BY DEF SessionsInv
      <3>2. \A v, k : Passed(running[t], v, k) => Passed(running'[t], v, k)
        BY <3>1 DEF Passed
      <3> QED
        BY <2>2, <3>1, <3>2 DEF Fits
    <2> QED
      BY <2>1, <2>2
  <1>2. DeployInOrder'
    BY DEF SessionsInv, DeployInOrder, InOrder, Passed
  <1>3. \A q \in Requests, t \in Switches : (q = r /\ t = s) \/
           /\ Pending(q, t)' = Pending(q, t)
           /\ Failing(q, t)' <=> Failing(q, t)
    BY DEF Pending, Failing
  <1>4. ASSUME NEW t \in Switches, NEW p \in running'[t].down
        PROVE  Named(excused'[t], p) \/ \E q \in Requests : p \in Pending(q, t)'
    <2>1. CASE t # s
      BY <1>3, <2>1 DEF SessionsInv, Accounted
    <2>2. CASE t = s /\ ~Named(excused'[s], p) /\ p \notin Pending(r, s)'
      <3>1. p \in running[s].down /\ ~Named(excused[s], p) /\ p \notin Pending(r, s)
        BY <2>2
      <3>2. PICK q \in Requests : p \in Pending(q, s)
        BY <3>1 DEF SessionsInv, Accounted
      <3> QED
        BY <1>3, <2>2, <3>1, <3>2
    <2> QED
      BY <2>1, <2>2
  <1>5. Accounted'
    BY <1>4 DEF Accounted, Named
  <1>6. ASSUME NEW t \in Switches, NEW e \in excused'[t], e[2] \in Requests
        PROVE  Failing(e[2], t)'
    <2>1. CASE e \in excused[t]
      <3>1. Failing(e[2], t)
        BY <1>6, <2>1 DEF SessionsInv, Blamed
      <3> QED
        BY <1>3, <1>6, <3>1
    <2>2. CASE e \notin excused[t]
      <3>1. t = s
        BY <2>2
      <3> QED
        BY <1>6, <2>2, <3>1
    <2> QED
      BY <2>1, <2>2
  <1>7. Blamed'
    BY <1>6 DEF Blamed
  <1> QED
    BY <1>1, <1>2, <1>5, <1>7 DEF SessionsInv

\* What Proceed leaves of all other sessions.
LEMMA ProceedTyped ==
    ASSUME TypeOK, NEW r \in Requests, NEW s \in Switches, NEW new \in Sessions,
           Proceed(r, s, new)
    PROVE  /\ session' \in [Requests -> [Switches -> Sessions]]
           /\ session'[r][s] = new
           /\ \A q \in Requests, t \in Switches : (q = r /\ t = s) \/ session'[q][t] = session[q][t]
  BY DEF TypeOK, Proceed

\* What Becomes does to ports and configurations.
LEMMA BecomesTyped ==
    ASSUME TypeOK, NEW s \in Switches, NEW c \in Configurations,
           NEW named \in SUBSET (Ports \X Causes), Becomes(s, c, named)
    PROVE  /\ running' \in [Switches -> Configurations] /\ running'[s] = c
           /\ excused' \in [Switches -> SUBSET (Ports \X Causes)]
           /\ excused'[s] \subseteq excused[s] \cup named
           /\ \A p \in c.down : Named(excused[s], p) \/ Named(named, p) => Named(excused'[s], p)
           /\ \A t \in Switches \ {s} : running'[t] = running[t] /\ excused'[t] = excused[t]
  <1>1. excused'[s] = {e \in excused[s] \cup named : e[1] \in c.down}
    BY DEF TypeOK, Becomes
  <1>2. excused[s] \cup named \subseteq Ports \X Causes
    BY DEF TypeOK
  <1>3. excused' \in [Switches -> SUBSET (Ports \X Causes)]
    BY <1>2 DEF TypeOK, Becomes
  <1> QED
    BY <1>1, <1>3 DEF TypeOK, Becomes, Named

LEMMA FaultTyped ==
    ASSUME TypeOK, Fault \/ Fine
    PROVE  faults' \in 0..MaxFaults
  BY SessionsAssumption DEF TypeOK, Fault, Fine

\* A step that leaves the switches alone and brings a session to a place where
\* it has nothing pending and no blocks to send.
LEMMA QuietStep ==
    ASSUME SessionsInv, NEW r \in Requests, NEW s \in Switches,
           NEW new \in Sessions, Proceed(r, s, new), job[r] \in Operations,
           Fault \/ Fine, UNCHANGED <<running, excused, candidate, job, reloads>>,
           startup' \in [Switches -> Configurations],
           \A t \in Switches : startup'[t] \in {startup[t], running[t]},
           new.at \notin {"shut", "open", "send", "block"}, Pending(r, s) = {},
           Failing(r, s) => new.at = "failed" \/ (new.at = "check" /\ new.spoiled)
    PROVE  SessionsInv'
  <1>1. /\ session' \in [Requests -> [Switches -> Sessions]] /\ session'[r][s] = new
        /\ \A q \in Requests, t \in Switches :
                (q = r /\ t = s) \/ session'[q][t] = session[q][t]
    BY ProceedTyped DEF SessionsInv
  <1>2. TypeOK'
    BY <1>1, FaultTyped DEF SessionsInv, TypeOK
  <1>3. Fits(r, s)'
    BY <1>1 DEF Fits
  <1>4. Failing(r, s) => Failing(r, s)'
    BY <1>1 DEF Failing
  <1>5. InOrder(running'[s])
    BY DEF SessionsInv, DeployInOrder, InOrder, Passed
  <1>6. /\ running' = running /\ excused' = excused /\ job' = job
        /\ \A p \in running'[s].down :
              \/ Named(excused'[s], p)
              \/ p \in running[s].down /\ ~Named(excused[s], p) /\ p \notin Pending(r, s)
    OBVIOUS
  <1>7. \A q \in Requests, t \in Switches : (q = r /\ t = s) \/
              /\ session'[q][t].at = session[q][t].at
              /\ session'[q][t].left = session[q][t].left
              /\ session'[q][t].next = session[q][t].next
              /\ session'[q][t].version = session[q][t].version
              /\ session'[q][t].spoiled = session[q][t].spoiled
    BY <1>1
  <1> QED
    BY <1>2, <1>3, <1>4, <1>5, <1>6, <1>7, StepOn

\* The connection breaks: the session has failed, and what it had pending is
\* excused.
LEMMA BreakPreserves ==
    ASSUME SessionsInv, NEW r \in Requests, NEW s \in Switches, job[r] \in Operations,
           NEW effects, NEW named \in SUBSET (Ports \X Causes),
           Break(r, s, effects, named), UNCHANGED startup, Elsewhere,
           \A e \in named : e[2] \notin Requests \/ e[2] = r,
           \A c \in effects : /\ c \in Configurations /\ InOrder(c)
                              /\ running[s].done \subseteq c.done
                              /\ \A p \in c.down : p \in running[s].down \/ Named(named, p),
           \A p \in Pending(r, s) : Named(named, p)
    PROVE  SessionsInv'
  <1>1. PICK c \in effects : Becomes(s, c, named)
    BY DEF Break
  <1>2. /\ running' \in [Switches -> Configurations] /\ running'[s] = c
        /\ excused' \in [Switches -> SUBSET (Ports \X Causes)]
        /\ excused'[s] \subseteq excused[s] \cup named
        /\ \A p \in c.down : Named(excused[s], p) \/ Named(named, p) => Named(excused'[s], p)
        /\ \A t \in Switches \ {s} : running'[t] = running[t] /\ excused'[t] = excused[t]
    BY <1>1, BecomesTyped DEF SessionsInv
  <1>3. Idle("failed") \in Sessions /\ Idle("failed").at = "failed"
    BY IdleTyped, IdleFields DEF Places, Ended
  <1>4. /\ session' \in [Requests -> [Switches -> Sessions]]
        /\ session'[r][s].at = "failed"
        /\ \A q \in Requests, t \in Switches :
                (q = r /\ t = s) \/ session'[q][t] = session[q][t]
    BY <1>3, ProceedTyped DEF SessionsInv, Break
  <1>5. TypeOK'
    BY <1>2, <1>4, FaultTyped DEF SessionsInv, TypeOK, Break, Elsewhere
  <1>6. Fits(r, s)' /\ Failing(r, s)'
    BY <1>4 DEF Fits, Failing, Elsewhere
  <1>7. \A p \in running'[s].down :
           \/ Named(excused'[s], p)
           \/ p \in running[s].down /\ ~Named(excused[s], p) /\ p \notin Pending(r, s)
    BY <1>1, <1>2
  <1>8. \A e \in excused'[s] : e \in excused[s] \/ e[2] \notin Requests \/ (e[2] = r /\ Failing(r, s)')
    BY <1>2, <1>6
  <1> QED
    BY <1>1, <1>2, <1>4, <1>5, <1>6, <1>7, <1>8, StepOn DEF Elsewhere

\* A session whose place asks for it has a request that was asked something.
LEMMA AtWork ==
    ASSUME SessionsInv, NEW r \in Requests, NEW s \in Switches, session[r][s].at # "none"
    PROVE  /\ job[r] \in Operations /\ job[r] \in Jobs
           /\ session[r][s] \in Sessions
           /\ running[s] \in Configurations /\ InOrder(running[s])
  BY OperationsTyped DEF SessionsInv, TypeOK, Fits, DeployInOrder

\* One port of a bounce is shut.
LEMMA ShutPortPreserves ==
    ASSUME SessionsInv, NEW r \in Requests, NEW s \in Switches, ShutPort(r, s)
    PROVE  SessionsInv'
  <1>1. /\ session[r][s].at = "shut" /\ UNCHANGED startup /\ Elsewhere
        /\ job[r] \in Operations /\ job[r].kind = "bounce"
        /\ session[r][s] \in Sessions /\ running[s] \in Configurations
        /\ InOrder(running[s]) /\ session[r][s].left \subseteq job[r].on
    BY AtWork DEF ShutPort, SessionsInv, Fits
  <1>2. job[r].on \subseteq Ports /\ Pending(r, s) = job[r].on
    BY <1>1, OperationsTyped DEF Pending
  <1> DEFINE rest(p) == session[r][s].left \ {p}
             now(p)  == IF rest(p) # {} THEN [session[r][s] EXCEPT !.left = rest(p)]
                        ELSE [session[r][s] EXCEPT !.at = "open", !.left = PortsToOpen(job[r].on)]
             down(p) == Shut(running[s], {p})
  <1>3. PICK p \in session[r][s].left :
            \/ Fine /\ Becomes(s, down(p), {}) /\ Proceed(r, s, now(p))
            \/ /\ Fault /\ \E n \in Refused(now(p)) : Proceed(r, s, n)
               /\ UNCHANGED <<running, excused>>
            \/ Break(r, s, {running[s], down(p)}, job[r].on \X {r})
    BY DEF ShutPort
  <1>4. /\ now(p) \in Sessions /\ now(p).at \in {"shut", "open"}
        /\ now(p).left \subseteq job[r].on
        /\ now(p).at = "open" => now(p).left = job[r].on
    BY <1>1, <1>2 DEF Sessions, PortsToOpen, Active, OnLine
  <1>5. /\ p \in job[r].on /\ down(p) \in Configurations
        /\ down(p).done = running[s].done /\ down(p).down = running[s].down \cup {p}
    BY <1>1, <1>2, ShutTyped
  <1>6. ASSUME NEW n \in {now(p)} \cup Refused(now(p))
        PROVE  /\ n \in Sessions /\ n.at = now(p).at /\ n.left = now(p).left
    BY <1>4, <1>6 DEF Sessions, Refused
  <1> HIDE DEF now, down
  <1>7. ASSUME NEW n \in {now(p)} \cup Refused(now(p)), Proceed(r, s, n), Fault \/ Fine,
               \/ Becomes(s, down(p), {}) \/ UNCHANGED <<running, excused>>
        PROVE  SessionsInv'
    <2>1. /\ session' \in [Requests -> [Switches -> Sessions]] /\ session'[r][s] = n
          /\ \A q \in Requests, t \in Switches :
                (q = r /\ t = s) \/ session'[q][t] = session[q][t]
      BY <1>6, <1>7, ProceedTyped DEF SessionsInv
    <2>2. Fits(r, s)' /\ Pending(r, s)' = job[r].on
      BY <1>1, <1>4, <1>6, <2>1 DEF Fits, Pending, Elsewhere
    <2>3. /\ running' \in [Switches -> Configurations]
          /\ excused' \in [Switches -> SUBSET (Ports \X Causes)]
          /\ running'[s].done = running[s].done
          /\ excused'[s] \subseteq excused[s]
          /\ \A q \in running'[s].down : Named(excused[s], q) => Named(excused'[s], q)
          /\ running'[s].down \subseteq running[s].down \cup {p}
          /\ \A t \in Switches \ {s} : running'[t] = running[t] /\ excused'[t] = excused[t]
      BY <1>5, <1>7, BecomesTyped DEF SessionsInv, TypeOK
    <2>4. TypeOK'
      BY <1>1, <1>7, <2>1, <2>3, FaultTyped DEF SessionsInv, TypeOK, Elsewhere
    <2>5. InOrder(running'[s])
      BY <1>1, <2>3 DEF InOrder, Passed
    <2>6. ~Failing(r, s) /\ UNCHANGED job /\ UNCHANGED startup
      BY <1>1 DEF Failing, Elsewhere
    <2>7. \A q \in running'[s].down :
             \/ Named(excused'[s], q) \/ q \in Pending(r, s)'
             \/ q \in running[s].down /\ ~Named(excused[s], q) /\ q \notin Pending(r, s)
      BY <1>2, <1>5, <2>2, <2>3
    <2> QED
      BY <2>1, <2>2, <2>3, <2>4, <2>5, <2>6, <2>7, StepOn
  <1>8. CASE Break(r, s, {running[s], down(p)}, job[r].on \X {r})
    <2> DEFINE effects == {running[s], down(p)}
               named   == job[r].on \X {r}
    <2>1. Break(r, s, effects, named)
      BY <1>8
    <2>2. \A q \in job[r].on : <<q, r>> \in named /\ <<q, r>>[1] = q
      OBVIOUS
    <2>3. named \in SUBSET (Ports \X Causes) /\ \A e \in named : e[2] = r
      BY <1>1, <1>2 DEF Causes
    <2> HIDE DEF named
    <2>4. \A q \in job[r].on : Named(named, q)
      BY <2>2 DEF Named
    <2>5. \A c \in effects :
             /\ c \in Configurations /\ InOrder(c)
             /\ running[s].done \subseteq c.done
             /\ \A q \in c.down : q \in running[s].down \/ Named(named, q)
      BY <1>1, <1>2, <1>5, <2>4 DEF InOrder, Passed
    <2> HIDE DEF effects
    <2> QED
      BY <1>1, <1>2, <2>1, <2>3, <2>4, <2>5, BreakPreserves
  <1> QED
    BY <1>3, <1>7, <1>8

\* One port of a bounce is opened.
LEMMA OpenPortPreserves ==
    ASSUME SessionsInv, NEW r \in Requests, NEW s \in Switches, OpenPort(r, s)
    PROVE  SessionsInv'
  <1>1. /\ session[r][s].at = "open" /\ UNCHANGED startup /\ Elsewhere
        /\ job[r] \in Operations /\ session[r][s] \in Sessions
        /\ running[s] \in Configurations /\ InOrder(running[s])
    BY AtWork DEF OpenPort
  <1>2. session[r][s].left \subseteq Ports /\ Pending(r, s) = session[r][s].left
    BY <1>1 DEF Pending, Sessions
  <1> DEFINE rest(p) == session[r][s].left \ {p}
             now(p)  == [session[r][s] EXCEPT !.left = rest(p),
                                              !.at = IF rest(p) = {} THEN "check" ELSE "open"]
             up(p)   == Open(running[s], {p})
  <1>3. PICK p \in session[r][s].left :
            \/ Fine /\ Becomes(s, up(p), {}) /\ Proceed(r, s, now(p))
            \/ /\ Fault
               /\ \E n \in Refused(now(p)) :
                    /\ Proceed(r, s, n)
                    /\ Becomes(s, running[s], {<<p, IF n.spoiled THEN r ELSE "unread">>})
            \/ Break(r, s, {running[s], up(p)}, session[r][s].left \X {r})
    BY DEF OpenPort
  <1>4. /\ now(p) \in Sessions /\ now(p).left = rest(p)
        /\ now(p).at # "open" => now(p).at = "check" /\ rest(p) = {}
    BY <1>1, <1>2 DEF Sessions, Active, OnLine
  <1>5. /\ up(p) \in Configurations
        /\ up(p).done = running[s].done /\ up(p).down = running[s].down \ {p}
    BY <1>1, <1>2, ShutTyped
  <1>6. ASSUME NEW n \in {now(p)} \cup Refused(now(p))
        PROVE  /\ n \in Sessions /\ n.at = now(p).at /\ n.left = rest(p)
               /\ session[r][s].spoiled => n.spoiled
    BY <1>1, <1>4, <1>6 DEF Sessions, Refused
  <1> HIDE DEF rest, now, up
  <1>7. ASSUME NEW n \in {now(p)} \cup Refused(now(p)), Proceed(r, s, n), Fault \/ Fine,
               \/ Becomes(s, up(p), {})
               \/ Becomes(s, running[s], {<<p, IF n.spoiled THEN r ELSE "unread">>})
        PROVE  SessionsInv'
    <2>1. /\ session' \in [Requests -> [Switches -> Sessions]] /\ session'[r][s] = n
          /\ \A q \in Requests, t \in Switches :
                (q = r /\ t = s) \/ session'[q][t] = session[q][t]
      BY <1>6, <1>7, ProceedTyped DEF SessionsInv
    <2>2. Fits(r, s)' /\ Pending(r, s)' = rest(p)
      <3>1. /\ n.left = rest(p)
            /\ n.at = "open" \/ n.at = "check"
            /\ n.at # "open" => rest(p) = {}
        BY <1>4, <1>6, <1>7
      <3>2. Fits(r, s)'
        BY <1>1, <2>1, <3>1 DEF Fits, Elsewhere
      <3> QED
        BY <2>1, <3>1, <3>2 DEF Pending
    <2> DEFINE why == IF n.spoiled THEN r ELSE "unread"
    <2>3. /\ running' \in [Switches -> Configurations]
          /\ excused' \in [Switches -> SUBSET (Ports \X Causes)]
          /\ running'[s].done = running[s].done
          /\ excused'[s] \subseteq excused[s] \cup {<<p, why>>}
          /\ \A q \in running'[s].down : Named(excused[s], q) => Named(excused'[s], q)
          /\ running'[s].down \subseteq running[s].down
          /\ p \in running'[s].down => Named(excused'[s], p)
          /\ \A t \in Switches \ {s} : running'[t] = running[t] /\ excused'[t] = excused[t]
      <3>1. CASE Becomes(s, up(p), {})
        BY <1>5, <3>1, BecomesTyped DEF SessionsInv
      <3>2. CASE Becomes(s, running[s], {<<p, why>>})
        <4>1. {<<p, why>>} \in SUBSET (Ports \X Causes)
          BY <1>2 DEF Causes
        <4>2. Named({<<p, why>>}, p)
          BY DEF Named
        <4> QED
          BY <1>1, <3>2, <4>1, <4>2, BecomesTyped DEF SessionsInv
      <3> QED
        BY <1>7, <3>1, <3>2
    <2>4. TypeOK'
      BY <1>1, <1>7, <2>1, <2>3, FaultTyped DEF SessionsInv, TypeOK, Elsewhere
    <2>5. InOrder(running'[s])
      BY <1>1, <2>3 DEF InOrder, Passed
    <2>6. \A q \in running'[s].down :
             \/ Named(excused'[s], q) \/ q \in Pending(r, s)'
             \/ q \in running[s].down /\ ~Named(excused[s], q) /\ q \notin Pending(r, s)
      BY <1>2, <2>2, <2>3 DEF rest
    <2>7. n.spoiled => Failing(r, s)'
      BY <1>4, <1>6, <2>1 DEF Failing
    <2>8. Failing(r, s) => Failing(r, s)'
      BY <1>1, <1>6, <2>7 DEF Failing
    <2>9. \A e \in excused'[s] :
             e \in excused[s] \/ e[2] \notin Requests \/ (e[2] = r /\ Failing(r, s)')
      <3>1. "unread" \notin Requests
        BY SessionsAssumption
      <3> QED
        BY <2>3, <2>7, <3>1
    <2> QED
      BY <1>1, <2>1, <2>2, <2>3, <2>4, <2>5, <2>6, <2>8, <2>9, StepOn DEF Elsewhere
  <1>8. CASE Break(r, s, {running[s], up(p)}, session[r][s].left \X {r})
    <2> DEFINE effects == {running[s], up(p)}
               named   == session[r][s].left \X {r}
    <2>1. Break(r, s, effects, named)
      BY <1>8
    <2>2. \A q \in session[r][s].left : <<q, r>> \in named /\ <<q, r>>[1] = q
      OBVIOUS
    <2>3. named \in SUBSET (Ports \X Causes) /\ \A e \in named : e[2] = r
      BY <1>1, <1>2 DEF Causes
    <2> HIDE DEF named
    <2>4. \A q \in session[r][s].left : Named(named, q)
      BY <2>2 DEF Named
    <2>5. \A c \in effects :
             /\ c \in Configurations /\ InOrder(c)
             /\ running[s].done \subseteq c.done
             /\ \A q \in c.down : q \in running[s].down \/ Named(named, q)
      BY <1>1, <1>2, <1>5, <2>4 DEF InOrder, Passed
    <2> HIDE DEF effects
    <2> QED
      BY <1>1, <1>2, <2>1, <2>3, <2>4, <2>5, BreakPreserves
  <1> QED
    BY <1>3, <1>7, <1>8

\* The settings are sent, all of them or a part.
LEMMA SendSettingsPreserves ==
    ASSUME SessionsInv, NEW r \in Requests, NEW s \in Switches, SendSettings(r, s)
    PROVE  SessionsInv'
  <1>1. /\ session[r][s].at = "send" /\ UNCHANGED startup /\ Elsewhere
        /\ job[r] \in Operations /\ session[r][s] \in Sessions
        /\ job[r].kind \in {"default", "set", "up", "down"}
        /\ running[s] \in Configurations /\ InOrder(running[s])
    BY AtWork DEF SendSettings, SessionsInv, Fits
  <1>2. Pending(r, s) = {}
    BY <1>1 DEF Pending
  <1> DEFINE now == [session[r][s] EXCEPT !.at = IF job[r].kind = "default" THEN "check" ELSE "show"]
             set(part) == Applied(job[r], part, running[s])
  <1>3. PICK part \in SUBSET job[r].on :
            \/ /\ Fault \/ Fine
               /\ Becomes(s, set(part), Ordered(job[r], part))
               /\ \E n \in {now} \cup Refused(now) : Proceed(r, s, n)
            \/ Break(r, s, {set(part)}, Ordered(job[r], part))
    BY DEF SendSettings
  <1>4. now \in Sessions /\ now.at \in {"check", "show"}
    BY <1>1 DEF Sessions, Active, OnLine
  <1>5. /\ set(part) \in Configurations
        /\ set(part).done = running[s].done
        /\ \A p \in set(part).down : p \in running[s].down \/ Named(Ordered(job[r], part), p)
        /\ Ordered(job[r], part) \in SUBSET (Ports \X Causes)
        /\ \A e \in Ordered(job[r], part) : e[2] \notin Requests
        /\ InOrder(set(part))
    <2>1. /\ set(part) \in Configurations
          /\ set(part).done = running[s].done
          /\ \A p \in set(part).down : p \in running[s].down \/ Named(Ordered(job[r], part), p)
          /\ Ordered(job[r], part) \subseteq Ports \X {"ordered"}
      BY <1>1, AppliedTyped
    <2>2. InOrder(set(part))
      BY <1>1, <2>1 DEF InOrder, Passed
    <2>3. "ordered" \notin Requests /\ "ordered" \in Causes
      BY SessionsAssumption DEF Causes
    <2> QED
      BY <2>1, <2>2, <2>3
  <1> HIDE DEF set
  <1>6. CASE /\ Fault \/ Fine
             /\ Becomes(s, set(part), Ordered(job[r], part))
             /\ \E n \in {now} \cup Refused(now) : Proceed(r, s, n)
    <2>1. PICK n \in {now} \cup Refused(now) : Proceed(r, s, n)
      BY <1>6
    <2>2. n \in Sessions /\ n.at = now.at
      BY <1>4 DEF Sessions, Refused
    <2>3. /\ session' \in [Requests -> [Switches -> Sessions]] /\ session'[r][s] = n
          /\ \A q \in Requests, t \in Switches :
                (q = r /\ t = s) \/ session'[q][t] = session[q][t]
      BY <2>1, <2>2, ProceedTyped DEF SessionsInv
    <2>4. Fits(r, s)'
      BY <1>1, <1>4, <2>2, <2>3 DEF Fits, Elsewhere
    <2>5. /\ running' \in [Switches -> Configurations] /\ running'[s] = set(part)
          /\ excused' \in [Switches -> SUBSET (Ports \X Causes)]
          /\ excused'[s] \subseteq excused[s] \cup Ordered(job[r], part)
          /\ \A p \in set(part).down :
                Named(excused[s], p) \/ Named(Ordered(job[r], part), p) => Named(excused'[s], p)
          /\ \A t \in Switches \ {s} : running'[t] = running[t] /\ excused'[t] = excused[t]
      BY <1>5, <1>6, BecomesTyped DEF SessionsInv
    <2>6. TypeOK'
      BY <1>1, <1>6, <2>3, <2>5, FaultTyped DEF SessionsInv, TypeOK, Elsewhere
    <2>7. ~Failing(r, s)
      BY <1>1 DEF Failing
    <2> QED
      BY <1>1, <1>2, <1>5, <2>3, <2>4, <2>5, <2>6, <2>7, StepOn DEF Elsewhere
  <1>7. CASE Break(r, s, {set(part)}, Ordered(job[r], part))
    BY <1>1, <1>2, <1>5, <1>7, BreakPreserves
  <1> QED
    BY <1>3, <1>6, <1>7

\* One block of a candidate is sent.
LEMMA SendBlockPreserves ==
    ASSUME SessionsInv, NEW r \in Requests, NEW s \in Switches, SendBlock(r, s)
    PROVE  SessionsInv'
  <1> DEFINE now  == session[r][s]
             sent(fate) == WithBlock(running[s], now.version, now.next, fate)
             on   == IF IsLast(now.next) THEN [now EXCEPT !.at = "check"]
                     ELSE [now EXCEPT !.next = @ + 1]
  <1>1. /\ session[r][s].at = "block" /\ UNCHANGED startup /\ Elsewhere
        /\ job[r] \in Operations /\ session[r][s] \in Sessions
        /\ running[s] \in Configurations /\ InOrder(running[s])
    BY AtWork DEF SendBlock
  <1>2. /\ now.version \in Versions /\ now.next \in 1..Blocks
        /\ Pending(r, s) = {} /\ ~Failing(r, s)
        /\ \A j \in 1..(now.next - 1) : Passed(running[s], now.version, j)
    BY <1>1 DEF Sessions, Pending, Failing, SessionsInv, Fits
  <1>3. \A fate \in Fates :
           /\ sent(fate) \in Configurations /\ InOrder(sent(fate))
           /\ running[s].done \subseteq sent(fate).done /\ sent(fate).down = running[s].down
           /\ \A j \in 1..(now.next - 1) : Passed(sent(fate), now.version, j)
           /\ fate # "partly" => Passed(sent(fate), now.version, now.next)
    BY <1>1, <1>2, SentTyped
  <1>4. \/ /\ Fault \/ Fine
           /\ \E fate \in {"whole", "unread"} : Becomes(s, sent(fate), {})
           /\ Proceed(r, s, on)
        \/ /\ Fault /\ Proceed(r, s, Idle("failed"))
           /\ \E c \in {running[s], sent("partly")} : Becomes(s, c, {})
        \/ Break(r, s, {running[s], sent("partly"), sent("whole")}, {})
    BY DEF SendBlock, TextOf
  <1>5. /\ on \in Sessions /\ on.version = now.version
        /\ \/ on.at = "check"
           \/ on.at = "block" /\ on.next = now.next + 1
    BY <1>1, <1>2, SessionsAssumption DEF Sessions, IsLast, Active, OnLine
  <1>6. {"whole", "partly", "unread"} \subseteq Fates
    BY DEF Fates
  <1> HIDE DEF sent, on
  <1>7. CASE /\ Fault \/ Fine
             /\ \E fate \in {"whole", "unread"} : Becomes(s, sent(fate), {})
             /\ Proceed(r, s, on)
    <2>1. PICK fate \in {"whole", "unread"} : Becomes(s, sent(fate), {})
      BY <1>7
    <2>2. /\ session' \in [Requests -> [Switches -> Sessions]] /\ session'[r][s] = on
          /\ \A q \in Requests, t \in Switches :
                (q = r /\ t = s) \/ session'[q][t] = session[q][t]
      BY <1>5, <1>7, ProceedTyped DEF SessionsInv
    <2>3. /\ running' \in [Switches -> Configurations] /\ running'[s] = sent(fate)
          /\ excused' \in [Switches -> SUBSET (Ports \X Causes)]
          /\ excused'[s] \subseteq excused[s]
          /\ \A p \in running[s].down : Named(excused[s], p) => Named(excused'[s], p)
          /\ \A t \in Switches \ {s} : running'[t] = running[t] /\ excused'[t] = excused[t]
      BY <1>3, <1>6, <2>1, BecomesTyped DEF SessionsInv
    <2>4. \A j \in 1..now.next : Passed(running'[s], now.version, j)
      BY <1>2, <1>3, <1>6, <2>1, <2>3, SessionsAssumption
    <2>5. Fits(r, s)'
      BY <1>1, <1>2, <1>5, <2>2, <2>4, SessionsAssumption DEF Fits, Elsewhere
    <2>6. TypeOK'
      BY <1>1, <1>7, <2>2, <2>3, FaultTyped DEF SessionsInv, TypeOK, Elsewhere
    <2> QED
      BY <1>1, <1>2, <1>3, <1>6, <2>2, <2>3, <2>5, <2>6, StepOn DEF Elsewhere
  <1>8. CASE \/ /\ Fault /\ Proceed(r, s, Idle("failed"))
                /\ \E c \in {running[s], sent("partly")} : Becomes(s, c, {})
             \/ Break(r, s, {running[s], sent("partly"), sent("whole")}, {})
    <2> DEFINE effects == {running[s], sent("partly"), sent("whole")}
    <2>1. Break(r, s, effects, {})
      BY <1>8 DEF Break
    <2>2. \A c \in effects : /\ c \in Configurations /\ InOrder(c)
                             /\ running[s].done \subseteq c.done
                             /\ c.down \subseteq running[s].down
      BY <1>1, <1>3, <1>6
    <2> HIDE DEF effects
    <2> QED
      BY <1>1, <1>2, <2>1, <2>2, BreakPreserves
  <1> QED
    BY <1>4, <1>7, <1>8

\* Copying, showing, checking and keeping leave the ports alone.
LEMMA ReadingPreserves ==
    ASSUME SessionsInv, NEW r \in Requests, NEW s \in Switches,
           Copy(r, s) \/ Show(r, s) \/ Keep(r, s) \/ Check(r, s)
    PROVE  SessionsInv'
  <1>1. /\ session[r][s].at \in {"copy", "show", "keep", "check"}
        /\ UNCHANGED <<running, excused>> /\ Elsewhere
        /\ startup' \in {startup, [startup EXCEPT ![s] = running[s]]}
    BY DEF Copy, Show, Keep, Check, EndFrom
  <1>2. /\ job[r] \in Operations /\ session[r][s] \in Sessions /\ Pending(r, s) = {}
        /\ Failing(r, s) => Check(r, s) /\ session[r][s].spoiled
    BY <1>1, AtWork DEF Pending, Failing, Copy, Show, Keep, EndFrom
  <1>3. PICK new : Proceed(r, s, new) /\ (Fault \/ Fine) /\ new \in Sessions
                   /\ new.at \in {"check", "keep", "ok", "failed"}
                   /\ (Failing(r, s) => new.at = "failed")
    <2>1. \A place \in {"ok", "failed"} :
             Idle(place) \in Sessions /\ Idle(place).at = place
      BY IdleTyped, IdleFields DEF Places, Ended
    <2>2. CASE Copy(r, s)
      <3>1. \A n \in Refused([session[r][s] EXCEPT !.at = "check"]) :
               n \in Sessions /\ n.at = "check"
        BY <1>2 DEF Refused, Sessions, Active, OnLine
      <3>2. /\ [session[r][s] EXCEPT !.at = "check"] \in Sessions
            /\ [session[r][s] EXCEPT !.at = "check"].at = "check"
        BY <1>2 DEF Sessions, Active, OnLine
      <3>3. ~Failing(r, s)
        BY <2>2 DEF Copy, Failing
      <3> QED
        BY <2>1, <2>2, <3>1, <3>2, <3>3 DEF Copy
    <2>3. CASE Show(r, s)
      <3> DEFINE bad == \E i \in job[r].on : ~AsAsked(job[r], i, running[s])
                 new == [session[r][s] EXCEPT !.at = "keep", !.spoiled = bad]
      <3>1. bad \in BOOLEAN
        OBVIOUS
      <3>2. new \in Sessions /\ new.at = "keep"
        BY <1>2, <3>1 DEF Sessions, Active
      <3>3. \/ Proceed(r, s, new) /\ Fine
            \/ Proceed(r, s, Idle("failed")) /\ Fault
        BY <2>3 DEF Show
      <3>4. ~Failing(r, s)
        BY <2>3 DEF Show, Failing
      <3> QED
        BY <2>1, <3>2, <3>3, <3>4
    <2>4. CASE Keep(r, s) \/ Check(r, s)
      BY <1>2, <2>1, <2>4 DEF Keep, Check, EndFrom
    <2> QED
      BY <2>2, <2>3, <2>4
  <1>4. /\ startup' \in [Switches -> Configurations]
        /\ \A t \in Switches : startup'[t] \in {startup[t], running[t]}
    BY <1>1 DEF SessionsInv, TypeOK
  <1>5. UNCHANGED <<running, excused, candidate, job, reloads>>
    BY <1>1 DEF Elsewhere
  <1>6. /\ new.at \notin {"shut", "open", "send", "block"}
        /\ Failing(r, s) => new.at = "failed" \/ (new.at = "check" /\ new.spoiled)
    BY <1>3
  <1> QED
    BY <1>2, <1>3, <1>4, <1>5, <1>6, QuietStep

LEMMA BegunTyped ==
    ASSUME SessionsInv, NEW r \in Requests, NEW s \in Switches, job[r] \in Operations
    PROVE  /\ Begun(r, s) \in Sessions
           /\ Begun(r, s).next = 1
           /\ Begun(r, s).at = FirstPlace(job[r].kind)
           /\ job[r].kind = "bounce" => Begun(r, s).left = job[r].on
           /\ Begun(r, s).at \in Active
           /\ Begun(r, s).at = "shut" => job[r].kind = "bounce"
           /\ Begun(r, s).at = "send" => job[r].kind \in {"default", "set", "up", "down"}
           /\ Begun(r, s).at # "open"
  <1>1. job[r] \in Jobs /\ (job[r].kind = "bounce" => job[r].on \subseteq Ports)
    BY OperationsTyped
  <1>2. /\ FirstPlace(job[r].kind) \in Active
        /\ FirstPlace(job[r].kind) = "shut" => job[r].kind = "bounce"
        /\ FirstPlace(job[r].kind) = "send" => job[r].kind \in {"default", "set", "up", "down"}
        /\ FirstPlace(job[r].kind) # "open"
    BY <1>1 DEF FirstPlace, Jobs, Kinds, Active, OnLine
  <1>3. candidate[s] \in Versions
    BY DEF SessionsInv, TypeOK
  <1> DEFINE left    == IF job[r].kind = "bounce" THEN job[r].on ELSE {}
             version == IF job[r].kind = "deploy" THEN candidate[s] ELSE Generated
             clean   == \A q \in Requests \ {r} : session[q][s].at \notin OnLine
             place   == FirstPlace(job[r].kind)
  <1>4. left \in SUBSET Ports /\ version \in Versions /\ clean \in BOOLEAN
    BY <1>1, <1>3, SessionsAssumption
  <1>5. Begun(r, s) = [Idle(place) EXCEPT !.left = left, !.version = version,
                                          !.clean = clean]
    BY Zenon DEF Begun
  <1> HIDE DEF left, version, clean, place
  <1>6. /\ Begun(r, s) \in Sessions /\ Begun(r, s).next = 1
        /\ Begun(r, s).at = place /\ Begun(r, s).left = left
    <2>1. /\ Idle(place) \in Sessions /\ Idle(place).at = place
          /\ Idle(place).next = 1
      BY <1>2, IdleTyped, IdleFields DEF place, Places
    <2> QED
      BY <1>4, <1>5, <2>1 DEF Sessions
  <1> QED
    BY <1>2, <1>6 DEF place, left

LEMMA ConnectPreserves ==
    ASSUME SessionsInv, NEW r \in Requests, NEW s \in Switches, Connect(r, s)
    PROVE  SessionsInv'
  <1>1. /\ session[r][s].at = "wait" /\ UNCHANGED <<running, startup, excused>> /\ Elsewhere
    BY DEF Connect
  <1>2. /\ job[r] \in Operations /\ session[r][s] \in Sessions
        /\ Pending(r, s) = {} /\ ~Failing(r, s)
    BY <1>1, AtWork DEF Pending, Failing
  <1>3. CASE Proceed(r, s, Idle("failed")) /\ Fault
    <2>1. Idle("failed") \in Sessions /\ Idle("failed").at = "failed"
      BY IdleTyped, IdleFields DEF Places, Ended
    <2> QED
      BY <1>1, <1>2, <1>3, <2>1, QuietStep DEF Elsewhere, SessionsInv, TypeOK
  <1>4. CASE /\ session' = [q \in Requests |-> [session[q] EXCEPT ![s] =
                    IF q = r THEN Begun(r, s) ELSE [@ EXCEPT !.clean = FALSE]]]
             /\ Fine
    <2>1. \A q \in Requests, t \in Switches :
             session'[q][t] = IF t # s THEN session[q][t]
                              ELSE IF q = r THEN Begun(r, s)
                              ELSE [session[q][s] EXCEPT !.clean = FALSE]
      BY <1>4 DEF SessionsInv, TypeOK
    <2>2. \A q \in Requests, t \in Switches : session[q][t] \in Sessions
      BY DEF SessionsInv, TypeOK
    <2>3. \A q \in Requests :
             LET it == [session[q][s] EXCEPT !.clean = FALSE]
             IN  /\ it \in Sessions /\ it.at = session[q][s].at
                 /\ it.left = session[q][s].left
                 /\ it.next = session[q][s].next
                 /\ it.version = session[q][s].version
                 /\ it.spoiled = session[q][s].spoiled
      BY <2>2 DEF Sessions
    <2>4. /\ Begun(r, s) \in Sessions /\ Begun(r, s).next = 1
          /\ Begun(r, s).at = "shut" => /\ job[r].kind = "bounce"
                                        /\ Begun(r, s).left = job[r].on
          /\ Begun(r, s).at = "send" => job[r].kind \in {"default", "set", "up", "down"}
          /\ Begun(r, s).at # "open"
      BY <1>2, BegunTyped
    <2>5. session' \in [Requests -> [Switches -> Sessions]]
      <3>1. \A q \in Requests, t \in Switches : session'[q][t] \in Sessions
        BY <2>1, <2>2, <2>3, <2>4
      <3> QED
        BY <1>4, <3>1 DEF SessionsInv, TypeOK
    <2>6. TypeOK'
      BY <1>1, <1>4, <2>5 DEF SessionsInv, TypeOK, Elsewhere, Fine
    <2>7. \A q \in Requests, t \in Switches : (q = r /\ t = s) \/
              /\ session'[q][t].at = session[q][t].at
              /\ session'[q][t].left = session[q][t].left
              /\ session'[q][t].next = session[q][t].next
              /\ session'[q][t].version = session[q][t].version
              /\ session'[q][t].spoiled = session[q][t].spoiled
      BY <2>1, <2>3
    <2>8. session'[r][s] = Begun(r, s)
      BY <2>1
    <2>9. Fits(r, s)'
      BY <1>1, <1>2, <2>4, <2>8 DEF Fits, Elsewhere
    <2>10. InOrder(running'[s])
      BY <1>1 DEF SessionsInv, DeployInOrder, InOrder, Passed
    <2> QED
      BY <1>1, <1>2, <2>6, <2>7, <2>9, <2>10, StepOn
      DEF Elsewhere
  <1> QED
    BY <1>3, <1>4 DEF Connect

LEMMA SendPreserves ==
    ASSUME SessionsInv, NEW r \in Requests, Send(r)
    PROVE  SessionsInv'
  <1>1. PICK o \in Operations, S \in SUBSET Switches :
          /\ job' = [job EXCEPT ![r] = o]
          /\ session' = [session EXCEPT ![r] =
                [s \in Switches |-> IF s \in S THEN Idle("wait") ELSE @[s]]]
    BY DEF Send
  <1>2. /\ job[r] = NoJob
        /\ UNCHANGED <<running, startup, candidate, excused, faults, reloads>>
    BY DEF Send
  <1>3. o \in Jobs /\ NoJob \notin Operations
    BY OperationsTyped
  <1>4. \A s \in Switches : session[r][s].at = "none"
    BY <1>2, <1>3 DEF SessionsInv, Fits
  <1>5. Idle("wait") \in Sessions /\ Idle("wait").at = "wait"
    BY IdleTyped, IdleFields DEF Places
  <1>6. \A q \in Requests, t \in Switches :
           session'[q][t] = IF q = r /\ t \in S THEN Idle("wait") ELSE session[q][t]
    BY <1>1 DEF SessionsInv, TypeOK
  <1>7. \A q \in Requests : job'[q] = IF q = r THEN o ELSE job[q]
    BY <1>1 DEF SessionsInv, TypeOK
  <1>8. TypeOK'
    <2>1. \A t \in Switches :
             (IF t \in S THEN Idle("wait") ELSE session[r][t]) \in Sessions
      BY <1>5 DEF SessionsInv, TypeOK
    <2>2. session' \in [Requests -> [Switches -> Sessions]]
      BY <1>1, <2>1 DEF SessionsInv, TypeOK
    <2> QED
      BY <1>1, <1>2, <1>3, <2>2 DEF SessionsInv, TypeOK
  <1>9. ASSUME NEW q \in Requests, NEW t \in Switches PROVE Fits(q, t)'
    <2>1. CASE q = r
      <3>1. session'[q][t].at \in {"none", "wait"} /\ job'[q] \in Operations
        BY <1>4, <1>5, <1>6, <1>7, <2>1
      <3> QED
        BY <3>1 DEF Fits
    <2>2. CASE q # r
      <3>1. session'[q][t] = session[q][t] /\ job'[q] = job[q]
        BY <1>6, <1>7, <2>2
      <3> QED
        BY <1>2, <3>1 DEF SessionsInv, Fits, Passed
    <2> QED
      BY <2>1, <2>2
  <1>10. Accounted' /\ Blamed'
    <2>1. \A q \in Requests, t \in Switches :
             Pending(q, t)' = Pending(q, t) /\ (Failing(q, t) => Failing(q, t)')
      <3> SUFFICES ASSUME NEW q \in Requests, NEW t \in Switches
                   PROVE  Pending(q, t)' = Pending(q, t) /\ (Failing(q, t) => Failing(q, t)')
        OBVIOUS
      <3>1. CASE q = r
        BY <1>4, <1>5, <1>6, <3>1 DEF Pending, Failing
      <3>2. CASE q # r
        BY <1>6, <1>7, <3>2 DEF Pending, Failing
      <3> QED
        BY <3>1, <3>2
    <2> QED
      BY <1>2, <2>1 DEF SessionsInv, Accounted, Blamed, Named
  <1> QED
    BY <1>2, <1>7, <1>8, <1>9, <1>10 DEF SessionsInv, DeployInOrder, InOrder, Passed

LEMMA AdjustPreserves ==
    ASSUME SessionsInv, NEW s \in Switches, Adjust(s)
    PROVE  SessionsInv'
  <1>1. TypeOK'
    BY DEF SessionsInv, TypeOK, Adjust
  <1>2. \A r \in Requests, t \in Switches :
           Fits(r, t)' /\ Pending(r, t)' = Pending(r, t) /\ Failing(r, t)' = Failing(r, t)
    BY DEF SessionsInv, Adjust, Fits, Pending, Passed, Failing
  <1>3. DeployInOrder'
    BY DEF SessionsInv, Adjust, DeployInOrder, InOrder, Passed
  <1>4. Accounted' /\ Blamed'
    BY <1>2 DEF SessionsInv, Adjust, Accounted, Blamed, Named
  <1> QED
    BY <1>1, <1>2, <1>3, <1>4 DEF SessionsInv, Adjust

LEMMA ReloadPreserves ==
    ASSUME SessionsInv, NEW s \in Switches, Reload(s)
    PROVE  SessionsInv'
  <1>1. /\ reloads < MaxReloads /\ reloads' = reloads + 1
        /\ running' = [running EXCEPT ![s] = startup[s]]
        /\ excused' = [excused EXCEPT ![s] = startup[s].down \X {"saved"}]
        /\ session' = [r \in Requests |-> [session[r] EXCEPT ![s] =
                IF @.at \in OnLine THEN Idle("failed") ELSE [@ EXCEPT !.clean = FALSE]]]
        /\ UNCHANGED <<startup, candidate, job, faults>>
    BY DEF Reload
  <1>2. Idle("failed") \in Sessions /\ Idle("failed").at = "failed"
    BY IdleTyped, IdleFields DEF Places, Ended
  <1>3. \A q \in Requests, t \in Switches : session[q][t] \in Sessions
    BY DEF SessionsInv, TypeOK
  <1>4. \A q \in Requests, t \in Switches :
           session'[q][t] = IF t # s THEN session[q][t]
                            ELSE IF session[q][s].at \in OnLine THEN Idle("failed")
                            ELSE [session[q][s] EXCEPT !.clean = FALSE]
    BY <1>1, <1>3 DEF SessionsInv, TypeOK
  <1>5. \A q \in Requests : /\ [session[q][s] EXCEPT !.clean = FALSE] \in Sessions
                            /\ [session[q][s] EXCEPT !.clean = FALSE].at = session[q][s].at
    BY <1>3 DEF Sessions
  <1>6. TypeOK'
    <2>1. \A q \in Requests, t \in Switches : session'[q][t] \in Sessions
      BY <1>2, <1>3, <1>4, <1>5
    <2>2. session' \in [Requests -> [Switches -> Sessions]]
      BY <1>1, <2>1 DEF SessionsInv, TypeOK
    <2>3. startup[s].down \X {"saved"} \in SUBSET (Ports \X Causes)
      BY DEF SessionsInv, TypeOK, Configurations, Causes
    <2> QED
      BY <1>1, <2>2, <2>3, SessionsAssumption DEF SessionsInv, TypeOK
  <1>7. ASSUME NEW q \in Requests, NEW t \in Switches
        PROVE  /\ Fits(q, t)'
               /\ t # s => Pending(q, t)' = Pending(q, t) /\ Failing(q, t)' = Failing(q, t)
    <2>1. CASE t # s
      <3>1. session'[q][t] = session[q][t] /\ running'[t] = running[t]
        BY <1>1, <1>4, <2>1 DEF SessionsInv, TypeOK
      <3> QED
        BY <1>1, <3>1 DEF SessionsInv, Fits, Pending, Passed, Failing
    <2>2. CASE t = s
      <3>1. \/ session'[q][t].at = "failed" /\ session[q][t].at \in OnLine
            \/ session'[q][t].at = session[q][t].at /\ session[q][t].at \notin OnLine
        BY <1>2, <1>4, <1>5, <2>2
      <3> QED
        BY <1>1, <2>2, <3>1 DEF SessionsInv, Fits, OnLine
    <2> QED
      BY <2>1, <2>2
  <1>8. DeployInOrder'
    BY <1>1 DEF SessionsInv, TypeOK, DeployInOrder, InOrder, Passed
  <1>9. Accounted'
    <2> SUFFICES ASSUME NEW t \in Switches, NEW p \in running'[t].down
                 PROVE  Named(excused'[t], p) \/ \E q \in Requests : p \in Pending(q, t)'
      BY DEF Accounted, Named
    <2>1. CASE t = s
      <3>1. <<p, "saved">> \in excused'[t]
        BY <1>1, <2>1 DEF SessionsInv, TypeOK
      <3> QED
        BY <3>1 DEF Named
    <2>2. CASE t # s
      BY <1>1, <1>7, <2>2 DEF SessionsInv, TypeOK, Accounted
    <2> QED
      BY <2>1, <2>2
  <1>10. Blamed'
    <2> SUFFICES ASSUME NEW t \in Switches, NEW e \in excused'[t], e[2] \in Requests
                 PROVE  Failing(e[2], t)'
      BY DEF Blamed
    <2>1. CASE t = s
      BY <1>1, <2>1, SessionsAssumption DEF SessionsInv, TypeOK
    <2>2. CASE t # s
      BY <1>1, <1>7, <2>2 DEF SessionsInv, TypeOK, Blamed
    <2> QED
      BY <2>1, <2>2
  <1> QED
    BY <1>1, <1>6, <1>7, <1>8, <1>9, <1>10 DEF SessionsInv

LEMMA CrashPreserves ==
    ASSUME SessionsInv, Crash
    PROVE  SessionsInv'
  <1>1. /\ Fault
        /\ session' = [r \in Requests |-> [s \in Switches |->
                IF session[r][s].at \in Active \cup {"wait"} THEN Idle("failed")
                ELSE session[r][s]]]
        /\ excused' = [s \in Switches |->
                {e \in excused[s] \cup UNION {Pending(r, s) \X {r} : r \in Requests} :
                    e[1] \in running[s].down}]
        /\ candidate' = [s \in Switches |-> Generated]
        /\ UNCHANGED <<running, startup, job, reloads>>
    BY DEF Crash
  <1>2. Idle("failed") \in Sessions /\ Idle("failed").at = "failed"
    BY IdleTyped, IdleFields DEF Places, Ended
  <1>3. \A q \in Requests, t \in Switches : session[q][t] \in Sessions
    BY DEF SessionsInv, TypeOK, Configurations
  <1>4. TypeOK'
    <2>1. session' \in [Requests -> [Switches -> Sessions]]
      BY <1>1, <1>2, <1>3
    <2>2. ASSUME NEW t \in Switches, NEW r \in Requests PROVE Pending(r, t) \subseteq Ports
      <3>1. session[r][t].left \subseteq Ports
        BY <1>3 DEF Sessions
      <3>2. session[r][t].at = "shut" => job[r].on \subseteq Ports
        BY AtWork, OperationsTyped DEF SessionsInv, Fits
      <3> QED
        BY <3>1, <3>2 DEF Pending
    <2>3. excused' \in [Switches -> SUBSET (Ports \X Causes)]
      <3>1. ASSUME NEW t \in Switches, NEW e \in excused'[t] PROVE e \in Ports \X Causes
        <4>1. e \in excused[t] \/ \E r \in Requests : e \in Pending(r, t) \X {r}
          BY <1>1
        <4> QED
          BY <2>2, <4>1 DEF SessionsInv, TypeOK, Causes
      <3> QED
        BY <1>1, <3>1
    <2>4. candidate' \in [Switches -> Versions]
      BY <1>1, SessionsAssumption
    <2> QED
      BY <1>1, <2>1, <2>3, <2>4, FaultTyped DEF SessionsInv, TypeOK
  <1>5. ASSUME NEW q \in Requests, NEW t \in Switches PROVE Fits(q, t)'
    <2>1. \/ session'[q][t].at = "failed" /\ session[q][t].at # "none"
          \/ session'[q][t] = session[q][t] /\ session[q][t].at \notin Active
      BY <1>1, <1>2 DEF Active, OnLine
    <2> QED
      BY <1>1, <2>1 DEF SessionsInv, Fits, Passed, Active, OnLine
  <1>6. Accounted'
    <2> SUFFICES ASSUME NEW t \in Switches, NEW p \in running[t].down
                 PROVE  Named(excused'[t], p)
      BY <1>1 DEF Accounted, Named
    <2>1. Named(excused[t], p) \/ \E r \in Requests : p \in Pending(r, t)
      BY DEF SessionsInv, Accounted
    <2>2. CASE Named(excused[t], p)
      BY <1>1, <2>2 DEF Named
    <2>3. ASSUME NEW r \in Requests, p \in Pending(r, t) PROVE Named(excused'[t], p)
      <3>1. <<p, r>> \in Pending(r, t) \X {r}
        BY <2>3
      <3>2. <<p, r>> \in excused'[t]
        BY <1>1, <3>1
      <3> QED
        BY <3>2 DEF Named
    <2> QED
      BY <2>1, <2>2, <2>3
  <1>7. Blamed'
    <2> SUFFICES ASSUME NEW t \in Switches, NEW e \in excused'[t], e[2] \in Requests
                 PROVE  Failing(e[2], t)'
      BY DEF Blamed
    <2>1. session[e[2]][t].at \in Active \cup {"wait"} => Failing(e[2], t)'
      BY <1>1, <1>2 DEF Failing
    <2>2. CASE e \in excused[t]
      <3>1. Failing(e[2], t)
        BY <2>2 DEF SessionsInv, Blamed
      <3> QED
        BY <1>1, <2>1, <3>1 DEF Failing
    <2>3. ASSUME NEW r \in Requests, e \in Pending(r, t) \X {r} PROVE Failing(e[2], t)'
      <3>1. e[2] = r /\ Pending(r, t) # {}
        BY <2>3
      <3>2. session[r][t].at \in Active
        BY <3>1 DEF Pending, Active, OnLine
      <3> QED
        BY <2>1, <3>1, <3>2
    <2> QED
      BY <1>1, <2>2, <2>3
  <1> QED
    BY <1>1, <1>4, <1>5, <1>6, <1>7 DEF SessionsInv, DeployInOrder, InOrder, Passed

LEMMA InitSessionsInv == Init => SessionsInv
  <1> SUFFICES ASSUME Init PROVE SessionsInv
    OBVIOUS
  <1>1. Factory \in Configurations /\ Factory.done = {} /\ Factory.down = {}
    BY SessionsAssumption DEF Factory, Configurations
  <1>2. Idle("none") \in Sessions /\ Idle("none").at = "none"
    BY IdleTyped, IdleFields DEF Places
  <1>3. TypeOK
    BY <1>1, <1>2, SessionsAssumption DEF Init, TypeOK
  <1>4. \A r \in Requests, s \in Switches : Fits(r, s)
    BY <1>2 DEF Init, Fits
  <1> QED
    BY <1>1, <1>3, <1>4 DEF Init, SessionsInv, DeployInOrder, InOrder, Accounted, Blamed

LEMMA StutterPreserves == SessionsInv /\ UNCHANGED vars => SessionsInv'
  <1> SUFFICES ASSUME SessionsInv, UNCHANGED vars PROVE SessionsInv'
    OBVIOUS
  <1>1. TypeOK'
    BY DEF vars, SessionsInv, TypeOK
  <1>2. \A r \in Requests, t \in Switches :
           Fits(r, t)' /\ Pending(r, t)' = Pending(r, t) /\ Failing(r, t)' = Failing(r, t)
    BY DEF vars, SessionsInv, Fits, Pending, Passed, Failing
  <1>3. DeployInOrder'
    BY DEF vars, SessionsInv, DeployInOrder, InOrder, Passed
  <1>4. Accounted' /\ Blamed'
    BY <1>2 DEF vars, SessionsInv, Accounted, Blamed, Named
  <1> QED
    BY <1>1, <1>2, <1>3, <1>4 DEF vars, SessionsInv

LEMMA NextPreserves == SessionsInv /\ [Next]_vars => SessionsInv'
  BY SendPreserves, ConnectPreserves, ShutPortPreserves, OpenPortPreserves,
     SendSettingsPreserves, SendBlockPreserves, ReadingPreserves, AdjustPreserves,
     ReloadPreserves, CrashPreserves, StutterPreserves
  DEF Next, Work

LEMMA SpecSessionsInv == Spec => []SessionsInv
  BY InitSessionsInv, NextPreserves, PTL DEF Spec

\* The sessions, configurations and candidates keep their types.
THEOREM SessionsTypeOK == Spec => []TypeOK
  <1>1. SessionsInv => TypeOK
    BY DEF SessionsInv
  <1> QED
    BY <1>1, SpecSessionsInv, PTL

\* A port that is down is down by order, by a failure that its own request
\* reports, by a reload, by an opening refused in words the server does not look
\* for, or until a bounce under way opens it, whatever sessions interleave on the
\* switch (bounce_interfaces).
THEOREM NoPortLeftDownHolds == Spec => []NoPortLeftDown
  <1>1. SessionsInv => NoPortLeftDown
    BY DEF SessionsInv, Accounted, Blamed, Named, Failing, NoPortLeftDown, Reported
  <1> QED
    BY <1>1, SpecSessionsInv, PTL

\* The blocks of a candidate reach a switch in order, none after one that was
\* refused in the texts the server looks for or broken off (deploy_config).
THEOREM DeployInOrderHolds == Spec => []DeployInOrder
  <1>1. SessionsInv => DeployInOrder
    BY DEF SessionsInv
  <1> QED
    BY <1>1, SpecSessionsInv, PTL

-----------------------------------------------------------------------------
(* What a session that ends well has done                                   *)

\* A session is at a place of its operation.
Placed(r, s) ==
    /\ session[r][s].at = "open" => job[r].kind = "bounce"
    /\ session[r][s].at \in {"show", "keep"} => job[r].kind \in {"set", "up", "down", "backup"}
    /\ session[r][s].at = "block" => job[r].kind = "deploy"
    /\ session[r][s].at = "copy" => job[r].kind = "save"
    /\ session[r][s].at = "check" => job[r].kind \in {"bounce", "default", "deploy", "save"}

\* What was asked is the state of the switch.
Reached(r, s) ==
    LET o == job[r]  c == running[s]
    IN CASE o.kind \in {"set", "up"} -> \A i \in o.on : AsAsked(o, i, c)
         [] o.kind = "down"    -> o.on \subseteq c.down
         [] o.kind = "bounce"  -> o.on \cap c.down = {}
         [] o.kind = "default" -> o.on \cap c.down = {} /\ \A i \in o.on : c.value[i] = Base
         [] o.kind = "deploy"  -> \A k \in 1..Blocks : Passed(c, session[r][s].version, k)
         [] o.kind = "save"    -> startup[s] = c
         [] OTHER              -> TRUE

\* A clean session is alone on its switch until its outcome is written, and, as
\* long as nothing was noted against it, has reached what its place promises.
Honest(r, s) ==
    /\ Placed(r, s)
    /\ session[r][s].clean /\ session[r][s].at \in Active =>
        \A q \in Requests \ {r} : session[q][s].at \notin OnLine
    /\ session[r][s].clean /\ ~session[r][s].spoiled =>
        /\ session[r][s].at = "open" => job[r].on \cap running[s].down \subseteq session[r][s].left
        /\ session[r][s].at \in {"keep", "check"} => Reached(r, s)

HonestInv == SessionsInv /\ \A r \in Requests, s \in Switches : Honest(r, s)

\* A session that nobody touched, or that lost its place on a quiet switch.
SameSession(r, s) ==
    /\ session'[r][s].at = session[r][s].at
    /\ session'[r][s].left = session[r][s].left
    /\ session'[r][s].version = session[r][s].version
    /\ session'[r][s].spoiled = session[r][s].spoiled
    /\ session'[r][s].clean => session[r][s].clean

LEMMA SameHonest ==
    ASSUME NEW r \in Requests, NEW s \in Switches, Honest(r, s), SameSession(r, s),
           job'[r] = job[r],
           session'[r][s].clean /\ session[r][s].at \in Active =>
              /\ running'[s] = running[s] /\ startup'[s] = startup[s]
              /\ \A q \in Requests \ {r} : session'[q][s].at \notin OnLine
    PROVE  Honest(r, s)'
  <1>1. Placed(r, s)'
    BY DEF Honest, SameSession, Placed
  <1>2. CASE ~session'[r][s].clean
    BY <1>1, <1>2 DEF Honest
  <1>3. CASE session'[r][s].clean /\ session[r][s].at \notin Active
    BY <1>1, <1>3 DEF Honest, SameSession, Active, OnLine
  <1>4. CASE session'[r][s].clean /\ session[r][s].at \in Active
    <2>1. Reached(r, s) => Reached(r, s)'
      BY <1>4 DEF Reached, SameSession, AsAsked, Passed
    <2> QED
      BY <1>1, <1>4, <2>1 DEF Honest, SameSession
  <1> QED
    BY <1>2, <1>3, <1>4

\* A step of session q, t leaves the other sessions honest: those on the same
\* switch are not clean while q works on it, or q leaves the switch as it is.
LEMMA OthersHonest ==
    ASSUME HonestInv, SessionsInv', NEW q \in Requests, NEW t \in Switches, UNCHANGED job,
           \A r \in Requests, s \in Switches : (r = q /\ s = t) \/ session'[r][s] = session[r][s],
           \A s \in Switches \ {t} : running'[s] = running[s],
           \A s \in Switches \ {t} : startup'[s] = startup[s],
           \/ session[q][t].at \in OnLine
           \/ /\ running'[t] = running[t] /\ startup'[t] = startup[t]
              /\ session'[q][t].at \notin OnLine,
           Honest(q, t)'
    PROVE  HonestInv'
  <1> SUFFICES ASSUME NEW r \in Requests, NEW s \in Switches, ~(r = q /\ s = t)
               PROVE  Honest(r, s)'
    BY DEF HonestInv
  <1>1. Honest(r, s) /\ session'[r][s] = session[r][s]
    BY DEF HonestInv
  <1>2. SameSession(r, s) /\ job'[r] = job[r]
    BY <1>1 DEF SameSession
  <1>3. ASSUME session'[r][s].clean, session[r][s].at \in Active
        PROVE  /\ running'[s] = running[s] /\ startup'[s] = startup[s]
               /\ \A p \in Requests \ {r} : session'[p][s].at \notin OnLine
    <2>1. \A p \in Requests \ {r} : session[p][s].at \notin OnLine
      BY <1>1, <1>3 DEF Honest
    <2>2. CASE s # t
      BY <2>1, <2>2
    <2>3. CASE s = t
      <3>1. session[q][t].at \notin OnLine
        BY <2>1, <2>3
      <3> QED
        BY <2>1, <2>3, <3>1
    <2> QED
      BY <2>2, <2>3
  <1> QED
    BY <1>1, <1>2, <1>3, SameHonest

\* A failed session is honest.
LEMMA EndedHonest ==
    ASSUME NEW r \in Requests, NEW s \in Switches,
           session[r][s].at \in {"none", "wait", "ok", "failed"}
    PROVE  Honest(r, s)
  BY DEF Honest, Placed, Active, OnLine

\* The same for the values after a step.
LEMMA EndedHonestNext ==
    ASSUME NEW r \in Requests, NEW s \in Switches,
           session'[r][s].at \in {"none", "wait", "ok", "failed"}
    PROVE  Honest(r, s)'
  BY DEF Honest, Placed, Active, OnLine

\* A step of one session leaves the rest, and its switch, as OthersHonest asks.
LEMMA FrameOfWork ==
    ASSUME HonestInv, NEW r \in Requests, NEW s \in Switches,
           \/ ShutPort(r, s) \/ OpenPort(r, s) \/ SendSettings(r, s) \/ Show(r, s)
           \/ Keep(r, s) \/ Check(r, s) \/ SendBlock(r, s) \/ Copy(r, s)
    PROVE  /\ UNCHANGED job
           /\ \E new : Proceed(r, s, new)
           /\ \A t \in Switches \ {s} : running'[t] = running[t]
           /\ \A t \in Switches \ {s} : startup'[t] = startup[t]
           /\ \/ session[r][s].at \in OnLine
              \/ UNCHANGED <<running, startup>> /\ session'[r][s].at \notin OnLine
  <1>1. CASE ShutPort(r, s)
    BY <1>1 DEF ShutPort, Elsewhere, Becomes, Break, HonestInv, SessionsInv, TypeOK, OnLine
  <1>2. CASE OpenPort(r, s)
    BY <1>2 DEF OpenPort, Elsewhere, Becomes, Break, HonestInv, SessionsInv, TypeOK, OnLine
  <1>3. CASE SendSettings(r, s)
    BY <1>3 DEF SendSettings, Elsewhere, Becomes, Break, HonestInv, SessionsInv, TypeOK, OnLine
  <1>4. CASE Show(r, s)
    BY <1>4 DEF Show, Elsewhere, OnLine
  <1>5. CASE Check(r, s)
    BY <1>5 DEF Check, EndFrom, Elsewhere, OnLine
  <1>8. CASE Keep(r, s)
    <2>1. \E place \in Ended : Proceed(r, s, Idle(place))
      BY <1>8 DEF Keep, EndFrom, Ended
    <2>2. session'[r][s].at \in Ended
      BY <2>1, IdleFields DEF Proceed, HonestInv, SessionsInv, TypeOK
    <2> QED
      BY <1>8, <2>1, <2>2 DEF Keep, EndFrom, Elsewhere, Ended, OnLine
  <1>6. CASE SendBlock(r, s)
    BY <1>6 DEF SendBlock, Elsewhere, Becomes, Break, HonestInv, SessionsInv, TypeOK, OnLine
  <1>7. CASE Copy(r, s)
    BY <1>7 DEF Copy, Elsewhere, HonestInv, SessionsInv, TypeOK, OnLine
  <1> QED
    BY <1>1, <1>2, <1>3, <1>4, <1>5, <1>6, <1>7, <1>8

\* It is enough that the session itself stays honest.
LEMMA WorkHonest ==
    ASSUME HonestInv, SessionsInv', NEW r \in Requests, NEW s \in Switches,
           \/ ShutPort(r, s) \/ OpenPort(r, s) \/ SendSettings(r, s) \/ Show(r, s)
           \/ Keep(r, s) \/ Check(r, s) \/ SendBlock(r, s) \/ Copy(r, s),
           Honest(r, s)'
    PROVE  HonestInv'
  <1>1. PICK new : Proceed(r, s, new)
    BY FrameOfWork
  <1>2. \A q \in Requests, t \in Switches : (q = r /\ t = s) \/ session'[q][t] = session[q][t]
    BY <1>1 DEF Proceed, HonestInv, SessionsInv, TypeOK
  <1>3. /\ UNCHANGED job
        /\ \A t \in Switches \ {s} : running'[t] = running[t]
        /\ \A t \in Switches \ {s} : startup'[t] = startup[t]
        /\ \/ session[r][s].at \in OnLine
           \/ UNCHANGED <<running, startup>> /\ session'[r][s].at \notin OnLine
    BY FrameOfWork
  <1> QED
    BY <1>2, <1>3, OthersHonest

\* A session that goes on is honest when its next place is one of its operation
\* and what that place promises holds.
LEMMA GoesOn ==
    ASSUME HonestInv, NEW r \in Requests, NEW s \in Switches, UNCHANGED job,
           NEW new \in Sessions, Proceed(r, s, new), session[r][s].at \in Active,
           new.clean => session[r][s].clean,
           Placed(r, s)',
           new.clean /\ ~new.spoiled =>
              /\ new.at = "open" => job[r].on \cap running'[s].down \subseteq new.left
              /\ new.at \in {"keep", "check"} => Reached(r, s)'
    PROVE  Honest(r, s)'
  <1>1. /\ session'[r][s] = new
        /\ \A q \in Requests \ {r} : session'[q][s] = session[q][s]
    BY ProceedTyped DEF HonestInv, SessionsInv
  <1>2. new.clean => \A q \in Requests \ {r} : session'[q][s].at \notin OnLine
    BY <1>1 DEF HonestInv, Honest
  <1> QED
    BY <1>1, <1>2 DEF Honest

\* What is refused is either noted or not clean.
LEMMA RefusedShape ==
    ASSUME NEW now \in Sessions, NEW n \in Refused(now)
    PROVE  /\ n \in Sessions /\ n.at = now.at
           /\ n.clean => now.clean
           /\ ~(n.clean /\ ~n.spoiled)
  BY DEF Sessions, Refused

\* A session that ends is honest: it claims nothing any more.
LEMMA EndsHonest ==
    ASSUME HonestInv, NEW r \in Requests, NEW s \in Switches,
           NEW place \in Ended, Proceed(r, s, Idle(place))
    PROVE  Honest(r, s)'
  <1>1. session'[r][s].at = place
    BY IdleFields DEF Proceed, HonestInv, SessionsInv, TypeOK
  <1> QED
    BY <1>1, EndedHonestNext DEF Ended

LEMMA BreakHonest ==
    ASSUME HonestInv, NEW r \in Requests, NEW s \in Switches,
           NEW effects, NEW named, Break(r, s, effects, named)
    PROVE  Honest(r, s)'
  BY EndsHonest DEF Break, Ended

LEMMA ShutPortHonest ==
    ASSUME HonestInv, NEW r \in Requests, NEW s \in Switches, ShutPort(r, s)
    PROVE  Honest(r, s)'
  <1>1. /\ session[r][s].at = "shut" /\ UNCHANGED job /\ session[r][s] \in Sessions
        /\ job[r] \in Operations /\ job[r].kind = "bounce"
        /\ session[r][s].left \subseteq job[r].on
    BY AtWork DEF ShutPort, Elsewhere, HonestInv, SessionsInv, Fits
  <1>2. job[r].on \subseteq Ports
    BY <1>1, OperationsTyped
  <1> DEFINE rest(p) == session[r][s].left \ {p}
             now(p)  == IF rest(p) # {} THEN [session[r][s] EXCEPT !.left = rest(p)]
                        ELSE [session[r][s] EXCEPT !.at = "open", !.left = PortsToOpen(job[r].on)]
  <1>3. PICK p \in session[r][s].left :
            \/ \E n \in {now(p)} \cup Refused(now(p)) : Proceed(r, s, n)
            \/ Break(r, s, {running[s], Shut(running[s], {p})}, job[r].on \X {r})
    BY DEF ShutPort
  <1>4. /\ now(p) \in Sessions /\ now(p).at \in {"shut", "open"}
        /\ now(p).at = "open" => now(p).left = job[r].on
        /\ now(p).clean = session[r][s].clean
    BY <1>1, <1>2 DEF Sessions, PortsToOpen, Active, OnLine
  <1> HIDE DEF now
  <1>5. ASSUME NEW n \in {now(p)} \cup Refused(now(p)), Proceed(r, s, n)
        PROVE  Honest(r, s)'
    <2>1. /\ n \in Sessions /\ n.at \in {"shut", "open"}
          /\ n.clean => session[r][s].clean
          /\ n.clean /\ ~n.spoiled => n = now(p)
      BY <1>4, <1>5, RefusedShape
    <2>2. session'[r][s] = n
      BY <1>5, <2>1, ProceedTyped DEF HonestInv, SessionsInv
    <2>3. Placed(r, s)'
      BY <1>1, <2>1, <2>2 DEF Placed
    <2> QED
      BY <1>1, <1>4, <1>5, <2>1, <2>3, GoesOn DEF Active, OnLine
  <1> QED
    BY <1>3, <1>5, BreakHonest

LEMMA OpenPortHonest ==
    ASSUME HonestInv, NEW r \in Requests, NEW s \in Switches, OpenPort(r, s)
    PROVE  Honest(r, s)'
  <1>1. /\ session[r][s].at = "open" /\ UNCHANGED job /\ session[r][s] \in Sessions
        /\ job[r] \in Operations /\ job[r].kind = "bounce"
        /\ running[s] \in Configurations
    BY AtWork DEF OpenPort, Elsewhere, HonestInv, Honest, Placed
  <1>2. session[r][s].left \subseteq Ports
    BY <1>1 DEF Sessions
  <1> DEFINE rest(p) == session[r][s].left \ {p}
             now(p)  == [session[r][s] EXCEPT !.left = rest(p),
                                              !.at = IF rest(p) = {} THEN "check" ELSE "open"]
             up(p)   == Open(running[s], {p})
  <1>3. PICK p \in session[r][s].left :
            \/ Becomes(s, up(p), {}) /\ Proceed(r, s, now(p))
            \/ \E n \in Refused(now(p)) : Proceed(r, s, n)
            \/ Break(r, s, {running[s], up(p)}, session[r][s].left \X {r})
    BY DEF OpenPort
  <1>4. /\ now(p) \in Sessions /\ now(p).left = rest(p)
        /\ now(p).at \in {"open", "check"}
        /\ now(p).at = "check" => rest(p) = {}
        /\ now(p).clean = session[r][s].clean
        /\ now(p).spoiled = session[r][s].spoiled
    BY <1>1, <1>2 DEF Sessions, Active, OnLine
  <1>5. up(p) \in Configurations /\ up(p).down = running[s].down \ {p}
    BY <1>1, <1>2, ShutTyped
  <1> HIDE DEF now, up
  <1>6. CASE Becomes(s, up(p), {}) /\ Proceed(r, s, now(p))
    <2>1. session'[r][s] = now(p) /\ running'[s] = up(p)
      BY <1>4, <1>5, <1>6, ProceedTyped, BecomesTyped DEF HonestInv, SessionsInv
    <2>2. Placed(r, s)'
      BY <1>1, <1>4, <2>1 DEF Placed
    <2>3. now(p).clean /\ ~now(p).spoiled => job[r].on \cap running'[s].down \subseteq now(p).left
      <3>1. now(p).clean /\ ~now(p).spoiled => job[r].on \cap running[s].down \subseteq session[r][s].left
        BY <1>1, <1>4 DEF HonestInv, Honest
      <3> QED
        BY <1>4, <1>5, <2>1, <3>1
    <2>4. now(p).at = "check" /\ now(p).clean /\ ~now(p).spoiled => Reached(r, s)'
      <3>1. now(p).at = "check" /\ now(p).clean /\ ~now(p).spoiled => job[r].on \cap running'[s].down = {}
        BY <1>4, <2>3
      <3> QED
        BY <1>1, <3>1 DEF Reached
    <2> QED
      BY <1>1, <1>4, <1>6, <2>2, <2>3, <2>4, GoesOn DEF Active, OnLine
  <1>7. ASSUME NEW n \in Refused(now(p)), Proceed(r, s, n)
        PROVE  Honest(r, s)'
    <2>1. /\ n \in Sessions /\ n.at \in {"open", "check"}
          /\ n.clean => session[r][s].clean
          /\ ~(n.clean /\ ~n.spoiled)
      BY <1>4, <1>7, RefusedShape
    <2>2. session'[r][s] = n
      BY <1>7, <2>1, ProceedTyped DEF HonestInv, SessionsInv
    <2>3. Placed(r, s)'
      BY <1>1, <2>1, <2>2 DEF Placed
    <2> QED
      BY <1>1, <1>7, <2>1, <2>3, GoesOn DEF Active, OnLine
  <1> QED
    BY <1>3, <1>6, <1>7, BreakHonest

\* A default that was carried out on all its ports.
LEMMA DefaultReached ==
    ASSUME NEW o \in Operations, o.kind = "default", NEW c \in Configurations
    PROVE  /\ o.on \cap Applied(o, o.on, c).down = {}
           /\ \A i \in o.on : Applied(o, o.on, c).value[i] = Base
  <1>1. o.on \subseteq Ports
    BY OperationsTyped
  <1>2. /\ Open(c, o.on) \in Configurations
        /\ Open(c, o.on).down = c.down \ o.on
    BY <1>1, ShutTyped
  <1>3. Applied(o, o.on, c) = [Open(c, o.on) EXCEPT
            !.value = [i \in Settings |-> IF i \in o.on THEN Base ELSE @[i]]]
    BY DEF Applied
  <1> QED
    BY <1>1, <1>2, <1>3 DEF Configurations, Settings

LEMMA SendSettingsHonest ==
    ASSUME HonestInv, NEW r \in Requests, NEW s \in Switches, SendSettings(r, s)
    PROVE  Honest(r, s)'
  <1>1. /\ session[r][s].at = "send" /\ UNCHANGED job /\ session[r][s] \in Sessions
        /\ job[r] \in Operations /\ job[r].kind \in {"default", "set", "up", "down"}
        /\ running[s] \in Configurations
    BY AtWork DEF SendSettings, Elsewhere, HonestInv, SessionsInv, Fits
  <1> DEFINE now == [session[r][s] EXCEPT !.at = IF job[r].kind = "default" THEN "check" ELSE "show"]
             all == Applied(job[r], job[r].on, running[s])
  <1>2. \/ Becomes(s, all, Ordered(job[r], job[r].on)) /\ Proceed(r, s, now)
        \/ \E n \in IF job[r].kind = "default" THEN Refused(now) ELSE {now} : Proceed(r, s, n)
        \/ \E part \in SUBSET job[r].on :
              Break(r, s, {Applied(job[r], part, running[s])}, Ordered(job[r], part))
    BY DEF SendSettings
  <1>3. /\ now \in Sessions /\ now.clean = session[r][s].clean
        /\ now.at = IF job[r].kind = "default" THEN "check" ELSE "show"
    BY <1>1 DEF Sessions, Active, OnLine
  <1>4. all \in Configurations /\ Ordered(job[r], job[r].on) \in SUBSET (Ports \X Causes)
    BY <1>1, AppliedTyped DEF Causes
  <1>5. job[r].kind = "default" =>
           job[r].on \cap all.down = {} /\ \A i \in job[r].on : all.value[i] = Base
    BY <1>1, DefaultReached
  <1> HIDE DEF now, all
  <1>6. CASE Becomes(s, all, Ordered(job[r], job[r].on)) /\ Proceed(r, s, now)
    <2>1. session'[r][s] = now /\ running'[s] = all
      BY <1>3, <1>4, <1>6, ProceedTyped, BecomesTyped DEF HonestInv, SessionsInv
    <2>2. Placed(r, s)'
      BY <1>1, <1>3, <2>1 DEF Placed
    <2>3. now.at # "open" /\ now.at # "keep" /\ (now.at = "check" => Reached(r, s)')
      BY <1>1, <1>3, <1>5, <2>1 DEF Reached
    <2> QED
      BY <1>1, <1>3, <1>6, <2>2, <2>3, GoesOn DEF Active, OnLine
  <1>7. ASSUME NEW n \in IF job[r].kind = "default" THEN Refused(now) ELSE {now}, Proceed(r, s, n)
        PROVE  Honest(r, s)'
    <2>1. /\ n \in Sessions /\ n.at = now.at
          /\ n.clean => session[r][s].clean
          /\ n.at = "check" => ~(n.clean /\ ~n.spoiled)
      <3>1. CASE job[r].kind = "default"
        BY <1>3, <1>7, <3>1, RefusedShape
      <3>2. CASE job[r].kind # "default"
        BY <1>3, <1>7, <3>2
      <3> QED
        BY <3>1, <3>2
    <2>2. session'[r][s] = n
      BY <1>7, <2>1, ProceedTyped DEF HonestInv, SessionsInv
    <2>3. Placed(r, s)' /\ n.at \in {"check", "show"}
      BY <1>1, <1>3, <2>1, <2>2 DEF Placed
    <2> QED
      BY <1>1, <1>7, <2>1, <2>3, GoesOn DEF Active, OnLine
  <1> QED
    BY <1>2, <1>6, <1>7, BreakHonest

LEMMA ShowHonest ==
    ASSUME HonestInv, NEW r \in Requests, NEW s \in Switches, Show(r, s)
    PROVE  Honest(r, s)'
  <1>1. /\ session[r][s].at = "show" /\ UNCHANGED job /\ session[r][s] \in Sessions
        /\ job[r].kind \in {"set", "up", "down", "backup"}
        /\ UNCHANGED <<running, startup>>
    BY AtWork DEF Show, Elsewhere, HonestInv, Honest, Placed
  <1> DEFINE bad == \E i \in job[r].on : ~AsAsked(job[r], i, running[s])
             now == [session[r][s] EXCEPT !.at = "keep", !.spoiled = bad]
  <1>2. Proceed(r, s, now) \/ Proceed(r, s, Idle("failed"))
    BY DEF Show
  <1>3. bad \in BOOLEAN /\ (~bad => \A i \in job[r].on : AsAsked(job[r], i, running[s]))
    OBVIOUS
  <1> HIDE DEF bad
  <1>4. /\ now \in Sessions /\ now.at = "keep" /\ now.clean = session[r][s].clean
        /\ now.spoiled = bad
    BY <1>1, <1>3 DEF Sessions, Active
  <1> HIDE DEF now
  <1>5. CASE Proceed(r, s, now)
    <2>1. session'[r][s] = now
      BY <1>4, <1>5, ProceedTyped DEF HonestInv, SessionsInv
    <2>2. Placed(r, s)'
      BY <1>1, <1>4, <2>1 DEF Placed
    <2>3. ASSUME ~now.spoiled PROVE Reached(r, s)'
      <3>1. \A i \in job[r].on : AsAsked(job[r], i, running[s])
        BY <1>3, <1>4, <2>3
      <3>2. CASE job[r].kind \in {"set", "up"}
        BY <1>1, <3>1, <3>2 DEF Reached
      <3>3. CASE job[r].kind = "down"
        BY <1>1, <3>1, <3>3 DEF Reached, AsAsked
      <3>4. CASE job[r].kind = "backup"
        BY <1>1, <3>4 DEF Reached
      <3> QED
        BY <1>1, <3>2, <3>3, <3>4
    <2> QED
      BY <1>1, <1>4, <1>5, <2>2, <2>3, GoesOn DEF Active, OnLine
  <1> QED
    BY <1>2, <1>5, EndsHonest DEF Ended

LEMMA EndFromHonest ==
    ASSUME HonestInv, NEW r \in Requests, NEW s \in Switches, Keep(r, s) \/ Check(r, s)
    PROVE  Honest(r, s)'
  <1>1. Proceed(r, s, Idle("ok")) \/ Proceed(r, s, Idle("failed"))
    BY DEF Keep, Check, EndFrom
  <1> QED
    BY <1>1, EndsHonest DEF Ended

LEMMA SendBlockHonest ==
    ASSUME HonestInv, NEW r \in Requests, NEW s \in Switches, SendBlock(r, s)
    PROVE  Honest(r, s)'
  <1> DEFINE now  == session[r][s]
             sent(fate) == WithBlock(running[s], now.version, now.next, fate)
             on   == IF IsLast(now.next) THEN [now EXCEPT !.at = "check"]
                     ELSE [now EXCEPT !.next = @ + 1]
  <1>1. /\ session[r][s].at = "block" /\ UNCHANGED job /\ session[r][s] \in Sessions
        /\ job[r].kind = "deploy"
        /\ running[s] \in Configurations /\ InOrder(running[s])
    BY AtWork DEF SendBlock, Elsewhere, HonestInv, Honest, Placed
  <1>2. /\ now.version \in Versions /\ now.next \in 1..Blocks
        /\ \A j \in 1..(now.next - 1) : Passed(running[s], now.version, j)
    BY <1>1 DEF Sessions, HonestInv, SessionsInv, Fits
  <1>3. \A fate \in {"whole", "unread"} :
           /\ sent(fate) \in Configurations
           /\ \A j \in 1..now.next : Passed(sent(fate), now.version, j)
    <2> SUFFICES ASSUME NEW fate \in {"whole", "unread"}
                 PROVE  /\ sent(fate) \in Configurations
                        /\ \A j \in 1..now.next : Passed(sent(fate), now.version, j)
      OBVIOUS
    <2>1. fate \in Fates /\ fate # "partly"
      BY DEF Fates
    <2>2. /\ sent(fate) \in Configurations
          /\ \A j \in 1..(now.next - 1) : Passed(sent(fate), now.version, j)
          /\ Passed(sent(fate), now.version, now.next)
      BY <1>1, <1>2, <2>1, SentTyped
    <2> HIDE DEF sent
    <2> QED
      BY <1>2, <2>2, SessionsAssumption
  <1>4. \/ /\ \E fate \in {"whole", "unread"} : Becomes(s, sent(fate), {})
           /\ Proceed(r, s, on)
        \/ Proceed(r, s, Idle("failed"))
    BY DEF SendBlock, TextOf, Break
  <1>5. /\ on \in Sessions /\ on.version = now.version /\ on.clean = now.clean
        /\ on.at \in {"check", "block"}
        /\ on.at = "check" => now.next = Blocks
    BY <1>1, <1>2, SessionsAssumption DEF Sessions, IsLast, Active, OnLine
  <1> HIDE DEF sent, on
  <1>6. CASE /\ \E fate \in {"whole", "unread"} : Becomes(s, sent(fate), {})
             /\ Proceed(r, s, on)
    <2>1. PICK fate \in {"whole", "unread"} : Becomes(s, sent(fate), {})
      BY <1>6
    <2>2. session'[r][s] = on /\ running'[s] = sent(fate)
      BY <1>3, <1>5, <1>6, <2>1, ProceedTyped, BecomesTyped DEF HonestInv, SessionsInv
    <2>3. Placed(r, s)'
      BY <1>1, <1>5, <2>2 DEF Placed
    <2>4. on.at = "check" => Reached(r, s)'
      BY <1>1, <1>3, <1>5, <2>2 DEF Reached
    <2> QED
      BY <1>1, <1>5, <1>6, <2>3, <2>4, GoesOn DEF Active, OnLine
  <1> QED
    BY <1>4, <1>6, EndsHonest DEF Ended

LEMMA CopyHonest ==
    ASSUME HonestInv, NEW r \in Requests, NEW s \in Switches, Copy(r, s)
    PROVE  Honest(r, s)'
  <1>1. /\ session[r][s].at = "copy" /\ UNCHANGED <<job, running>>
        /\ session[r][s] \in Sessions /\ job[r].kind = "save"
    BY AtWork DEF Copy, Elsewhere, HonestInv, Honest, Placed
  <1> DEFINE now == [session[r][s] EXCEPT !.at = "check"]
  <1>2. \/ startup' = [startup EXCEPT ![s] = running[s]] /\ Proceed(r, s, now)
        \/ \E n \in Refused(now) : Proceed(r, s, n)
        \/ Proceed(r, s, Idle("failed"))
    BY DEF Copy
  <1>3. now \in Sessions /\ now.at = "check" /\ now.clean = session[r][s].clean
    BY <1>1 DEF Sessions, Active, OnLine
  <1> HIDE DEF now
  <1>4. CASE startup' = [startup EXCEPT ![s] = running[s]] /\ Proceed(r, s, now)
    <2>1. session'[r][s] = now /\ startup'[s] = running[s]
      BY <1>3, <1>4, ProceedTyped DEF HonestInv, SessionsInv, TypeOK
    <2>2. Placed(r, s)' /\ Reached(r, s)'
      BY <1>1, <1>3, <2>1 DEF Placed, Reached
    <2> QED
      BY <1>1, <1>3, <1>4, <2>2, GoesOn DEF Active, OnLine
  <1>5. ASSUME NEW n \in Refused(now), Proceed(r, s, n)
        PROVE  Honest(r, s)'
    <2>1. /\ n \in Sessions /\ n.at = "check" /\ (n.clean => session[r][s].clean)
          /\ ~(n.clean /\ ~n.spoiled)
      BY <1>3, <1>5, RefusedShape
    <2>2. session'[r][s] = n
      BY <1>5, <2>1, ProceedTyped DEF HonestInv, SessionsInv
    <2>3. Placed(r, s)'
      BY <1>1, <2>1, <2>2 DEF Placed
    <2> QED
      BY <1>1, <1>5, <2>1, <2>3, GoesOn DEF Active, OnLine
  <1> QED
    BY <1>2, <1>4, <1>5, EndsHonest DEF Ended

LEMMA ConnectHonest ==
    ASSUME HonestInv, SessionsInv', NEW r \in Requests, NEW s \in Switches, Connect(r, s)
    PROVE  HonestInv'
  <1>1. /\ session[r][s].at = "wait" /\ UNCHANGED <<running, startup, job>>
        /\ session[r][s] \in Sessions /\ job[r] \in Operations
    BY AtWork DEF Connect, Elsewhere, HonestInv
  <1>2. CASE Proceed(r, s, Idle("failed"))
    <2>1. \A q \in Requests, t \in Switches : (q = r /\ t = s) \/ session'[q][t] = session[q][t]
      BY <1>2 DEF Proceed, HonestInv, SessionsInv, TypeOK
    <2>2. session'[r][s].at = "failed"
      BY <1>2, IdleFields DEF Proceed, HonestInv, SessionsInv, TypeOK
    <2>3. Honest(r, s)'
      BY <1>2, EndsHonest DEF Ended
    <2>4. session'[r][s].at \notin OnLine
      BY <2>2 DEF OnLine
    <2> QED
      BY <1>1, <2>1, <2>3, <2>4, OthersHonest
  <1>3. CASE session' = [q \in Requests |-> [session[q] EXCEPT ![s] =
                  IF q = r THEN Begun(r, s) ELSE [@ EXCEPT !.clean = FALSE]]]
    <2>1. \A q \in Requests, t \in Switches :
             session'[q][t] = IF t # s THEN session[q][t]
                              ELSE IF q = r THEN Begun(r, s)
                              ELSE [session[q][s] EXCEPT !.clean = FALSE]
      BY <1>3 DEF HonestInv, SessionsInv, TypeOK
    <2>2. /\ Begun(r, s).at = FirstPlace(job[r].kind) /\ Begun(r, s) \in Sessions
          /\ job[r] \in Jobs
      BY <1>1, BegunTyped, OperationsTyped DEF HonestInv
    <2>3. ASSUME NEW q \in Requests, NEW t \in Switches, ~(q = r /\ t = s)
          PROVE  Honest(q, t)'
      <3>0. session[q][t] \in Sessions /\ Honest(q, t)
        BY DEF HonestInv, SessionsInv, TypeOK
      <3>1. CASE t # s
        <4>1. \A p \in Requests : session'[p][t] = session[p][t]
          BY <2>1, <3>1
        <4> QED
          BY <1>1, <3>0, <4>1 DEF Honest, Placed, Reached, AsAsked
      <3>2. CASE t = s
        <4>1. /\ session'[q][t].clean = FALSE
              /\ session'[q][t].at = session[q][t].at
          BY <2>1, <2>3, <3>0, <3>2 DEF Sessions
        <4> QED
          BY <1>1, <3>0, <4>1 DEF Honest, Placed
      <3> QED
        BY <3>1, <3>2
    <2>4. session'[r][s] = Begun(r, s)
      BY <2>1
    <2>5. Placed(r, s)' /\ session'[r][s].at \notin {"open", "keep", "check"}
      BY <1>1, <2>2, <2>4 DEF Placed, FirstPlace, Jobs, Kinds
    <2>6. Begun(r, s).clean => \A q \in Requests \ {r} : session[q][s].at \notin OnLine
      <3> DEFINE clean == \A q \in Requests \ {r} : session[q][s].at \notin OnLine
                 left    == IF job[r].kind = "bounce" THEN job[r].on ELSE {}
                 version == IF job[r].kind = "deploy" THEN candidate[s] ELSE Generated
                 place   == FirstPlace(job[r].kind)
      <3>1. Begun(r, s) = [Idle(place) EXCEPT !.left = left, !.version = version,
                                              !.clean = clean]
        BY Zenon DEF Begun
      <3>2. clean \in BOOLEAN
        OBVIOUS
      <3> HIDE DEF clean, left, version, place
      <3>3. Begun(r, s).clean = clean
        BY <3>1, <3>2 DEF Idle
      <3> QED
        BY <3>3 DEF clean
    <2>7. \A q \in Requests \ {r} : session'[q][s].at = session[q][s].at
      <3> SUFFICES ASSUME NEW q \in Requests \ {r}
                   PROVE  session'[q][s].at = session[q][s].at
        OBVIOUS
      <3>1. session'[q][s] = [session[q][s] EXCEPT !.clean = FALSE]
        BY <2>1
      <3>2. session[q][s] \in Sessions
        BY DEF HonestInv, SessionsInv, TypeOK
      <3> QED
        BY <3>1, <3>2 DEF Sessions
    <2>8. Honest(r, s)'
      BY <2>4, <2>5, <2>6, <2>7 DEF Honest
    <2> QED
      BY <2>3, <2>8 DEF HonestInv
  <1> QED
    BY <1>2, <1>3 DEF Connect

\* Orders, adjustments, reloads and crashes leave sessions honest: a session
\* they touch ends, or loses its claim to be clean.
LEMMA SendHonest ==
    ASSUME HonestInv, SessionsInv', NEW r \in Requests, Send(r)
    PROVE  HonestInv'
  <1>1. PICK o \in Operations, S \in SUBSET Switches :
          /\ job' = [job EXCEPT ![r] = o]
          /\ session' = [session EXCEPT ![r] =
                [s \in Switches |-> IF s \in S THEN Idle("wait") ELSE @[s]]]
    BY DEF Send
  <1>2. job[r] = NoJob /\ UNCHANGED <<running, startup>> /\ NoJob \notin Operations
    BY OperationsTyped DEF Send
  <1>3. \A s \in Switches : session[r][s].at = "none"
    BY <1>2 DEF HonestInv, SessionsInv, Fits
  <1>4. \A q \in Requests, t \in Switches :
           session'[q][t] = IF q = r /\ t \in S THEN Idle("wait") ELSE session[q][t]
    BY <1>1 DEF HonestInv, SessionsInv, TypeOK
  <1>5. \A t \in Switches : session'[r][t].at \in {"none", "wait"}
    BY <1>3, <1>4, IdleFields
  <1> SUFFICES ASSUME NEW q \in Requests, NEW t \in Switches PROVE Honest(q, t)'
    BY DEF HonestInv
  <1>6. CASE q = r
    BY <1>5, <1>6, EndedHonestNext
  <1>7. CASE q # r
    <2>1. Honest(q, t) /\ SameSession(q, t) /\ job'[q] = job[q]
      BY <1>1, <1>4, <1>7 DEF HonestInv, SessionsInv, TypeOK, SameSession
    <2>2. \A p \in Requests : session'[p][t].at = session[p][t].at \/ session'[p][t].at = "wait"
      BY <1>4, IdleFields
    <2>3. session'[q][t].clean /\ session[q][t].at \in Active =>
             \A p \in Requests \ {q} : session'[p][t].at \notin OnLine
      BY <2>1, <2>2 DEF Honest, SameSession, OnLine
    <2> QED
      BY <1>2, <2>1, <2>3, SameHonest
  <1> QED
    BY <1>6, <1>7

LEMMA AdjustHonest ==
    ASSUME HonestInv, SessionsInv', NEW s \in Switches, Adjust(s)
    PROVE  HonestInv'
  <1> SUFFICES ASSUME NEW q \in Requests, NEW t \in Switches PROVE Honest(q, t)'
    BY DEF HonestInv
  <1>1. Honest(q, t) /\ UNCHANGED <<running, startup, job, session>>
    BY DEF HonestInv, Adjust
  <1> QED
    BY <1>1 DEF Honest, Placed, Reached, AsAsked

LEMMA ReloadHonest ==
    ASSUME HonestInv, SessionsInv', NEW s \in Switches, Reload(s)
    PROVE  HonestInv'
  <1> SUFFICES ASSUME NEW q \in Requests, NEW t \in Switches PROVE Honest(q, t)'
    BY DEF HonestInv
  <1>1. /\ running' = [running EXCEPT ![s] = startup[s]]
        /\ session' = [r \in Requests |-> [session[r] EXCEPT ![s] =
                IF @.at \in OnLine THEN Idle("failed") ELSE [@ EXCEPT !.clean = FALSE]]]
        /\ UNCHANGED <<startup, job>>
    BY DEF Reload
  <1>2. session[q][t] \in Sessions /\ Honest(q, t)
    BY DEF HonestInv, SessionsInv, TypeOK
  <1>3. CASE t # s
    <2>1. \A p \in Requests : session'[p][t] = session[p][t]
      BY <1>1, <1>3 DEF HonestInv, SessionsInv, TypeOK
    <2>2. running'[t] = running[t]
      BY <1>1, <1>3 DEF HonestInv, SessionsInv, TypeOK
    <2> QED
      BY <1>1, <1>2, <2>1, <2>2 DEF Honest, Placed, Reached, AsAsked
  <1>4. CASE t = s
    <2>1. session'[q][s] = IF session[q][s].at \in OnLine THEN Idle("failed")
                           ELSE [session[q][s] EXCEPT !.clean = FALSE]
      BY <1>1 DEF HonestInv, SessionsInv, TypeOK
    <2>2. CASE session[q][s].at \in OnLine
      BY <1>4, <2>1, <2>2, IdleFields, EndedHonestNext
    <2>3. CASE session[q][s].at \notin OnLine
      <3>1. session'[q][t].clean = FALSE /\ session'[q][t].at = session[q][t].at
        BY <1>2, <1>4, <2>1, <2>3 DEF Sessions
      <3> QED
        BY <1>1, <1>2, <3>1 DEF Honest, Placed
    <2> QED
      BY <2>2, <2>3
  <1> QED
    BY <1>3, <1>4

LEMMA CrashHonest ==
    ASSUME HonestInv, SessionsInv', Crash
    PROVE  HonestInv'
  <1> SUFFICES ASSUME NEW q \in Requests, NEW t \in Switches PROVE Honest(q, t)'
    BY DEF HonestInv
  <1>1. /\ session'[q][t] = IF session[q][t].at \in Active \cup {"wait"} THEN Idle("failed")
                            ELSE session[q][t]
    BY DEF Crash
  <1>2. session[q][t].at \in Places
    BY DEF HonestInv, SessionsInv, TypeOK, Sessions, Places
  <1>3. session'[q][t].at \in {"none", "wait", "ok", "failed"}
    BY <1>1, <1>2, IdleFields DEF Places, Ended
  <1> QED
    BY <1>3, EndedHonestNext

LEMMA InitHonest == Init => HonestInv
  <1> SUFFICES ASSUME Init PROVE HonestInv
    OBVIOUS
  <1>1. \A r \in Requests, s \in Switches : session[r][s].at = "none"
    BY IdleFields DEF Init
  <1>2. SessionsInv
    BY InitSessionsInv
  <1> QED
    BY <1>1, <1>2, EndedHonest DEF HonestInv

LEMMA NextHonest == HonestInv /\ [Next]_vars => HonestInv'
  <1> SUFFICES ASSUME HonestInv, [Next]_vars PROVE HonestInv'
    OBVIOUS
  <1>1. SessionsInv'
    BY NextPreserves DEF HonestInv
  <1>2. ASSUME NEW r \in Requests, NEW s \in Switches, Work(r, s) PROVE HonestInv'
    BY <1>1, <1>2, ConnectHonest, WorkHonest, ShutPortHonest, OpenPortHonest,
       SendSettingsHonest, ShowHonest, EndFromHonest, SendBlockHonest, CopyHonest
    DEF Work
  <1>3. CASE UNCHANGED vars
    BY <1>1, <1>3 DEF vars, HonestInv, Honest, Placed, Reached, AsAsked
  <1> QED
    BY <1>1, <1>2, <1>3, SendHonest, AdjustHonest, ReloadHonest, CrashHonest DEF Next

LEMMA SpecHonest == Spec => []HonestInv
  BY InitHonest, NextHonest, PTL DEF Spec

\* Only keeping the backup and checking the output end a session well.
LEMMA OnlyEndsOk ==
    ASSUME SessionsInv, NEW r \in Requests, NEW s \in Switches,
           \/ ShutPort(r, s) \/ OpenPort(r, s) \/ SendSettings(r, s) \/ Show(r, s)
           \/ SendBlock(r, s) \/ Copy(r, s)
    PROVE  session'[r][s].at # "ok"
  <1>1. \A new : Proceed(r, s, new) => session'[r][s] = new
    BY DEF Proceed, SessionsInv, TypeOK
  <1>2. \A effects, named : Break(r, s, effects, named) => session'[r][s].at # "ok"
    BY <1>1, IdleFields DEF Break
  <1>3. session[r][s] \in Sessions
    BY DEF SessionsInv, TypeOK
  <1>4. ASSUME NEW now \in Sessions, now.at # "ok", NEW n \in {now} \cup Refused(now),
               Proceed(r, s, n)
        PROVE  session'[r][s].at # "ok"
    BY <1>1, <1>4, RefusedShape
  <1>5. CASE ShutPort(r, s)
    <2> DEFINE rest(p) == session[r][s].left \ {p}
               now(p)  == IF rest(p) # {} THEN [session[r][s] EXCEPT !.left = rest(p)]
                          ELSE [session[r][s] EXCEPT !.at = "open", !.left = PortsToOpen(job[r].on)]
    <2>1. PICK p \in session[r][s].left :
              \/ \E n \in {now(p)} \cup Refused(now(p)) : Proceed(r, s, n)
              \/ Break(r, s, {running[s], Shut(running[s], {p})}, job[r].on \X {r})
      BY <1>5 DEF ShutPort
    <2>2. /\ session[r][s].at = "shut" /\ job[r].kind = "bounce"
          /\ job[r] \in Operations
      BY <1>5, AtWork DEF ShutPort, SessionsInv, Fits
    <2>3. job[r].on \subseteq Ports
      BY <2>2, OperationsTyped
    <2>4. now(p) \in Sessions /\ now(p).at # "ok"
      BY <1>3, <2>2, <2>3 DEF Sessions, PortsToOpen, Active, OnLine
    <2> HIDE DEF now
    <2> QED
      BY <1>2, <1>4, <2>1, <2>4
  <1>6. CASE OpenPort(r, s)
    <2> DEFINE rest(p) == session[r][s].left \ {p}
               now(p)  == [session[r][s] EXCEPT !.left = rest(p),
                                                !.at = IF rest(p) = {} THEN "check" ELSE "open"]
    <2>1. PICK p \in session[r][s].left :
              \/ \E n \in {now(p)} \cup Refused(now(p)) : Proceed(r, s, n)
              \/ Break(r, s, {running[s], Open(running[s], {p})}, session[r][s].left \X {r})
      BY <1>6 DEF OpenPort
    <2>2. now(p) \in Sessions /\ now(p).at # "ok"
      BY <1>3 DEF Sessions, Active, OnLine
    <2> HIDE DEF now
    <2> QED
      BY <1>2, <1>4, <2>1, <2>2
  <1>7. CASE SendSettings(r, s)
    <2> DEFINE now == [session[r][s] EXCEPT !.at = IF job[r].kind = "default" THEN "check" ELSE "show"]
    <2>1. \/ \E n \in {now} \cup Refused(now) : Proceed(r, s, n)
          \/ \E effects, named : Break(r, s, effects, named)
      BY <1>7 DEF SendSettings
    <2>2. now \in Sessions /\ now.at # "ok"
      BY <1>3 DEF Sessions, Active, OnLine
    <2> HIDE DEF now
    <2> QED
      BY <1>2, <1>4, <2>1, <2>2
  <1>8. CASE Show(r, s)
    <2> DEFINE bad == \E i \in job[r].on : ~AsAsked(job[r], i, running[s])
               now == [session[r][s] EXCEPT !.at = "keep", !.spoiled = bad]
    <2>1. Proceed(r, s, now) \/ Proceed(r, s, Idle("failed"))
      BY <1>8 DEF Show
    <2>2. bad \in BOOLEAN
      OBVIOUS
    <2> HIDE DEF bad
    <2>3. now.at # "ok"
      BY <1>3, <2>2 DEF Sessions
    <2> HIDE DEF now
    <2> QED
      BY <1>1, <2>1, <2>3, IdleFields
  <1>9. CASE SendBlock(r, s)
    BY <1>1, <1>2, <1>9, IdleFields DEF SendBlock, SessionsInv, TypeOK, Sessions
  <1>10. CASE Copy(r, s)
    <2> DEFINE now == [session[r][s] EXCEPT !.at = "check"]
    <2>1. \/ \E n \in {now} \cup Refused(now) : Proceed(r, s, n)
          \/ Proceed(r, s, Idle("failed"))
      BY <1>10 DEF Copy
    <2>2. now \in Sessions /\ now.at # "ok"
      BY <1>3 DEF Sessions, Active, OnLine
    <2> HIDE DEF now
    <2> QED
      BY <1>1, <1>4, <2>1, <2>2, IdleFields
  <1> QED
    BY <1>5, <1>6, <1>7, <1>8, <1>9, <1>10

\* No other step gives a session the outcome ok.
LEMMA NobodyElseOk ==
    ASSUME SessionsInv, Next, NEW r \in Requests, NEW s \in Switches,
           session[r][s].at # "ok", session'[r][s].at = "ok"
    PROVE  Keep(r, s) \/ Check(r, s)
  <1>0. session[r][s] \in Sessions
    BY DEF SessionsInv, TypeOK
  <1>1. ASSUME NEW q \in Requests, NEW t \in Switches, Work(q, t)
        PROVE  Keep(r, s) \/ Check(r, s)
    <2>1. CASE Connect(q, t)
      <3>1. CASE Proceed(q, t, Idle("failed"))
        <4>1. session'[r][s] \in {session[r][s], Idle("failed")}
          BY <3>1 DEF Proceed, SessionsInv, TypeOK
        <4> QED
          BY <4>1, IdleFields
      <3>2. CASE session' = [p \in Requests |-> [session[p] EXCEPT ![t] =
                    IF p = q THEN Begun(q, t) ELSE [@ EXCEPT !.clean = FALSE]]]
        <4>1. \/ session'[r][s] \in {session[r][s], [session[r][s] EXCEPT !.clean = FALSE]}
              \/ session'[r][s] = Begun(q, t)
          BY <3>2 DEF SessionsInv, TypeOK
        <4>2. session[q][t].at = "wait"
          BY <2>1 DEF Connect
        <4>3. Begun(q, t).at \in Active
          BY <4>2, AtWork, BegunTyped
        <4> QED
          BY <1>0, <4>1, <4>3 DEF Sessions, Active, OnLine
      <3> QED
        BY <2>1, <3>1, <3>2 DEF Connect
    <2>2. CASE Keep(q, t) \/ Check(q, t)
      <3>1. (q = r /\ t = s) \/ session'[r][s] = session[r][s]
        BY <2>2 DEF Keep, Check, EndFrom, Proceed, SessionsInv, TypeOK
      <3> QED
        BY <2>2, <3>1
    <2>3. CASE \/ ShutPort(q, t) \/ OpenPort(q, t) \/ SendSettings(q, t) \/ Show(q, t)
               \/ SendBlock(q, t) \/ Copy(q, t)
      <3>1. \E new : Proceed(q, t, new)
        BY <2>3 DEF ShutPort, OpenPort, SendSettings, Show, SendBlock, Copy, Break
      <3>2. (q = r /\ t = s) \/ session'[r][s] = session[r][s]
        BY <3>1 DEF Proceed, SessionsInv, TypeOK
      <3> QED
        BY <2>3, <3>2, OnlyEndsOk
    <2> QED
      BY <1>1, <2>1, <2>2, <2>3 DEF Work
  <1>2. ASSUME NEW q \in Requests, Send(q) PROVE FALSE
    <2>1. session'[r][s] \in {session[r][s], Idle("wait")}
      BY <1>2 DEF Send, SessionsInv, TypeOK
    <2> QED
      BY <2>1, IdleFields
  <1>3. ASSUME NEW t \in Switches, Adjust(t) \/ Reload(t) PROVE FALSE
    <2>1. session'[r][s] \in {session[r][s], Idle("failed"), [session[r][s] EXCEPT !.clean = FALSE]}
      BY <1>3 DEF Adjust, Reload, SessionsInv, TypeOK
    <2> QED
      BY <1>0, <2>1, IdleFields DEF Sessions
  <1>4. CASE Crash
    <2>1. session'[r][s] \in {session[r][s], Idle("failed")}
      BY <1>4 DEF Crash
    <2> QED
      BY <2>1, IdleFields
  <1> QED
    BY <1>1, <1>2, <1>3, <1>4 DEF Next

LEMMA OkStep ==
    ASSUME HonestInv, [Next]_vars, NEW r \in Requests, NEW s \in Switches,
           session[r][s].at # "ok", session'[r][s].at = "ok", session[r][s].clean
    PROVE  Done(r, s)
  <1>1. Next
    BY DEF vars
  <1>2. Keep(r, s) \/ Check(r, s)
    BY <1>1, NobodyElseOk DEF HonestInv
  <1>3. /\ session[r][s].at \in {"keep", "check"}
        /\ UNCHANGED <<running, startup, job>>
    BY <1>2 DEF Keep, Check, EndFrom, Elsewhere
  <1>4. ~session[r][s].spoiled
    <2>1. \A new : Proceed(r, s, new) => session'[r][s] = new
      BY DEF Proceed, HonestInv, SessionsInv, TypeOK
    <2> QED
      BY <1>2, <2>1, IdleFields DEF Keep, Check, EndFrom
  <1>5. Reached(r, s)
    BY <1>3, <1>4 DEF HonestInv, Honest
  <1> QED
    BY <1>3, <1>5 DEF Reached, Done, AsAsked

\* A session that was alone on its switch and ends well has reached all it was
\* asked, whatever lines were refused on the way (provision_interfaces_batch,
\* bounce_interfaces, default_interfaces, deploy_config, save_running_to_startup).
THEOREM OkMeansDoneHolds == Spec => OkMeansDone
  <1>1. HonestInv /\ [Next]_vars =>
           [\A r \in Requests, s \in Switches :
              session[r][s].at # "ok" /\ session'[r][s].at = "ok" /\ session[r][s].clean
                  => Done(r, s)]_vars
    BY OkStep
  <1> QED
    BY <1>1, SpecHonest, PTL DEF Spec, OkMeansDone
=============================================================================
