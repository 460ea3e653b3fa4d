---------------------------- MODULE SwitchSessions ----------------------------
(***************************************************************************)
(* The SSH sessions in which the server works on Cisco switches.  A request *)
(* runs one session per switch, in a pool of threads; the sessions of all   *)
(* requests interleave on a switch, and nothing keeps two of them apart.    *)
(* A configuration is cut down to what the operations tell apart: a value   *)
(* for each port (its access VLAN) and for the switch as a whole (its host  *)
(* name), the ports that are shut down, and what came of the blocks of       *)
(* candidates that were sent.                                               *)
(***************************************************************************)
EXTENDS Integers, FiniteSets

CONSTANTS
    Switches, Ports, Requests,
    General,     \* the setting of a switch as a whole
    Values,      \* what a setting may be
    Base,        \* the value of a setting nobody made
    Prefixes,    \* pairs <<v, w>>: the text of w begins with that of v
    Versions,    \* texts a candidate may have
    Generated,   \* its text before an adjustment
    Blocks,      \* how many blocks a candidate has
    Operations,  \* the operations that may be asked for
    MaxWorkers,  \* the size of the pool of threads
    MaxFaults,   \* bound: commands rejected, sessions broken, restarts of the server
    MaxReloads   \* bound: how often a switch is reloaded

Settings == Ports \cup {General}

\* An operation: what is done, on which settings, with which value.
Kinds == {"bounce", "default", "set", "up", "down", "deploy", "save", "backup"}
Jobs  == [kind : Kinds, on : SUBSET Settings, to : Values]
NoJob == [kind |-> "none", on |-> {}, to |-> Base]

\* Why a port may be down: the request that fails with it; or it was put down by
\* an order, its opening was refused in words the server does not look for, or
\* the switch was reloaded with it.
Causes == Requests \cup {"ordered", "unread", "saved"}

\* What came of a block: all its lines were taken; some, before a refusal in
\* words the server looks for or a break; or it was refused in other words.
Fates == {"whole", "partly", "unread"}

ASSUME SessionsAssumption ==
    /\ Blocks \in Nat \ {0}
    /\ MaxWorkers \in Nat \ {0}
    /\ MaxFaults \in Nat
    /\ MaxReloads \in Nat
    /\ General \notin Ports
    /\ {"ordered", "unread", "saved"} \cap Requests = {}
    /\ Base \in Values
    /\ Generated \in Versions
    /\ Operations \subseteq Jobs
    /\ \A o \in Operations :
        o.kind \in {"bounce", "default", "up", "down"} => o.on \in (SUBSET Ports) \ {{}}

VARIABLES
    running,    \* the running configuration of each switch
    startup,    \* its startup configuration
    candidate,  \* the text of the candidate of each switch
    job,        \* what each request was asked
    session,    \* its session with each switch
    excused,    \* history: ports that are down, each with the cause
    faults, reloads

vars == <<running, startup, candidate, job, session, excused, faults, reloads>>

Configurations == [value : [Settings -> Values], down : SUBSET Ports,
                   done : SUBSET (Versions \X (1..Blocks) \X Fates)]
Factory == [value |-> [i \in Settings |-> Base], down |-> {}, done |-> {}]

\* Where a session may be: connected, and at which command; writing its backup.
OnLine == {"shut", "open", "send", "show", "check", "block", "copy"}
Active == OnLine \cup {"keep"}
Ended  == {"ok", "failed"}

Sessions ==
    [at      : Active \cup Ended \cup {"none", "wait"},
     left    : SUBSET Ports,    \* the ports it has still to send something to
     next    : 1..Blocks,       \* the block it sends next
     version : Versions,        \* the text it deploys
     spoiled : BOOLEAN,         \* its outcome is a failure so far
     clean   : BOOLEAN]         \* history: nobody else was on the switch meanwhile, and
                                \* nothing but blocks of candidates was refused in words
                                \* the server does not look for

Idle(place) == [at |-> place, left |-> {}, next |-> 1, version |-> Generated,
                spoiled |-> FALSE, clean |-> FALSE]

TypeOK ==
    /\ running \in [Switches -> Configurations]
    /\ startup \in [Switches -> Configurations]
    /\ candidate \in [Switches -> Versions]
    /\ job \in [Requests -> Jobs \cup {NoJob}]
    /\ session \in [Requests -> [Switches -> Sessions]]
    /\ excused \in [Switches -> SUBSET (Ports \X Causes)]
    /\ faults \in 0..MaxFaults
    /\ reloads \in 0..MaxReloads

Init ==
    /\ running = [s \in Switches |-> Factory]
    /\ startup = [s \in Switches |-> Factory]
    /\ candidate = [s \in Switches |-> Generated]
    /\ job = [r \in Requests |-> NoJob]
    /\ session = [r \in Requests |-> [s \in Switches |-> Idle("none")]]
    /\ excused = [s \in Switches |-> {}]
    /\ faults = 0
    /\ reloads = 0

Fault == faults < MaxFaults /\ faults' = faults + 1
Fine  == UNCHANGED faults

Proceed(r, s, new) == session' = [session EXCEPT ![r][s] = new]

\* Switch s has configuration c now; of its ports that are down, those named are
\* so by the cause named with them.
Becomes(s, c, named) ==
    /\ running' = [running EXCEPT ![s] = c]
    /\ excused' = [excused EXCEPT ![s] = {e \in @ \cup named : e[1] \in c.down}]

Elsewhere == UNCHANGED <<candidate, job, reloads>>

-----------------------------------------------------------------------------
(* Requests                                                                 *)

\* A handler groups the selection by switch and gives each to the pool; a
\* candidate belongs to one switch.
Send(r) ==
    /\ job[r] = NoJob
    /\ \E o \in Operations, S \in (SUBSET Switches) \ {{}} :
        /\ o.kind = "deploy" => Cardinality(S) = 1
        /\ job' = [job EXCEPT ![r] = o]
        /\ session' = [session EXCEPT ![r] =
                [s \in Switches |-> IF s \in S THEN Idle("wait") ELSE @[s]]]
    /\ UNCHANGED <<running, startup, candidate, excused, faults, reloads>>

FirstPlace(kind) == CASE kind = "bounce" -> "shut"
                      [] kind \in {"default", "set", "up", "down"} -> "send"
                      [] kind = "deploy" -> "block"
                      [] kind = "save" -> "copy"
                      [] OTHER -> "show"

\* What a session begins with: deploy has read the candidate, once.
Begun(r, s) ==
    [Idle(FirstPlace(job[r].kind)) EXCEPT
        !.left = IF job[r].kind = "bounce" THEN job[r].on ELSE {},
        !.version = IF job[r].kind = "deploy" THEN candidate[s] ELSE Generated,
        !.clean = \A q \in Requests \ {r} : session[q][s].at \notin OnLine]

FreeThread(r) == Cardinality({t \in Switches : session[r][t].at \in Active}) < MaxWorkers

\* A thread of the pool takes the switch and connects.  The switch may be
\* unknown by now, or not answer.
Connect(r, s) ==
    /\ session[r][s].at = "wait"
    /\ FreeThread(r)
    /\ \/ /\ session' = [q \in Requests |-> [session[q] EXCEPT ![s] =
                IF q = r THEN Begun(r, s) ELSE [@ EXCEPT !.clean = FALSE]]]
          /\ Fine
       \/ Proceed(r, s, Idle("failed")) /\ Fault
    /\ UNCHANGED <<running, startup, excused>> /\ Elsewhere

\* The connection breaks after the last command took effect, or before.
Break(r, s, effects, named) ==
    /\ Fault
    /\ \E c \in effects : Becomes(s, c, named)
    /\ Proceed(r, s, Idle("failed"))

\* A refusal the server looks for in the output, or one in other words.
\* (Mutated form: no refusal is looked for.)
Overlooked(now) == {now, [now EXCEPT !.clean = FALSE]}
Refused(now) == {[now EXCEPT !.spoiled = TRUE], [now EXCEPT !.clean = FALSE]}

-----------------------------------------------------------------------------
(* Operations on ports                                                      *)

Shut(c, ports) == [c EXCEPT !.down = @ \cup ports]
Open(c, ports) == [c EXCEPT !.down = @ \ ports]

\* A bounce opens, in a second loop, what the first one has shut.
\* (Mutated form: one port is forgotten.)
OpensAllButOne(ports) == ports \ {CHOOSE p \in ports : TRUE}
PortsToOpen(ports) == ports

ShutPort(r, s) ==
    /\ session[r][s].at = "shut"
    /\ \E p \in session[r][s].left :
        LET rest == session[r][s].left \ {p}
            now  == IF rest # {} THEN [session[r][s] EXCEPT !.left = rest]
                    ELSE [session[r][s] EXCEPT !.at = "open", !.left = PortsToOpen(job[r].on)]
            down == Shut(running[s], {p})
        IN  \/ Fine /\ Becomes(s, down, {}) /\ Proceed(r, s, now)
            \/ /\ Fault /\ \E n \in Refused(now) : Proceed(r, s, n)
               /\ UNCHANGED <<running, excused>>
            \/ Break(r, s, {running[s], down}, job[r].on \X {r})
    /\ UNCHANGED startup /\ Elsewhere

OpenPort(r, s) ==
    /\ session[r][s].at = "open"
    /\ \E p \in session[r][s].left :
        LET rest == session[r][s].left \ {p}
            now  == [session[r][s] EXCEPT !.left = rest,
                                          !.at = IF rest = {} THEN "check" ELSE "open"]
            up   == Open(running[s], {p})
        IN  \/ Fine /\ Becomes(s, up, {}) /\ Proceed(r, s, now)
            \/ /\ Fault
               /\ \E n \in Refused(now) :
                    /\ Proceed(r, s, n)
                    /\ Becomes(s, running[s], {<<p, IF n.spoiled THEN r ELSE "unread">>})
            \/ Break(r, s, {running[s], up}, session[r][s].left \X {r})
    /\ UNCHANGED startup /\ Elsewhere

\* Configuration c with the operation carried out on some of its settings.
Applied(o, part, c) ==
    CASE o.kind = "set"     -> [c EXCEPT !.value = [i \in Settings |-> IF i \in part THEN o.to ELSE @[i]]]
      [] o.kind = "down"    -> Shut(c, part)
      [] o.kind = "up"      -> Open(c, part)
      [] o.kind = "default" -> [Open(c, part) EXCEPT
                                  !.value = [i \in Settings |-> IF i \in part THEN Base ELSE @[i]]]

Ordered(o, part) == IF o.kind = "down" THEN part \X {"ordered"} ELSE {}

\* All settings are sent at once, and a refused line leaves the others.
SendSettings(r, s) ==
    /\ session[r][s].at = "send"
    /\ LET o   == job[r]
           now == [session[r][s] EXCEPT !.at = IF o.kind = "default" THEN "check" ELSE "show"]
       IN \/ /\ Fine /\ Becomes(s, Applied(o, o.on, running[s]), Ordered(o, o.on))
             /\ Proceed(r, s, now)
          \/ \E part \in SUBSET o.on :
                \/ /\ Fault /\ Becomes(s, Applied(o, part, running[s]), Ordered(o, part))
                   /\ \E n \in IF o.kind = "default" THEN Refused(now) ELSE {now} : Proceed(r, s, n)
                \/ Break(r, s, {Applied(o, part, running[s])}, Ordered(o, part))
    /\ UNCHANGED startup /\ Elsewhere

\* The text shown of w has that of v in it.
Shows(w, v) == v = w \/ <<v, w>> \in Prefixes

\* What the switch shows of a setting is what was asked for it.
AsAsked(o, i, c) == CASE o.kind = "set"  -> Shows(c.value[i], o.to)
                      [] o.kind = "down" -> i \in c.down
                      [] o.kind = "up"   -> i \notin c.down
                      [] OTHER           -> TRUE

\* The state of each setting is read and compared; a mere backup reads only.
Show(r, s) ==
    /\ session[r][s].at = "show"
    /\ \/ /\ Proceed(r, s, [session[r][s] EXCEPT
                !.at = "keep", !.spoiled = \E i \in job[r].on : ~AsAsked(job[r], i, running[s])])
          /\ Fine
       \/ Proceed(r, s, Idle("failed")) /\ Fault
    /\ UNCHANGED <<running, startup, excused>> /\ Elsewhere

\* A session ends by what it noted, or by an error on its last step.
EndFrom(r, s, place) ==
    /\ session[r][s].at = place
    /\ \/ Fine /\ Proceed(r, s, Idle(IF session[r][s].spoiled THEN "failed" ELSE "ok"))
       \/ Fault /\ Proceed(r, s, Idle("failed"))
    /\ UNCHANGED <<running, startup, excused>> /\ Elsewhere

\* The backup is written, or cannot be.
Keep(r, s) == EndFrom(r, s, "keep")

\* The output is searched for refusals, the state is shown, and not compared.
Check(r, s) == EndFrom(r, s, "check")

-----------------------------------------------------------------------------
(* Deploying a candidate, saving                                            *)

\* The text is that read at the start, whatever happens to the candidate.
\* (Mutated form: it is read for each block.)
TextNow(r, s) == candidate[s]
TextOf(r, s)  == session[r][s].version

\* (Mutated form: one block too many.)
PastLast(k) == k > Blocks
IsLast(k)   == k = Blocks

\* Configuration c after block k of text v.
WithBlock(c, v, k, fate) == [c EXCEPT !.done = @ \cup {<<v, k, fate>>}]

\* One block is sent.  The lines before a refusal, and after it, may be taken.
\* The server looks for seven texts in the output and stops at the first block
\* with one of them; a block refused in other words counts as taken.
SendBlock(r, s) ==
    /\ session[r][s].at = "block"
    /\ LET now  == session[r][s]
           after == IF IsLast(now.next) THEN [now EXCEPT !.at = "check"]
                    ELSE [now EXCEPT !.next = @ + 1]
           With(fate) == WithBlock(running[s], TextOf(r, s), now.next, fate)
       IN \/ Fine  /\ Becomes(s, With("whole"), {})  /\ Proceed(r, s, after)
          \/ Fault /\ Becomes(s, With("unread"), {}) /\ Proceed(r, s, after)
          \/ /\ Fault /\ Proceed(r, s, Idle("failed"))
             /\ \E c \in {running[s], With("partly")} : Becomes(s, c, {})
          \/ Break(r, s, {running[s], With("partly"), With("whole")}, {})
    /\ UNCHANGED startup /\ Elsewhere

\* copy running-config startup-config.
Copy(r, s) ==
    /\ session[r][s].at = "copy"
    /\ LET now   == [session[r][s] EXCEPT !.at = "check"]
           saved == [startup EXCEPT ![s] = running[s]]
       IN \/ Fine /\ startup' = saved /\ Proceed(r, s, now)
          \/ Fault /\ UNCHANGED startup /\ \E n \in Refused(now) : Proceed(r, s, n)
          \/ Fault /\ startup' \in {startup, saved} /\ Proceed(r, s, Idle("failed"))
    /\ UNCHANGED <<running, excused>> /\ Elsewhere

\* An operator adjusts a candidate, also while it is being deployed.
Adjust(s) ==
    /\ \E v \in Versions \ {candidate[s]} : candidate' = [candidate EXCEPT ![s] = v]
    /\ UNCHANGED <<running, startup, job, session, excused, faults, reloads>>

-----------------------------------------------------------------------------
(* Reloads and restarts                                                     *)

\* A switch reloads: it has its startup configuration, and its sessions broke.
Reload(s) ==
    /\ reloads < MaxReloads
    /\ reloads' = reloads + 1
    /\ running' = [running EXCEPT ![s] = startup[s]]
    /\ excused' = [excused EXCEPT ![s] = startup[s].down \X {"saved"}]
    /\ session' = [r \in Requests |-> [session[r] EXCEPT ![s] =
                    IF @.at \in OnLine THEN Idle("failed") ELSE [@ EXCEPT !.clean = FALSE]]]
    /\ UNCHANGED <<startup, candidate, job, faults>>

\* The ports a bounce has still to open.
Pending(r, s) == CASE session[r][s].at = "shut" -> job[r].on
                   [] session[r][s].at = "open" -> session[r][s].left
                   [] OTHER -> {}

\* The server stops and starts again: sessions and candidates are gone.
Crash ==
    /\ Fault
    /\ session' = [r \in Requests |-> [s \in Switches |->
                    IF session[r][s].at \in Active \cup {"wait"} THEN Idle("failed")
                    ELSE session[r][s]]]
    /\ excused' = [s \in Switches |->
                    {e \in excused[s] \cup UNION {Pending(r, s) \X {r} : r \in Requests} :
                        e[1] \in running[s].down}]
    /\ candidate' = [s \in Switches |-> Generated]
    /\ UNCHANGED <<running, startup, job, reloads>>

-----------------------------------------------------------------------------

Work(r, s) == \/ Connect(r, s) \/ ShutPort(r, s) \/ OpenPort(r, s) \/ SendSettings(r, s)
              \/ Show(r, s) \/ Keep(r, s) \/ Check(r, s) \/ SendBlock(r, s) \/ Copy(r, s)

Next == \/ \E r \in Requests : Send(r) \/ \E s \in Switches : Work(r, s)
        \/ \E s \in Switches : Adjust(s) \/ Reload(s)
        \/ Crash

Spec == Init /\ [][Next]_vars

-----------------------------------------------------------------------------
(* Properties                                                               *)

\* The outcome of a session is a failure, or will be.
Reported(r, s) == session[r][s].at = "failed" \/ session[r][s].spoiled

\* A port that is down is about to be opened by a bounce, or is so by order, or
\* by a failure that the very request reports, or came down with a reload, or
\* the switch refused to open it in words the server does not look for, which is
\* the one way a bounce that reports success leaves a port down: whatever other
\* sessions do to the same ports meanwhile (cisco.py:bounce_interfaces).
NoPortLeftDown ==
    \A s \in Switches : \A p \in running[s].down :
        \/ \E r \in Requests : p \in Pending(r, s)
        \/ \E e \in excused[s] : e[1] = p /\ (e[2] \in Requests => Reported(e[2], s))

\* Block k of text v went by without a refusal the server looks for.
Passed(c, v, k) == \E fate \in {"whole", "unread"} : <<v, k, fate>> \in c.done

\* No line of a block is on a switch, or saved there, unless all blocks before it
\* of the same text went by: at a refusal in one of the seven texts, or a break,
\* no later block is sent, and an adjustment does not reach a deployment under
\* way.  After a refusal in other words the next block is sent all the same
\* (cisco.py:deploy_config).
InOrder(c) == \A e \in c.done : \A j \in 1..(e[2] - 1) : Passed(c, e[1], j)

DeployInOrder == \A s \in Switches : InOrder(running[s]) /\ InOrder(startup[s])

\* What a session that ends well was asked is the state of the switch then.
Done(r, s) ==
    LET o == job[r]  c == running'[s]
    IN CASE o.kind \in {"set", "up"} -> \A i \in o.on : AsAsked(o, i, c)
         [] o.kind = "down"    -> o.on \subseteq c.down
         [] o.kind = "bounce"  -> o.on \cap c.down = {}
         [] o.kind = "default" -> o.on \cap c.down = {} /\ \A i \in o.on : c.value[i] = Base
         [] o.kind = "deploy"  -> \A k \in 1..Blocks : Passed(c, session[r][s].version, k)
         [] o.kind = "save"    -> startup'[s] = c
         [] OTHER              -> TRUE

\* A session that was alone on the switch reports success only if all it was
\* asked is there, although single lines may be refused in the middle, in words
\* the server looks for; of a deployment, only that every block of the text it
\* began with went by: it looks at no setting afterwards, and a block refused in
\* other words is reported as carried out (service.py:provision_interfaces_batch,
\* cisco.py).
OkMeansDone ==
    [][\A r \in Requests, s \in Switches :
        session[r][s].at # "ok" /\ session'[r][s].at = "ok" /\ session[r][s].clean
            => Done(r, s)]_vars
=============================================================================
