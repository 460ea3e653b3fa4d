------------------------------ MODULE SwitchText ------------------------------
(***************************************************************************)
(* The algorithms on texts of a switch - the candidate, the comparison, the *)
(* diagnostics - over bounded inputs: a state is one input, and the          *)
(* properties say what is true of the results.                              *)
(***************************************************************************)
EXTENDS Integers, Sequences, FiniteSets, SequencesExt

CONSTANTS
    MaxLeft,     \* bound: the lines of a configuration that is compared
    MaxRight,    \* bound: the lines of the other one
    MaxEntries,  \* bound: the entries of a list of targets
    MaxAddress   \* bound: the addresses

ASSUME SwitchTextAssumption == {MaxLeft, MaxRight, MaxEntries, MaxAddress} \subseteq Nat

Candidate   == INSTANCE SwitchCandidate
Diff        == INSTANCE ConfigurationDiff
Diagnostics == INSTANCE SwitchDiagnostics

VARIABLE input

-----------------------------------------------------------------------------
(* Inputs                                                                   *)

\* A switch with a management port, ports of two types in two slots, a gap in
\* their numbers and a channel, as listed by the switch.
Port(type, slot, port) == [type |-> type, slot |-> slot, port |-> port]
Places == {<<Port("Gi", <<0>>, 1), Port("Gi", <<0>>, 2), Port("Gi", <<0>>, 3), Port("Gi", <<0>>, 4),
             Port("Te", <<0>>, 1), Port("Po", <<>>, 1)>>,
           <<Port("Te", <<1, 0>>, 2), Port("Gi", <<1, 0>>, 4), Port("Gi", <<1, 0>>, 2),
             Port("Po", <<>>, 2), Port("Gi", <<1, 0>>, 3)>>,
           <<Port("Po", <<>>, 1), Port("Gi", <<>>, 0), Port("Gi", <<0>>, 1),
             Port("Gi", <<0>>, 3), Port("Gi", <<0>>, 2)>>}

Plain       == [mode |-> "access", address |-> "none", member |-> FALSE]
Roles == {Plain, [Plain EXCEPT !.member = TRUE], [Plain EXCEPT !.mode = "routed"],
          [Plain EXCEPT !.mode = "routed", !.address = "provision"]}

With(place, role) == [type |-> place.type, slot |-> place.slot, port |-> place.port,
                      mode |-> role.mode, address |-> role.address, member |-> role.member]

Inventories ==
    UNION {{[n \in DOMAIN p |-> With(p[n], IF p[n].type = "Po" THEN Plain ELSE role[n])] :
                role \in [DOMAIN p -> Roles]} : p \in Places}

Sections == ToSet(Candidate!SECTION_ORDER)
Override == Candidate!Line("overrides", "setting", {})

\* The interfaces as one command lists them, the addresses as another does.
Listed(inventory) == [n \in DOMAIN inventory |-> [inventory[n] EXCEPT !.address = "none"]]
Addresses(inventory) ==
    [name \in {Candidate!Name(i) : i \in {j \in ToSet(inventory) : j.address # "none"}} |-> "provision"]

\* Which sections are chosen, what the operator adds, and whether the switch
\* knows the command of the section transceiver.
Selections == {<<Sections, <<>>, TRUE>>, <<Sections \ {"provision_port"}, <<Override>>, FALSE>>,
            <<{"hostname", "transceiver", "aaa", "user_ports", "ntp"},
              <<Override, Candidate!Line("overrides", "end", {}), Override>>, FALSE>>}

CandidateInputs ==
    {[task |-> "candidate", inventory |-> i, uplink |-> Candidate!Name(i[u]), reached |-> a,
      enabled |-> c[1], overrides |-> c[2], monitoring |-> c[3]] :
        i \in Inventories, u \in {3, 5}, c \in Selections, a \in BOOLEAN}

\* Two interfaces, a VLAN and a host name of two values, shutdown or not.
Texts(max) ==
         LET lines == {Diff!Separator} \cup
                {[form |-> "head", of |-> "interface Gi1", to |-> 0],
                 [form |-> "line", of |-> "access vlan", to |-> 1],
                 [form |-> "line", of |-> "access vlan", to |-> 2],
                 [form |-> "line", of |-> "hostname", to |-> 1]}
         IN  UNION {[1..n -> lines] : n \in 0..max}

DiffInputs == {[task |-> "diff", left |-> l, right |-> r] : l \in Texts(MaxLeft), r \in Texts(MaxRight)}

Entries == {e \in (1..MaxAddress) \X (1..MaxAddress) : e[1] <= e[2]}
PingInputs == {[task |-> "ping", entries |-> e, workers |-> w] :
                e \in UNION {[1..n -> Entries] : n \in 1..MaxEntries}, w \in 1..4}

HealthInputs ==
    {h \in [task : {"health"},
            nonzero : SUBSET (Diagnostics!Counters \ {"no carrier", "runts", "throttles",
                                  "ignored", "underruns", "output buffer failures"}),
            full_duplex : BOOLEAN, admin_down : BOOLEAN, up : BOOLEAN] : h.up # h.admin_down}

Init == \/ input \in PingInputs
        \/ input \in HealthInputs
        \/ input \in CandidateInputs
        \/ input \in DiffInputs
Next == UNCHANGED input
Spec == Init /\ [][Next]_input

-----------------------------------------------------------------------------
(* The candidate                                                            *)

\* The second command may fail; then there are no addresses.
Classified ==
    Candidate!ProvisionGenerate(Listed(input.inventory),
        IF input.reached THEN Addresses(input.inventory) ELSE <<>>, input.uplink)
Generated == Candidate!RenderBranchCandidate(Classified, input.monitoring, Sections, <<>>)
Text == Candidate!ProvisionCandidateAdjust(Generated, Classified, input.monitoring,
                                           input.enabled, input.overrides)
Sent == Candidate!SplitCandidateBlocks(Text)

\* What a deployment does to an interface: each block is sent by itself, and
\* its lines go to the interfaces opened before them in the block.
SetOn(sent, name) ==
    {b \in DOMAIN sent : \E k \in DOMAIN sent[b] : \E j \in 1..(k - 1) :
        sent[b][k].text = "setting" /\ sent[b][j].text = "interface" /\ name \in sent[b][j].on}

\* Whatever the inventory and the sections chosen, a candidate sets nothing on
\* the port it is deployed through, on routed ports, on members of channels and
\* on channels, and sets each other port once: the ranges name no port too many
\* and none too few (classifier.py, interface_range.py, renderer.py, deploy.py).
PortsAsClassified ==
    input.task = "candidate" /\ Classified.ok =>
        LET sent == Sent
            Times(section) == IF section \in input.enabled THEN 1 ELSE 0
        IN  \A i \in ToSet(input.inventory) :
                Cardinality(SetOn(sent, Candidate!Name(i))) =
                    IF Candidate!Name(i) = input.uplink THEN Times("uplink")
                    ELSE IF i.mode = "routed" \/ i.member \/ i.type = "Po" THEN 0
                    ELSE Times("user_ports")

Place(section) == IF section = "overrides" THEN Len(Candidate!SECTION_ORDER) + 1
                  ELSE CHOOSE n \in DOMAIN Candidate!SECTION_ORDER : Candidate!SECTION_ORDER[n] = section

\* The blocks sent are in the order that is the contract of the candidate, no
\* block has lines of two sections, the operator's lines come last, and no
\* enabled section is lost (renderer.py:SECTION_ORDER, deploy.py).
BlocksInOrder ==
    input.task = "candidate" /\ Classified.ok =>
        LET sent == Sent
            place == [b \in DOMAIN sent |-> Place(sent[b][1].section)]
        IN  /\ \A b \in DOMAIN sent : \A line \in ToSet(sent[b]) : line.section = sent[b][1].section
            /\ \A b \in DOMAIN sent \ {1} : place[b - 1] <= place[b]
            /\ input.enabled \ {"user_ports", "transceiver"} \subseteq
                    {block[1].section : block \in ToSet(sent)}

-----------------------------------------------------------------------------
(* The comparison                                                           *)

Occurs(line, lines) == Cardinality({n \in DOMAIN lines : lines[n] = line})

\* Of every line the two texts and the differences shown agree: what the left
\* has, without what is shown as removed and with what is shown as added, is
\* what the right has; and the rows show each change once
\* (configuration.py:compare_cisco_configs).
DiffLosesNothing ==
    input.task = "diff" =>
        LET sections == Diff!CompareCiscoConfigs(input.left, input.right)
            Shown(line, Part(_)) ==
                Cardinality(UNION {{<<s.key, n>> : n \in {m \in DOMAIN Part(s) : Part(s)[m] = line}} :
                                        s \in sections})
            Removed(s) == s.removed_lines
            Added(s)   == s.added_lines
            Old(s)     == [n \in DOMAIN s.rows |-> s.rows[n].startup_line]
            New(s)     == [n \in DOMAIN s.rows |-> s.rows[n].running_line]
        IN  \A line \in (ToSet(input.left) \cup ToSet(input.right)) \ {Diff!Separator} :
                /\ Occurs(line, input.left) + Shown(line, Added)
                        = Occurs(line, input.right) + Shown(line, Removed)
                /\ Shown(line, Old) = Shown(line, Removed)
                /\ Shown(line, New) = Shown(line, Added)

-----------------------------------------------------------------------------
(* Diagnostics                                                              *)

\* The answers of a ping are those for the addresses asked for, each once and
\* in the order asked, however many sessions shared them (service.py:run_switch_ping).
PingKeepsTargets ==
    input.task = "ping" =>
        LET asked    == FlattenSeq([n \in DOMAIN input.entries |->
                                        Diagnostics!Expanded(input.entries[n])])
            answered == Diagnostics!RunSwitchPing(input.entries, input.workers)
            First(t) == CHOOSE n \in DOMAIN asked : asked[n] = t /\ \A m \in 1..(n - 1) : asked[m] # t
        IN  /\ ToSet(answered) = ToSet(asked)
            /\ \A m, n \in DOMAIN answered : m < n => First(answered[m]) < First(answered[n])

\* A counter that is not zero is never passed over, except collisions where
\* they are to be expected (service.py:classify_interface_health).
HealthSeesErrors ==
    input.task = "health" =>
        (Diagnostics!ClassifyInterfaceHealth(input.nonzero, input.full_duplex,
                                             input.admin_down, input.up) \in {"healthy", "neutral"}
            => input.nonzero \subseteq IF input.full_duplex THEN {} ELSE {"collisions"})
=============================================================================
