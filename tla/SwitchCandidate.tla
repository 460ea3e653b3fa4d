---------------------------- MODULE SwitchCandidate ----------------------------
(***************************************************************************)
(* How a candidate configuration comes about and how it is taken apart      *)
(* again: the interfaces of the switch are classified, the sections of the  *)
(* standard are rendered in their fixed order, user ports are put together  *)
(* in ranges, and the text is cut into the blocks a deployment sends.       *)
(* A line of a candidate is cut down to its section, the interfaces it      *)
(* opens, if it is an interface line, and whether it is a description, a    *)
(* setting or a separator.                                                  *)
(***************************************************************************)
EXTENDS Integers, Sequences, FiniteSets, SequencesExt, Listing

-----------------------------------------------------------------------------
(* Classification.  An interface of the inventory has a name - its type, the *)
(* numbers of its slots, that of its port -, a mode, an address that is in   *)
(* the provisioning network or not, and may be a member of a channel.        *)

Physical == {"Gi", "Te"}

SortKey(i) == Append(i.slot, i.port)

\* One tuple of numbers comes before another.
Less(k, l) ==
    \E n \in 1..Len(l) :
        /\ \A m \in 1..(n - 1) : m <= Len(k) /\ k[m] = l[m]
        /\ n > Len(k) \/ k[n] < l[n]

Name(i) == [type |-> i.type, slot |-> i.slot, port |-> i.port]

\* The first physical interface by its numbers; the type does not count.
IsProvisionPort(inventory, n) ==
    /\ inventory[n].type \in Physical
    /\ \A m \in DOMAIN inventory \ {n} : inventory[m].type \in Physical =>
        \/ Less(SortKey(inventory[n]), SortKey(inventory[m]))
        \/ SortKey(inventory[n]) = SortKey(inventory[m]) /\ n < m

ValidProvisionPort(i) == i.mode = "routed" /\ i.address = "provision"

\* Whether a port that is neither provision port nor uplink is left alone.
\* (Mutated form: members of a channel are forgotten.)
LoseMembers(i) == i.type \notin Physical \/ i.mode = "routed"
IsPreserved(i) == i.type \notin Physical \/ i.mode = "routed" \/ i.member

\* The interfaces come from one command and have their addresses from another;
\* when that one fails, or names an interface not, it is taken to have none.
ProvisionInventory(interfaces, addresses) ==
    [n \in DOMAIN interfaces |->
        IF Name(interfaces[n]) \in DOMAIN addresses
        THEN [interfaces[n] EXCEPT !.address = addresses[Name(interfaces[n])]]
        ELSE interfaces[n]]

Rejected == [ok |-> FALSE, uplink |-> {}, provision_port |-> {}, user_ports |-> <<>>]

ClassifyInterfaces(inventory, uplink) ==
    LET ports == {n \in DOMAIN inventory : IsProvisionPort(inventory, n)}
    IN  IF \/ \A n \in DOMAIN inventory : Name(inventory[n]) # uplink
           \/ ports = {}
           \/ \E n \in ports : ~ValidProvisionPort(inventory[n]) \/ Name(inventory[n]) = uplink
        THEN Rejected
        ELSE LET provision == {Name(inventory[n]) : n \in ports}
                 User(i)   == Name(i) \notin provision \cup {uplink} /\ ~IsPreserved(i)
                 users     == Keep(inventory, User)
             IN  [ok |-> TRUE, uplink |-> {uplink}, provision_port |-> provision,
                  user_ports |-> [n \in DOMAIN users |-> Name(users[n])]]

-----------------------------------------------------------------------------
(* Ranges                                                                   *)

Follows(to, port) == port = to + 1

\* The runs of consecutive numbers in a sorted sequence of ports.
Extended(runs, type, slot, p) ==
    IF runs # <<>> /\ Follows(Last(runs).to, p)
    THEN [runs EXCEPT ![Len(runs)].to = p]
    ELSE Append(runs, [type |-> type, slot |-> slot, from |-> p, to |-> p])
Runs(type, slot, ports) ==
    FoldLeft(LAMBDA runs, p : Extended(runs, type, slot, p), <<>>, ports)

\* Ports are grouped by type and slots, in the order they are met.
Kin(names, n) ==
    {names[m] : m \in {k \in DOMAIN names :
        names[k].type = names[n].type /\ names[k].slot = names[n].slot}}
IsFirst(names, n) == \A m \in 1..(n - 1) : names[m] \notin Kin(names, n)
BuildInterfaceGroups(names) ==
    FoldLeft(LAMBDA groups, n :
                IF IsFirst(names, n)
                THEN groups \o Runs(names[n].type, names[n].slot,
                                    Ascending({i.port : i \in Kin(names, n)}))
                ELSE groups,
             <<>>, [n \in DOMAIN names |-> n])

\* What the switch takes a range for.
Covered(g) == {[type |-> g.type, slot |-> g.slot, port |-> p] : p \in g.from..g.to}

-----------------------------------------------------------------------------
(* Rendering                                                                *)

SECTION_ORDER ==
    <<"system", "hostname", "logging_buffer", "aaa", "network_services", "dhcp_snooping",
      "dot1x_global", "archive", "stp", "enable", "transceiver", "vlans", "management",
      "provision_port", "uplink", "user_ports", "radius_source_logging", "snmp", "radius",
      "lines", "ntp">>

Line(section, text, on) == [section |-> section, text |-> text, on |-> on]
Separator == Line("!", "!", {})

Setting(section) == Line(section, "setting", {})
Interface(section, on) == <<Line(section, "interface", on), Line(section, "description", {})>>

\* How often a section of global commands is cut by a separator.
Cuts == [aaa |-> 5, network_services |-> 2, vlans |-> 3, radius |-> 3, lines |-> 3]
Parts(section) == IF section \in DOMAIN Cuts THEN Cuts[section] ELSE 1

\* The blocks of a section; monitoring tells whether the switch knows the
\* command of the section transceiver.  The provision port gets no setting.
BranchSection(section, c, monitoring) ==
    CASE section = "transceiver" -> IF monitoring THEN <<<<Setting(section)>>>> ELSE <<<<>>>>
      [] section = "management" ->
            <<Interface(section, {[type |-> "Vlan", slot |-> <<>>, port |-> 255]})
                  \o <<Setting(section)>>, <<Setting(section)>>>>
      [] section = "provision_port" -> <<Interface(section, c.provision_port)>>
      [] section = "uplink" -> <<Interface(section, c.uplink) \o <<Setting(section)>>>>
      [] section = "user_ports" ->
            LET groups == BuildInterfaceGroups(c.user_ports)
            IN  [n \in DOMAIN groups |->
                    Interface(section, Covered(groups[n])) \o <<Setting(section)>>]
      [] section \notin {"transceiver", "management", "provision_port", "uplink", "user_ports"} ->
            [n \in 1..Parts(section) |-> <<Setting(section)>>]

\* Each block ends with a separator.
Rendered(blocks) == FlattenSeq([n \in DOMAIN blocks |-> Append(blocks[n], Separator)])

RenderBranchCandidate(c, monitoring, enabled, overrides) ==
    FlattenSeq([n \in DOMAIN SECTION_ORDER |->
        IF SECTION_ORDER[n] \in enabled
        THEN Rendered(BranchSection(SECTION_ORDER[n], c, monitoring)) ELSE <<>>])
    \o IF overrides = <<>> THEN <<>> ELSE <<Separator, Separator>> \o overrides

\* A candidate keeps its classification: adjusting it renders it anew, with the
\* sections and the lines the operator chose, and asks the switch nothing.
ProvisionGenerate(interfaces, addresses, uplink) ==
    ClassifyInterfaces(ProvisionInventory(interfaces, addresses), uplink)
ProvisionCandidateAdjust(text, c, monitoring, enabled, overrides) ==
    IF enabled \subseteq ToSet(SECTION_ORDER)
    THEN RenderBranchCandidate(c, monitoring, enabled, overrides) ELSE text

-----------------------------------------------------------------------------
(* Blocks                                                                   *)

\* Lines such as "end" would leave the configuration mode.
Ignored(line) == line.text = "end"

Flushed(b) == IF b.current = <<>> THEN b ELSE [blocks |-> Append(b.blocks, b.current), current |-> <<>>]

\* (Mutated form: a separator does not end a block.)
NeverEnds(line) == FALSE
EndsBlock(line) == line = Separator

TakeLine(b, line) ==
    IF EndsBlock(line) THEN Flushed(b)
    ELSE IF Ignored(line) \/ line = Separator THEN b
    ELSE [b EXCEPT !.current = Append(@, line)]
SplitCandidateBlocks(lines) ==
    Flushed(FoldLeft(TakeLine, [blocks |-> <<>>, current |-> <<>>], lines)).blocks
=============================================================================
