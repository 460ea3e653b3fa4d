--------------------------- MODULE SwitchDiagnostics ---------------------------
(***************************************************************************)
(* The diagnostics of a switch: the targets of a ping, which several        *)
(* sessions share, and what the counters of an interface are taken for.     *)
(***************************************************************************)
EXTENDS Integers, Sequences, FiniteSets, SequencesExt

-----------------------------------------------------------------------------
(* Ping                                                                     *)

\* An entry is an address or a range of addresses; what was met is dropped.
Expanded(entry) == [n \in 1..(entry[2] - entry[1] + 1) |-> entry[1] + n - 1]

ParseIpv4Targets(entries) ==
    FoldLeft(LAMBDA targets, t : IF Contains(targets, t) THEN targets ELSE Append(targets, t),
             <<>>, FlattenSeq([n \in DOMAIN entries |-> Expanded(entries[n])]))

Smaller(a, b) == IF a < b THEN a ELSE b

\* How many of n targets the worker gets, of so many.
\* (Mutated form: the rest of the division is nobody's.)
EvenShare(n, workers, worker) == n \div workers
Share(n, workers, worker)     == n \div workers + IF worker <= n % workers THEN 1 ELSE 0

\* Contiguous lots, one for each worker.
SplitTargetsForWorkers(targets, workers) ==
    LET count    == Smaller(workers, Len(targets))
        Start(w) == FoldLeft(LAMBDA sum, v : sum + Share(Len(targets), count, v), 0,
                             [v \in 1..(w - 1) |-> v])
    IN  [w \in 1..count |->
            SubSeq(targets, Start(w) + 1, Start(w) + Share(Len(targets), count, w))]

\* Each lot is done in a session of its own; their answers are put together in
\* the order of the lots, whichever is done first.
RunSwitchPing(entries, workers) ==
    FlattenSeq(SplitTargetsForWorkers(ParseIpv4Targets(entries), workers))

-----------------------------------------------------------------------------
(* Health                                                                   *)

\* The counters that are not zero, by what they are a sign of.
Carrier  == {"lost carrier", "no carrier"}
Physical == {"CRC", "frame", "runts"}
Receive  == {"overrun", "ignored", "throttles"}
Transmit == {"output errors", "underruns", "output buffer failures"}
Counters == Carrier \cup Physical \cup Receive \cup Transmit
                \cup {"giants", "late collision", "collisions", "input errors"}

\* The errors of an input are reported as such if nothing tells them apart.
\* (Mutated form: any other counter is taken for an explanation.)
AnyOther(nonzero) == nonzero \ {"input errors"} # {}
Explained(nonzero) == nonzero \cap (Physical \cup Receive \cup {"giants"}) # {}

\* The categories of what is wrong.
Issues(nonzero, full_duplex) ==
    (IF nonzero \cap Carrier # {} THEN {"physical"} ELSE {})
    \cup (IF nonzero \cap Physical # {} THEN {"physical-duplex"} ELSE {})
    \cup (IF "giants" \in nonzero THEN {"endpoint"} ELSE {})
    \cup (IF "late collision" \in nonzero \/ ("collisions" \in nonzero /\ full_duplex)
          THEN {"duplex"} ELSE {})
    \cup (IF nonzero \cap Receive # {} THEN {"resources"} ELSE {})
    \cup (IF nonzero \cap Transmit # {} THEN {"congestion"} ELSE {})
    \cup (IF "input errors" \in nonzero /\ ~Explained(nonzero) THEN {"input"} ELSE {})

ClassifyInterfaceHealth(nonzero, full_duplex, admin_down, up) ==
    LET issues == Issues(nonzero, full_duplex)
    IN  CASE "physical" \in issues -> "danger"
          [] "physical" \notin issues /\ issues # {} -> "warning"
          [] issues = {} /\ ~admin_down /\ up -> "healthy"
          [] OTHER -> "neutral"
=============================================================================
