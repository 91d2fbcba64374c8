------------------------------- MODULE PdoMap ------------------------------
(***************************************************************************)
(* What pdo_add and pdo_del promise their callers: a map from CAN-IDs to   *)
(* the PDO scheduled under each, with room for Capacity of them.  A call   *)
(* of pdo_add that changes a PDO is a Cancel followed by a Schedule.       *)
(***************************************************************************)
EXTENDS Naturals, FiniteSets

CONSTANTS
    Ids,        \* the CAN-IDs of PDOs
    Contents,   \* what a PDO sends
    Capacity    \* how many PDOs there can be

VARIABLE sched

Init == sched = [id \in {} |-> CHOOSE c \in Contents : TRUE]

Schedule(id, content) ==
    /\ id \notin DOMAIN sched
    /\ Cardinality(DOMAIN sched) < Capacity
    /\ sched' = [x \in DOMAIN sched \cup {id} |-> IF x = id THEN content ELSE sched[x]]

Cancel(id) ==
    /\ id \in DOMAIN sched
    /\ sched' = [x \in DOMAIN sched \ {id} |-> sched[x]]

Next == \E id \in Ids : Cancel(id) \/ \E content \in Contents : Schedule(id, content)

Spec == Init /\ [][Next]_sched
=============================================================================
