------------------------------- MODULE MCPdo -------------------------------
(***************************************************************************)
(* Instances of Pdo.  Two slots, and up to three CAN-IDs so that the table *)
(* fills up; frames of one byte, whose three fields can already be torn.   *)
(***************************************************************************)
EXTENDS Pdo

TPDO1 == 385      \* 0x181
TPDO2 == 641      \* 0x281

MCBytes == {0, 1}
Ones    == [k \in 0 .. MAX_LENGTH - 1 |-> 1]
Add(id, time, length) ==
    [can_id |-> id, event_time_ms |-> time, length |-> length, data |-> Ones]

(* Three CAN-IDs for two slots: an over-long length that is clamped, a PDO *)
(* sent once whose length is 1 as an uint8, and the CAN-ID of a node.      *)
MCTableCalls == {Add(TPDO1, 10, 9), Add(TPDO2, 0, 257), Add(1, 10, 1)}
MCDelCalls   == {TPDO1, 65536 + TPDO2, 0}

(* Cyclic PDOs only: a timer of interval 0 expires once.                   *)
MCCyclicCalls == {Add(TPDO1, 10, 1), Add(TPDO2, 10, 1)}
MCCyclicDels  == {TPDO2}
=============================================================================
