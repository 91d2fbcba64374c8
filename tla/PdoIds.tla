------------------------------- MODULE PdoIds -------------------------------
(***************************************************************************)
(* The CAN-IDs a PDO may have (src/src/core/pdo.c): those of the nodes, in *)
(* the frames of a tester, and those of the four pairs of PDOs.            *)
(***************************************************************************)
EXTENDS Integers

pdo_is_id_valid(can_id) ==
    \/ 1 <= can_id /\ can_id <= 127
    \/ 384 <= can_id /\ can_id <= 1279 /\ can_id \notin {384, 640, 896, 1152}
=============================================================================
