-------------------------------- MODULE Nmt --------------------------------
(***************************************************************************)
(* NMT commands (src/src/core/nmt.c and its Lua and Python functions): the *)
(* frame a call sends and what it returns.                                 *)
(***************************************************************************)
EXTENDS Command

NMT_OPERATIONAL     == 1
NMT_STOP            == 2
NMT_PRE_OPERATIONAL == 128
NMT_RESET_NODE      == 129
NMT_RESET_COMM      == 130

NmtCommands == {NMT_OPERATIONAL, NMT_STOP, NMT_PRE_OPERATIONAL, NMT_RESET_NODE, NMT_RESET_COMM}

limit_node_id(node_id) == IF node_id > 127 THEN 127 ELSE node_id

NoFrame == <<>>

(* mutant: the help is printed, and the frame sent.                        *)
SendAnyway(node_id, command, accepted) ==
    LET frame == <<command, limit_node_id(node_id)>> IN
    IF accepted THEN [status |-> "ALL_OK", frame |-> frame]
                ELSE [status |-> "CAN_WRITE_ERROR", frame |-> NoFrame]

(* The data of the frame, CAN-ID 0, handed to can_write, which accepts it  *)
(* or not.                                                                 *)
nmt_send_command(node_id, command, accepted) ==
    LET frame == <<command, limit_node_id(node_id)>> IN
    CASE command \notin NmtCommands -> [status |-> "NMT_UNKNOWN_COMMAND", frame |-> NoFrame]
      [] command \in NmtCommands /\ accepted -> [status |-> "ALL_OK", frame |-> frame]
      [] OTHER -> [status |-> "CAN_WRITE_ERROR", frame |-> NoFrame]

(* Scripts pass an int.  Its low byte is limited, and is what the call     *)
(* takes as the node; the command is looked up before it is cut.           *)
script_nmt_send_command(node_id, command, accepted) ==
    IF command \in NmtCommands
    THEN nmt_send_command(limit_node_id(UINT8(node_id)), command, accepted)
    ELSE [status |-> "NMT_UNKNOWN_COMMAND", frame |-> NoFrame]
=============================================================================
