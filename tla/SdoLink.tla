------------------------------ MODULE SdoLink ------------------------------
(***************************************************************************)
(* The CAN bus between the SDO client (src/src/core/sdo.c) and one node,   *)
(* as the client sees it through can_write and can_read: requests on their *)
(* way to the node, the receive queue of the CAN interface, and the time   *)
(* wait_for_response has spent.  The client modules extend this one.       *)
(***************************************************************************)
EXTENDS Integers, Sequences, SequencesExt

CONSTANTS
    TIMEOUT,    \* SDO_TIMEOUT_IN_NS, in polls of the receive queue
    Setups      \* sequence of [prompt, faults, od, calls, blocks, maxQueue, maxCalls]:
                \* the buses and nodes the client may find itself at

ASSUME LinkAssumption ==
    /\ TIMEOUT \in Nat \ {0}
    /\ \A s \in DOMAIN Setups :
          /\ Setups[s].prompt \in BOOLEAN
          /\ Setups[s].faults \subseteq {"loss", "abort", "write", "file"}
          /\ Setups[s].maxQueue \in Nat

VARIABLES
    setup,      \* which of the setups: it never changes
    toNode,     \* requests the node has not handled yet
    rxq,        \* frames received and not read yet
    elapsed     \* timeout_time of the wait in progress

linkVars == <<toNode, rxq, elapsed>>

LinkInit == setup \in DOMAIN Setups /\ toNode = <<>> /\ rxq = <<>> /\ elapsed = 0

(* Prompt: the node answers within SDO_TIMEOUT_IN_NS.  Faults: answers and *)
(* requests lost, transfers aborted, can_write failing, the file not       *)
(* readable.  MaxQueue bounds the received frames of other nodes.          *)
Prompt   == Setups[setup].prompt
Faults   == Setups[setup].faults
MaxQueue == Setups[setup].maxQueue

(* A frame of the node has the identifier 0x580 + node_id.                 *)
OtherFrame  == [from |-> "other"]
IsAnswer(f) == f.from = "node"

can_write(f)     == toNode' = Append(toNode, f)
can_write_fails  == "write" \in Faults /\ UNCHANGED toNode
can_read_any     == rxq' = IF rxq = <<>> THEN rxq ELSE Tail(rxq)
Answers(f)       == rxq' = Append(rxq, f)

(* One turn of the loop of wait_for_response: the next frame is the node's *)
(* and ends the wait, or nothing of the node was read and time has passed. *)
(* The loop starts another turn only while elapsed < TIMEOUT.              *)
WaitingForever == TRUE   \* mutant: the time is not looked at
Waiting        == elapsed < TIMEOUT

ReadsAnswer ==
    /\ Waiting /\ rxq # <<>> /\ IsAnswer(Head(rxq))
    /\ rxq' = Tail(rxq)

ReadsOther ==
    /\ Waiting /\ (rxq # <<>> => ~IsAnswer(Head(rxq)))
    /\ can_read_any
    /\ elapsed' \in elapsed + 1 .. TIMEOUT
    /\ Prompt => /\ toNode = <<>>
                 /\ \A i \in DOMAIN rxq : ~IsAnswer(rxq[i])
    /\ UNCHANGED toNode

(* A prompt node: while its answer is due, time runs but not out.          *)
SkipsOther ==
    /\ Waiting /\ Prompt /\ rxq # <<>> /\ ~IsAnswer(Head(rxq))
    /\ rxq' = Tail(rxq)
    /\ UNCHANGED <<toNode, elapsed>>

(* The bus: traffic of other nodes, and requests that never arrive.        *)
OtherTraffic ==
    /\ Len(rxq) < MaxQueue
    /\ Answers(OtherFrame)
    /\ UNCHANGED <<toNode, elapsed>>

LoseRequest ==
    /\ "loss" \in Faults /\ toNode # <<>>
    /\ toNode' = Tail(toNode)
    /\ UNCHANGED <<rxq, elapsed>>
=============================================================================
