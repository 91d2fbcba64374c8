----------------------------- MODULE SdoClient -----------------------------
(***************************************************************************)
(* The SDO client, the bus and the node together.  The client makes reads  *)
(* and writes one after the other; what one leaves on the bus meets the    *)
(* next.                                                                   *)
(***************************************************************************)
EXTENDS SdoWrite

AtWait == pc \in {"wait", "segments", "confirm", "ack", "done"}

Poll ==
    /\ AtWait /\ (ReadsOther \/ SkipsOther)
    /\ UNCHANGED <<clientVars, nodeVars>>

Timeout ==
    /\ AtWait /\ ~Waiting
    /\ Abort
    /\ UNCHANGED <<toNode, rxq, nodeVars>>

Reading == ClearBuffer \/ ReadAnswer \/ SegmentRequest \/ SegmentAnswer
Writing == WriteAnswer \/ SendSegment \/ SegmentConfirmed \/ BlockAnswer
              \/ SendBlockSegment \/ BlockAcknowledged \/ SendBlockEnd \/ BlockEnded
Client  == (Request \/ DropAnswer \/ Reading \/ Writing \/ Poll \/ Timeout) /\ UNCHANGED setup

Init == LinkInit /\ NodeInit /\ ClientInit

NodeStep == Node /\ UNCHANGED <<setup, clientVars>>
BusStep  == (OtherTraffic \/ LoseRequest) /\ UNCHANGED <<setup, clientVars, nodeVars>>

Next == (Call /\ UNCHANGED setup) \/ Client \/ NodeStep \/ BusStep

Spec == Init /\ [][Next]_vars

(* The client thread runs, and the node handles what it receives.          *)
FairSpec == Spec /\ WF_vars(Client) /\ WF_vars(NodeStep)

-----------------------------------------------------------------------------
(* Properties.                                                             *)

(* Type invariant.  The bytes of an upload never exceed the length kept of *)
(* it, nor does what is returned.                                          *)
TypeOK ==
    /\ pc \in {"idle", "clear", "request", "wait", "segment", "segments", "next", "confirm",
               "blocks", "ack", "end", "done"}
    /\ setup \in DOMAIN Setups /\ elapsed \in 0 .. TIMEOUT /\ calls \in 0 .. MaxCalls
    /\ req \in Calls \cup {NoRequest}
    /\ loc.cmd \in {0, 1} /\ loc.length \in 0 .. ByteRange - 1
    /\ pc = "segments" => loc.missing > 0 /\ Len(loc.data) <= loc.length
    /\ result.state \in {"none", "abort", "expedited", "segmented", "written"}
    /\ result.state = "segmented" => Len(result.data) < ByteRange

(* From a node that answers in time, a read that does not fail returns the *)
(* object that was asked for.                                              *)
ReadReturnsTheObject ==
    Prompt /\ result.state \in {"expedited", "segmented"} =>
        result.req.key \in DOMAIN od /\ result.data = od[result.req.key].text

(* What was written without an error, and to a node that answers in time,  *)
(* is there once the node has handled what it was sent: the value or the   *)
(* text, and of a file, sent in blocks, all but at most the last segment.  *)
Holds(text, c) ==
    \/ text = c.text
    \/ /\ c.op = "file" /\ Len(text) \in Len(c.text) - SEGMENT_DATA_SIZE .. Len(c.text)
       /\ text = SubSeq(c.text, 1, Len(text))

WrittenIsStored ==
    Prompt /\ result.state = "written" /\ toNode = <<>> =>
        Holds(od[result.req.key].text, result.req)

(* A file that was written without an error is in the node.                *)
FileIsStored ==
    result.state = "written" /\ result.req.op = "file" =>
        od[result.req.key].text = result.req.text

(* No call about an object that is there fails at such a node.             *)
NoCallFails == Prompt /\ result.state = "abort" => result.req.key \notin DOMAIN od

(* When a call has returned, nothing of its dialogue is left that the next *)
(* could take for its own: at most the last segment of a text or the       *)
(* confirmation of it, which no call reads as an answer of its own.        *)
NothingLeftBehind ==
    Prompt /\ pc = "idle" =>
        /\ toNode = <<>> => server.mode = "none"
        /\ Len(toNode) <= 1
        /\ \A k \in DOMAIN toNode : toNode[k].kind = "downloadSegment"
        /\ \A k \in DOMAIN rxq : IsAnswer(rxq[k]) =>
              /\ rxq[k].kind = "confirm" /\ toNode = <<>>
              /\ \A l \in DOMAIN rxq : IsAnswer(rxq[l]) => l = k

(* What may be read under an index in one frame: the text an object of it  *)
(* had at the start, or what a call sent to one in one frame.              *)
Known(index, text) ==
    \/ \E key \in DOMAIN OD : key[1] = index /\ OD[key].text = text
    \/ \E c \in Calls : IsExpedited(c) /\ c.key[1] = index /\ FirstFrame(c).text = text

(* An expedited read never returns what was never under its index, however *)
(* late, lost or out of turn the answers are.                              *)
IndexNeverConfused == result.state = "expedited" => Known(result.req.key[1], result.data)

(* The objects that are read in one frame are written in one.              *)
WrittenAsRead ==
    \A s \in DOMAIN Setups : \A c \in Setups[s].calls :
       c.op = "read" \/ IsExpedited(c) \/
          (c.key \in DOMAIN Setups[s].od => ~Setups[s].od[c.key].expedited)

(* The setups the theorems about whole dialogues are about: no faults, one *)
(* block size, texts that are printable, of known size and short enough    *)
(* for the client's byte, in the objects read in segments and in the       *)
(* calls, and files of more than one segment: the last one may be cut off, *)
(* and an empty object is not read.                                        *)
Sound(text) ==
    /\ text # <<>> /\ Len(text) < ByteRange
    /\ \A k \in 1 .. Len(text) : text[k] \notin NonPrintable

Plain ==
    /\ Prompt /\ Faults = {}
    /\ \A m, n \in BlockSizes : m = n
    /\ \A key \in DOMAIN OD : OD[key].expedited \/ (OD[key].sized /\ Sound(OD[key].text))
    /\ \A c \in Calls : /\ c.key[1] # 0
                        /\ c.op # "read" => Sound(c.text)
                        /\ c.op = "write" => Len(c.text) <= EXPEDITED_SIZE
                        /\ c.op = "file" => Len(c.text) > SEGMENT_DATA_SIZE

(* Every call returns, whatever the node does.                             *)
EveryCallReturns == pc # "idle" ~> pc = "idle"
=============================================================================
