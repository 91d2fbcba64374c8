------------------------------ MODULE SdoWrite ------------------------------
(***************************************************************************)
(* sdo_write, sdo_write_segmented and sdo_write_block (src/src/core/sdo.c):*)
(* the client writes a value in one frame ("write"), a text in segments    *)
(* ("string"), or a file in blocks of segments ("file").                   *)
(***************************************************************************)
EXTENDS SdoRead

(* sdo_write_segmented leaves a short text to sdo_write, which sends four  *)
(* bytes for every length but 1 to 3: all that follows an empty text is    *)
(* sent for one of length 0.                                               *)
Beyond       == "beyond"
Word(text)   == [k \in 1 .. EXPEDITED_SIZE |-> IF k <= Len(text) THEN text[k] ELSE Beyond]
SizeOf(text) == IF Len(text) \in 1 .. EXPEDITED_SIZE THEN Len(text) ELSE EXPEDITED_SIZE

IsExpedited(c) == c.op = "write" \/ (c.op = "string" /\ Len(c.text) <= EXPEDITED_SIZE)

FirstFrame(c) ==
    IF c.op = "read" THEN [kind |-> "upload", key |-> c.key]
    ELSE IF IsExpedited(c)
    THEN [kind |-> "download", key |-> c.key, text |-> SubSeq(Word(c.text), 1, SizeOf(c.text))]
    ELSE [kind |-> IF c.op = "file" THEN "blockInit" ELSE "downloadInit",
          key |-> c.key, size |-> Len(c.text)]

StartBlocks(size) ==
    GoOn(IF req.text = <<>> THEN "end" ELSE "blocks",
         [loc EXCEPT !.data = req.text, !.block_size = size])

(* The cleared answer already has index 0: for that index nothing is       *)
(* waited for.  Its command byte 0 is an error to all but sdo_write_block. *)
Request ==
    /\ pc = "request"
    /\ \/ /\ can_write(FirstFrame(req))
          /\ \/ req.key[1] # 0 /\ GoOn("wait", loc)
             \/ req.key[1] = 0 /\ req.op # "file" /\ Abort
             \/ req.key[1] = 0 /\ req.op = "file" /\ StartBlocks(0)
       \/ can_write_fails /\ Abort
    /\ UNCHANGED <<rxq, nodeVars>>

WriteAnswer ==
    /\ \/ WaitsFor("write")
       \/ WaitsFor("string")
    /\ \/ Head(rxq).kind # "downloaded" /\ Abort
       \/ Head(rxq).kind = "downloaded" /\ IsExpedited(req) /\ Return("written", <<>>)
       \/ Head(rxq).kind = "downloaded" /\ ~IsExpedited(req)
             /\ GoOn("next", [loc EXCEPT !.data = req.text])

-----------------------------------------------------------------------------
(* Segments: the last is not waited for.                                   *)

IsLast == Len(loc.data) <= SEGMENT_DATA_SIZE

SendSegment ==
    /\ pc = "next"
    /\ \/ /\ can_write([kind |-> "downloadSegment", toggle |-> loc.cmd,
                        text |-> FirstPart(loc.data), last |-> IsLast])
          /\ \/ IsLast /\ Return("written", <<>>)
             \/ ~IsLast /\ GoOn("confirm", [loc EXCEPT !.data = RestOf(@)])
       \/ can_write_fails /\ Abort
    /\ UNCHANGED <<rxq, nodeVars>>

(* mutant: the toggle bit of the next segment stays.                       *)
SameToggle(f) == loc.cmd
NextToggle(f) == IF f.kind = "confirm" THEN 1 - f.toggle ELSE loc.cmd

(* An answer that is no confirmation, even an abort, changes nothing.      *)
SegmentConfirmed ==
    /\ pc = "confirm" /\ ReadsAnswer
    /\ GoOn("next", [loc EXCEPT !.cmd = NextToggle(Head(rxq))])
    /\ UNCHANGED <<toNode, nodeVars>>

-----------------------------------------------------------------------------
(* Blocks.                                                                 *)

(* Of the answers with the index only an abort ends the call; one that is  *)
(* neither that nor the server's leaves the block size 0.                  *)
BlockAnswer ==
    /\ WaitsFor("file")
    /\ LET f == Head(rxq) IN
       \/ f.kind = "abort" /\ Abort
       \/ f.kind # "abort" /\ StartBlocks(IF f.kind = "blockReady" THEN f.size ELSE 0)

AfterBlock(rest) == IF rest = <<>> THEN "end" ELSE "blocks"

(* mutant: a block has one segment more.                                   *)
BlockOverfull == loc.block_size < loc.segment_number
BlockFull     == loc.block_size < loc.segment_number + 1

SendBlockSegment ==
    /\ pc = "blocks"
    /\ \/ /\ can_write([kind |-> "blockSegment", seq |-> loc.segment_number,
                        text |-> FirstPart(loc.data), last |-> IsLast])
          /\ LET rest == RestOf(loc.data) IN
             GoOn(IF BlockFull THEN "ack" ELSE AfterBlock(rest),
                  [loc EXCEPT !.data = rest, !.segment_number = @ + 1])
       \/ can_write_fails /\ Abort
    /\ UNCHANGED <<rxq, nodeVars>>

(* Waits for the acknowledgement of the whole block, and never takes a     *)
(* larger block size.                                                      *)
BlockAcknowledged ==
    /\ pc = "ack" /\ ReadsAnswer
    /\ LET f == Head(rxq) IN
       IF f.kind = "blockAck" /\ f.seq = loc.block_size
       THEN GoOn(AfterBlock(loc.data),
                 [loc EXCEPT !.block_size = Least(f.size, @), !.segment_number = 1])
       ELSE GoOn("ack", loc)
    /\ UNCHANGED <<toNode, nodeVars>>

(* remaining_bytes, which the loop above leaves at 0 or (as an uint8) at   *)
(* 250 or more, selects the default header 0xDD: no byte of the last       *)
(* segment is data.                                                        *)
SendBlockEnd ==
    /\ pc = "end"
    /\ \/ /\ can_write([kind |-> "blockEnd", unused |-> SEGMENT_DATA_SIZE])
          /\ GoOn("done", loc)
       \/ can_write_fails /\ Abort
    /\ UNCHANGED <<rxq, nodeVars>>

(* mutant: the first answer ends the call.                                 *)
AnyEnd(f)      == TRUE
EndConfirmed(f) == f.kind = "blockDone"

BlockEnded ==
    /\ pc = "done" /\ ReadsAnswer
    /\ IF EndConfirmed(Head(rxq)) THEN Return("written", <<>>) ELSE GoOn("done", loc)
    /\ UNCHANGED <<toNode, nodeVars>>
=============================================================================
