------------------------------ MODULE SdoRead ------------------------------
(***************************************************************************)
(* What the four calls of the SDO client share, and sdo_read               *)
(* (src/src/core/sdo.c): the client reads an object in one frame           *)
(* (expedited), or as text in segments.                                    *)
(***************************************************************************)
EXTENDS SdoNode

CONSTANTS
    ByteRange,           \* values of a byte (256): the client keeps one byte of the size
    NonPrintable,        \* the characters os_isprint refuses
    EXPEDITED_SIZE       \* bytes of an expedited download (4)

ASSUME ReadAssumption ==
    /\ ByteRange \in Nat \ {0} /\ EXPEDITED_SIZE \in Nat \ {0}
    /\ \A s \in DOMAIN Setups :
          /\ Setups[s].maxCalls \in Nat
          /\ Setups[s].calls \subseteq [op : {"read", "write", "string", "file"},
                                       key : Nat \X Nat, text : Seq(Chars)]

Calls    == Setups[setup].calls       \* the calls: [op, key, text]
MaxCalls == Setups[setup].maxCalls    \* bound on the number of calls

VARIABLES
    pc,         \* where the client is
    req,        \* the call
    loc,        \* locals of the call
    result,     \* what the last call returned
    calls       \* number of calls so far

clientVars == <<pc, req, loc, result, calls>>
vars       == <<setup, toNode, rxq, elapsed, od, server, pc, req, loc, result, calls>>

(* cmd: toggle bit of the last segment; length, data: sdo_response, or the *)
(* bytes still to be sent; missing: expected_msgs - n.                     *)
NoLocals  == [cmd |-> 0, length |-> 0, data |-> <<>>, missing |-> 0,
              block_size |-> 0, segment_number |-> 1]
NoRequest == [op |-> "none", key |-> NoKey, text |-> <<>>]
NoResult  == [state |-> "none", req |-> NoRequest, data |-> <<>>]

ClientInit == pc = "idle" /\ req = NoRequest /\ loc = NoLocals /\ result = NoResult /\ calls = 0

Return(state, text) ==
    /\ pc' = "idle" /\ req' = NoRequest /\ loc' = NoLocals /\ elapsed' = 0
    /\ result' = [state |-> state, req |-> req, data |-> text]
    /\ UNCHANGED calls

Abort == Return("abort", <<>>)

(* On to another point of the call, its time starting again.               *)
GoOn(next, locals) ==
    /\ pc' = next /\ loc' = locals /\ elapsed' = 0 /\ UNCHANGED <<req, result, calls>>

(* Only sdo_read clears the buffer.  sdo_write_block reads the file first. *)
Call ==
    /\ pc = "idle" /\ calls < MaxCalls
    /\ calls' = calls + 1
    /\ \E c \in Calls :
       \/ /\ req' = c /\ pc' = IF c.op = "read" THEN "clear" ELSE "request"
          /\ result' = NoResult
       \/ /\ c.op = "file" /\ "file" \in Faults
          /\ result' = [state |-> "abort", req |-> c, data |-> <<>>] /\ UNCHANGED <<pc, req>>
    /\ UNCHANGED <<linkVars, loc, nodeVars>>

(* "Clear buffer": one can_read.                                           *)
ClearBuffer ==
    /\ pc = "clear"
    /\ can_read_any /\ GoOn("request", loc)
    /\ UNCHANGED <<toNode, nodeVars>>

(* An answer is the one waited for if the index is, whatever the sub-index;*)
(* any other is dropped and the wait starts over.                          *)
AnyAnswer(f)      == TRUE   \* mutant: the index is not compared
IndexOfRequest(f) == f.key[1] = req.key[1]

DropAnswer ==
    /\ pc = "wait" /\ ReadsAnswer /\ ~IndexOfRequest(Head(rxq))
    /\ GoOn("wait", loc)
    /\ UNCHANGED <<toNode, nodeVars>>

WaitsFor(op) == pc = "wait" /\ req.op = op /\ ReadsAnswer /\ IndexOfRequest(Head(rxq))
                   /\ UNCHANGED <<toNode, nodeVars>>

ReadAnswer ==
    /\ WaitsFor("read")
    /\ LET f == Head(rxq) IN
       \/ f.kind = "expedited" /\ Return("expedited", f.text)
       \/ f.kind = "initiate" /\ GoOn("segment", [loc EXCEPT !.length = f.size % ByteRange])
       \/ f.kind \notin {"expedited", "initiate"} /\ Abort

-----------------------------------------------------------------------------
(* The segments of an upload.                                              *)

(* expected_msgs: the segments that hold n characters.                     *)
WholeSegments(n)    == n \div SEGMENT_DATA_SIZE   \* mutant: no remainder
ExpectedSegments(n) ==
    n \div SEGMENT_DATA_SIZE + IF n % SEGMENT_DATA_SIZE # 0 THEN 1 ELSE 0

(* The characters of a segment up to the first that is not printable; the  *)
(* bytes of an abort or initiate frame taken for a segment count as none.  *)
Printable(text) ==
    LET bad == SelectInSeq(text, LAMBDA c : c \in NonPrintable) IN
    IF bad = 0 THEN text ELSE SubSeq(text, 1, bad - 1)

(* The characters of a segment that are stored.                            *)
AllOf(text)  == text   \* mutant: the length is not checked
Stored(text) == SubSeq(text, 1, Least(Len(text), loc.length - Len(loc.data)))

(* The first segment is requested even when none is expected.              *)
SegmentRequest ==
    /\ pc = "segment"
    /\ \/ /\ can_write([kind |-> "segment", toggle |-> loc.cmd])
          /\ LET expected_msgs == ExpectedSegments(loc.length) IN
             IF expected_msgs = 0
             THEN Return("segmented", <<>>)
             ELSE GoOn("segments", [loc EXCEPT !.missing = expected_msgs])
       \/ can_write_fails /\ Abort
    /\ UNCHANGED <<rxq, nodeVars>>

(* mutant: the toggle bit of the next request stays.                       *)
KeepToggle(f, all) ==
    \/ loc.missing = 1 /\ Return("segmented", all)
    \/ loc.missing > 1 /\ GoOn("segments", [loc EXCEPT !.data = all, !.missing = @ - 1])

Keep(f, all) ==
    \/ loc.missing = 1 /\ Return("segmented", all)
    \/ /\ loc.missing > 1
       /\ GoOn("segments", [loc EXCEPT !.data = all, !.missing = @ - 1,
                                       !.cmd = IF f.even THEN 1 - @ ELSE @])

(* Any frame of the node counts as a segment.  If its command byte is even *)
(* (a segment that is not the last, an abort, an initiate without a size)  *)
(* the next one is requested at once, with the other toggle.               *)
SegmentAnswer ==
    /\ pc = "segments" /\ ReadsAnswer
    /\ LET f    == Head(rxq)
           text == IF f.kind = "segment" THEN Printable(f.text) ELSE <<>>
           all  == loc.data \o Stored(text) IN
       \/ ~f.even /\ UNCHANGED toNode /\ Keep(f, all)
       \/ f.even /\ can_write([kind |-> "segment", toggle |-> 1 - loc.cmd]) /\ Keep(f, all)
       \/ f.even /\ can_write_fails /\ Abort
    /\ UNCHANGED nodeVars
=============================================================================
