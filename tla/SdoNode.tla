------------------------------ MODULE SdoNode ------------------------------
(***************************************************************************)
(* The node at the other end of the bus: a CiA 301 SDO server.  It is not  *)
(* part of the repository; this is what the client in src/src/core/sdo.c   *)
(* is written against.  The server answers requests in the order received; *)
(* an answer may be lost, and it may give up a transfer with an abort.     *)
(*                                                                         *)
(* Text is a sequence of characters.  An answer carries the index and      *)
(* sub-index of its object, or NoKey if the protocol puts other bytes      *)
(* there; even says that the lowest bit of its command byte is 0.          *)
(***************************************************************************)
EXTENDS SdoLink

CONSTANTS
    Chars,               \* the characters texts are made of
    SEGMENT_DATA_SIZE    \* bytes of a segment (7)

(* An object: how an upload of it goes, and its text.                      *)
Objects(chars) == [expedited : BOOLEAN, sized : BOOLEAN, text : Seq(chars)]

ASSUME NodeAssumption ==
    /\ SEGMENT_DATA_SIZE \in Nat \ {0}
    /\ \A s \in DOMAIN Setups :
          /\ Setups[s].blocks \subseteq Nat \ {0}
          /\ Setups[s].od \in [DOMAIN Setups[s].od -> Objects(Chars)]

OD         == Setups[setup].od        \* the objects at the start: <<index, sub>> -> object
BlockSizes == Setups[setup].blocks    \* the block sizes the server may ask for

VARIABLES
    od,         \* the objects
    server      \* the transfer in progress

nodeVars == <<od, server>>

NoKey    == <<0, 0>>
NoServer == [mode |-> "none", key |-> NoKey, text |-> <<>>, size |-> 0,
             toggle |-> 0, seq |-> 0, last |-> 0]

Least(m, n)     == IF m < n THEN m ELSE n
FirstPart(text) == SubSeq(text, 1, Least(SEGMENT_DATA_SIZE, Len(text)))
RestOf(text)    == SubSeq(text, SEGMENT_DATA_SIZE + 1, Len(text))

NodeInit == od = OD /\ server = NoServer

AnswerFrame == [from |-> "node", kind |-> "abort", key |-> NoKey, text |-> <<>>,
                size |-> 0, seq |-> 0, toggle |-> 0, even |-> TRUE]

Delivers(f) == Answers(f) \/ ("loss" \in Faults /\ UNCHANGED rxq)

AbortsTransfer ==
    /\ Delivers([AnswerFrame EXCEPT !.key = server.key])
    /\ server' = NoServer /\ UNCHANGED od

MayAbort == "abort" \in Faults /\ AbortsTransfer

Receives(kind) == toNode # <<>> /\ Head(toNode).kind = kind /\ toNode' = Tail(toNode)
               /\ UNCHANGED elapsed
r == Head(toNode)

(* A request for an object: refused if it is not there.                    *)
Unknown ==
    /\ r.key \notin DOMAIN od
    /\ Delivers([AnswerFrame EXCEPT !.key = r.key])
    /\ server' = NoServer /\ UNCHANGED od

NodeUpload ==
    /\ Receives("upload")
    /\ \/ Unknown
       \/ /\ r.key \in DOMAIN od /\ od[r.key].expedited
          /\ Delivers([AnswerFrame EXCEPT !.kind = "expedited", !.key = r.key,
                                          !.text = od[r.key].text, !.even = FALSE])
          /\ server' = NoServer /\ UNCHANGED od
       \/ /\ r.key \in DOMAIN od /\ ~od[r.key].expedited
          /\ Delivers([AnswerFrame EXCEPT
                !.kind = "initiate", !.key = r.key, !.even = ~od[r.key].sized,
                !.size = IF od[r.key].sized THEN Len(od[r.key].text) ELSE 0])
          /\ server' = [NoServer EXCEPT !.mode = "upload", !.key = r.key,
                                        !.text = od[r.key].text]
          /\ UNCHANGED od

NodeSegment ==
    /\ Receives("segment")
    /\ \/ /\ server.mode = "upload" /\ r.toggle = server.toggle
          /\ LET last == Len(server.text) <= SEGMENT_DATA_SIZE IN
             /\ Delivers([AnswerFrame EXCEPT !.kind = "segment", !.even = ~last,
                                             !.text = FirstPart(server.text)])
             /\ server' = IF last THEN NoServer
                          ELSE [server EXCEPT !.text = RestOf(@), !.toggle = 1 - @]
          /\ UNCHANGED od
       \/ (server.mode # "upload" \/ r.toggle # server.toggle) /\ AbortsTransfer
       \/ MayAbort

(* Expedited download.                                                     *)
NodeDownload ==
    /\ Receives("download")
    /\ \/ Unknown
       \/ /\ r.key \in DOMAIN od
          /\ od' = [od EXCEPT ![r.key].text = r.text] /\ server' = NoServer
          /\ Delivers([AnswerFrame EXCEPT !.kind = "downloaded", !.key = r.key])

(* Segmented download: the text is as long as the client announced.        *)
NodeDownloadInit ==
    /\ Receives("downloadInit")
    /\ \/ Unknown
       \/ /\ r.key \in DOMAIN od
          /\ server' = [NoServer EXCEPT !.mode = "download", !.key = r.key, !.size = r.size]
          /\ Delivers([AnswerFrame EXCEPT !.kind = "downloaded", !.key = r.key])
          /\ UNCHANGED od

NodeDownloadSegment ==
    /\ Receives("downloadSegment")
    /\ \/ /\ server.mode = "download" /\ r.toggle = server.toggle
          /\ Delivers([AnswerFrame EXCEPT !.kind = "confirm", !.toggle = r.toggle])
          /\ LET all == server.text \o r.text IN
             \/ /\ r.last
                /\ od' = [od EXCEPT ![server.key].text =
                             SubSeq(all, 1, Least(Len(all), server.size))]
                /\ server' = NoServer
             \/ /\ ~r.last
                /\ server' = [server EXCEPT !.text = all, !.toggle = 1 - @]
                /\ UNCHANGED od
       \/ (server.mode # "download" \/ r.toggle # server.toggle) /\ AbortsTransfer
       \/ MayAbort

(* Block download: the server acknowledges the segments received in order  *)
(* at the end of a block and asks for a block size for the next.           *)
NodeBlockInit ==
    /\ Receives("blockInit")
    /\ \/ Unknown
       \/ /\ r.key \in DOMAIN od
          /\ \E b \in BlockSizes :
                /\ server' = [NoServer EXCEPT !.mode = "block", !.key = r.key, !.size = b]
                /\ Delivers([AnswerFrame EXCEPT !.kind = "blockReady", !.key = r.key,
                                                !.size = b])
          /\ UNCHANGED od

NodeBlockSegment ==
    /\ Receives("blockSegment")
    /\ \/ /\ server.mode = "block"
          /\ LET inOrder == r.seq = server.seq + 1
                 got == IF inOrder
                        THEN [server EXCEPT !.text = @ \o r.text, !.seq = @ + 1,
                                            !.last = Len(r.text)]
                        ELSE server IN
             \/ /\ r.last \/ r.seq = server.size
                /\ \E b \in BlockSizes :
                      /\ server' = [got EXCEPT
                            !.mode = IF r.last /\ inOrder THEN "blockEnd" ELSE "block",
                            !.seq = 0, !.size = b]
                      /\ Delivers([AnswerFrame EXCEPT !.kind = "blockAck", !.seq = got.seq,
                                                      !.size = b])
             \/ ~(r.last \/ r.seq = server.size) /\ server' = got /\ UNCHANGED rxq
          /\ UNCHANGED od
       \/ server.mode # "block" /\ AbortsTransfer
       \/ MayAbort

(* The end of a block download tells how many bytes of the last segment    *)
(* are not data.                                                           *)
NodeBlockEnd ==
    /\ Receives("blockEnd")
    /\ \/ /\ server.mode = "blockEnd"
          /\ od' = [od EXCEPT ![server.key].text =
                       SubSeq(server.text, 1, Len(server.text) - server.last +
                              Least(server.last, SEGMENT_DATA_SIZE - r.unused))]
          /\ server' = NoServer
          /\ Delivers([AnswerFrame EXCEPT !.kind = "blockDone", !.even = FALSE])
       \/ server.mode # "blockEnd" /\ AbortsTransfer

Node == NodeUpload \/ NodeSegment \/ NodeDownload \/ NodeDownloadInit
           \/ NodeDownloadSegment \/ NodeBlockInit \/ NodeBlockSegment \/ NodeBlockEnd
=============================================================================
