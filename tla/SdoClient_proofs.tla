-------------------------- MODULE SdoClient_proofs --------------------------
(***************************************************************************)
(* Proofs about SdoClient for every bus, node and sequence of calls: the   *)
(* client's state is of its type, the bytes of an upload never exceed the  *)
(* length that was kept of it, and what an expedited read returns was      *)
(* under its index.                                                        *)
(***************************************************************************)
EXTENDS SdoClient, WellFoundedInduction, TLAPS

Texts == Seq(Chars \cup {Beyond})

-----------------------------------------------------------------------------
(* Parts of texts.                                                         *)

LEMMA LeastIsLeast ==
    ASSUME NEW m \in Int, NEW n \in Int
    PROVE  /\ Least(m, n) \in {m, n}
           /\ Least(m, n) <= m /\ Least(m, n) <= n
  BY DEF Least

LEMMA PartIsText ==
    ASSUME NEW text \in Texts, NEW m \in Nat \ {0}, NEW n \in Int, n <= Len(text)
    PROVE  SubSeq(text, m, n) \in Texts
  BY DEF Texts

LEMMA LengthOfPart ==
    ASSUME NEW text \in Texts, NEW n \in 0 .. Len(text)
    PROVE  SubSeq(text, 1, n) \in Texts /\ Len(SubSeq(text, 1, n)) = n
  BY DEF Texts

LEMMA PartsOfText ==
    ASSUME NEW text \in Texts
    PROVE  FirstPart(text) \in Texts /\ RestOf(text) \in Texts
<1>1. Len(text) \in Nat
  BY DEF Texts
<1>2. /\ Least(SEGMENT_DATA_SIZE, Len(text)) \in Int
      /\ Least(SEGMENT_DATA_SIZE, Len(text)) <= Len(text)
  BY <1>1, NodeAssumption, LeastIsLeast
<1>3. SEGMENT_DATA_SIZE + 1 \in Nat \ {0}
  BY NodeAssumption
<1> QED
  BY <1>1, <1>2, <1>3, PartIsText DEF FirstPart, RestOf

(* What follows a short text makes up the four bytes.                      *)
LEMMA WordIsText ==
    ASSUME NEW text \in Texts
    PROVE  SubSeq(Word(text), 1, SizeOf(text)) \in Texts
<1>1. EXPEDITED_SIZE \in Nat /\ Len(text) \in Nat
  BY ReadAssumption DEF Texts
<1>2. \A k \in 1 .. Len(text) : text[k] \in Chars \cup {Beyond}
  BY DEF Texts
<1>3. Word(text) \in [1 .. EXPEDITED_SIZE -> Chars \cup {Beyond}]
  BY <1>1, <1>2 DEF Word
<1>4. Word(text) \in Texts /\ Len(Word(text)) = EXPEDITED_SIZE
  BY <1>1, <1>3 DEF Texts
<1>5. SizeOf(text) \in 0 .. EXPEDITED_SIZE
  BY <1>1 DEF SizeOf
<1> QED
  BY <1>4, <1>5, LengthOfPart

(* The first index of a non-empty set of them.                             *)
LEMMA FirstIndex ==
    ASSUME NEW n \in Nat, NEW I \in SUBSET (1 .. n), I # {}
    PROVE  Min(I) \in 1 .. n
<1> DEFINE R == OpToRel(<, Nat)
<1>1. IsWellFoundedOn(R, Nat)
  BY NatLessThanWellFounded, Zenon
<1>2. \A x, y \in Nat : y < x => <<y, x>> \in R
  BY DEF OpToRel
<1> HIDE DEF R
<1>3. I \subseteq Nat
  OBVIOUS
<1>4. \E x \in I : \A y \in I : <<y, x>> \notin R
  BY <1>1, <1>3, WFMin, Zenon
<1>5. PICK x \in I : \A y \in I : <<y, x>> \notin R
  BY <1>4
<1>6. ASSUME NEW y \in I
      PROVE  x <= y
  <2>1. x \in Nat /\ y \in Nat
    BY <1>3
  <2>2. ~(y < x)
    BY <1>2, <1>5, <2>1
  <2> QED
    BY <2>1, <2>2
<1>7. Min(I) \in I
  BY <1>6 DEF Min
<1> QED
  BY <1>7

LEMMA PrintableIsText ==
    ASSUME NEW text \in Texts
    PROVE  Printable(text) \in Texts
<1> DEFINE I   == {i \in 1 .. Len(text) : text[i] \in NonPrintable}
           bad == IF I # {} THEN Min(I) ELSE 0
<1>1. Printable(text) = IF bad = 0 THEN text ELSE SubSeq(text, 1, bad - 1)
  BY DEF Printable, SelectInSeq
<1>2. Len(text) \in Nat
  BY DEF Texts
<1>3. bad \in 0 .. Len(text)
  <2>1. I \in SUBSET (1 .. Len(text))
    OBVIOUS
  <2> HIDE DEF I
  <2>2. CASE I = {}
    BY <1>2, <2>2
  <2>3. CASE I # {}
    <3>1. Min(I) \in 1 .. Len(text)
      BY <1>2, <2>1, <2>3, FirstIndex
    <3> QED
      BY <2>3, <3>1
  <2> QED
    BY <2>2, <2>3
<1> HIDE DEF bad
<1>4. bad - 1 \in Int /\ bad - 1 <= Len(text)
  BY <1>2, <1>3
<1> QED
  BY <1>1, <1>4, PartIsText

(* What is stored of a segment fits into the room that is left.            *)
LEMMA StoredFits ==
    ASSUME NEW text \in Texts, loc.data \in Texts, loc.length \in Nat,
           Len(loc.data) <= loc.length
    PROVE  /\ loc.data \o Stored(text) \in Texts
           /\ Len(loc.data \o Stored(text)) <= loc.length
<1> DEFINE room == loc.length - Len(loc.data)
<1>1. Len(text) \in Nat /\ Len(loc.data) \in Nat /\ room \in Nat
  BY DEF Texts
<1>2. Least(Len(text), room) \in 0 .. Len(text) /\ Least(Len(text), room) <= room
  BY <1>1, LeastIsLeast
<1>3. /\ Stored(text) \in Texts
      /\ Len(Stored(text)) <= room
  BY <1>2, LengthOfPart DEF Stored
<1> QED
  BY <1>1, <1>3 DEF Texts

-----------------------------------------------------------------------------
(* What is on the bus and in the node.                                     *)

Keys == Nat \X Nat
Bit  == {0, 1}

Requests ==
    [kind : {"upload"}, key : Keys]
      \cup [kind : {"download"}, key : Keys, text : Texts]
      \cup [kind : {"blockInit", "downloadInit"}, key : Keys, size : Nat]
      \cup [kind : {"segment"}, toggle : Bit]
      \cup [kind : {"downloadSegment"}, toggle : Bit, text : Texts, last : BOOLEAN]
      \cup [kind : {"blockSegment"}, seq : Nat, text : Texts, last : BOOLEAN]
      \cup [kind : {"blockEnd"}, unused : Nat]

Kinds == {"abort", "expedited", "initiate", "segment", "downloaded", "confirm",
          "blockReady", "blockAck", "blockDone"}
NodeFrames == [from : {"node"}, kind : Kinds, key : Keys, text : Texts, size : Nat,
               seq : Nat, toggle : Bit, even : BOOLEAN]
Frames  == {OtherFrame} \cup NodeFrames
Servers == [mode : {"none", "upload", "download", "block", "blockEnd"}, key : Keys,
            text : Texts, size : Nat, toggle : Bit, seq : Nat, last : Nat]

BusTyped ==
    /\ toNode \in Seq(Requests) /\ rxq \in Seq(Frames)
    /\ od \in [DOMAIN od -> Objects(Chars \cup {Beyond})]
    /\ server \in Servers

LEMMA OtherBit ==
    ASSUME NEW b \in Bit
    PROVE  1 - b \in Bit
  BY DEF Bit

LEMMA NothingIsTyped == AnswerFrame \in NodeFrames /\ NoServer \in Servers
<1>1. NoKey \in Keys /\ <<>> \in Texts
  BY DEF NoKey, Keys, Texts
<1>2. AnswerFrame \in NodeFrames
  BY <1>1 DEF AnswerFrame, NodeFrames, Kinds, Bit
<1>3. NoServer \in Servers
  BY <1>1 DEF NoServer, Servers, Bit
<1> QED
  BY <1>2, <1>3

LEMMA DeliveredIsTyped ==
    ASSUME rxq \in Seq(Frames), NEW f \in NodeFrames, Delivers(f)
    PROVE  rxq' \in Seq(Frames)
  BY DEF Delivers, Answers, Frames

LEMMA ReceivedIsTyped ==
    ASSUME BusTyped, NEW kind, Receives(kind)
    PROVE  /\ r \in Requests /\ r.kind = kind
           /\ toNode' \in Seq(Requests) /\ elapsed' = elapsed
  BY DEF BusTyped, Receives, r

LEMMA AbortIsTyped ==
    ASSUME BusTyped, AbortsTransfer
    PROVE  rxq' \in Seq(Frames) /\ od' = od /\ server' \in Servers
<1>1. [AnswerFrame EXCEPT !.key = server.key] \in NodeFrames
  BY NothingIsTyped DEF BusTyped, NodeFrames, Servers
<1> QED
  BY <1>1, NothingIsTyped, DeliveredIsTyped DEF AbortsTransfer, BusTyped

LEMMA UnknownIsTyped ==
    ASSUME BusTyped, r.key \in Keys, Unknown
    PROVE  rxq' \in Seq(Frames) /\ od' = od /\ server' \in Servers
<1>1. [AnswerFrame EXCEPT !.key = r.key] \in NodeFrames
  BY NothingIsTyped DEF NodeFrames
<1> QED
  BY <1>1, NothingIsTyped, DeliveredIsTyped DEF Unknown, BusTyped

(* An object stays one when its text is replaced.                          *)
LEMMA StoredIsTyped ==
    ASSUME BusTyped, NEW key, NEW text \in Texts, od' = [od EXCEPT ![key].text = text]
    PROVE  od' \in [DOMAIN od' -> Objects(Chars \cup {Beyond})]
  BY DEF BusTyped, Objects, Texts

-----------------------------------------------------------------------------
(* The node keeps its types: one lemma per request.                        *)

LEMMA UploadIsTyped ==
    ASSUME BusTyped, NodeUpload
    PROVE  BusTyped' /\ elapsed' = elapsed
<1>1. /\ r \in Requests /\ r.kind = "upload"
      /\ toNode' \in Seq(Requests) /\ elapsed' = elapsed
  BY ReceivedIsTyped DEF NodeUpload
<1>2. r.key \in Keys
  BY <1>1 DEF Requests
<1>3. CASE Unknown
  BY <1>1, <1>2, <1>3, UnknownIsTyped DEF BusTyped
<1>4. ASSUME r.key \in DOMAIN od
      PROVE  od[r.key].text \in Texts /\ Len(od[r.key].text) \in Nat
             /\ od[r.key].sized \in BOOLEAN
  BY <1>4 DEF BusTyped, Objects, Texts
<1>5. CASE /\ r.key \in DOMAIN od /\ od[r.key].expedited
           /\ Delivers([AnswerFrame EXCEPT !.kind = "expedited", !.key = r.key,
                                           !.text = od[r.key].text, !.even = FALSE])
           /\ server' = NoServer /\ UNCHANGED od
  <2>1. [AnswerFrame EXCEPT !.kind = "expedited", !.key = r.key,
                            !.text = od[r.key].text, !.even = FALSE] \in NodeFrames
    BY <1>2, <1>4, <1>5, NothingIsTyped DEF NodeFrames, Kinds
  <2> QED
    BY <1>1, <1>5, <2>1, NothingIsTyped, DeliveredIsTyped DEF BusTyped
<1>6. CASE /\ r.key \in DOMAIN od /\ ~od[r.key].expedited
           /\ Delivers([AnswerFrame EXCEPT
                 !.kind = "initiate", !.key = r.key, !.even = ~od[r.key].sized,
                 !.size = IF od[r.key].sized THEN Len(od[r.key].text) ELSE 0])
           /\ server' = [NoServer EXCEPT !.mode = "upload", !.key = r.key,
                                         !.text = od[r.key].text]
           /\ UNCHANGED od
  <2> DEFINE size == IF od[r.key].sized THEN Len(od[r.key].text) ELSE 0
             even == ~od[r.key].sized
  <2>1. size \in Nat /\ even \in BOOLEAN
    BY <1>4, <1>6
  <2>2. [AnswerFrame EXCEPT !.kind = "initiate", !.key = r.key, !.even = even,
                            !.size = size] \in NodeFrames
    <3> HIDE DEF size, even
    <3> QED
      BY <1>2, <2>1, NothingIsTyped DEF NodeFrames, Kinds
  <2>3. server' \in Servers
    BY <1>2, <1>4, <1>6, NothingIsTyped DEF Servers
  <2> QED
    BY <1>1, <1>6, <2>2, <2>3, DeliveredIsTyped DEF BusTyped
<1> QED
  BY <1>3, <1>5, <1>6 DEF NodeUpload

LEMMA SegmentIsTyped ==
    ASSUME BusTyped, NodeSegment
    PROVE  BusTyped' /\ elapsed' = elapsed
<1>1. toNode' \in Seq(Requests) /\ elapsed' = elapsed
  BY ReceivedIsTyped DEF NodeSegment
<1>2. CASE AbortsTransfer
  BY <1>1, <1>2, AbortIsTyped DEF BusTyped
<1>3. ASSUME NEW last \in BOOLEAN,
             Delivers([AnswerFrame EXCEPT !.kind = "segment", !.even = ~last,
                                          !.text = FirstPart(server.text)]),
             server' = IF last THEN NoServer
                       ELSE [server EXCEPT !.text = RestOf(@), !.toggle = 1 - @],
             UNCHANGED od
      PROVE  BusTyped'
  <2>1. FirstPart(server.text) \in Texts /\ RestOf(server.text) \in Texts
    BY PartsOfText DEF BusTyped, Servers
  <2>2. [AnswerFrame EXCEPT !.kind = "segment", !.even = ~last,
                            !.text = FirstPart(server.text)] \in NodeFrames
    BY <2>1, NothingIsTyped DEF NodeFrames, Kinds
  <2>3. [server EXCEPT !.text = RestOf(@), !.toggle = 1 - @] \in Servers
    <3>1. server \in Servers /\ 1 - server.toggle \in Bit
      BY OtherBit DEF BusTyped, Servers
    <3> QED
      BY <2>1, <3>1 DEF Servers
  <2> QED
    BY <1>1, <1>3, <2>2, <2>3, NothingIsTyped, DeliveredIsTyped DEF BusTyped
<1>4. (Len(server.text) <= SEGMENT_DATA_SIZE) \in BOOLEAN
  OBVIOUS
<1> QED
  BY <1>1, <1>2, <1>3, <1>4 DEF NodeSegment, MayAbort

LEMMA DownloadIsTyped ==
    ASSUME BusTyped, NodeDownload
    PROVE  BusTyped' /\ elapsed' = elapsed
<1>1. /\ r \in Requests /\ r.kind = "download"
      /\ toNode' \in Seq(Requests) /\ elapsed' = elapsed
  BY ReceivedIsTyped DEF NodeDownload
<1>2. r.key \in Keys /\ r.text \in Texts
  BY <1>1 DEF Requests
<1>3. CASE Unknown
  BY <1>1, <1>2, <1>3, UnknownIsTyped DEF BusTyped
<1>4. CASE ~Unknown
  <2>1. [AnswerFrame EXCEPT !.kind = "downloaded", !.key = r.key] \in NodeFrames
    BY <1>2, NothingIsTyped DEF NodeFrames, Kinds
  <2>2. /\ od' = [od EXCEPT ![r.key].text = r.text] /\ server' = NoServer
        /\ Delivers([AnswerFrame EXCEPT !.kind = "downloaded", !.key = r.key])
    BY <1>4 DEF NodeDownload
  <2>3. rxq' \in Seq(Frames)
    BY <2>1, <2>2, DeliveredIsTyped DEF BusTyped
  <2>4. od' \in [DOMAIN od' -> Objects(Chars \cup {Beyond})]
    BY <1>2, <2>2, StoredIsTyped
  <2> QED
    BY <1>1, <2>2, <2>3, <2>4, NothingIsTyped DEF BusTyped
<1> QED
  BY <1>3, <1>4

LEMMA DownloadInitIsTyped ==
    ASSUME BusTyped, NodeDownloadInit
    PROVE  BusTyped' /\ elapsed' = elapsed
<1>1. /\ r \in Requests /\ r.kind = "downloadInit"
      /\ toNode' \in Seq(Requests) /\ elapsed' = elapsed
  BY ReceivedIsTyped DEF NodeDownloadInit
<1>2. r.key \in Keys /\ r.size \in Nat
  BY <1>1 DEF Requests
<1>3. CASE Unknown
  BY <1>1, <1>2, <1>3, UnknownIsTyped DEF BusTyped
<1>4. CASE ~Unknown
  <2>1. [AnswerFrame EXCEPT !.kind = "downloaded", !.key = r.key] \in NodeFrames
    BY <1>2, NothingIsTyped DEF NodeFrames, Kinds
  <2>2. [NoServer EXCEPT !.mode = "download", !.key = r.key, !.size = r.size] \in Servers
    BY <1>2, NothingIsTyped DEF Servers
  <2> QED
    BY <1>1, <1>4, <2>1, <2>2, DeliveredIsTyped DEF NodeDownloadInit, BusTyped
<1> QED
  BY <1>3, <1>4

LEMMA DownloadSegmentIsTyped ==
    ASSUME BusTyped, NodeDownloadSegment
    PROVE  BusTyped' /\ elapsed' = elapsed
<1>1. /\ r \in Requests /\ r.kind = "downloadSegment"
      /\ toNode' \in Seq(Requests) /\ elapsed' = elapsed
  BY ReceivedIsTyped DEF NodeDownloadSegment
<1>2. r.toggle \in Bit /\ r.text \in Texts
  BY <1>1 DEF Requests
<1>3. CASE AbortsTransfer
  BY <1>1, <1>3, AbortIsTyped DEF BusTyped
<1>4. CASE ~AbortsTransfer
  <2> DEFINE all == server.text \o r.text
  <2>1. server \in Servers /\ all \in Texts
    BY <1>2 DEF BusTyped, Servers, Texts
  <2>2. Least(Len(all), server.size) \in Int /\ Least(Len(all), server.size) <= Len(all)
    <3>1. Len(all) \in Nat /\ server.size \in Nat
      BY <2>1 DEF Servers, Texts
    <3> HIDE DEF all
    <3> QED
      BY <3>1, LeastIsLeast
  <2>3. SubSeq(all, 1, Least(Len(all), server.size)) \in Texts
    <3> HIDE DEF all
    <3> QED
      BY <2>1, <2>2, PartIsText
  <2>4. [AnswerFrame EXCEPT !.kind = "confirm", !.toggle = r.toggle] \in NodeFrames
    BY <1>2, NothingIsTyped DEF NodeFrames, Kinds
  <2>5. rxq' \in Seq(Frames)
    BY <1>4, <2>4, DeliveredIsTyped DEF NodeDownloadSegment, MayAbort, BusTyped
  <2>6. \/ /\ od' = [od EXCEPT ![server.key].text =
                        SubSeq(all, 1, Least(Len(all), server.size))]
           /\ server' = NoServer
        \/ server' = [server EXCEPT !.text = all, !.toggle = 1 - @] /\ UNCHANGED od
    BY <1>4 DEF NodeDownloadSegment, MayAbort
  <2> HIDE DEF all
  <2>7. [server EXCEPT !.text = all, !.toggle = 1 - @] \in Servers
    <3>1. 1 - server.toggle \in Bit
      BY <2>1, OtherBit DEF Servers
    <3> QED
      BY <2>1, <3>1 DEF Servers
  <2>8. od' \in [DOMAIN od' -> Objects(Chars \cup {Beyond})]
    BY <2>3, <2>6, StoredIsTyped DEF BusTyped
  <2> QED
    BY <1>1, <2>5, <2>6, <2>7, <2>8, NothingIsTyped DEF BusTyped
<1> QED
  BY <1>3, <1>4

LEMMA BlockSizesAreNatural ==
    ASSUME setup \in DOMAIN Setups, NEW b \in BlockSizes
    PROVE  b \in Nat
  BY NodeAssumption DEF BlockSizes

LEMMA BlockInitIsTyped ==
    ASSUME BusTyped, setup \in DOMAIN Setups, NodeBlockInit
    PROVE  BusTyped' /\ elapsed' = elapsed
<1>1. /\ r \in Requests /\ r.kind = "blockInit"
      /\ toNode' \in Seq(Requests) /\ elapsed' = elapsed
  BY ReceivedIsTyped DEF NodeBlockInit
<1>2. r.key \in Keys
  BY <1>1 DEF Requests
<1>3. CASE Unknown
  BY <1>1, <1>2, <1>3, UnknownIsTyped DEF BusTyped
<1>4. CASE ~Unknown
  <2>1. PICK b \in BlockSizes :
           /\ server' = [NoServer EXCEPT !.mode = "block", !.key = r.key, !.size = b]
           /\ Delivers([AnswerFrame EXCEPT !.kind = "blockReady", !.key = r.key, !.size = b])
    BY <1>4 DEF NodeBlockInit
  <2>2. b \in Nat
    BY BlockSizesAreNatural
  <2>3. [AnswerFrame EXCEPT !.kind = "blockReady", !.key = r.key, !.size = b] \in NodeFrames
    BY <1>2, <2>2, NothingIsTyped DEF NodeFrames, Kinds
  <2>4. server' \in Servers
    BY <1>2, <2>1, <2>2, NothingIsTyped DEF Servers
  <2>5. od' = od
    BY <1>4 DEF NodeBlockInit
  <2> QED
    BY <1>1, <2>1, <2>3, <2>4, <2>5, DeliveredIsTyped DEF BusTyped
<1> QED
  BY <1>3, <1>4

LEMMA BlockSegmentIsTyped ==
    ASSUME BusTyped, setup \in DOMAIN Setups, NodeBlockSegment
    PROVE  BusTyped' /\ elapsed' = elapsed
<1>1. /\ r \in Requests /\ r.kind = "blockSegment"
      /\ toNode' \in Seq(Requests) /\ elapsed' = elapsed
  BY ReceivedIsTyped DEF NodeBlockSegment
<1>2. r.seq \in Nat /\ r.text \in Texts
  BY <1>1 DEF Requests
<1>3. CASE AbortsTransfer
  BY <1>1, <1>3, AbortIsTyped DEF BusTyped
<1>4. CASE ~AbortsTransfer
  <2> DEFINE got == IF r.seq = server.seq + 1
                    THEN [server EXCEPT !.text = @ \o r.text, !.seq = @ + 1,
                                        !.last = Len(r.text)]
                    ELSE server
  <2>1. got \in Servers
    <3>1. /\ server \in Servers /\ server.text \o r.text \in Texts
          /\ server.seq + 1 \in Nat /\ Len(r.text) \in Nat
      BY <1>2 DEF BusTyped, Servers, Texts
    <3> QED
      BY <3>1 DEF Servers
  <2>2. od' = od
    BY <1>4 DEF NodeBlockSegment, MayAbort
  <2>3. \/ \E b \in BlockSizes :
              /\ server' = [got EXCEPT
                    !.mode = IF r.last /\ r.seq = server.seq + 1 THEN "blockEnd" ELSE "block",
                    !.seq = 0, !.size = b]
              /\ Delivers([AnswerFrame EXCEPT !.kind = "blockAck", !.seq = got.seq, !.size = b])
        \/ server' = got /\ UNCHANGED rxq
    BY <1>4 DEF NodeBlockSegment, MayAbort
  <2> HIDE DEF got
  <2>4. CASE server' = got /\ UNCHANGED rxq
    BY <1>1, <2>1, <2>2, <2>4 DEF BusTyped
  <2>5. ASSUME NEW b \in BlockSizes, NEW mode \in {"blockEnd", "block"},
               server' = [got EXCEPT !.mode = mode, !.seq = 0, !.size = b],
               Delivers([AnswerFrame EXCEPT !.kind = "blockAck", !.seq = got.seq, !.size = b])
        PROVE  BusTyped'
    <3>1. b \in Nat /\ got.seq \in Nat
      BY <2>1, BlockSizesAreNatural DEF Servers
    <3>2. [AnswerFrame EXCEPT !.kind = "blockAck", !.seq = got.seq, !.size = b] \in NodeFrames
      BY <3>1, NothingIsTyped DEF NodeFrames, Kinds
    <3>3. server' \in Servers
      BY <2>1, <2>5, <3>1 DEF Servers
    <3> QED
      BY <1>1, <2>2, <2>5, <3>2, <3>3, DeliveredIsTyped DEF BusTyped
  <2> QED
    BY <1>1, <2>3, <2>4, <2>5
<1> QED
  BY <1>3, <1>4

LEMMA BlockEndIsTyped ==
    ASSUME BusTyped, NodeBlockEnd
    PROVE  BusTyped' /\ elapsed' = elapsed
<1>1. /\ r \in Requests /\ r.kind = "blockEnd"
      /\ toNode' \in Seq(Requests) /\ elapsed' = elapsed
  BY ReceivedIsTyped DEF NodeBlockEnd
<1>2. r.unused \in Nat
  BY <1>1 DEF Requests
<1>3. CASE AbortsTransfer
  BY <1>1, <1>3, AbortIsTyped DEF BusTyped
<1>4. CASE ~AbortsTransfer
  <2> DEFINE data == Least(server.last, SEGMENT_DATA_SIZE - r.unused)
             n    == Len(server.text) - server.last + data
  <2>1. server.text \in Texts /\ Len(server.text) \in Nat /\ server.last \in Nat
    BY DEF BusTyped, Servers, Texts
  <2>2. data \in Int /\ data <= server.last
    <3>1. SEGMENT_DATA_SIZE - r.unused \in Int
      BY <1>2, NodeAssumption
    <3> QED
      BY <2>1, <3>1, LeastIsLeast
  <2>3. n \in Int /\ n <= Len(server.text)
    <3> HIDE DEF data
    <3> QED
      BY <2>1, <2>2
  <2>4. SubSeq(server.text, 1, n) \in Texts
    BY <2>1, <2>3, PartIsText
  <2>5. [AnswerFrame EXCEPT !.kind = "blockDone", !.even = FALSE] \in NodeFrames
    BY NothingIsTyped DEF NodeFrames, Kinds
  <2>6. /\ od' = [od EXCEPT ![server.key].text = SubSeq(server.text, 1, n)]
        /\ server' = NoServer
        /\ Delivers([AnswerFrame EXCEPT !.kind = "blockDone", !.even = FALSE])
    BY <1>4 DEF NodeBlockEnd
  <2> HIDE DEF n
  <2>7. od' \in [DOMAIN od' -> Objects(Chars \cup {Beyond})]
    BY <2>4, <2>6, StoredIsTyped
  <2> QED
    BY <1>1, <2>5, <2>6, <2>7, NothingIsTyped, DeliveredIsTyped DEF BusTyped
<1> QED
  BY <1>3, <1>4

LEMMA NodeIsTyped ==
    ASSUME BusTyped, setup \in DOMAIN Setups, Node
    PROVE  BusTyped' /\ elapsed' = elapsed
  BY UploadIsTyped, SegmentIsTyped, DownloadIsTyped, DownloadInitIsTyped,
     DownloadSegmentIsTyped, BlockInitIsTyped, BlockSegmentIsTyped, BlockEndIsTyped DEF Node

-----------------------------------------------------------------------------
(* The client.  Its data are empty until a transfer in segments or blocks  *)
(* starts; a segment request is sent only while segments are missing.      *)

Locals == [cmd : Bit, length : 0 .. ByteRange - 1, data : Texts, missing : Int,
           block_size : Nat, segment_number : Nat]

Early == {"idle", "clear", "request", "wait", "segment"}
Later == {"segments", "next", "confirm", "blocks", "ack", "end", "done"}
Fresh == pc \in Early => loc.data = <<>>

ClientTyped == TypeOK /\ loc \in Locals /\ Fresh
IInv == ClientTyped /\ BusTyped

(* What the locals are where the client goes on.                           *)
Fits(next, locals) ==
    /\ next \in Early \cup Later /\ locals \in Locals
    /\ next \in Early => locals.data = <<>>
    /\ next = "segments" => locals.missing > 0 /\ Len(locals.data) <= locals.length

LEMMA NoLocalsFit == \A next \in Early : Fits(next, NoLocals)
  BY ReadAssumption DEF NoLocals, Fits, Early, Locals, Bit, Texts

LEMMA LocalsFit ==
    ASSUME ClientTyped
    PROVE  Fits(pc, loc)
  BY DEF ClientTyped, TypeOK, Fresh, Fits, Early, Later

LEMMA GoesOn ==
    ASSUME ClientTyped, NEW next, NEW locals, Fits(next, locals), GoOn(next, locals),
           setup' = setup
    PROVE  ClientTyped'
<1>1. /\ pc' = next /\ loc' = locals /\ elapsed' = 0
      /\ req' = req /\ result' = result /\ calls' = calls
  BY DEF GoOn
<1>2. 0 \in 0 .. TIMEOUT
  BY LinkAssumption
<1>3. MaxCalls' = MaxCalls /\ Calls' = Calls
  BY DEF MaxCalls, Calls
<1> QED
  BY <1>1, <1>2, <1>3 DEF ClientTyped, TypeOK, Fresh, Fits, Early, Later, Locals, Bit

LEMMA Returns ==
    ASSUME ClientTyped, NEW state \in {"abort", "expedited", "segmented", "written"}, NEW text,
           state = "segmented" => Len(text) < ByteRange, Return(state, text), setup' = setup
    PROVE  ClientTyped'
<1>1. /\ pc' = "idle" /\ loc' = NoLocals /\ elapsed' = 0 /\ req' = NoRequest
      /\ result' = [state |-> state, req |-> req, data |-> text] /\ calls' = calls
  BY DEF Return
<1>2. 0 \in 0 .. TIMEOUT
  BY LinkAssumption
<1>3. MaxCalls' = MaxCalls /\ Calls' = Calls
  BY DEF MaxCalls, Calls
<1>4. Fits("idle", NoLocals)
  BY NoLocalsFit DEF Early
<1>5. result'.state = state /\ result'.data = text
  BY <1>1
<1>6. TypeOK'
  BY <1>1, <1>2, <1>3, <1>4, <1>5 DEF ClientTyped, TypeOK, Fits, Locals, Bit
<1> QED
  BY <1>1, <1>4, <1>6 DEF ClientTyped, Fresh, Fits, Early

LEMMA Aborts ==
    ASSUME ClientTyped, Abort, setup' = setup
    PROVE  ClientTyped'
  BY Returns DEF Abort

LEMMA FirstFrameIsTyped ==
    ASSUME NEW c, c.key \in Keys, c.text \in Texts
    PROVE  FirstFrame(c) \in Requests
<1>1. Len(c.text) \in Nat /\ SubSeq(Word(c.text), 1, SizeOf(c.text)) \in Texts
  BY WordIsText DEF Texts
<1> QED
  BY <1>1 DEF FirstFrame, Requests

(* The call in progress has a text, and so has the request it starts with. *)
LEMMA RequestIsTyped ==
    ASSUME ClientTyped
    PROVE  /\ req.text \in Texts
           /\ FirstFrame(req) \in Requests
<1>1. CASE req \in Calls
  <2>1. req \in [op : {"read", "write", "string", "file"}, key : Keys, text : Seq(Chars)]
    BY <1>1, ReadAssumption DEF ClientTyped, TypeOK, Calls, Keys
  <2>2. req.key \in Keys /\ req.text \in Texts
    BY <2>1 DEF Texts
  <2> QED
    BY <2>2, FirstFrameIsTyped
<1>2. CASE req = NoRequest
  <2>1. req.key \in Keys /\ req.text \in Texts
    BY <1>2 DEF NoRequest, NoKey, Keys, Texts
  <2> QED
    BY <2>1, FirstFrameIsTyped
<1> QED
  BY <1>1, <1>2 DEF ClientTyped, TypeOK

LEMMA SentIsTyped ==
    ASSUME BusTyped, NEW f \in Requests, can_write(f)
    PROVE  toNode' \in Seq(Requests)
  BY DEF BusTyped, can_write

LEMMA AnswerIsRead ==
    ASSUME BusTyped, ReadsAnswer
    PROVE  Head(rxq) \in NodeFrames /\ rxq' \in Seq(Frames)
<1>1. Head(rxq) \in Frames /\ rxq' \in Seq(Frames)
  BY DEF BusTyped, ReadsAnswer
<1>2. Head(rxq) # OtherFrame
  BY DEF ReadsAnswer, IsAnswer, OtherFrame
<1> QED
  BY <1>1, <1>2 DEF Frames

LEMMA AnyIsRead ==
    ASSUME BusTyped, can_read_any
    PROVE  rxq' \in Seq(Frames)
  BY DEF BusTyped, can_read_any

-----------------------------------------------------------------------------
(* The steps of the client: one lemma per action.                          *)

LEMMA CallStep ==
    ASSUME IInv, Call, setup' = setup
    PROVE  IInv'
<1>1. BusTyped'
  BY DEF IInv, BusTyped, Call, linkVars, nodeVars
<1>2. MaxCalls \in Nat /\ MaxCalls' = MaxCalls /\ Calls' = Calls
  BY ReadAssumption DEF IInv, ClientTyped, TypeOK, MaxCalls, Calls
<1>3. pc = "idle" /\ calls' \in 0 .. MaxCalls /\ loc' = loc /\ elapsed' = elapsed
  BY <1>2 DEF IInv, ClientTyped, TypeOK, Call, linkVars
<1>4. /\ pc' \in {"idle", "clear", "request"} /\ req' \in Calls \cup {NoRequest}
      /\ result'.state \in {"none", "abort"}
  BY <1>3 DEF IInv, ClientTyped, TypeOK, Call, NoResult
<1>5. TypeOK'
  BY <1>2, <1>3, <1>4 DEF IInv, ClientTyped, TypeOK
<1>6. loc' \in Locals /\ Fresh'
  BY <1>3, <1>4 DEF IInv, ClientTyped, Fresh, Early
<1> QED
  BY <1>1, <1>5, <1>6 DEF IInv, ClientTyped

LEMMA ClearBufferStep ==
    ASSUME IInv, ClearBuffer, setup' = setup
    PROVE  IInv'
<1>1. BusTyped'
  BY AnyIsRead DEF IInv, BusTyped, ClearBuffer, nodeVars
<1>2. Fits("request", loc)
  BY LocalsFit DEF IInv, ClearBuffer, Fits, Early
<1> QED
  BY <1>1, <1>2, GoesOn DEF IInv, ClearBuffer

LEMMA DropAnswerStep ==
    ASSUME IInv, DropAnswer, setup' = setup
    PROVE  IInv'
<1>1. BusTyped'
  BY AnswerIsRead DEF IInv, BusTyped, DropAnswer, nodeVars
<1>2. Fits("wait", loc)
  BY LocalsFit DEF IInv, DropAnswer
<1> QED
  BY <1>1, <1>2, GoesOn DEF IInv, DropAnswer

LEMMA WaitsForStep ==
    ASSUME IInv, NEW op, WaitsFor(op)
    PROVE  /\ pc = "wait" /\ Head(rxq) \in NodeFrames /\ BusTyped'
           /\ loc \in Locals /\ loc.data = <<>>
<1>1. pc = "wait" /\ Head(rxq) \in NodeFrames /\ BusTyped'
  BY AnswerIsRead DEF IInv, BusTyped, WaitsFor, nodeVars
<1> QED
  BY <1>1 DEF IInv, ClientTyped, Fresh, Early

LEMMA ReadAnswerStep ==
    ASSUME IInv, ReadAnswer, setup' = setup
    PROVE  IInv'
<1> DEFINE f == Head(rxq)
<1>1. f \in NodeFrames /\ BusTyped' /\ loc \in Locals /\ loc.data = <<>>
  BY WaitsForStep DEF ReadAnswer
<1>2. CASE Return("expedited", f.text)
  BY <1>1, <1>2, Returns DEF IInv
<1>3. CASE GoOn("segment", [loc EXCEPT !.length = f.size % ByteRange])
  <2>1. f.size % ByteRange \in 0 .. ByteRange - 1
    BY <1>1, ReadAssumption DEF NodeFrames
  <2>2. Fits("segment", [loc EXCEPT !.length = f.size % ByteRange])
    BY <1>1, <2>1 DEF Fits, Early, Locals
  <2> QED
    BY <1>1, <1>3, <2>2, GoesOn DEF IInv
<1>4. CASE Abort
  BY <1>1, <1>4, Aborts DEF IInv
<1> QED
  BY <1>2, <1>3, <1>4 DEF ReadAnswer

(* A file is sent from its beginning.                                      *)
LEMMA BlocksStart ==
    ASSUME ClientTyped, req.text \in Texts, NEW size \in Nat, StartBlocks(size), setup' = setup
    PROVE  ClientTyped'
<1> DEFINE next == IF req.text = <<>> THEN "end" ELSE "blocks"
<1>1. loc \in Locals /\ next \in {"end", "blocks"}
  BY DEF ClientTyped
<1>2. GoOn(next, [loc EXCEPT !.data = req.text, !.block_size = size])
  BY DEF StartBlocks
<1> HIDE DEF next
<1>3. Fits(next, [loc EXCEPT !.data = req.text, !.block_size = size])
  BY <1>1 DEF Fits, Early, Later, Locals
<1> QED
  BY <1>2, <1>3, GoesOn

LEMMA RequestStep ==
    ASSUME IInv, Request, setup' = setup
    PROVE  IInv'
<1>1. FirstFrame(req) \in Requests /\ req.text \in Texts
  BY RequestIsTyped DEF IInv
<1>2. BusTyped'
  BY <1>1, SentIsTyped DEF IInv, BusTyped, Request, can_write_fails, nodeVars
<1>3. loc \in Locals /\ loc.data = <<>> /\ Fits("wait", loc)
  BY LocalsFit DEF IInv, Request, ClientTyped, Fresh, Fits, Early
<1>4. CASE GoOn("wait", loc)
  BY <1>2, <1>3, <1>4, GoesOn DEF IInv
<1>5. CASE Abort
  BY <1>2, <1>5, Aborts DEF IInv
<1>6. CASE StartBlocks(0)
  BY <1>1, <1>2, <1>3, <1>6, BlocksStart DEF IInv
<1> QED
  BY <1>4, <1>5, <1>6 DEF Request

LEMMA ExpectedIsNatural ==
    ASSUME NEW n \in Nat
    PROVE  ExpectedSegments(n) \in Nat
<1>1. n \div SEGMENT_DATA_SIZE \in Nat
  BY NodeAssumption
<1> QED
  BY <1>1 DEF ExpectedSegments

LEMMA SegmentRequestStep ==
    ASSUME IInv, SegmentRequest, setup' = setup
    PROVE  IInv'
<1>1. loc \in Locals /\ loc.data = <<>>
  BY DEF IInv, SegmentRequest, ClientTyped, Fresh, Early
<1>2. [kind |-> "segment", toggle |-> loc.cmd] \in Requests
  BY <1>1 DEF Locals, Requests
<1>3. BusTyped'
  BY <1>2, SentIsTyped DEF IInv, BusTyped, SegmentRequest, can_write_fails, nodeVars
<1> DEFINE expected == ExpectedSegments(loc.length)
<1>4. expected \in Nat
  BY <1>1, NodeAssumption, ReadAssumption, ExpectedIsNatural DEF Locals
<1>5. CASE Abort
  BY <1>3, <1>5, Aborts DEF IInv
<1>6. CASE Return("segmented", <<>>)
  BY <1>3, <1>6, Returns, ReadAssumption DEF IInv
<1>7. CASE expected # 0 /\ GoOn("segments", [loc EXCEPT !.missing = expected])
  <2> HIDE DEF expected
  <2>1. Fits("segments", [loc EXCEPT !.missing = expected])
    BY <1>1, <1>4, <1>7 DEF Fits, Early, Later, Locals
  <2> QED
    BY <1>3, <1>7, <2>1, GoesOn DEF IInv
<1> QED
  BY <1>5, <1>6, <1>7 DEF SegmentRequest

LEMMA KeepStep ==
    ASSUME IInv, NEW f, NEW all \in Texts, Len(all) <= loc.length, Keep(f, all), setup' = setup
    PROVE  ClientTyped'
<1>1. loc \in Locals /\ Len(all) \in Nat /\ loc.length \in 0 .. ByteRange - 1
  BY DEF IInv, ClientTyped, Locals, Texts
<1>2. CASE Return("segmented", all)
  <2>1. Len(all) < ByteRange
    BY <1>1, ReadAssumption
  <2> QED
    BY <1>2, <2>1, Returns DEF IInv
<1>3. CASE /\ loc.missing > 1
           /\ GoOn("segments", [loc EXCEPT !.data = all, !.missing = @ - 1,
                                           !.cmd = IF f.even THEN 1 - @ ELSE @])
  <2> DEFINE cmd     == IF f.even THEN 1 - loc.cmd ELSE loc.cmd
             missing == loc.missing - 1
  <2>1. cmd \in Bit /\ missing \in Int /\ missing > 0
    BY <1>1, <1>3, OtherBit DEF Locals
  <2> HIDE DEF cmd, missing
  <2>2. Fits("segments", [loc EXCEPT !.data = all, !.missing = missing, !.cmd = cmd])
    BY <1>1, <2>1 DEF Fits, Early, Later, Locals
  <2>3. GoOn("segments", [loc EXCEPT !.data = all, !.missing = missing, !.cmd = cmd])
    BY <1>3 DEF cmd, missing
  <2> QED
    BY <2>2, <2>3, GoesOn DEF IInv
<1> QED
  BY <1>2, <1>3 DEF Keep

LEMMA SegmentAnswerStep ==
    ASSUME IInv, SegmentAnswer, setup' = setup
    PROVE  IInv'
<1> DEFINE f    == Head(rxq)
           text == IF f.kind = "segment" THEN Printable(f.text) ELSE <<>>
           all  == loc.data \o Stored(text)
           next == [kind |-> "segment", toggle |-> 1 - loc.cmd]
<1>1. f \in NodeFrames /\ rxq' \in Seq(Frames)
  BY AnswerIsRead DEF IInv, SegmentAnswer
<1>2. /\ loc.data \in Texts /\ loc.length \in Nat /\ Len(loc.data) <= loc.length
      /\ 1 - loc.cmd \in Bit
  BY OtherBit, ReadAssumption DEF IInv, ClientTyped, TypeOK, SegmentAnswer, Locals
<1>3. text \in Texts
  <2>1. f.text \in Texts /\ <<>> \in Texts
    BY <1>1 DEF NodeFrames, Texts
  <2> QED
    BY <2>1, PrintableIsText
<1>4. all \in Texts /\ Len(all) <= loc.length
  <2> HIDE DEF text
  <2> QED
    BY <1>2, <1>3, StoredFits
<1>5. next \in Requests
  BY <1>2 DEF Requests
<1>6. \/ UNCHANGED toNode /\ Keep(f, all)
      \/ can_write(next) /\ Keep(f, all)
      \/ can_write_fails /\ Abort
  BY DEF SegmentAnswer
<1> HIDE DEF all, next
<1>7. BusTyped'
  <2>1. od' = od /\ server' = server
    BY DEF SegmentAnswer, nodeVars
  <2>2. toNode' \in Seq(Requests)
    BY <1>5, <1>6, SentIsTyped DEF IInv, BusTyped, can_write_fails
  <2> QED
    BY <1>1, <2>1, <2>2 DEF IInv, BusTyped
<1>8. CASE Keep(f, all)
  BY <1>4, <1>7, <1>8, KeepStep DEF IInv
<1>9. CASE Abort
  BY <1>7, <1>9, Aborts DEF IInv
<1> QED
  BY <1>6, <1>8, <1>9

-----------------------------------------------------------------------------
(* Writing.                                                                *)

LEMMA WriteAnswerStep ==
    ASSUME IInv, WriteAnswer, setup' = setup
    PROVE  IInv'
<1>1. BusTyped' /\ loc \in Locals
  BY WaitsForStep DEF WriteAnswer
<1>2. req.text \in Texts
  BY RequestIsTyped DEF IInv
<1>3. CASE Abort
  BY <1>1, <1>3, Aborts DEF IInv
<1>4. CASE Return("written", <<>>)
  BY <1>1, <1>4, Returns DEF IInv
<1>5. CASE GoOn("next", [loc EXCEPT !.data = req.text])
  <2>1. Fits("next", [loc EXCEPT !.data = req.text])
    BY <1>1, <1>2 DEF Fits, Early, Later, Locals
  <2> QED
    BY <1>1, <1>5, <2>1, GoesOn DEF IInv
<1> QED
  BY <1>3, <1>4, <1>5 DEF WriteAnswer

LEMMA SendSegmentStep ==
    ASSUME IInv, SendSegment, setup' = setup
    PROVE  IInv'
<1>1. loc \in Locals /\ FirstPart(loc.data) \in Texts /\ RestOf(loc.data) \in Texts
  BY PartsOfText DEF IInv, ClientTyped, Locals
<1> DEFINE last == IsLast
<1>2. last \in BOOLEAN
  BY DEF IsLast
<1>3. [kind |-> "downloadSegment", toggle |-> loc.cmd, text |-> FirstPart(loc.data),
       last |-> last] \in Requests
  <2> HIDE DEF last
  <2> QED
    BY <1>1, <1>2 DEF Locals, Requests
<1>4. BusTyped'
  <2>1. UNCHANGED <<rxq, nodeVars>>
    BY DEF SendSegment
  <2>2. toNode' \in Seq(Requests)
    BY <1>3, SentIsTyped DEF IInv, BusTyped, SendSegment, can_write_fails
  <2> QED
    BY <2>1, <2>2 DEF IInv, BusTyped, nodeVars
<1>5. CASE Abort
  BY <1>4, <1>5, Aborts DEF IInv
<1>6. CASE Return("written", <<>>)
  BY <1>4, <1>6, Returns DEF IInv
<1>7. CASE GoOn("confirm", [loc EXCEPT !.data = RestOf(@)])
  <2>1. Fits("confirm", [loc EXCEPT !.data = RestOf(@)])
    BY <1>1 DEF Fits, Early, Later, Locals
  <2> QED
    BY <1>4, <1>7, <2>1, GoesOn DEF IInv
<1> QED
  BY <1>5, <1>6, <1>7 DEF SendSegment

LEMMA SegmentConfirmedStep ==
    ASSUME IInv, SegmentConfirmed, setup' = setup
    PROVE  IInv'
<1> DEFINE cmd == NextToggle(Head(rxq))
<1>1. Head(rxq) \in NodeFrames /\ BusTyped'
  BY AnswerIsRead DEF IInv, BusTyped, SegmentConfirmed, nodeVars
<1>2. loc \in Locals
  BY DEF IInv, ClientTyped
<1>3. cmd \in Bit
  <2>1. 1 - Head(rxq).toggle \in Bit /\ loc.cmd \in Bit
    BY <1>1, <1>2, OtherBit DEF NodeFrames, Locals
  <2> QED
    BY <2>1 DEF NextToggle
<1>4. GoOn("next", [loc EXCEPT !.cmd = cmd])
  BY DEF SegmentConfirmed
<1> HIDE DEF cmd
<1>5. Fits("next", [loc EXCEPT !.cmd = cmd])
  BY <1>2, <1>3 DEF Fits, Early, Later, Locals
<1> QED
  BY <1>1, <1>4, <1>5, GoesOn DEF IInv

LEMMA BlockAnswerStep ==
    ASSUME IInv, BlockAnswer, setup' = setup
    PROVE  IInv'
<1> DEFINE size == IF Head(rxq).kind = "blockReady" THEN Head(rxq).size ELSE 0
<1>1. Head(rxq) \in NodeFrames /\ BusTyped'
  BY WaitsForStep DEF BlockAnswer
<1>2. size \in Nat
  BY <1>1 DEF NodeFrames
<1>3. req.text \in Texts
  BY RequestIsTyped DEF IInv
<1>4. Abort \/ StartBlocks(size)
  BY DEF BlockAnswer
<1> HIDE DEF size
<1> QED
  BY <1>1, <1>2, <1>3, <1>4, Aborts, BlocksStart DEF IInv

LEMMA SendBlockSegmentStep ==
    ASSUME IInv, SendBlockSegment, setup' = setup
    PROVE  IInv'
<1> DEFINE last   == IsLast
           number == loc.segment_number
           rest   == RestOf(loc.data)
           next   == IF BlockFull THEN "ack" ELSE AfterBlock(rest)
<1>1. /\ loc \in Locals /\ FirstPart(loc.data) \in Texts /\ rest \in Texts
      /\ number \in Nat
  BY PartsOfText DEF IInv, ClientTyped, Locals
<1>2. last \in BOOLEAN /\ next \in Later /\ next # "segments"
  BY DEF IsLast, AfterBlock, Later
<1>3. [kind |-> "blockSegment", seq |-> number, text |-> FirstPart(loc.data), last |-> last]
         \in Requests
  <2> HIDE DEF last, number
  <2> QED
    BY <1>1, <1>2 DEF Requests
<1>4. BusTyped'
  <2>1. UNCHANGED <<rxq, nodeVars>>
    BY DEF SendBlockSegment
  <2>2. toNode' \in Seq(Requests)
    BY <1>3, SentIsTyped DEF IInv, BusTyped, SendBlockSegment, can_write_fails
  <2> QED
    BY <2>1, <2>2 DEF IInv, BusTyped, nodeVars
<1>5. Abort \/ GoOn(next, [loc EXCEPT !.data = rest, !.segment_number = number + 1])
  BY DEF SendBlockSegment
<1> HIDE DEF next, rest
<1>6. Fits(next, [loc EXCEPT !.data = rest, !.segment_number = number + 1])
  <2>1. number + 1 \in Nat
    BY <1>1
  <2> HIDE DEF number
  <2> QED
    BY <1>1, <1>2, <2>1 DEF Fits, Early, Later, Locals
<1> QED
  BY <1>4, <1>5, <1>6, Aborts, GoesOn DEF IInv

LEMMA BlockAcknowledgedStep ==
    ASSUME IInv, BlockAcknowledged, setup' = setup
    PROVE  IInv'
<1> DEFINE f    == Head(rxq)
           size == Least(f.size, loc.block_size)
           next == AfterBlock(loc.data)
<1>1. f \in NodeFrames /\ BusTyped'
  BY AnswerIsRead DEF IInv, BusTyped, BlockAcknowledged, nodeVars
<1>2. loc \in Locals /\ Fits("ack", loc)
  BY LocalsFit DEF IInv, ClientTyped, BlockAcknowledged
<1>3. size \in Nat
  <2>1. f.size \in Nat /\ loc.block_size \in Nat
    BY <1>1, <1>2 DEF NodeFrames, Locals
  <2> QED
    BY <2>1 DEF Least
<1>4. next \in Later /\ next # "segments"
  BY DEF AfterBlock, Later
<1>5. \/ GoOn(next, [loc EXCEPT !.block_size = size, !.segment_number = 1])
      \/ GoOn("ack", loc)
  BY DEF BlockAcknowledged
<1> HIDE DEF size, next
<1>6. Fits(next, [loc EXCEPT !.block_size = size, !.segment_number = 1])
  BY <1>2, <1>3, <1>4 DEF Fits, Early, Later, Locals
<1> QED
  BY <1>1, <1>2, <1>5, <1>6, GoesOn DEF IInv

LEMMA SendBlockEndStep ==
    ASSUME IInv, SendBlockEnd, setup' = setup
    PROVE  IInv'
<1>1. [kind |-> "blockEnd", unused |-> SEGMENT_DATA_SIZE] \in Requests
  BY NodeAssumption DEF Requests
<1>2. BusTyped'
  BY <1>1, SentIsTyped DEF IInv, BusTyped, SendBlockEnd, can_write_fails, nodeVars
<1>3. Fits("done", loc)
  BY DEF IInv, ClientTyped, Fits, Early, Later
<1> QED
  BY <1>2, <1>3, Aborts, GoesOn DEF IInv, SendBlockEnd

LEMMA BlockEndedStep ==
    ASSUME IInv, BlockEnded, setup' = setup
    PROVE  IInv'
<1>1. BusTyped'
  BY AnswerIsRead DEF IInv, BusTyped, BlockEnded, nodeVars
<1>2. Fits("done", loc)
  BY LocalsFit DEF IInv, BlockEnded
<1>3. CASE Return("written", <<>>)
  BY <1>1, <1>3, Returns DEF IInv
<1>4. CASE GoOn("done", loc)
  BY <1>1, <1>2, <1>4, GoesOn DEF IInv
<1> QED
  BY <1>3, <1>4 DEF BlockEnded

(* A poll takes time, but not more than there is.                          *)
LEMMA PollStep ==
    ASSUME IInv, Poll, setup' = setup
    PROVE  IInv'
<1>1. BusTyped'
  <2>1. toNode' = toNode /\ od' = od /\ server' = server
    BY DEF Poll, ReadsOther, SkipsOther, nodeVars
  <2>2. CASE ReadsOther
    BY <2>1, <2>2, AnyIsRead DEF IInv, BusTyped, ReadsOther
  <2>3. CASE SkipsOther
    <3>1. rxq' \in Seq(Frames)
      BY <2>3 DEF IInv, BusTyped, SkipsOther
    <3> QED
      BY <2>1, <3>1 DEF IInv, BusTyped
  <2> QED
    BY <2>2, <2>3 DEF Poll
<1>2. elapsed' \in 0 .. TIMEOUT
  BY LinkAssumption DEF IInv, ClientTyped, TypeOK, Poll, ReadsOther, SkipsOther
<1>3. MaxCalls' = MaxCalls /\ Calls' = Calls
  BY DEF MaxCalls, Calls
<1> QED
  BY <1>1, <1>2, <1>3 DEF IInv, ClientTyped, TypeOK, Fresh, Poll, clientVars

LEMMA TimeoutStep ==
    ASSUME IInv, Timeout, setup' = setup
    PROVE  IInv'
<1>1. BusTyped'
  BY DEF IInv, BusTyped, Timeout, nodeVars
<1> QED
  BY <1>1, Aborts DEF IInv, Timeout

-----------------------------------------------------------------------------
(* The node and the bus leave the client alone.                            *)

LEMMA ClientLeftAlone ==
    ASSUME ClientTyped, UNCHANGED <<setup, clientVars, elapsed>>
    PROVE  ClientTyped'
<1>1. MaxCalls' = MaxCalls /\ Calls' = Calls
  BY DEF MaxCalls, Calls
<1> QED
  BY <1>1 DEF ClientTyped, TypeOK, Fresh, clientVars

LEMMA NodeStepStep ==
    ASSUME IInv, NodeStep
    PROVE  IInv'
<1>1. BusTyped' /\ elapsed' = elapsed
  BY NodeIsTyped DEF IInv, ClientTyped, TypeOK, NodeStep
<1> QED
  BY <1>1, ClientLeftAlone DEF IInv, NodeStep

LEMMA BusStepStep ==
    ASSUME IInv, BusStep
    PROVE  IInv'
<1>1. OtherFrame \in Frames
  BY DEF Frames
<1>2. elapsed' = elapsed /\ UNCHANGED <<setup, clientVars, nodeVars>>
  BY DEF BusStep, OtherTraffic, LoseRequest
<1>3. rxq \in Seq(Frames) /\ toNode \in Seq(Requests)
  BY DEF IInv, BusTyped
<1>4. rxq' \in Seq(Frames) /\ toNode' \in Seq(Requests)
  <2>1. CASE OtherTraffic
    BY <1>1, <1>3, <2>1 DEF OtherTraffic, Answers
  <2>2. CASE LoseRequest
    BY <1>3, <2>2 DEF LoseRequest
  <2> QED
    BY <2>1, <2>2 DEF BusStep
<1>5. BusTyped'
  BY <1>2, <1>4 DEF IInv, BusTyped, nodeVars
<1> QED
  BY <1>2, <1>5, ClientLeftAlone DEF IInv

LEMMA InitTyped == Init => IInv
<1> SUFFICES ASSUME Init PROVE IInv
  OBVIOUS
<1>1. setup \in DOMAIN Setups /\ elapsed = 0 /\ toNode = <<>> /\ rxq = <<>>
      /\ od = OD /\ server = NoServer
  BY DEF Init, LinkInit, NodeInit
<1>2. /\ pc = "idle" /\ req = NoRequest /\ loc = NoLocals /\ result = NoResult /\ calls = 0
  BY DEF Init, ClientInit
<1>3. MaxCalls \in Nat /\ TIMEOUT \in Nat
  BY <1>1, ReadAssumption, LinkAssumption DEF MaxCalls
<1>4. Fits("idle", NoLocals)
  BY NoLocalsFit DEF Early
<1>5. result.state = "none"
  BY <1>2 DEF NoResult
<1>6. TypeOK
  BY <1>1, <1>2, <1>3, <1>4, <1>5 DEF TypeOK, Fits, Locals, Bit
<1>7. od \in [DOMAIN od -> Objects(Chars \cup {Beyond})]
  <2>1. od \in [DOMAIN od -> Objects(Chars)]
    BY <1>1, NodeAssumption DEF OD
  <2>2. Objects(Chars) \subseteq Objects(Chars \cup {Beyond})
    BY DEF Objects
  <2> QED
    BY <2>1, <2>2
<1>8. BusTyped
  <2>1. toNode \in Seq(Requests) /\ rxq \in Seq(Frames)
    BY <1>1
  <2> QED
    BY <1>1, <1>7, <2>1, NothingIsTyped DEF BusTyped
<1> QED
  BY <1>2, <1>4, <1>6, <1>8 DEF IInv, ClientTyped, Fresh, Fits, Early

LEMMA InvStep ==
    ASSUME IInv, [Next]_vars
    PROVE  IInv'
<1>1. CASE Call /\ UNCHANGED setup
  BY <1>1, CallStep
<1>2. CASE (Request \/ DropAnswer \/ Poll \/ Timeout) /\ UNCHANGED setup
  BY <1>2, RequestStep, DropAnswerStep, PollStep, TimeoutStep
<1>3. CASE Reading /\ UNCHANGED setup
  BY <1>3, ClearBufferStep, ReadAnswerStep, SegmentRequestStep, SegmentAnswerStep DEF Reading
<1>4. CASE Writing /\ UNCHANGED setup
  BY <1>4, WriteAnswerStep, SendSegmentStep, SegmentConfirmedStep, BlockAnswerStep,
     SendBlockSegmentStep, BlockAcknowledgedStep, SendBlockEndStep, BlockEndedStep DEF Writing
<1>5. CASE NodeStep
  BY <1>5, NodeStepStep
<1>6. CASE BusStep
  BY <1>6, BusStepStep
<1>7. CASE UNCHANGED vars
  <2>1. UNCHANGED <<setup, clientVars, elapsed>> /\ UNCHANGED <<toNode, rxq, od, server>>
    BY <1>7 DEF vars, clientVars
  <2> QED
    BY <2>1, ClientLeftAlone DEF IInv, BusTyped
<1> QED
  BY <1>1, <1>2, <1>3, <1>4, <1>5, <1>6, <1>7 DEF Next, Client

(* The state of the client is of its type: however the answers come, late, *)
(* lost, out of turn or from an abort, the text of an upload never exceeds *)
(* the length kept of it, nor does what is returned.                       *)
THEOREM TypeCorrect == Spec => []TypeOK
<1>1. Init => IInv
  BY InitTyped
<1>2. IInv /\ [Next]_vars => IInv'
  BY InvStep
<1>3. IInv => TypeOK
  BY DEF IInv, ClientTyped
<1> QED
  BY <1>1, <1>2, <1>3, PTL DEF Spec

-----------------------------------------------------------------------------
(* An expedited read returns what is known under its index, if the objects *)
(* that are read in one frame are written in one: then every such object,  *)
(* every request to write one, every answer with one has a known text, and *)
(* no transfer in segments or blocks is about one.                         *)

NotExpedited(key) == key \in DOMAIN OD => ~OD[key].expedited

GoodRequest(f) ==
    /\ f.kind = "download" => Known(f.key[1], f.text)
    /\ f.kind \in {"downloadInit", "blockInit"} => NotExpedited(f.key)
GoodFrame(f) == IsAnswer(f) /\ f.kind = "expedited" => Known(f.key[1], f.text)

GoodRequests == \A i \in 1 .. Len(toNode) : GoodRequest(toNode[i])
GoodFrames   == \A i \in 1 .. Len(rxq) : GoodFrame(rxq[i])
GoodServer   == server.mode \in {"download", "block", "blockEnd"} => NotExpedited(server.key)
GoodObjects  ==
    /\ DOMAIN od = DOMAIN OD
    /\ \A key \in DOMAIN od : /\ od[key].expedited = OD[key].expedited
                              /\ od[key].expedited => Known(key[1], od[key].text)

GoodBus   == GoodRequests /\ GoodFrames /\ GoodServer /\ GoodObjects
GoodCall  == pc \in {"clear", "request"} => req \in Calls
CallInv   == GoodCall /\ IndexNeverConfused
IndexInv  == GoodBus /\ CallInv

(* What is known does not change.                                          *)
LEMMA KnownStays ==
    ASSUME setup' = setup
    PROVE  /\ OD' = OD /\ Calls' = Calls
           /\ \A index, text : Known(index, text)' <=> Known(index, text)
<1>1. OD' = OD /\ Calls' = Calls
  BY DEF OD, Calls
<1> QED
  BY <1>1 DEF Known

LEMMA GoodStays ==
    ASSUME setup' = setup
    PROVE  /\ \A f : GoodRequest(f)' <=> GoodRequest(f)
           /\ \A f : GoodFrame(f)' <=> GoodFrame(f)
           /\ \A key : NotExpedited(key)' <=> NotExpedited(key)
<1>1. \A key : NotExpedited(key)' <=> NotExpedited(key)
  BY KnownStays DEF NotExpedited
<1>2. \A f : GoodFrame(f)' <=> GoodFrame(f)
  BY KnownStays DEF GoodFrame
<1>3. \A f : GoodRequest(f)' <=> GoodRequest(f)
  BY <1>1, KnownStays DEF GoodRequest
<1> QED
  BY <1>1, <1>2, <1>3

LEMMA GoodAppended ==
    ASSUME rxq \in Seq(Frames), GoodFrames, setup' = setup, NEW f, GoodFrame(f),
           rxq' = Append(rxq, f)
    PROVE  GoodFrames'
<1>1. Len(rxq') = Len(rxq) + 1
      /\ \A i \in 1 .. Len(rxq) + 1 : rxq'[i] = IF i <= Len(rxq) THEN rxq[i] ELSE f
  OBVIOUS
<1>2. \A i \in 1 .. Len(rxq) + 1 : GoodFrame(rxq'[i])
  BY <1>1 DEF GoodFrames
<1> QED
  BY <1>1, <1>2, GoodStays DEF GoodFrames

LEMMA GoodTail ==
    ASSUME rxq \in Seq(Frames), GoodFrames, setup' = setup,
           rxq' = rxq \/ (rxq # <<>> /\ rxq' = Tail(rxq))
    PROVE  GoodFrames'
<1>1. CASE rxq' = rxq
  BY <1>1, GoodStays DEF GoodFrames
<1>2. CASE rxq # <<>> /\ rxq' = Tail(rxq)
  <2>1. \A i \in 1 .. Len(rxq') : i + 1 \in 1 .. Len(rxq) /\ rxq'[i] = rxq[i + 1]
    BY <1>2
  <2> QED
    BY <2>1, GoodStays DEF GoodFrames
<1> QED
  BY <1>1, <1>2

LEMMA GoodDelivered ==
    ASSUME BusTyped, GoodFrames, setup' = setup, NEW f, GoodFrame(f), Delivers(f)
    PROVE  GoodFrames'
  BY GoodAppended, GoodTail DEF BusTyped, Delivers, Answers

LEMMA GoodReceived ==
    ASSUME BusTyped, GoodRequests, setup' = setup, NEW kind, Receives(kind)
    PROVE  GoodRequest(r) /\ r.kind = kind /\ r \in Requests /\ GoodRequests'
<1>1. toNode \in Seq(Requests) /\ toNode # <<>> /\ toNode' = Tail(toNode)
  BY DEF BusTyped, Receives
<1>2. GoodRequest(r) /\ r.kind = kind /\ r \in Requests
  BY <1>1 DEF GoodRequests, Receives, r
<1>3. \A i \in 1 .. Len(toNode') : i + 1 \in 1 .. Len(toNode) /\ toNode'[i] = toNode[i + 1]
  BY <1>1
<1> QED
  BY <1>2, <1>3, GoodStays DEF GoodRequests

LEMMA GoodWritten ==
    ASSUME BusTyped, GoodRequests, setup' = setup, NEW f, GoodRequest(f),
           can_write(f) \/ toNode' = toNode
    PROVE  GoodRequests'
<1>1. CASE toNode' = toNode
  BY <1>1, GoodStays DEF GoodRequests
<1>2. CASE can_write(f)
  <2>1. Len(toNode') = Len(toNode) + 1
        /\ \A i \in 1 .. Len(toNode) + 1 : toNode'[i] = IF i <= Len(toNode) THEN toNode[i] ELSE f
    BY <1>2 DEF BusTyped, can_write
  <2>2. \A i \in 1 .. Len(toNode) + 1 : GoodRequest(toNode'[i])
    BY <2>1 DEF GoodRequests
  <2> QED
    BY <2>1, <2>2, GoodStays DEF GoodRequests
<1> QED
  BY <1>1, <1>2

-----------------------------------------------------------------------------
(* The node keeps what it stores and answers good: one lemma per request.  *)

LEMMA GoodObjectsStay ==
    ASSUME GoodObjects, setup' = setup, od' = od
    PROVE  GoodObjects'
<1>1. OD' = OD /\ \A index, text : Known(index, text) => Known(index, text)'
  BY KnownStays
<1> QED
  BY <1>1 DEF GoodObjects

LEMMA GoodServerEnds ==
    ASSUME server' = NoServer
    PROVE  GoodServer'
  BY DEF GoodServer, NoServer

LEMMA GoodServerGoesOn ==
    ASSUME GoodServer, setup' = setup, server'.key = server.key,
           server'.mode \in {"download", "block", "blockEnd"} =>
              server.mode \in {"download", "block", "blockEnd"}
    PROVE  GoodServer'
  BY GoodStays DEF GoodServer

LEMMA GoodServerStarts ==
    ASSUME NotExpedited(server'.key), setup' = setup
    PROVE  GoodServer'
  BY GoodStays DEF GoodServer

(* A known text may be stored in any object, any text in one that is not   *)
(* read in one frame.                                                      *)
LEMMA GoodStored ==
    ASSUME BusTyped, GoodObjects, setup' = setup, NEW key, NEW text,
           NotExpedited(key) \/ Known(key[1], text), od' = [od EXCEPT ![key].text = text]
    PROVE  GoodObjects'
<1>1. OD' = OD /\ \A index, txt : Known(index, txt) => Known(index, txt)'
  BY KnownStays
<1>2. DOMAIN od' = DOMAIN OD
  BY DEF GoodObjects
<1>3. ASSUME NEW other \in DOMAIN od, other # key
      PROVE  od'[other] = od[other]
  BY <1>3
<1>4. ASSUME key \in DOMAIN od
      PROVE  /\ od'[key].expedited = OD[key].expedited
             /\ od'[key].expedited => Known(key[1], text)
             /\ od'[key].text = text
  <2>1. od'[key] = [od[key] EXCEPT !.text = text]
    BY <1>4
  <2>2. od[key] \in Objects(Chars \cup {Beyond})
    BY <1>4 DEF BusTyped
  <2>3. od'[key].expedited = od[key].expedited /\ od'[key].text = text
    BY <2>1, <2>2 DEF Objects
  <2>4. od[key].expedited = OD[key].expedited /\ key \in DOMAIN OD
    BY <1>4 DEF GoodObjects
  <2> QED
    BY <2>3, <2>4 DEF NotExpedited
<1> QED
  BY <1>1, <1>2, <1>3, <1>4 DEF GoodObjects

LEMMA GoodAbort ==
    ASSUME BusTyped, GoodBus, setup' = setup, AbortsTransfer
    PROVE  GoodFrames' /\ GoodServer' /\ GoodObjects'
<1>1. GoodFrame([AnswerFrame EXCEPT !.key = server.key])
  BY DEF GoodFrame, AnswerFrame
<1> QED
  BY <1>1, GoodDelivered, GoodServerEnds, GoodObjectsStay DEF GoodBus, AbortsTransfer

LEMMA GoodUnknown ==
    ASSUME BusTyped, GoodBus, setup' = setup, Unknown
    PROVE  GoodFrames' /\ GoodServer' /\ GoodObjects'
<1>1. GoodFrame([AnswerFrame EXCEPT !.key = r.key])
  BY DEF GoodFrame, AnswerFrame
<1> QED
  BY <1>1, GoodDelivered, GoodServerEnds, GoodObjectsStay DEF GoodBus, Unknown

LEMMA GoodUpload ==
    ASSUME BusTyped, GoodBus, setup' = setup, NodeUpload
    PROVE  GoodBus'
<1>1. GoodRequests'
  BY GoodReceived DEF GoodBus, NodeUpload
<1>2. CASE Unknown
  BY <1>1, <1>2, GoodUnknown DEF GoodBus
<1>3. CASE /\ r.key \in DOMAIN od /\ od[r.key].expedited
           /\ Delivers([AnswerFrame EXCEPT !.kind = "expedited", !.key = r.key,
                                           !.text = od[r.key].text, !.even = FALSE])
           /\ server' = NoServer /\ UNCHANGED od
  <2> DEFINE f == [AnswerFrame EXCEPT !.kind = "expedited", !.key = r.key,
                                      !.text = od[r.key].text, !.even = FALSE]
  <2>1. Known(r.key[1], od[r.key].text)
    BY <1>3 DEF GoodBus, GoodObjects
  <2>2. f.key = r.key /\ f.text = od[r.key].text
    BY DEF AnswerFrame
  <2> HIDE DEF f
  <2>3. GoodFrame(f)
    BY <2>1, <2>2 DEF GoodFrame
  <2>4. Delivers(f)
    BY <1>3 DEF f
  <2> QED
    BY <1>1, <1>3, <2>3, <2>4, GoodDelivered, GoodServerEnds, GoodObjectsStay DEF GoodBus
<1>4. CASE /\ r.key \in DOMAIN od /\ ~od[r.key].expedited
           /\ Delivers([AnswerFrame EXCEPT
                 !.kind = "initiate", !.key = r.key, !.even = ~od[r.key].sized,
                 !.size = IF od[r.key].sized THEN Len(od[r.key].text) ELSE 0])
           /\ server' = [NoServer EXCEPT !.mode = "upload", !.key = r.key,
                                         !.text = od[r.key].text]
           /\ UNCHANGED od
  <2>1. GoodFrame([AnswerFrame EXCEPT
                 !.kind = "initiate", !.key = r.key, !.even = ~od[r.key].sized,
                 !.size = IF od[r.key].sized THEN Len(od[r.key].text) ELSE 0])
    BY DEF GoodFrame, AnswerFrame
  <2>2. server'.mode = "upload"
    BY <1>4 DEF NoServer
  <2>3. GoodServer'
    BY <2>2 DEF GoodServer
  <2> QED
    BY <1>1, <1>4, <2>1, <2>3, GoodDelivered, GoodObjectsStay DEF GoodBus
<1> QED
  BY <1>2, <1>3, <1>4 DEF NodeUpload

LEMMA GoodSegment ==
    ASSUME BusTyped, GoodBus, setup' = setup, NodeSegment
    PROVE  GoodBus'
<1>1. GoodRequests'
  BY GoodReceived DEF GoodBus, NodeSegment
<1>2. CASE AbortsTransfer
  BY <1>1, <1>2, GoodAbort DEF GoodBus
<1>3. ASSUME NEW last, server.mode = "upload",
             Delivers([AnswerFrame EXCEPT !.kind = "segment", !.even = ~last,
                                          !.text = FirstPart(server.text)]),
             server' = IF last THEN NoServer
                       ELSE [server EXCEPT !.text = RestOf(@), !.toggle = 1 - @],
             UNCHANGED od
      PROVE  GoodBus'
  <2>1. GoodFrame([AnswerFrame EXCEPT !.kind = "segment", !.even = ~last,
                                      !.text = FirstPart(server.text)])
    BY DEF GoodFrame, AnswerFrame
  <2>2. server'.mode \in {"none", "upload"}
    BY <1>3 DEF BusTyped, Servers, NoServer
  <2>3. GoodServer'
    BY <2>2 DEF GoodServer
  <2> QED
    BY <1>1, <1>3, <2>1, <2>3, GoodDelivered, GoodObjectsStay DEF GoodBus
<1> QED
  BY <1>2, <1>3 DEF NodeSegment, MayAbort

LEMMA GoodDownload ==
    ASSUME BusTyped, GoodBus, setup' = setup, NodeDownload
    PROVE  GoodBus'
<1>1. GoodRequests' /\ Known(r.key[1], r.text)
  BY GoodReceived DEF GoodBus, NodeDownload, GoodRequest
<1>2. CASE Unknown
  BY <1>1, <1>2, GoodUnknown DEF GoodBus
<1>3. CASE ~Unknown
  <2>1. GoodFrame([AnswerFrame EXCEPT !.kind = "downloaded", !.key = r.key])
    BY DEF GoodFrame, AnswerFrame
  <2>2. /\ od' = [od EXCEPT ![r.key].text = r.text] /\ server' = NoServer
        /\ Delivers([AnswerFrame EXCEPT !.kind = "downloaded", !.key = r.key])
    BY <1>3 DEF NodeDownload
  <2>3. GoodObjects'
    BY <1>1, <2>2, GoodStored DEF GoodBus
  <2> QED
    BY <1>1, <2>1, <2>2, <2>3, GoodDelivered, GoodServerEnds DEF GoodBus
<1> QED
  BY <1>2, <1>3

LEMMA GoodDownloadInit ==
    ASSUME BusTyped, GoodBus, setup' = setup, NodeDownloadInit
    PROVE  GoodBus'
<1>1. GoodRequests' /\ NotExpedited(r.key)
  BY GoodReceived DEF GoodBus, NodeDownloadInit, GoodRequest
<1>2. CASE Unknown
  BY <1>1, <1>2, GoodUnknown DEF GoodBus
<1>3. CASE ~Unknown
  <2>1. GoodFrame([AnswerFrame EXCEPT !.kind = "downloaded", !.key = r.key])
    BY DEF GoodFrame, AnswerFrame
  <2>2. server'.key = r.key
    BY <1>3 DEF NodeDownloadInit, NoServer
  <2> QED
    BY <1>1, <1>3, <2>1, <2>2, GoodDelivered, GoodServerStarts, GoodObjectsStay
       DEF NodeDownloadInit, GoodBus
<1> QED
  BY <1>2, <1>3

LEMMA GoodDownloadSegment ==
    ASSUME BusTyped, GoodBus, setup' = setup, NodeDownloadSegment
    PROVE  GoodBus'
<1>1. GoodRequests'
  BY GoodReceived DEF GoodBus, NodeDownloadSegment
<1>2. CASE AbortsTransfer
  BY <1>1, <1>2, GoodAbort DEF GoodBus
<1>3. CASE ~AbortsTransfer
  <2> DEFINE all  == server.text \o r.text
             part == SubSeq(all, 1, Least(Len(all), server.size))
  <2>1. GoodFrame([AnswerFrame EXCEPT !.kind = "confirm", !.toggle = r.toggle])
    BY DEF GoodFrame, AnswerFrame
  <2>2. GoodFrames'
    BY <1>3, <2>1, GoodDelivered DEF NodeDownloadSegment, MayAbort, GoodBus
  <2>3. server.mode = "download"
    BY <1>3 DEF NodeDownloadSegment, MayAbort
  <2>4. \/ od' = [od EXCEPT ![server.key].text = part] /\ server' = NoServer
        \/ server' = [server EXCEPT !.text = all, !.toggle = 1 - @] /\ UNCHANGED od
    BY <1>3 DEF NodeDownloadSegment, MayAbort
  <2> HIDE DEF all, part
  <2>5. NotExpedited(server.key)
    BY <2>3 DEF GoodBus, GoodServer
  <2>6. GoodObjects'
    BY <2>4, <2>5, GoodStored, GoodObjectsStay DEF GoodBus
  <2>7. GoodServer'
    <3>1. CASE server' = NoServer
      BY <3>1, GoodServerEnds
    <3>2. CASE server' = [server EXCEPT !.text = all, !.toggle = 1 - @]
      <4>1. server'.key = server.key
        BY <3>2 DEF BusTyped, Servers
      <4> QED
        BY <2>5, <4>1, GoodServerStarts
    <3> QED
      BY <2>4, <3>1, <3>2
  <2> QED
    BY <1>1, <2>2, <2>6, <2>7 DEF GoodBus
<1> QED
  BY <1>2, <1>3

LEMMA GoodBlockInit ==
    ASSUME BusTyped, GoodBus, setup' = setup, NodeBlockInit
    PROVE  GoodBus'
<1>1. GoodRequests' /\ NotExpedited(r.key)
  BY GoodReceived DEF GoodBus, NodeBlockInit, GoodRequest
<1>2. CASE Unknown
  BY <1>1, <1>2, GoodUnknown DEF GoodBus
<1>3. CASE ~Unknown
  <2>1. PICK b \in BlockSizes :
           /\ server' = [NoServer EXCEPT !.mode = "block", !.key = r.key, !.size = b]
           /\ Delivers([AnswerFrame EXCEPT !.kind = "blockReady", !.key = r.key, !.size = b])
    BY <1>3 DEF NodeBlockInit
  <2>2. GoodFrame([AnswerFrame EXCEPT !.kind = "blockReady", !.key = r.key, !.size = b])
    BY DEF GoodFrame, AnswerFrame
  <2>3. server'.key = r.key
    BY <2>1 DEF NoServer
  <2> QED
    BY <1>1, <1>3, <2>1, <2>2, <2>3, GoodDelivered, GoodServerStarts, GoodObjectsStay
       DEF NodeBlockInit, GoodBus
<1> QED
  BY <1>2, <1>3

LEMMA GoodBlockSegment ==
    ASSUME BusTyped, GoodBus, setup' = setup, NodeBlockSegment
    PROVE  GoodBus'
<1>1. GoodRequests'
  BY GoodReceived DEF GoodBus, NodeBlockSegment
<1>2. CASE AbortsTransfer
  BY <1>1, <1>2, GoodAbort DEF GoodBus
<1>3. CASE ~AbortsTransfer
  <2> DEFINE inOrder == r.seq = server.seq + 1
             got     == IF inOrder
                        THEN [server EXCEPT !.text = @ \o r.text, !.seq = @ + 1,
                                            !.last = Len(r.text)]
                        ELSE server
             mode    == IF r.last /\ inOrder THEN "blockEnd" ELSE "block"
  <2>1. server.mode = "block" /\ NotExpedited(server.key) /\ od' = od
    BY <1>3 DEF NodeBlockSegment, MayAbort, GoodBus, GoodServer
  <2>2. \/ \E b \in BlockSizes :
             /\ server' = [got EXCEPT !.mode = mode, !.seq = 0, !.size = b]
             /\ Delivers([AnswerFrame EXCEPT !.kind = "blockAck", !.seq = got.seq, !.size = b])
        \/ server' = got /\ UNCHANGED rxq
    BY <1>3 DEF NodeBlockSegment, MayAbort
  <2>3. /\ got.key = server.key
        /\ \A m, n : [got EXCEPT !.mode = m, !.seq = 0, !.size = n].key = got.key
    BY DEF BusTyped, Servers
  <2> HIDE DEF inOrder, got, mode
  <2>4. server'.key = server.key
    BY <2>2, <2>3
  <2>5. GoodFrames'
    <3>1. \A n, b : GoodFrame([AnswerFrame EXCEPT !.kind = "blockAck", !.seq = n, !.size = b])
      BY DEF GoodFrame, AnswerFrame
    <3> QED
      BY <2>2, <3>1, GoodDelivered, GoodTail DEF GoodBus, BusTyped
  <2> QED
    BY <1>1, <2>1, <2>4, <2>5, GoodServerStarts, GoodObjectsStay DEF GoodBus
<1> QED
  BY <1>2, <1>3

LEMMA GoodBlockEnd ==
    ASSUME BusTyped, GoodBus, setup' = setup, NodeBlockEnd
    PROVE  GoodBus'
<1>1. GoodRequests'
  BY GoodReceived DEF GoodBus, NodeBlockEnd
<1>2. CASE AbortsTransfer
  BY <1>1, <1>2, GoodAbort DEF GoodBus
<1>3. CASE ~AbortsTransfer
  <2> DEFINE part == SubSeq(server.text, 1, Len(server.text) - server.last +
                            Least(server.last, SEGMENT_DATA_SIZE - r.unused))
  <2>1. GoodFrame([AnswerFrame EXCEPT !.kind = "blockDone", !.even = FALSE])
    BY DEF GoodFrame, AnswerFrame
  <2>2. /\ server.mode = "blockEnd" /\ server' = NoServer
        /\ od' = [od EXCEPT ![server.key].text = part]
        /\ Delivers([AnswerFrame EXCEPT !.kind = "blockDone", !.even = FALSE])
    BY <1>3 DEF NodeBlockEnd
  <2> HIDE DEF part
  <2>3. GoodObjects'
    BY <2>2, GoodStored DEF GoodBus, GoodServer
  <2> QED
    BY <1>1, <2>1, <2>2, <2>3, GoodDelivered, GoodServerEnds DEF GoodBus
<1> QED
  BY <1>2, <1>3

LEMMA GoodNode ==
    ASSUME BusTyped, GoodBus, setup' = setup, Node
    PROVE  GoodBus'
  BY GoodUpload, GoodSegment, GoodDownload, GoodDownloadInit, GoodDownloadSegment,
     GoodBlockInit, GoodBlockSegment, GoodBlockEnd DEF Node

-----------------------------------------------------------------------------
(* The client sends good requests and returns what is known.               *)

LEMMA FirstFrameIsGood ==
    ASSUME WrittenAsRead, setup \in DOMAIN Setups, req \in Calls
    PROVE  GoodRequest(FirstFrame(req))
<1>1. \/ req.op = "read" \/ IsExpedited(req)
      \/ req.key \in DOMAIN OD => ~OD[req.key].expedited
  BY DEF WrittenAsRead, Calls, OD
<1>2. CASE req.op = "read"
  BY <1>2 DEF GoodRequest, FirstFrame
<1>3. CASE req.op # "read" /\ IsExpedited(req)
  <2>1. FirstFrame(req).key = req.key /\ FirstFrame(req).kind = "download"
    BY <1>3 DEF FirstFrame
  <2> QED
    BY <1>3, <2>1 DEF GoodRequest, Known
<1>4. CASE req.op # "read" /\ ~IsExpedited(req)
  <2>1. FirstFrame(req).key = req.key /\ FirstFrame(req).kind # "download"
    BY <1>4 DEF FirstFrame
  <2> QED
    BY <1>1, <1>4, <2>1 DEF GoodRequest, NotExpedited
<1> QED
  BY <1>2, <1>3, <1>4

(* A step of the client that reads at most one frame and sends at most one *)
(* request, of a kind that cannot be wrong.                                *)
LEMMA GoodClient ==
    ASSUME BusTyped, GoodBus, UNCHANGED <<setup, nodeVars>>,
           NEW f, GoodRequest(f), can_write(f) \/ toNode' = toNode,
           rxq' = rxq \/ (rxq # <<>> /\ rxq' = Tail(rxq))
    PROVE  GoodBus'
<1>1. rxq \in Seq(Frames)
  BY DEF BusTyped
<1>2. GoodRequests' /\ GoodFrames'
  BY <1>1, GoodWritten, GoodTail DEF GoodBus
<1>3. od' = od /\ server' = server
  BY DEF nodeVars
<1>4. GoodObjects' /\ GoodServer'
  BY <1>3, GoodObjectsStay, GoodServerGoesOn DEF GoodBus
<1> QED
  BY <1>2, <1>4 DEF GoodBus

LEMMA OtherRequestIsGood ==
    ASSUME NEW f, f.kind \in {"upload", "segment", "downloadSegment", "blockSegment", "blockEnd"}
    PROVE  GoodRequest(f)
  BY DEF GoodRequest

LEMMA GoodReader ==
    ASSUME BusTyped, GoodBus, UNCHANGED <<setup, toNode, nodeVars>>,
           rxq' = rxq \/ (rxq # <<>> /\ rxq' = Tail(rxq))
    PROVE  GoodBus'
<1>1. [kind |-> "segment"].kind = "segment"
  OBVIOUS
<1>2. GoodRequest([kind |-> "segment"])
  BY <1>1, OtherRequestIsGood
<1> QED
  BY <1>2, GoodClient

(* The call and what it has returned, where the client goes on or returns. *)
LEMMA CallGoesOn ==
    ASSUME CallInv, setup' = setup, NEW next, NEW locals, GoOn(next, locals),
           next \in {"clear", "request"} => req \in Calls
    PROVE  CallInv'
<1>1. pc' = next /\ req' = req /\ result' = result
  BY DEF GoOn
<1> QED
  BY <1>1, KnownStays DEF CallInv, GoodCall, IndexNeverConfused

LEMMA CallReturns ==
    ASSUME setup' = setup, NEW state, NEW text, Return(state, text),
           state = "expedited" => Known(req.key[1], text)
    PROVE  CallInv'
<1>1. pc' = "idle" /\ result' = [state |-> state, req |-> req, data |-> text]
  BY DEF Return
<1>2. result'.state = state /\ result'.req = req /\ result'.data = text
  BY <1>1
<1>3. GoodCall'
  BY <1>1 DEF GoodCall
<1>4. IndexNeverConfused'
  BY <1>2, KnownStays DEF IndexNeverConfused
<1> QED
  BY <1>3, <1>4 DEF CallInv

LEMMA CallAborts ==
    ASSUME setup' = setup, Abort
    PROVE  CallInv'
  BY CallReturns DEF Abort

LEMMA CallStays ==
    ASSUME CallInv, setup' = setup, UNCHANGED clientVars
    PROVE  CallInv'
  BY KnownStays DEF CallInv, GoodCall, IndexNeverConfused, clientVars
LEMMA IndexCall ==
    ASSUME IInv, IndexInv, Call, setup' = setup
    PROVE  IndexInv'
<1>1. GoodBus'
  BY GoodReader DEF IInv, IndexInv, Call, linkVars
<1>2. GoodCall' /\ IndexNeverConfused'
  <2>1. Calls' = Calls /\ pc = "idle"
    BY KnownStays DEF Call
  <2>2. PICK c \in Calls :
           \/ /\ req' = c /\ pc' = IF c.op = "read" THEN "clear" ELSE "request"
              /\ result' = NoResult
           \/ /\ c.op = "file" /\ "file" \in Faults
              /\ result' = [state |-> "abort", req |-> c, data |-> <<>>] /\ UNCHANGED <<pc, req>>
    BY DEF Call
  <2>3. result'.state \in {"none", "abort"}
    BY <2>2 DEF NoResult
  <2> QED
    BY <2>1, <2>2, <2>3 DEF GoodCall, IndexNeverConfused
<1> QED
  BY <1>1, <1>2 DEF IndexInv, CallInv

LEMMA IndexRequest ==
    ASSUME WrittenAsRead, IInv, IndexInv, Request, setup' = setup
    PROVE  IndexInv'
<1>1. req \in Calls /\ setup \in DOMAIN Setups
  BY DEF IInv, ClientTyped, TypeOK, IndexInv, CallInv, GoodCall, Request
<1>2. GoodRequest(FirstFrame(req))
  BY <1>1, FirstFrameIsGood
<1>3. GoodBus'
  BY <1>2, GoodClient DEF IInv, IndexInv, Request, can_write_fails
<1>4. CASE Abort
  BY <1>3, <1>4, CallAborts DEF IndexInv
<1>5. CASE GoOn("wait", loc)
  BY <1>3, <1>5, CallGoesOn DEF IndexInv
<1>6. CASE StartBlocks(0)
  BY <1>1, <1>3, <1>6, CallGoesOn DEF IndexInv, StartBlocks
<1> QED
  BY <1>4, <1>5, <1>6 DEF Request

(* The only step that returns what one frame holds.                        *)
LEMMA IndexReadAnswer ==
    ASSUME IInv, IndexInv, ReadAnswer, setup' = setup
    PROVE  IndexInv'
<1> DEFINE f == Head(rxq)
<1>1. rxq # <<>> /\ IsAnswer(f) /\ f.key[1] = req.key[1]
  BY DEF ReadAnswer, WaitsFor, ReadsAnswer, IndexOfRequest
<1>2. GoodFrame(f)
  BY <1>1 DEF IInv, BusTyped, IndexInv, GoodBus, GoodFrames
<1>3. GoodBus'
  BY GoodReader DEF IInv, IndexInv, ReadAnswer, WaitsFor, ReadsAnswer
<1>4. CASE f.kind = "expedited" /\ Return("expedited", f.text)
  BY <1>1, <1>2, <1>3, <1>4, CallReturns DEF IndexInv, GoodFrame
<1>5. CASE GoOn("segment", [loc EXCEPT !.length = f.size % ByteRange])
  BY <1>3, <1>5, CallGoesOn DEF IndexInv
<1>6. CASE Abort
  BY <1>3, <1>6, CallAborts DEF IndexInv
<1> QED
  BY <1>4, <1>5, <1>6 DEF ReadAnswer

LEMMA IndexSegmentRequest ==
    ASSUME IInv, IndexInv, SegmentRequest, setup' = setup
    PROVE  IndexInv'
<1>1. GoodRequest([kind |-> "segment", toggle |-> loc.cmd])
  BY OtherRequestIsGood
<1>2. GoodBus'
  BY <1>1, GoodClient DEF IInv, IndexInv, SegmentRequest, can_write_fails
<1>3. CASE Abort
  BY <1>2, <1>3, CallAborts DEF IndexInv
<1>4. CASE Return("segmented", <<>>)
  BY <1>2, <1>4, CallReturns DEF IndexInv
<1>5. CASE GoOn("segments", [loc EXCEPT !.missing = ExpectedSegments(loc.length)])
  BY <1>2, <1>5, CallGoesOn DEF IndexInv
<1> QED
  BY <1>3, <1>4, <1>5 DEF SegmentRequest

LEMMA IndexSegmentAnswer ==
    ASSUME IInv, IndexInv, SegmentAnswer, setup' = setup
    PROVE  IndexInv'
<1> DEFINE f    == Head(rxq)
           text == IF f.kind = "segment" THEN Printable(f.text) ELSE <<>>
           all  == loc.data \o Stored(text)
<1>1. GoodRequest([kind |-> "segment", toggle |-> 1 - loc.cmd])
  BY OtherRequestIsGood
<1>2. GoodBus'
  BY <1>1, GoodClient DEF IInv, IndexInv, SegmentAnswer, can_write_fails, ReadsAnswer
<1>3. Abort \/ Keep(f, all)
  BY DEF SegmentAnswer
<1> HIDE DEF all, f
<1>4. CASE Abort
  BY <1>2, <1>4, CallAborts DEF IndexInv
<1>5. CASE Return("segmented", all)
  BY <1>2, <1>5, CallReturns DEF IndexInv
<1>6. CASE GoOn("segments", [loc EXCEPT !.data = all, !.missing = @ - 1,
                                        !.cmd = IF f.even THEN 1 - @ ELSE @])
  BY <1>2, <1>6, CallGoesOn DEF IndexInv
<1> QED
  BY <1>3, <1>4, <1>5, <1>6 DEF Keep

LEMMA IndexWriting ==
    ASSUME IInv, IndexInv, Writing, setup' = setup
    PROVE  IndexInv'
<1>1. CASE WriteAnswer
  <2>1. GoodBus'
    BY <1>1, GoodReader DEF IInv, IndexInv, WriteAnswer, WaitsFor, ReadsAnswer
  <2> QED
    BY <1>1, <2>1, CallAborts, CallReturns, CallGoesOn DEF IndexInv, WriteAnswer
<1>2. CASE SendSegment
  <2>1. GoodRequest([kind |-> "downloadSegment", toggle |-> loc.cmd,
                     text |-> FirstPart(loc.data), last |-> IsLast])
    BY OtherRequestIsGood
  <2>2. GoodBus'
    BY <1>2, <2>1, GoodClient DEF IInv, IndexInv, SendSegment, can_write_fails
  <2> QED
    BY <1>2, <2>2, CallAborts, CallReturns, CallGoesOn DEF IndexInv, SendSegment
<1>3. CASE SegmentConfirmed
  <2>1. GoodBus'
    BY <1>3, GoodReader DEF IInv, IndexInv, SegmentConfirmed, ReadsAnswer
  <2> QED
    BY <1>3, <2>1, CallGoesOn DEF IndexInv, SegmentConfirmed
<1>4. CASE BlockAnswer
  <2>1. GoodBus'
    BY <1>4, GoodReader DEF IInv, IndexInv, BlockAnswer, WaitsFor, ReadsAnswer
  <2>2. ASSUME NEW size, StartBlocks(size)
        PROVE  CallInv'
    BY <2>2, CallGoesOn DEF IndexInv, StartBlocks
  <2> QED
    BY <1>4, <2>1, <2>2, CallAborts DEF IndexInv, BlockAnswer
<1>5. CASE SendBlockSegment
  <2>1. GoodRequest([kind |-> "blockSegment", seq |-> loc.segment_number,
                     text |-> FirstPart(loc.data), last |-> IsLast])
    BY OtherRequestIsGood
  <2>2. GoodBus'
    BY <1>5, <2>1, GoodClient DEF IInv, IndexInv, SendBlockSegment, can_write_fails
  <2>3. (IF BlockFull THEN "ack" ELSE AfterBlock(RestOf(loc.data))) \in {"ack", "end", "blocks"}
    BY DEF AfterBlock
  <2> QED
    BY <1>5, <2>2, <2>3, CallAborts, CallGoesOn DEF IndexInv, SendBlockSegment
<1>6. CASE BlockAcknowledged
  <2>1. GoodBus'
    BY <1>6, GoodReader DEF IInv, IndexInv, BlockAcknowledged, ReadsAnswer
  <2>2. AfterBlock(loc.data) \in {"end", "blocks"}
    BY DEF AfterBlock
  <2> QED
    BY <1>6, <2>1, <2>2, CallGoesOn DEF IndexInv, BlockAcknowledged
<1>7. CASE SendBlockEnd
  <2>1. GoodRequest([kind |-> "blockEnd", unused |-> SEGMENT_DATA_SIZE])
    BY OtherRequestIsGood
  <2>2. GoodBus'
    BY <1>7, <2>1, GoodClient DEF IInv, IndexInv, SendBlockEnd, can_write_fails
  <2> QED
    BY <1>7, <2>2, CallAborts, CallGoesOn DEF IndexInv, SendBlockEnd
<1>8. CASE BlockEnded
  <2>1. GoodBus'
    BY <1>8, GoodReader DEF IInv, IndexInv, BlockEnded, ReadsAnswer
  <2> QED
    BY <1>8, <2>1, CallReturns, CallGoesOn DEF IndexInv, BlockEnded
<1> QED
  BY <1>1, <1>2, <1>3, <1>4, <1>5, <1>6, <1>7, <1>8 DEF Writing

LEMMA IndexOther ==
    ASSUME IInv, IndexInv, ClearBuffer \/ DropAnswer \/ Poll \/ Timeout, setup' = setup
    PROVE  IndexInv'
<1>1. CASE ClearBuffer
  <2>1. GoodBus'
    BY <1>1, GoodReader DEF IInv, IndexInv, ClearBuffer, can_read_any
  <2>2. req \in Calls
    BY <1>1 DEF IndexInv, CallInv, GoodCall, ClearBuffer
  <2> QED
    BY <1>1, <2>1, <2>2, CallGoesOn DEF IndexInv, ClearBuffer
<1>2. CASE DropAnswer
  <2>1. GoodBus'
    BY <1>2, GoodReader DEF IInv, IndexInv, DropAnswer, ReadsAnswer
  <2> QED
    BY <1>2, <2>1, CallGoesOn DEF IndexInv, DropAnswer
<1>3. CASE Poll
  <2>1. GoodBus'
    BY <1>3, GoodReader DEF IInv, IndexInv, Poll, ReadsOther, SkipsOther, can_read_any
  <2> QED
    BY <1>3, <2>1, CallStays DEF IndexInv, Poll
<1>4. CASE Timeout
  <2>1. GoodBus'
    BY <1>4, GoodReader DEF IInv, IndexInv, Timeout
  <2> QED
    BY <1>4, <2>1, CallAborts DEF IndexInv, Timeout
<1> QED
  BY <1>1, <1>2, <1>3, <1>4

LEMMA IndexBus ==
    ASSUME IInv, IndexInv, BusStep
    PROVE  IndexInv'
<1>1. setup' = setup /\ UNCHANGED <<clientVars, nodeVars>> /\ BusTyped
  BY DEF BusStep, IInv
<1>2. GoodRequests' /\ GoodFrames'
  <2>1. CASE OtherTraffic
    <3>1. GoodFrame(OtherFrame)
      BY DEF GoodFrame, IsAnswer, OtherFrame
    <3>2. GoodFrames'
      BY <1>1, <2>1, <3>1, GoodAppended DEF IndexInv, GoodBus, BusTyped, OtherTraffic, Answers
    <3>3. GoodRequests'
      BY <1>1, <2>1, GoodStays DEF IndexInv, GoodBus, GoodRequests, OtherTraffic
    <3> QED
      BY <3>2, <3>3
  <2>2. CASE LoseRequest
    <3>1. toNode \in Seq(Requests) /\ toNode # <<>> /\ toNode' = Tail(toNode) /\ rxq' = rxq
      BY <1>1, <2>2 DEF BusTyped, LoseRequest
    <3>2. \A i \in 1 .. Len(toNode') : i + 1 \in 1 .. Len(toNode) /\ toNode'[i] = toNode[i + 1]
      BY <3>1
    <3>3. GoodRequests'
      BY <1>1, <3>2, GoodStays DEF IndexInv, GoodBus, GoodRequests
    <3>4. GoodFrames'
      BY <1>1, <3>1, GoodTail DEF IndexInv, GoodBus, BusTyped
    <3> QED
      BY <3>3, <3>4
  <2> QED
    BY <2>1, <2>2 DEF BusStep
<1>3. GoodObjects' /\ GoodServer'
  BY <1>1, GoodObjectsStay, GoodServerGoesOn DEF IndexInv, GoodBus, nodeVars
<1>4. CallInv'
  BY <1>1, CallStays DEF IndexInv
<1> QED
  BY <1>2, <1>3, <1>4 DEF IndexInv, GoodBus

LEMMA InitIndex == Init => IndexInv
<1> SUFFICES ASSUME Init PROVE IndexInv
  OBVIOUS
<1>1. toNode = <<>> /\ rxq = <<>> /\ od = OD /\ server = NoServer
  BY DEF Init, LinkInit, NodeInit
<1>2. GoodRequests /\ GoodFrames
  BY <1>1 DEF GoodRequests, GoodFrames
<1>3. GoodServer
  BY <1>1 DEF GoodServer, NoServer
<1>4. GoodObjects
  BY <1>1 DEF GoodObjects, Known
<1>5. pc = "idle" /\ result.state = "none"
  BY DEF Init, ClientInit, NoResult
<1> QED
  BY <1>2, <1>3, <1>4, <1>5 DEF IndexInv, GoodBus, CallInv, GoodCall, IndexNeverConfused

LEMMA IndexStep ==
    ASSUME WrittenAsRead, IInv, IndexInv, [Next]_vars
    PROVE  IndexInv'
<1>1. CASE Call /\ UNCHANGED setup
  BY <1>1, IndexCall
<1>2. CASE Client
  BY <1>2, IndexRequest, IndexReadAnswer, IndexSegmentRequest, IndexSegmentAnswer,
     IndexWriting, IndexOther DEF Client, Reading
<1>3. CASE NodeStep
  <2>1. GoodBus'
    BY <1>3, GoodNode DEF NodeStep, IInv, IndexInv
  <2> QED
    BY <1>3, <2>1, CallStays DEF NodeStep, IndexInv
<1>4. CASE BusStep
  BY <1>4, IndexBus
<1>5. CASE UNCHANGED vars
  <2>1. UNCHANGED <<setup, toNode, rxq, nodeVars, clientVars>>
    BY <1>5 DEF vars, nodeVars, clientVars
  <2>2. GoodBus'
    BY <2>1, GoodReader DEF IInv, IndexInv
  <2> QED
    BY <2>1, <2>2, CallStays DEF IndexInv
<1> QED
  BY <1>1, <1>2, <1>3, <1>4, <1>5 DEF Next

(* However late, lost or out of turn the answers are, an expedited read    *)
(* returns a text that an object of its index had at the start or was sent *)
(* in one frame, never one of another index, where the objects that are    *)
(* read in one frame are written in one.                                   *)
THEOREM IndexCorrect ==
    ASSUME WrittenAsRead
    PROVE  Spec => []IndexNeverConfused
<1>1. Init => IInv /\ IndexInv
  BY InitTyped, InitIndex
<1>2. IInv /\ IndexInv /\ [Next]_vars => (IInv /\ IndexInv)'
  BY InvStep, IndexStep
<1>3. IndexInv => IndexNeverConfused
  BY DEF IndexInv, CallInv
<1> QED
  BY <1>1, <1>2, <1>3, PTL DEF Spec
=============================================================================
