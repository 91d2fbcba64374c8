------------------------ MODULE SdoDialogue_proofs ------------------------
(***************************************************************************)
(* Proofs about SdoClient for every plain setup: at a node that answers in *)
(* time and without faults, whatever other nodes send, reads return the    *)
(* object, writes are stored, no call about an object that is there fails  *)
(* and nothing is left that a later call could take for its answer.        *)
(***************************************************************************)
EXTENDS SdoClient_proofs, SequenceTheorems

-----------------------------------------------------------------------------
(* Texts and their segments.                                               *)

LEMMA Joined ==
    ASSUME NEW a \in Texts, NEW b \in Texts
    PROVE  /\ a \o b \in Texts /\ Len(a \o b) = Len(a) + Len(b)
           /\ <<>> \o a = a /\ a \o <<>> = a
           /\ Len(a) \in Nat
  BY ConcatProperties, ConcatEmptySeq DEF Texts

LEMMA Associative ==
    ASSUME NEW a \in Texts, NEW b \in Texts, NEW c \in Texts
    PROVE  (a \o b) \o c = a \o (b \o c)
  BY ConcatAssociative DEF Texts

LEMMA ShortText ==
    ASSUME NEW text \in Texts, Len(text) <= SEGMENT_DATA_SIZE
    PROVE  FirstPart(text) = text /\ RestOf(text) = <<>>
  BY NodeAssumption DEF Texts, FirstPart, RestOf, Least

LEMMA LongText ==
    ASSUME NEW text \in Texts, Len(text) > SEGMENT_DATA_SIZE
    PROVE  /\ FirstPart(text) \o RestOf(text) = text
           /\ Len(FirstPart(text)) = SEGMENT_DATA_SIZE
           /\ Len(RestOf(text)) = Len(text) - SEGMENT_DATA_SIZE
           /\ RestOf(text) # <<>>
<1> DEFINE n == SEGMENT_DATA_SIZE
<1>1. Len(text) \in Nat /\ n \in Nat \ {0} /\ n < Len(text)
  BY NodeAssumption DEF Texts
<1>2. FirstPart(text) = SubSeq(text, 1, n) /\ RestOf(text) = SubSeq(text, n + 1, Len(text))
  BY <1>1 DEF FirstPart, RestOf, Least
<1>3. SubSeq(text, 1, n) \o SubSeq(text, n + 1, Len(text)) = SubSeq(text, 1, Len(text))
  <2>1. /\ 1 \in 1 .. Len(text) + 1 /\ n \in 1 - 1 .. Len(text)
        /\ Len(text) \in n .. Len(text)
    BY <1>1
  <2> QED
    BY <2>1, ConcatAdjacentSubSeq, Zenon DEF Texts
<1>4. SubSeq(text, 1, Len(text)) = text
  BY SubSeqFull DEF Texts
<1>5. /\ Len(SubSeq(text, 1, n)) = n
      /\ Len(SubSeq(text, n + 1, Len(text))) = Len(text) - n
  BY <1>1 DEF Texts
<1>6. RestOf(text) # <<>>
  <2>1. Len(RestOf(text)) # 0
    BY <1>1, <1>2, <1>5
  <2> QED
    BY <2>1
<1> QED
  BY <1>2, <1>3, <1>4, <1>5, <1>6

(* The segments of a text, counted.                                        *)
LEMMA Division ==
    ASSUME NEW n \in Nat, NEW s \in Nat \ {0}
    PROVE  /\ n \div s \in Nat /\ n % s \in 0 .. s - 1
           /\ n = s * (n \div s) + (n % s)
  OBVIOUS

LEMMA Quotient ==
    ASSUME NEW n \in Nat, NEW s \in Nat \ {0}, NEW q \in Nat, NEW t \in 0 .. s - 1, n = s * q + t
    PROVE  n \div s = q /\ n % s = t
  OBVIOUS

LEMMA LastSegment ==
    ASSUME NEW n \in Nat \ {0}
    PROVE  /\ ExpectedSegments(n) \in Nat \ {0}
           /\ ExpectedSegments(n) = 1 <=> n <= SEGMENT_DATA_SIZE
<1> DEFINE s == SEGMENT_DATA_SIZE
           q == n \div s
           t == n % s
<1>1. s \in Nat \ {0}
  BY NodeAssumption
<1>2. q \in Nat /\ t \in 0 .. s - 1 /\ n = s * q + t
  BY <1>1, Division
<1>3. ExpectedSegments(n) = q + IF t # 0 THEN 1 ELSE 0
  BY DEF ExpectedSegments
<1> HIDE DEF q, t, s
<1>4. ExpectedSegments(n) \in Nat \ {0}
  BY <1>1, <1>2, <1>3
<1>5. ExpectedSegments(n) = 1 <=> n <= s
  <2>1. CASE q = 0
    BY <1>1, <1>2, <1>3, <2>1
  <2>2. CASE q = 1
    BY <1>1, <1>2, <1>3, <2>2
  <2>3. CASE q > 1
    <3>1. s * q >= s * 2
      BY <1>1, <1>2, <2>3
    <3>2. n > s /\ ExpectedSegments(n) > 1
      BY <1>1, <1>2, <1>3, <2>3, <3>1
    <3> QED
      BY <1>1, <1>4, <3>2
  <2> QED
    BY <1>2, <2>1, <2>2, <2>3
<1> QED
  BY <1>4, <1>5 DEF s

LEMMA OneSegmentLess ==
    ASSUME NEW n \in Nat, n > SEGMENT_DATA_SIZE
    PROVE  ExpectedSegments(n - SEGMENT_DATA_SIZE) = ExpectedSegments(n) - 1
<1> DEFINE s == SEGMENT_DATA_SIZE
           q == n \div s
           t == n % s
<1>1. s \in Nat \ {0} /\ n - s \in Nat
  BY NodeAssumption
<1>2. q \in Nat /\ t \in 0 .. s - 1 /\ n = s * q + t
  BY <1>1, Division
<1>3. ExpectedSegments(n) = q + IF t # 0 THEN 1 ELSE 0
  BY DEF ExpectedSegments
<1>4. ExpectedSegments(n - s) = ((n - s) \div s) + IF (n - s) % s # 0 THEN 1 ELSE 0
  BY DEF ExpectedSegments
<1>5. n > s
  OBVIOUS
<1> HIDE DEF q, t, s
<1>6. q - 1 \in Nat
  BY <1>1, <1>2, <1>5
<1>7. n - s = s * (q - 1) + t
  BY <1>1, <1>2
<1>8. (n - s) \div s = q - 1 /\ (n - s) % s = t
  BY <1>1, <1>2, <1>6, <1>7, Quotient
<1>9. ExpectedSegments(n - s) = ExpectedSegments(n) - 1
  BY <1>2, <1>3, <1>4, <1>8
<1> QED
  BY <1>9 DEF s

LEMMA SmallRemainder ==
    ASSUME NEW s \in Nat \ {0}, NEW n \in 0 .. s - 1
    PROVE  n % s = n
  OBVIOUS

(* Of a printable text every character is kept.                            *)
Clean(text) == \A k \in 1 .. Len(text) : text[k] \notin NonPrintable

LEMMA CleanParts ==
    ASSUME NEW text \in Texts, Clean(text)
    PROVE  Clean(FirstPart(text)) /\ Clean(RestOf(text))
<1>1. CASE Len(text) <= SEGMENT_DATA_SIZE
  BY <1>1, ShortText DEF Clean
<1>2. CASE Len(text) > SEGMENT_DATA_SIZE
  <2>1. Len(text) \in Nat /\ SEGMENT_DATA_SIZE \in Nat \ {0}
    BY NodeAssumption DEF Texts
  <2> QED
    BY <1>2, <2>1 DEF Clean, Texts, FirstPart, RestOf, Least
<1> QED
  BY <1>1, <1>2, NodeAssumption DEF Texts

LEMMA CleanIsPrintable ==
    ASSUME NEW text \in Texts, Clean(text)
    PROVE  Printable(text) = text
<1>1. {k \in 1 .. Len(text) : text[k] \in NonPrintable} = {}
  BY DEF Clean
<1> QED
  BY <1>1 DEF Printable, SelectInSeq

(* The frame of an expedited download holds the text.                      *)
LEMMA WordHoldsText ==
    ASSUME NEW text \in Texts, Len(text) \in 1 .. EXPEDITED_SIZE
    PROVE  SubSeq(Word(text), 1, SizeOf(text)) = text
<1> DEFINE part == SubSeq(Word(text), 1, Len(text))
<1>1. Len(text) \in Nat /\ EXPEDITED_SIZE \in Nat /\ SizeOf(text) = Len(text)
  BY ReadAssumption DEF Texts, SizeOf
<1>2. \A k \in 1 .. Len(text) : text[k] \in Chars \cup {Beyond}
  BY DEF Texts
<1>3. Word(text) \in [1 .. EXPEDITED_SIZE -> Chars \cup {Beyond}]
  BY <1>1, <1>2 DEF Word
<1>4. Word(text) \in Texts /\ Len(Word(text)) = EXPEDITED_SIZE
  BY <1>1, <1>3 DEF Texts
<1>5. \A k \in 1 .. Len(text) : Word(text)[k] = text[k]
  BY <1>1 DEF Word
<1>6. /\ part \in Texts /\ Len(part) = Len(text)
      /\ \A k \in 1 .. Len(text) : part[k] = text[k]
  BY <1>1, <1>4, <1>5 DEF Texts
<1>7. part = text
  BY <1>6, SeqEqual DEF Texts
<1> QED
  BY <1>1, <1>7

-----------------------------------------------------------------------------
(* The answers in the receive queue: none, one, or two in that order.      *)

NoneIn(q) == \A i \in 1 .. Len(q) : ~IsAnswer(q[i])
OneIn(q, f) ==
    \E i \in 1 .. Len(q) : q[i] = f /\ \A j \in 1 .. Len(q) : IsAnswer(q[j]) => j = i
TwoIn(q, f, g) ==
    \E i, k \in 1 .. Len(q) :
       /\ i < k /\ q[i] = f /\ q[k] = g
       /\ \A j \in 1 .. Len(q) : IsAnswer(q[j]) => j = i \/ j = k

LEMMA Arrives ==
    ASSUME NEW q \in Seq(Frames), NEW f
    PROVE  /\ Len(Append(q, f)) = Len(q) + 1 /\ Len(q) \in Nat
           /\ \A i \in 1 .. Len(q) : Append(q, f)[i] = q[i]
           /\ Append(q, f)[Len(q) + 1] = f
  OBVIOUS

LEMMA Leaves ==
    ASSUME NEW q \in Seq(Frames), q # <<>>
    PROVE  /\ Len(Tail(q)) = Len(q) - 1 /\ Len(q) \in Nat \ {0} /\ Head(q) = q[1]
           /\ \A i \in 1 .. Len(q) - 1 : Tail(q)[i] = q[i + 1]
  OBVIOUS

LEMMA AnswerArrives ==
    ASSUME NEW q \in Seq(Frames), NEW f, IsAnswer(f)
    PROVE  /\ NoneIn(q) => OneIn(Append(q, f), f)
           /\ \A g : OneIn(q, g) => TwoIn(Append(q, f), g, f)
<1> DEFINE p == Append(q, f)
<1>1. /\ Len(p) = Len(q) + 1 /\ Len(q) \in Nat
      /\ \A i \in 1 .. Len(q) : p[i] = q[i]
      /\ p[Len(q) + 1] = f
  BY Arrives
<1> HIDE DEF p
<1>2. NoneIn(q) => OneIn(p, f)
  BY <1>1 DEF NoneIn, OneIn
<1>3. ASSUME NEW g, OneIn(q, g)
      PROVE  TwoIn(p, g, f)
  <2>1. PICK i \in 1 .. Len(q) : q[i] = g /\ \A j \in 1 .. Len(q) : IsAnswer(q[j]) => j = i
    BY <1>3 DEF OneIn
  <2>2. /\ i \in 1 .. Len(p) /\ Len(p) \in 1 .. Len(p) /\ i < Len(p)
        /\ p[i] = g /\ p[Len(p)] = f
    BY <1>1, <2>1
  <2>3. ASSUME NEW j \in 1 .. Len(p), IsAnswer(p[j])
        PROVE  j = i \/ j = Len(p)
    BY <1>1, <2>1, <2>3
  <2> QED
    BY <2>2, <2>3 DEF TwoIn
<1> QED
  BY <1>2, <1>3 DEF p

LEMMA OtherArrives ==
    ASSUME NEW q \in Seq(Frames)
    PROVE  /\ NoneIn(q) => NoneIn(Append(q, OtherFrame))
           /\ \A f : OneIn(q, f) => OneIn(Append(q, OtherFrame), f)
           /\ \A f, g : TwoIn(q, f, g) => TwoIn(Append(q, OtherFrame), f, g)
<1> DEFINE p == Append(q, OtherFrame)
<1>1. /\ Len(p) = Len(q) + 1 /\ Len(q) \in Nat
      /\ \A i \in 1 .. Len(q) : p[i] = q[i]
      /\ p[Len(q) + 1] = OtherFrame
  BY Arrives
<1>2. ~IsAnswer(OtherFrame)
  BY DEF IsAnswer, OtherFrame
<1> HIDE DEF p
<1>3. \A j \in 1 .. Len(p) : IsAnswer(p[j]) => j \in 1 .. Len(q) /\ IsAnswer(q[j])
  BY <1>1, <1>2
<1>4. \A i \in 1 .. Len(q) : i \in 1 .. Len(p) /\ p[i] = q[i]
  BY <1>1
<1>5. NoneIn(q) => NoneIn(p)
  BY <1>3 DEF NoneIn
<1>6. \A f : OneIn(q, f) => OneIn(p, f)
  BY <1>3, <1>4 DEF OneIn
<1>7. ASSUME NEW f, NEW g, TwoIn(q, f, g)
      PROVE  TwoIn(p, f, g)
  BY <1>3, <1>4, <1>7 DEF TwoIn
<1> QED
  BY <1>5, <1>6, <1>7 DEF p

LEMMA OtherLeaves ==
    ASSUME NEW q \in Seq(Frames), q # <<>>, ~IsAnswer(Head(q))
    PROVE  /\ NoneIn(q) => NoneIn(Tail(q))
           /\ \A f : IsAnswer(f) /\ OneIn(q, f) => OneIn(Tail(q), f)
           /\ \A f, g : IsAnswer(f) /\ IsAnswer(g) /\ TwoIn(q, f, g) => TwoIn(Tail(q), f, g)
<1> DEFINE p == Tail(q)
<1>1. /\ Len(p) = Len(q) - 1 /\ Len(q) \in Nat \ {0} /\ Head(q) = q[1]
      /\ \A i \in 1 .. Len(q) - 1 : p[i] = q[i + 1]
  BY Leaves
<1> HIDE DEF p
<1>2. \A i \in 1 .. Len(q) : IsAnswer(q[i]) => i - 1 \in 1 .. Len(p) /\ p[i - 1] = q[i]
  BY <1>1
<1>3. \A j \in 1 .. Len(p) : j + 1 \in 1 .. Len(q) /\ q[j + 1] = p[j]
  BY <1>1
<1>4. NoneIn(q) => NoneIn(p)
  BY <1>3 DEF NoneIn
<1>5. ASSUME NEW f, IsAnswer(f), OneIn(q, f)
      PROVE  OneIn(p, f)
  <2>1. PICK i \in 1 .. Len(q) : q[i] = f /\ \A j \in 1 .. Len(q) : IsAnswer(q[j]) => j = i
    BY <1>5 DEF OneIn
  <2>2. i - 1 \in 1 .. Len(p) /\ p[i - 1] = f
    BY <1>2, <1>5, <2>1
  <2>3. \A j \in 1 .. Len(p) : IsAnswer(p[j]) => j = i - 1
    BY <1>1, <1>3, <2>1
  <2> QED
    BY <2>2, <2>3 DEF OneIn
<1>6. ASSUME NEW f, NEW g, IsAnswer(f), IsAnswer(g), TwoIn(q, f, g)
      PROVE  TwoIn(p, f, g)
  <2>1. PICK i \in 1 .. Len(q), k \in 1 .. Len(q) :
           /\ i < k /\ q[i] = f /\ q[k] = g
           /\ \A j \in 1 .. Len(q) : IsAnswer(q[j]) => j = i \/ j = k
    BY <1>6 DEF TwoIn
  <2>2. /\ i - 1 \in 1 .. Len(p) /\ p[i - 1] = f
        /\ k - 1 \in 1 .. Len(p) /\ p[k - 1] = g
        /\ i - 1 < k - 1
    BY <1>2, <1>6, <2>1
  <2>3. \A j \in 1 .. Len(p) : IsAnswer(p[j]) => j = i - 1 \/ j = k - 1
    BY <1>1, <1>3, <2>1
  <2> QED
    BY <2>2, <2>3 DEF TwoIn
<1> QED
  BY <1>4, <1>5, <1>6 DEF p

LEMMA AnswerLeaves ==
    ASSUME NEW q \in Seq(Frames), q # <<>>, IsAnswer(Head(q))
    PROVE  /\ ~NoneIn(q)
           /\ \A f : OneIn(q, f) => Head(q) = f /\ NoneIn(Tail(q))
           /\ \A f, g : IsAnswer(f) /\ IsAnswer(g) /\ TwoIn(q, f, g) =>
                           Head(q) = f /\ OneIn(Tail(q), g)
<1> DEFINE p == Tail(q)
<1>1. /\ Len(p) = Len(q) - 1 /\ Len(q) \in Nat \ {0} /\ Head(q) = q[1]
      /\ \A i \in 1 .. Len(q) - 1 : p[i] = q[i + 1]
  BY Leaves
<1> HIDE DEF p
<1>2. \A j \in 1 .. Len(p) : j + 1 \in 1 .. Len(q) /\ q[j + 1] = p[j]
  BY <1>1
<1>3. ~NoneIn(q)
  BY <1>1 DEF NoneIn
<1>4. ASSUME NEW f, OneIn(q, f)
      PROVE  Head(q) = f /\ NoneIn(p)
  <2>1. PICK i \in 1 .. Len(q) : q[i] = f /\ \A j \in 1 .. Len(q) : IsAnswer(q[j]) => j = i
    BY <1>4 DEF OneIn
  <2>2. i = 1
    BY <1>1, <2>1
  <2> QED
    BY <1>1, <1>2, <2>1, <2>2 DEF NoneIn
<1>5. ASSUME NEW f, NEW g, IsAnswer(f), IsAnswer(g), TwoIn(q, f, g)
      PROVE  Head(q) = f /\ OneIn(p, g)
  <2>1. PICK i \in 1 .. Len(q), k \in 1 .. Len(q) :
           /\ i < k /\ q[i] = f /\ q[k] = g
           /\ \A j \in 1 .. Len(q) : IsAnswer(q[j]) => j = i \/ j = k
    BY <1>5 DEF TwoIn
  <2>2. i = 1
    BY <1>1, <2>1
  <2>3. k - 1 \in 1 .. Len(p) /\ p[k - 1] = g
    BY <1>1, <2>1, <2>2
  <2>4. \A j \in 1 .. Len(p) : IsAnswer(p[j]) => j = k - 1
    BY <1>1, <1>2, <2>1, <2>2
  <2> QED
    BY <1>1, <2>1, <2>2, <2>3, <2>4 DEF OneIn
<1> QED
  BY <1>3, <1>4, <1>5 DEF p

-----------------------------------------------------------------------------
(* The dialogue, point by point of a call.                                 *)

Nothing == toNode = <<>> /\ NoneIn(rxq) /\ server.mode = "none"

(* f is the last segment of a text, and all there is to come of it.        *)
Ends(f) ==
    /\ f.kind = "downloadSegment" /\ f.last /\ f.toggle = server.toggle /\ f.text \in Texts
    /\ server.mode = "download" /\ server.key \in DOMAIN od
    /\ Len(server.text \o f.text) = server.size /\ Sound(server.text \o f.text)
Confirms(f) == IsAnswer(f) /\ f.kind = "confirm" /\ f.key = NoKey

SegmentLeft == Len(toNode) = 1 /\ Ends(toNode[1]) /\ NoneIn(rxq)
ConfirmLeft == toNode = <<>> /\ server.mode = "none" /\ \E f : Confirms(f) /\ OneIn(rxq, f)
Resting     == Nothing \/ SegmentLeft \/ ConfirmLeft

(* The answer to the first frame of a call, and what the node then does.   *)
AnswersRead(f) ==
    \/ /\ od[req.key].expedited /\ f.kind = "expedited" /\ f.text = od[req.key].text
       /\ server.mode = "none"
    \/ /\ ~od[req.key].expedited /\ f.kind = "initiate" /\ f.size = Len(od[req.key].text)
       /\ server.mode = "upload" /\ server.text = od[req.key].text /\ server.toggle = 0
AnswersWrite(f) ==
    /\ f.kind = "downloaded"
    /\ \/ IsExpedited(req) /\ server.mode = "none" /\ od[req.key].text = req.text
       \/ /\ ~IsExpedited(req) /\ server.mode = "download" /\ server.key = req.key
          /\ server.text = <<>> /\ server.size = Len(req.text) /\ server.toggle = 0
AnswersFile(f) ==
    /\ f.kind = "blockReady" /\ f.size \in BlockSizes
    /\ server.mode = "block" /\ server.key = req.key /\ server.text = <<>>
    /\ server.size = f.size /\ server.seq = 0
AnswersCall(f) ==
    /\ IsAnswer(f) /\ f.key = req.key
    /\ \/ req.key \notin DOMAIN od /\ f.kind = "abort" /\ server.mode = "none"
       \/ req.key \in DOMAIN od /\ req.op = "read" /\ AnswersRead(f)
       \/ req.key \in DOMAIN od /\ req.op \in {"write", "string"} /\ AnswersWrite(f)
       \/ req.key \in DOMAIN od /\ req.op = "file" /\ AnswersFile(f)

Asked ==
    \/ /\ Len(toNode) = 1 /\ toNode[1] = FirstFrame(req) /\ server.mode = "none"
       /\ (NoneIn(rxq) \/ \E f : Confirms(f) /\ OneIn(rxq, f))
    \/ Len(toNode) = 2 /\ toNode[2] = FirstFrame(req) /\ Ends(toNode[1]) /\ NoneIn(rxq)
Answered ==
    /\ toNode = <<>>
    /\ \E f : /\ AnswersCall(f)
              /\ (OneIn(rxq, f) \/ \E g : Confirms(g) /\ TwoIn(rxq, g, f))

(* text is what is still to be uploaded.                                   *)
Uploading(text) ==
    /\ req.op = "read" /\ req.key \in DOMAIN od
    /\ text \in Texts /\ text # <<>> /\ Clean(text)
    /\ loc.data \o text = od[req.key].text /\ loc.length = Len(od[req.key].text)

UploadStarts ==
    /\ toNode = <<>> /\ NoneIn(rxq) /\ server.mode = "upload" /\ server.toggle = loc.cmd
    /\ Uploading(server.text)

SegmentAsked ==
    /\ Len(toNode) = 1 /\ toNode[1] = [kind |-> "segment", toggle |-> loc.cmd]
    /\ NoneIn(rxq) /\ server.mode = "upload" /\ server.toggle = loc.cmd
    /\ Uploading(server.text) /\ loc.missing = ExpectedSegments(Len(server.text))
SegmentGiven ==
    /\ toNode = <<>>
    /\ \E f, text :
          /\ IsAnswer(f) /\ OneIn(rxq, f) /\ f.kind = "segment" /\ f.text = FirstPart(text)
          /\ f.even <=> Len(text) > SEGMENT_DATA_SIZE
          /\ Uploading(text) /\ loc.missing = ExpectedSegments(Len(text))
          /\ Len(text) <= SEGMENT_DATA_SIZE => server.mode = "none"
          /\ Len(text) > SEGMENT_DATA_SIZE =>
                server.mode = "upload" /\ server.toggle = 1 - loc.cmd /\ server.text = RestOf(text)

(* What the node has and what is still to be sent make up the text.        *)
Downloading(sent) ==
    /\ req.op = "string" /\ req.key \in DOMAIN od
    /\ server.mode = "download" /\ server.key = req.key /\ server.size = Len(req.text)
    /\ (server.text \o sent) \o loc.data = req.text
DownloadGoesOn ==
    /\ toNode = <<>> /\ NoneIn(rxq) /\ server.toggle = loc.cmd /\ Downloading(<<>>)
SegmentSent ==
    /\ Len(toNode) = 1 /\ NoneIn(rxq)
    /\ LET f == toNode[1] IN
          /\ f.kind = "downloadSegment" /\ ~f.last /\ f.text \in Texts
          /\ f.toggle = loc.cmd /\ server.toggle = loc.cmd /\ Downloading(f.text)
SegmentTaken ==
    /\ toNode = <<>> /\ server.toggle = 1 - loc.cmd /\ Downloading(<<>>)
    /\ \E f : Confirms(f) /\ f.toggle = loc.cmd /\ OneIn(rxq, f)

(* A file, in blocks of segments.                                          *)
Filing ==
    /\ req.op = "file" /\ req.key \in DOMAIN od /\ server.key = req.key
    /\ loc.block_size \in BlockSizes
IsBlockSegment(f, text, seq) ==
    /\ f.kind = "blockSegment" /\ f.seq = seq /\ f.text = FirstPart(text) /\ text # <<>>
    /\ f.last <=> Len(text) <= SEGMENT_DATA_SIZE

(* The first k requests are the segments the node takes next: rests[i] is  *)
(* what remains of the file after i of them, the last is still to be sent. *)
Carries(rests, k) ==
    /\ server.text \o rests[0] = req.text /\ rests[k] = loc.data
    /\ \A i \in 1 .. k : /\ IsBlockSegment(toNode[i], rests[i - 1], server.seq + i)
                         /\ rests[i] = RestOf(rests[i - 1])
OnTheWay(k) ==
    /\ Filing /\ NoneIn(rxq) /\ server.mode = "block" /\ server.size = loc.block_size
    /\ k \in 0 .. Len(toNode) /\ server.seq + k <= server.size
    /\ \E rests \in [0 .. k -> Texts] : Carries(rests, k)

(* The node has all that was sent, and said so at the end of a block.      *)
Received ==
    /\ Filing /\ server.seq = 0 /\ server.text \o loc.data = req.text
    /\ loc.data # <<>> => server.mode = "block" /\ server.size = loc.block_size
    /\ loc.data = <<>> => server.mode = "blockEnd" /\ server.last \in 1 .. SEGMENT_DATA_SIZE
Acknowledges(f) == IsAnswer(f) /\ f.kind = "blockAck" /\ f.size = loc.block_size

BlockGoesOn ==
    /\ OnTheWay(Len(toNode)) /\ loc.data # <<>> /\ loc.segment_number <= loc.block_size
    /\ server.seq + Len(toNode) = loc.segment_number - 1
BlockSent ==
    /\ OnTheWay(Len(toNode)) /\ toNode # <<>>
    /\ server.seq + Len(toNode) = loc.block_size
BlockTaken ==
    /\ toNode = <<>> /\ Received
    /\ \E f : Acknowledges(f) /\ f.seq = loc.block_size /\ OneIn(rxq, f)

(* All is sent, k segments of it on the way.  If the last did not fill its *)
(* block, nobody has read its acknowledgement.                             *)
AllSent(k) ==
    /\ loc.data = <<>>
    /\ \/ k # 0 /\ OnTheWay(k)
       \/ k = 0 /\ Received /\ (NoneIn(rxq) \/ \E f : Acknowledges(f) /\ OneIn(rxq, f))
EndFrame == [kind |-> "blockEnd", unused |-> SEGMENT_DATA_SIZE]
EndSent ==
    /\ toNode # <<>> /\ AllSent(Len(toNode) - 1) /\ toNode[Len(toNode)] = EndFrame
Finishes(f) == IsAnswer(f) /\ f.kind = "blockDone"
EndTaken ==
    /\ toNode = <<>> /\ server.mode = "none" /\ req.op = "file" /\ req.key \in DOMAIN od
    /\ Holds(od[req.key].text, req)
    /\ \E f : /\ Finishes(f)
              /\ (OneIn(rxq, f) \/ \E g : Acknowledges(g) /\ TwoIn(rxq, g, f))

Talk ==
    /\ pc \in {"idle", "clear", "request"} => Resting
    /\ pc = "wait" => Asked \/ Answered
    /\ pc = "segment" => UploadStarts
    /\ pc = "segments" => SegmentAsked \/ SegmentGiven
    /\ pc = "next" => DownloadGoesOn
    /\ pc = "confirm" => SegmentSent \/ SegmentTaken
    /\ pc = "blocks" => BlockGoesOn
    /\ pc = "ack" => BlockSent \/ BlockTaken
    /\ pc = "end" => AllSent(Len(toNode))
    /\ pc = "done" => EndSent \/ EndTaken

(* What the last call returned, and what still happens to a text it wrote. *)
Returned ==
    /\ result.state = "abort" => result.req.key \notin DOMAIN od
    /\ result.state \in {"expedited", "segmented"} =>
          /\ toNode = <<>> /\ result.req.key \in DOMAIN od
          /\ result.data = od[result.req.key].text
    /\ result.state = "written" =>
          /\ result.req.key \in DOMAIN od
          /\ toNode = <<>> => Holds(od[result.req.key].text, result.req)
          /\ toNode # <<>> => /\ server.key = result.req.key
                              /\ server.text \o toNode[1].text = result.req.text

ObjectsSound ==
    \A key \in DOMAIN od : od[key].expedited \/ (od[key].sized /\ Sound(od[key].text))
Client0 ==
    /\ elapsed = 0 /\ (pc = "clear" => req.op = "read")
    /\ pc = "idle" => loc = NoLocals
    /\ pc # "idle" => req \in Calls /\ result.state = "none"
    /\ pc \in {"clear", "request", "wait"} => loc = NoLocals

Dialogue == ObjectsSound /\ Client0 /\ Talk /\ Returned

-----------------------------------------------------------------------------
(* The node, without faults.                                               *)

LEMMA NoFault ==
    ASSUME Plain
    PROVE  /\ Prompt /\ Faults = {} /\ ~can_write_fails /\ ~MayAbort
           /\ \A f : Delivers(f) => rxq' = Append(rxq, f)
  BY DEF Plain, can_write_fails, MayAbort, Delivers, Answers

LEMMA NodeTakes ==
    ASSUME Node
    PROVE  /\ toNode # <<>> /\ toNode' = Tail(toNode) /\ elapsed' = elapsed
           /\ r.kind = "upload" => NodeUpload
           /\ r.kind = "segment" => NodeSegment
           /\ r.kind = "download" => NodeDownload
           /\ r.kind = "downloadInit" => NodeDownloadInit
           /\ r.kind = "downloadSegment" => NodeDownloadSegment
           /\ r.kind = "blockInit" => NodeBlockInit
           /\ r.kind = "blockSegment" => NodeBlockSegment
           /\ r.kind = "blockEnd" => NodeBlockEnd
<1>1. CASE NodeUpload
  BY <1>1 DEF NodeUpload, Receives, r
<1>2. CASE NodeSegment
  BY <1>2 DEF NodeSegment, Receives, r
<1>3. CASE NodeDownload
  BY <1>3 DEF NodeDownload, Receives, r
<1>4. CASE NodeDownloadInit
  BY <1>4 DEF NodeDownloadInit, Receives, r
<1>5. CASE NodeDownloadSegment
  BY <1>5 DEF NodeDownloadSegment, Receives, r
<1>6. CASE NodeBlockInit
  <2>1. Receives("blockInit")
    BY <1>6, Zenon DEF NodeBlockInit
  <2> QED
    BY <1>6, <2>1 DEF Receives, r
<1>7. CASE NodeBlockSegment
  <2>1. Receives("blockSegment")
    BY <1>7, Zenon DEF NodeBlockSegment
  <2> QED
    BY <1>7, <2>1 DEF Receives, r
<1>8. CASE NodeBlockEnd
  <2>1. Receives("blockEnd")
    BY <1>8 DEF NodeBlockEnd
  <2> QED
    BY <1>8, <2>1 DEF Receives, r
<1> QED
  BY <1>1, <1>2, <1>3, <1>4, <1>5, <1>6, <1>7, <1>8 DEF Node

LEMMA ObjectStored ==
    ASSUME BusTyped, ObjectsSound, NEW key \in DOMAIN od, NEW text, Sound(text),
           od' = [od EXCEPT ![key].text = text]
    PROVE  DOMAIN od' = DOMAIN od /\ od'[key].text = text /\ ObjectsSound'
<1>1. od[key] \in Objects(Chars \cup {Beyond})
  BY DEF BusTyped
<1>2. /\ DOMAIN od' = DOMAIN od
      /\ od'[key] = [od[key] EXCEPT !.text = text]
      /\ \A other \in DOMAIN od : other # key => od'[other] = od[other]
  OBVIOUS
<1>3. /\ od'[key].text = text /\ od'[key].expedited = od[key].expedited
      /\ od'[key].sized = od[key].sized
  BY <1>1, <1>2 DEF Objects
<1>4. ASSUME NEW other \in DOMAIN od'
      PROVE  od'[other].expedited \/ (od'[other].sized /\ Sound(od'[other].text))
  <2>1. CASE other = key
    BY <1>2, <1>3, <2>1, Zenon DEF ObjectsSound
  <2>2. CASE other # key
    BY <1>2, <2>2, Zenon DEF ObjectsSound
  <2> QED
    BY <2>1, <2>2
<1>5. ObjectsSound'
  BY <1>4 DEF ObjectsSound, Sound
<1> QED
  BY <1>2, <1>3, <1>5

LEMMA ObjectsStay ==
    ASSUME ObjectsSound, od' = od
    PROVE  ObjectsSound'
  BY DEF ObjectsSound, Sound

(* The last segment of a text: the node stores it and confirms.            *)
LEMMA TextEnds ==
    ASSUME BusTyped, Plain, ObjectsSound, Ends(r), Node
    PROVE  /\ toNode' = Tail(toNode) /\ elapsed' = elapsed /\ server'.mode = "none"
           /\ DOMAIN od' = DOMAIN od /\ ObjectsSound'
           /\ od'[server.key].text = server.text \o r.text
           /\ \E f : Confirms(f) /\ rxq' = Append(rxq, f)
<1> DEFINE all  == server.text \o r.text
           answer == [AnswerFrame EXCEPT !.kind = "confirm", !.toggle = r.toggle]
<1>1. NodeDownloadSegment /\ toNode' = Tail(toNode) /\ elapsed' = elapsed
  BY NodeTakes DEF Ends
<1>2. /\ Delivers(answer) /\ server' = NoServer
      /\ od' = [od EXCEPT ![server.key].text = SubSeq(all, 1, Least(Len(all), server.size))]
  BY <1>1, NoFault DEF NodeDownloadSegment, Ends
<1>3. SubSeq(all, 1, Least(Len(all), server.size)) = all
  <2>1. server.text \in Texts /\ r.text \in Texts /\ Len(all) = server.size
    BY DEF BusTyped, Servers, Ends
  <2>2. all \in Texts
    BY <2>1, Joined
  <2>3. Least(Len(all), server.size) = Len(all)
    BY <2>1 DEF Least
  <2> QED
    BY <2>2, <2>3, SubSeqFull DEF Texts
<1>4. rxq' = Append(rxq, answer) /\ Confirms(answer)
  BY <1>2, NoFault DEF Confirms, IsAnswer, AnswerFrame
<1>5. /\ DOMAIN od' = DOMAIN od /\ ObjectsSound'
      /\ od'[server.key].text = server.text \o r.text
  BY <1>2, <1>3, ObjectStored DEF Ends
<1>6. server'.mode = "none"
  BY <1>2 DEF NoServer
<1> QED
  BY <1>1, <1>4, <1>5, <1>6

(* The first frame of a call.                                              *)
LEMMA CallIsPlain ==
    ASSUME Plain, setup \in DOMAIN Setups, req \in Calls
    PROVE  /\ req.op \in {"read", "write", "string", "file"}
           /\ req.key \in Keys /\ req.key[1] # 0
           /\ req.text \in Texts /\ (req.op # "read" => Sound(req.text))
           /\ IsExpedited(req) => Len(req.text) \in 1 .. EXPEDITED_SIZE
           /\ ~IsExpedited(req) => req.op # "write"
           /\ req.op = "file" => Len(req.text) > SEGMENT_DATA_SIZE
<1>1. req \in [op : {"read", "write", "string", "file"}, key : Nat \X Nat, text : Seq(Chars)]
  BY ReadAssumption DEF Calls
<1>2. req.text \in Texts /\ req.key \in Keys
  BY <1>1 DEF Texts, Keys
<1>3. /\ req.key[1] # 0 /\ (req.op # "read" => Sound(req.text))
      /\ req.op = "write" => Len(req.text) <= EXPEDITED_SIZE
      /\ req.op = "file" => Len(req.text) > SEGMENT_DATA_SIZE
  BY DEF Plain
<1>4. ASSUME IsExpedited(req)
      PROVE  Len(req.text) \in 1 .. EXPEDITED_SIZE
  <2>1. req.text # <<>> /\ Len(req.text) <= EXPEDITED_SIZE
    BY <1>3, <1>4 DEF IsExpedited, Sound
  <2> QED
    BY <1>2, <2>1, ReadAssumption DEF Texts
<1> QED
  BY <1>1, <1>2, <1>3, <1>4 DEF IsExpedited

LEMMA FrameOfCall ==
    ASSUME Plain, setup \in DOMAIN Setups, req \in Calls
    PROVE  /\ FirstFrame(req).key = req.key
           /\ req.op = "read" => FirstFrame(req).kind = "upload"
           /\ IsExpedited(req) =>
                 FirstFrame(req).kind = "download" /\ FirstFrame(req).text = req.text
           /\ req.op = "string" /\ ~IsExpedited(req) =>
                 FirstFrame(req).kind = "downloadInit" /\ FirstFrame(req).size = Len(req.text)
           /\ req.op = "file" => FirstFrame(req).kind = "blockInit"
<1>1. CASE req.op = "read"
  BY <1>1 DEF FirstFrame, IsExpedited
<1>2. CASE IsExpedited(req)
  <2>1. req.op \notin {"read", "file"}
    BY <1>2 DEF IsExpedited
  <2> QED
    BY <1>2, <2>1, CallIsPlain, WordHoldsText DEF FirstFrame
<1>3. CASE req.op \in {"string", "file"} /\ ~IsExpedited(req)
  BY <1>3 DEF FirstFrame
<1>4. ~IsExpedited(req) => req.op \in {"read", "string", "file"}
  BY CallIsPlain
<1>5. req.op = "file" => ~IsExpedited(req)
  BY DEF IsExpedited
<1> QED
  BY <1>1, <1>2, <1>3, <1>4, <1>5

LEMMA CallAnswered ==
    ASSUME IInv, Plain, ObjectsSound, req \in Calls, r = FirstFrame(req), Node,
           UNCHANGED <<setup, clientVars>>
    PROVE  /\ toNode' = Tail(toNode) /\ elapsed' = elapsed
           /\ DOMAIN od' = DOMAIN od /\ ObjectsSound'
           /\ \E f : AnswersCall(f)' /\ rxq' = Append(rxq, f)
<1>1. BusTyped /\ setup \in DOMAIN Setups
  BY DEF IInv, ClientTyped, TypeOK
<1>2. toNode' = Tail(toNode) /\ elapsed' = elapsed
  BY NodeTakes
<1>3. req' = req /\ r.key = req.key /\ IsExpedited(req)' = IsExpedited(req)
  BY <1>1, FrameOfCall DEF clientVars, IsExpedited
<1> PICK refusal : refusal = [AnswerFrame EXCEPT !.key = r.key]
  OBVIOUS
<1>4. ASSUME Unknown
      PROVE  AnswersCall(refusal)' /\ rxq' = Append(rxq, refusal) /\ od' = od
  <2>1. /\ od' = od /\ server' = NoServer /\ req.key \notin DOMAIN od
        /\ rxq' = Append(rxq, refusal)
    BY <1>3, <1>4, NoFault DEF Unknown
  <2>2. refusal.from = "node" /\ refusal.kind = "abort" /\ refusal.key = req.key
    BY <1>3 DEF AnswerFrame
  <2> QED
    BY <1>3, <2>1, <2>2 DEF AnswersCall, IsAnswer, NoServer
<1>5. CASE req.op = "read"
  <2>1. NodeUpload
    BY <1>1, <1>5, FrameOfCall, NodeTakes
  <2>2. CASE Unknown
    BY <1>2, <1>4, <2>2, ObjectsStay
  <2>3. CASE r.key \in DOMAIN od /\ od[r.key].expedited
    <3> PICK f : f = [AnswerFrame EXCEPT !.kind = "expedited", !.key = r.key,
                                         !.text = od[r.key].text, !.even = FALSE]
      OBVIOUS
    <3>1. rxq' = Append(rxq, f) /\ server' = NoServer /\ od' = od
      BY <2>1, <2>3, NoFault DEF NodeUpload, Unknown
    <3>2. f.from = "node" /\ f.kind = "expedited" /\ f.key = req.key /\ f.text = od[req.key].text
      BY <1>3 DEF AnswerFrame
    <3>3. AnswersCall(f)'
      BY <1>3, <1>5, <2>3, <3>1, <3>2 DEF AnswersCall, AnswersRead, IsAnswer, NoServer
    <3> QED
      BY <1>2, <3>1, <3>3, ObjectsStay
  <2>4. CASE r.key \in DOMAIN od /\ ~od[r.key].expedited
    <3> PICK f : f = [AnswerFrame EXCEPT
                         !.kind = "initiate", !.key = r.key, !.even = ~od[r.key].sized,
                         !.size = IF od[r.key].sized THEN Len(od[r.key].text) ELSE 0]
      OBVIOUS
    <3>1. /\ rxq' = Append(rxq, f) /\ od' = od
          /\ server' = [NoServer EXCEPT !.mode = "upload", !.key = r.key, !.text = od[r.key].text]
      BY <2>1, <2>4, NoFault DEF NodeUpload, Unknown
    <3>2. od[req.key].sized
      BY <1>3, <2>4, Zenon DEF ObjectsSound
    <3>3. /\ f.from = "node" /\ f.kind = "initiate" /\ f.key = req.key
          /\ f.size = Len(od[req.key].text)
      BY <1>3, <3>2 DEF AnswerFrame
    <3>4. /\ server'.mode = "upload" /\ server'.text = od[req.key].text
          /\ server'.toggle = 0
      BY <1>3, <3>1 DEF NoServer
    <3>5. AnswersCall(f)'
      BY <1>3, <1>5, <2>4, <3>1, <3>3, <3>4 DEF AnswersCall, AnswersRead, IsAnswer
    <3> QED
      BY <1>2, <3>1, <3>5, ObjectsStay
  <2> QED
    BY <2>1, <2>2, <2>3, <2>4 DEF NodeUpload
<1> PICK done : done = [AnswerFrame EXCEPT !.kind = "downloaded", !.key = r.key]
  OBVIOUS
<1>6. done.from = "node" /\ done.kind = "downloaded" /\ done.key = req.key
  BY <1>3 DEF AnswerFrame
<1>7. CASE IsExpedited(req)
  <2>1. /\ NodeDownload /\ r.text = req.text /\ req.op \in {"write", "string"}
        /\ Sound(req.text)
    BY <1>1, <1>7, FrameOfCall, CallIsPlain, NodeTakes DEF IsExpedited
  <2>2. CASE Unknown
    BY <1>2, <1>4, <2>2, ObjectsStay
  <2>3. CASE r.key \in DOMAIN od
    <3>1. /\ rxq' = Append(rxq, done) /\ server' = NoServer
          /\ od' = [od EXCEPT ![req.key].text = req.text]
      BY <1>3, <2>1, <2>3, NoFault DEF NodeDownload, Unknown
    <3>2. DOMAIN od' = DOMAIN od /\ od'[req.key].text = req.text /\ ObjectsSound'
      BY <1>1, <1>3, <2>1, <2>3, <3>1, ObjectStored
    <3>3. AnswersCall(done)'
      BY <1>3, <1>6, <1>7, <2>1, <2>3, <3>1, <3>2
         DEF AnswersCall, AnswersWrite, IsAnswer, NoServer
    <3> QED
      BY <1>2, <3>1, <3>2, <3>3
  <2> QED
    BY <2>1, <2>2, <2>3 DEF NodeDownload
<1>8. CASE req.op = "string" /\ ~IsExpedited(req)
  <2>1. NodeDownloadInit /\ r.size = Len(req.text)
    BY <1>1, <1>8, FrameOfCall, NodeTakes
  <2>2. CASE Unknown
    BY <1>2, <1>4, <2>2, ObjectsStay
  <2>3. CASE r.key \in DOMAIN od
    <3>1. /\ rxq' = Append(rxq, done) /\ od' = od
          /\ server' = [NoServer EXCEPT !.mode = "download", !.key = r.key, !.size = r.size]
      BY <2>1, <2>3, NoFault DEF NodeDownloadInit, Unknown
    <3>2. /\ server'.mode = "download" /\ server'.key = req.key /\ server'.text = <<>>
          /\ server'.size = Len(req.text) /\ server'.toggle = 0
      BY <1>3, <2>1, <3>1 DEF NoServer
    <3>3. AnswersCall(done)'
      BY <1>3, <1>6, <1>8, <2>3, <3>1, <3>2 DEF AnswersCall, AnswersWrite, IsAnswer
    <3> QED
      BY <1>2, <3>1, <3>3, ObjectsStay
  <2> QED
    BY <2>1, <2>2, <2>3 DEF NodeDownloadInit
<1>9. CASE req.op = "file"
  <2>1. NodeBlockInit
    BY <1>1, <1>9, FrameOfCall, NodeTakes
  <2>2. CASE Unknown
    BY <1>2, <1>4, <2>2, ObjectsStay
  <2>3. CASE r.key \in DOMAIN od
    <3>0. ~Unknown
      BY <2>3 DEF Unknown
    <3>1. PICK b \in BlockSizes :
             /\ server' = [NoServer EXCEPT !.mode = "block", !.key = r.key, !.size = b]
             /\ Delivers([AnswerFrame EXCEPT !.kind = "blockReady", !.key = r.key, !.size = b])
      BY <2>1, <3>0, Zenon DEF NodeBlockInit
    <3>6. od' = od
      BY <2>1, <3>0, Zenon DEF NodeBlockInit
    <3> PICK f : f = [AnswerFrame EXCEPT !.kind = "blockReady", !.key = r.key, !.size = b]
      OBVIOUS
    <3>2. f.from = "node" /\ f.kind = "blockReady" /\ f.key = req.key /\ f.size = b
      BY <1>3 DEF AnswerFrame
    <3>3. rxq' = Append(rxq, f) /\ BlockSizes' = BlockSizes
      BY <3>1, NoFault DEF BlockSizes
    <3>4. /\ server'.mode = "block" /\ server'.key = req.key /\ server'.text = <<>>
          /\ server'.size = b /\ server'.seq = 0
      BY <1>3, <3>1 DEF NoServer
    <3>5. AnswersCall(f)'
      BY <1>3, <1>9, <2>3, <3>2, <3>3, <3>4, <3>6 DEF AnswersCall, AnswersFile, IsAnswer
    <3> QED
      BY <1>2, <3>3, <3>5, <3>6, ObjectsStay
  <2>4. Unknown \/ r.key \in DOMAIN od
    BY <2>1, Zenon DEF NodeBlockInit
  <2> QED
    BY <2>2, <2>3, <2>4
<1>10. req.op = "string" \/ req.op = "read" \/ req.op = "file" \/ IsExpedited(req)
  BY <1>1, CallIsPlain
<1> QED
  BY <1>5, <1>7, <1>8, <1>9, <1>10

LEMMA FirstOfTwo ==
    ASSUME BusTyped, toNode # <<>>, toNode' = Tail(toNode)
    PROVE  /\ r = toNode[1] /\ Len(toNode) \in Nat \ {0}
           /\ Len(toNode) = 1 => toNode' = <<>>
           /\ Len(toNode) = 2 => Len(toNode') = 1 /\ toNode'[1] = toNode[2]
<1>1. toNode \in Seq(Requests) /\ toNode # <<>>
  BY DEF BusTyped
<1>2. /\ r = toNode[1] /\ Tail(toNode) \in Seq(Requests) /\ Len(Tail(toNode)) = Len(toNode) - 1
      /\ Len(toNode) \in Nat \ {0}
      /\ \A i \in 1 .. Len(toNode) - 1 : Tail(toNode)[i] = toNode[i + 1]
  BY <1>1 DEF r
<1> QED
  BY <1>2

LEMMA ArrivesAtQueue ==
    ASSUME BusTyped, NEW f, IsAnswer(f), rxq' = Append(rxq, f)
    PROVE  /\ NoneIn(rxq) => OneIn(rxq', f)
           /\ \A g : OneIn(rxq, g) => TwoIn(rxq', g, f)
  BY AnswerArrives DEF BusTyped

LEMMA SegmentUploaded ==
    ASSUME IInv, Plain, SegmentAsked, Node, UNCHANGED <<setup, clientVars>>
    PROVE  SegmentGiven' /\ od' = od /\ elapsed' = elapsed
<1> PICK text : text = server.text
  OBVIOUS
<1> PICK f : f = [AnswerFrame EXCEPT !.kind = "segment", !.even = ~(Len(text) <= SEGMENT_DATA_SIZE),
                                     !.text = FirstPart(text)]
  OBVIOUS
<1>1. BusTyped /\ req' = req /\ loc' = loc
  BY DEF IInv, clientVars
<1>2. NodeSegment /\ toNode # <<>> /\ toNode' = Tail(toNode) /\ elapsed' = elapsed
      /\ r = toNode[1] /\ toNode' = <<>>
  <2>1. toNode # <<>> /\ toNode' = Tail(toNode) /\ elapsed' = elapsed
    BY NodeTakes
  <2>2. r = toNode[1] /\ toNode' = <<>>
    BY <1>1, <2>1, FirstOfTwo DEF SegmentAsked
  <2>3. r.kind = "segment"
    BY <2>2 DEF SegmentAsked
  <2> QED
    BY <2>1, <2>2, <2>3, NodeTakes
<1>3. server.mode = "upload" /\ r.toggle = server.toggle /\ server.toggle = loc.cmd
  BY <1>2 DEF SegmentAsked
<1>4. /\ rxq' = Append(rxq, f) /\ od' = od
      /\ server' = IF Len(text) <= SEGMENT_DATA_SIZE THEN NoServer
                   ELSE [server EXCEPT !.text = RestOf(@), !.toggle = 1 - @]
  BY <1>2, <1>3, NoFault DEF NodeSegment
<1>5. /\ f.from = "node" /\ f.kind = "segment" /\ f.text = FirstPart(text)
      /\ f.even <=> Len(text) > SEGMENT_DATA_SIZE
  <2>1. text \in Texts
    BY DEF SegmentAsked, Uploading
  <2>2. Len(text) \in Nat /\ SEGMENT_DATA_SIZE \in Nat
    BY <2>1, NodeAssumption DEF Texts
  <2>3. ~(Len(text) <= SEGMENT_DATA_SIZE) <=> Len(text) > SEGMENT_DATA_SIZE
    BY <2>2
  <2>4. f.even <=> ~(Len(text) <= SEGMENT_DATA_SIZE)
    BY DEF AnswerFrame
  <2>5. f.from = "node" /\ f.kind = "segment" /\ f.text = FirstPart(text)
    BY DEF AnswerFrame
  <2> QED
    BY <2>3, <2>4, <2>5
<1>6. OneIn(rxq', f)
  BY <1>1, <1>4, <1>5, ArrivesAtQueue DEF IsAnswer, SegmentAsked
<1>7. /\ Len(text) <= SEGMENT_DATA_SIZE => server'.mode = "none"
      /\ Len(text) > SEGMENT_DATA_SIZE =>
            server'.mode = "upload" /\ server'.toggle = 1 - loc.cmd /\ server'.text = RestOf(text)
  <2>1. Len(text) \in Nat /\ SEGMENT_DATA_SIZE \in Nat /\ server \in Servers
    BY <1>1, NodeAssumption DEF BusTyped, Servers, Texts
  <2>2. CASE Len(text) <= SEGMENT_DATA_SIZE
    BY <1>4, <2>1, <2>2 DEF NoServer
  <2>3. CASE Len(text) > SEGMENT_DATA_SIZE
    <3>1. server' = [server EXCEPT !.text = RestOf(@), !.toggle = 1 - @]
      BY <1>4, <2>1, <2>3
    <3> QED
      BY <1>3, <2>1, <2>3, <3>1 DEF Servers
  <2> QED
    BY <2>1, <2>2, <2>3
<1>8. Uploading(text)' /\ (loc.missing = ExpectedSegments(Len(text)))'
  BY <1>1, <1>4 DEF SegmentAsked, Uploading
<1> QED
  BY <1>1, <1>2, <1>4, <1>5, <1>6, <1>7, <1>8 DEF SegmentGiven, IsAnswer

LEMMA SegmentDownloaded ==
    ASSUME IInv, Plain, SegmentSent, Node, UNCHANGED <<setup, clientVars>>
    PROVE  SegmentTaken' /\ od' = od /\ elapsed' = elapsed
<1> PICK f : f = [AnswerFrame EXCEPT !.kind = "confirm", !.toggle = r.toggle]
  OBVIOUS
<1>1. BusTyped /\ req' = req /\ loc' = loc
  BY DEF IInv, clientVars
<1>2. toNode # <<>> /\ toNode' = Tail(toNode) /\ elapsed' = elapsed
  BY NodeTakes
<1>3. r = toNode[1] /\ toNode' = <<>>
  BY <1>1, <1>2, FirstOfTwo DEF SegmentSent
<1>4. /\ NodeDownloadSegment /\ ~r.last /\ r.text \in Texts /\ r.toggle = loc.cmd
      /\ server.toggle = loc.cmd /\ Downloading(r.text)
  BY <1>3, NodeTakes DEF SegmentSent
<1>5. /\ rxq' = Append(rxq, f) /\ od' = od
      /\ server' = [server EXCEPT !.text = server.text \o r.text, !.toggle = 1 - @]
  BY <1>4, NoFault DEF NodeDownloadSegment, Downloading
<1>6. IsAnswer(f) /\ Confirms(f) /\ f.toggle = loc.cmd
  BY <1>4 DEF AnswerFrame, Confirms, IsAnswer
<1>7. OneIn(rxq', f)
  BY <1>1, <1>5, <1>6, ArrivesAtQueue DEF SegmentSent
<1>8. /\ server'.mode = server.mode /\ server'.key = server.key /\ server'.size = server.size
      /\ server'.toggle = 1 - loc.cmd /\ server'.text = server.text \o r.text
  BY <1>1, <1>4, <1>5 DEF BusTyped, Servers
<1>9. server'.text \o <<>> = server.text \o r.text
  <2>1. server.text \in Texts
    BY <1>1 DEF BusTyped, Servers
  <2> QED
    BY <1>4, <1>8, <2>1, Joined
<1>10. Downloading(<<>>)'
  BY <1>1, <1>4, <1>5, <1>8, <1>9 DEF Downloading
<1> QED
  BY <1>1, <1>2, <1>3, <1>5, <1>6, <1>7, <1>8, <1>10 DEF SegmentTaken, Confirms

(* Segments of a block, and what makes a part of a printable text.         *)
LEMMA TwoParts ==
    ASSUME NEW text \in Texts
    PROVE  /\ FirstPart(text) \o RestOf(text) = text
           /\ FirstPart(text) \in Texts /\ RestOf(text) \in Texts
           /\ Len(text) <= SEGMENT_DATA_SIZE <=> RestOf(text) = <<>>
<1>1. FirstPart(text) \in Texts /\ RestOf(text) \in Texts
  BY PartsOfText
<1>2. CASE Len(text) <= SEGMENT_DATA_SIZE
  <2>1. FirstPart(text) = text /\ RestOf(text) = <<>>
    BY <1>2, ShortText
  <2> QED
    BY <1>1, <1>2, <2>1, Joined
<1>3. CASE Len(text) > SEGMENT_DATA_SIZE
  <2>1. FirstPart(text) \o RestOf(text) = text /\ RestOf(text) # <<>>
    BY <1>3, LongText
  <2>2. ~(Len(text) <= SEGMENT_DATA_SIZE)
    BY <1>3, NodeAssumption DEF Texts
  <2> QED
    BY <1>1, <2>1, <2>2
<1> QED
  BY <1>2, <1>3, NodeAssumption DEF Texts

LEMMA SoundPart ==
    ASSUME NEW text \in Texts, Sound(text), NEW n \in 1 .. Len(text)
    PROVE  Sound(SubSeq(text, 1, n)) /\ Len(SubSeq(text, 1, n)) = n
<1> DEFINE part == SubSeq(text, 1, n)
<1>1. /\ Len(text) \in Nat /\ part \in Texts /\ Len(part) = n
      /\ \A k \in 1 .. n : part[k] = text[k]
  BY DEF Texts
<1>2. part # <<>>
  BY <1>1
<1>3. ByteRange \in Nat /\ n < ByteRange
  BY <1>1, ReadAssumption DEF Sound
<1> HIDE DEF part
<1>4. \A k \in 1 .. Len(part) : part[k] \notin NonPrintable
  BY <1>1 DEF Sound
<1> QED
  BY <1>1, <1>2, <1>3, <1>4 DEF Sound, part

LEMMA TheOthersFollow ==
    ASSUME BusTyped, toNode # <<>>, toNode' = Tail(toNode)
    PROVE  /\ r = toNode[1] /\ Len(toNode) \in Nat \ {0} /\ Len(toNode') = Len(toNode) - 1
           /\ \A i \in 1 .. Len(toNode) - 1 : toNode'[i] = toNode[i + 1]
           /\ toNode' = <<>> <=> Len(toNode) = 1
<1>1. toNode \in Seq(Requests) /\ toNode # <<>>
  BY DEF BusTyped
<1>2. /\ r = toNode[1] /\ Tail(toNode) \in Seq(Requests) /\ Len(Tail(toNode)) = Len(toNode) - 1
      /\ Len(toNode) \in Nat \ {0}
      /\ \A i \in 1 .. Len(toNode) - 1 : Tail(toNode)[i] = toNode[i + 1]
  BY <1>1 DEF r
<1>3. Len(toNode) = 1 => Tail(toNode) = <<>>
  BY <1>2
<1>4. Tail(toNode) = <<>> => Len(Tail(toNode)) = 0
  BY EmptySeq
<1> QED
  BY <1>2, <1>3, <1>4

(* The node takes a segment: the next ones are on the way, or it was the   *)
(* last of what was sent, and the node acknowledges the block.             *)
LEMMA BlockSegmentTaken ==
    ASSUME IInv, Plain, NEW k \in Nat \ {0}, OnTheWay(k), Node, UNCHANGED <<setup, clientVars>>
    PROVE  /\ od' = od /\ elapsed' = elapsed /\ toNode # <<>> /\ toNode' = Tail(toNode)
           /\ \/ /\ OnTheWay(k - 1)' /\ server'.seq = server.seq + 1
                 /\ k = 1 => loc.data # <<>> /\ server.seq + 1 < server.size
              \/ /\ k = 1 /\ (loc.data = <<>> \/ server.seq + 1 = server.size)
                 /\ Received'
                 /\ \E f : Acknowledges(f)' /\ f.seq = server.seq + 1 /\ OneIn(rxq', f)
<1>1. /\ BusTyped /\ server \in Servers /\ setup \in DOMAIN Setups
      /\ req' = req /\ loc' = loc /\ BlockSizes' = BlockSizes
  BY DEF IInv, ClientTyped, TypeOK, BusTyped, clientVars, BlockSizes
<1>2. /\ Filing /\ NoneIn(rxq) /\ server.mode = "block" /\ server.size = loc.block_size
      /\ k \in 1 .. Len(toNode) /\ server.seq + k <= server.size
  BY DEF OnTheWay
<1>3. PICK rests \in [0 .. k -> Texts] : Carries(rests, k)
  BY DEF OnTheWay
<1>4. /\ toNode # <<>> /\ toNode' = Tail(toNode) /\ elapsed' = elapsed
      /\ r = toNode[1] /\ Len(toNode') = Len(toNode) - 1 /\ Len(toNode) \in Nat
      /\ \A i \in 1 .. Len(toNode) - 1 : toNode'[i] = toNode[i + 1]
  BY <1>1, NodeTakes, TheOthersFollow
<1>5. /\ server.text \in Texts /\ server.seq \in Nat /\ server.size \in Nat
      /\ rests[0] \in Texts /\ rests[1] \in Texts
  BY <1>1, <1>3 DEF Servers
<1>6. /\ r.kind = "blockSegment" /\ r.seq = server.seq + 1 /\ r.text = FirstPart(rests[0])
      /\ r.last <=> Len(rests[0]) <= SEGMENT_DATA_SIZE
      /\ rests[0] # <<>> /\ rests[1] = RestOf(rests[0]) /\ server.text \o rests[0] = req.text
      /\ rests[k] = loc.data
  <2>1. 1 \in 1 .. k /\ 1 - 1 = 0
    OBVIOUS
  <2> QED
    BY <1>3, <1>4, <2>1 DEF Carries, IsBlockSegment
<1>7. /\ r.text \in Texts /\ (r.last <=> rests[1] = <<>>)
      /\ (server.text \o r.text) \o rests[1] = req.text
  <2>1. /\ r.text \o rests[1] = rests[0] /\ r.text \in Texts
        /\ r.last <=> rests[1] = <<>>
    BY <1>5, <1>6, TwoParts
  <2>2. (server.text \o r.text) \o rests[1] = server.text \o (r.text \o rests[1])
    BY <1>5, <2>1, Associative
  <2> QED
    BY <1>6, <2>1, <2>2
<1>8. k # 1 => rests[1] # <<>>
  <2>1. ASSUME k # 1
        PROVE  rests[1] # <<>>
    <3>1. 2 \in 1 .. k /\ 2 - 1 = 1
      BY <2>1
    <3>2. IsBlockSegment(toNode[2], rests[1], server.seq + 2)
      BY <1>3, <3>1 DEF Carries
    <3> QED
      BY <3>2 DEF IsBlockSegment
  <2> QED
    BY <2>1
<1> DEFINE got == IF r.seq = server.seq + 1
                  THEN [server EXCEPT !.text = @ \o r.text, !.seq = @ + 1, !.last = Len(r.text)]
                  ELSE server
           Takes(b) ==
              /\ server' = [got EXCEPT
                    !.mode = IF r.last /\ r.seq = server.seq + 1 THEN "blockEnd" ELSE "block",
                    !.seq = 0, !.size = b]
              /\ Delivers([AnswerFrame EXCEPT !.kind = "blockAck", !.seq = got.seq, !.size = b])
<1>9. NodeBlockSegment /\ ~(server.mode # "block" /\ AbortsTransfer) /\ ~MayAbort
  BY <1>2, <1>6, NodeTakes, NoFault
<1>14. od' = od
  BY <1>2, <1>9, Zenon DEF NodeBlockSegment
<1>10. \/ (r.last \/ r.seq = server.size) /\ \E b \in BlockSizes : Takes(b)
       \/ ~(r.last \/ r.seq = server.size) /\ server' = got /\ rxq' = rxq
  BY <1>2, <1>9, Zenon DEF NodeBlockSegment
<1> HIDE DEF Takes
<1>11. /\ got.text = server.text \o r.text /\ got.seq = server.seq + 1 /\ got.last = Len(r.text)
       /\ got.mode = "block" /\ got.key = server.key /\ got.size = server.size
       /\ got \in Servers
  <2>1. server.text \o r.text \in Texts /\ server.seq + 1 \in Nat /\ Len(r.text) \in Nat
    BY <1>5, <1>7, Joined
  <2> QED
    BY <1>1, <1>2, <1>6, <2>1 DEF Servers
<1> HIDE DEF got
<1>12. CASE ~(r.last \/ r.seq = server.size)
  <2> DEFINE after == [i \in 0 .. k - 1 |-> rests[i + 1]]
  <2>1. server' = got /\ rxq' = rxq
    BY <1>10, <1>12
  <2>2. after \in [0 .. k - 1 -> Texts]
    BY <1>3
  <2>3. after[0] = rests[1] /\ after[k - 1] = rests[k]
    OBVIOUS
  <2>4. ASSUME NEW i \in 1 .. k - 1
        PROVE  /\ IsBlockSegment(toNode'[i], after[i - 1], got.seq + i)
               /\ after[i] = RestOf(after[i - 1])
    <3>1. i + 1 \in 1 .. k /\ (i + 1) - 1 = i /\ toNode'[i] = toNode[i + 1]
      BY <1>2, <1>4
    <3>2. after[i] = rests[i + 1] /\ after[i - 1] = rests[i]
      OBVIOUS
    <3>3. server.seq + (i + 1) = got.seq + i
      <4>1. server.seq \in Nat /\ i \in Int /\ got.seq = server.seq + 1
        BY <1>5, <1>11
      <4> QED
        BY <4>1
    <3> QED
      BY <1>3, <3>1, <3>2, <3>3 DEF Carries
  <2> HIDE DEF after
  <2>5. Carries(after, k - 1)'
    BY <1>1, <1>6, <1>7, <1>11, <2>1, <2>3, <2>4 DEF Carries, IsBlockSegment
  <2>6. Filing'
    BY <1>1, <1>2, <1>11, <1>14, <2>1 DEF Filing
  <2>7. k - 1 \in 0 .. Len(toNode') /\ got.seq + (k - 1) <= got.size
    BY <1>2, <1>4, <1>5, <1>11
  <2>8. OnTheWay(k - 1)'
    BY <1>1, <1>2, <1>11, <2>1, <2>2, <2>5, <2>6, <2>7 DEF OnTheWay, NoneIn
  <2>9. k = 1 => loc.data # <<>> /\ server.seq + 1 < server.size
    BY <1>2, <1>5, <1>6, <1>7, <1>12
  <2> QED
    BY <1>4, <1>11, <1>14, <2>1, <2>8, <2>9
<1>13. CASE r.last \/ r.seq = server.size
  <2>1. PICK b \in BlockSizes : Takes(b)
    BY <1>10, <1>13
  <2>2. b = loc.block_size
    BY <1>2 DEF Filing, Plain
  <2>3. k = 1
    BY <1>2, <1>5, <1>6, <1>7, <1>8, <1>13
  <2>4. rests[1] = loc.data /\ (r.last <=> loc.data = <<>>)
    BY <1>6, <1>7, <2>3
  <2>5. /\ server'.mode = IF r.last THEN "blockEnd" ELSE "block"
        /\ server'.seq = 0 /\ server'.size = b /\ server'.text = got.text
        /\ server'.key = got.key /\ server'.last = got.last
    BY <1>6, <1>11, <2>1 DEF Servers, Takes
  <2>6. r.last => Len(r.text) \in 1 .. SEGMENT_DATA_SIZE
    <3>1. ASSUME r.last
          PROVE  Len(r.text) \in 1 .. SEGMENT_DATA_SIZE
      <4>1. r.text = rests[0] /\ Len(rests[0]) <= SEGMENT_DATA_SIZE
        BY <1>5, <1>6, <3>1, ShortText
      <4> QED
        BY <1>5, <1>6, <4>1, NodeAssumption DEF Texts
    <3> QED
      BY <3>1
  <2>7. Received'
    BY <1>1, <1>2, <1>7, <1>11, <1>14, <2>2, <2>4, <2>5, <2>6 DEF Received, Filing
  <2> PICK f : f = [AnswerFrame EXCEPT !.kind = "blockAck", !.seq = got.seq, !.size = b]
    OBVIOUS
  <2>8. f.from = "node" /\ f.kind = "blockAck" /\ f.seq = got.seq /\ f.size = b
    BY DEF AnswerFrame
  <2>9. Acknowledges(f)' /\ IsAnswer(f) /\ rxq' = Append(rxq, f)
    BY <1>1, <2>1, <2>2, <2>8, NoFault DEF Acknowledges, IsAnswer, Takes
  <2>10. OneIn(rxq', f)
    BY <1>1, <1>2, <2>9, ArrivesAtQueue
  <2>11. loc.data = <<>> \/ server.seq + 1 = server.size
    BY <1>6, <1>13, <2>4
  <2> QED
    BY <1>4, <1>11, <1>14, <2>3, <2>7, <2>8, <2>9, <2>10, <2>11
<1> QED
  BY <1>12, <1>13

(* The end of a file: its last segment is not kept.                        *)
LEMMA BlocksEnd ==
    ASSUME IInv, Plain, ObjectsSound, req \in Calls, AllSent(0), Len(toNode) = 1,
           toNode[1] = EndFrame, Node, UNCHANGED <<setup, clientVars>>
    PROVE  EndTaken' /\ ObjectsSound' /\ elapsed' = elapsed
<1>1. /\ BusTyped /\ server \in Servers /\ setup \in DOMAIN Setups
      /\ req' = req /\ loc' = loc /\ BlockSizes' = BlockSizes
  BY DEF IInv, ClientTyped, TypeOK, BusTyped, clientVars, BlockSizes
<1>2. /\ toNode # <<>> /\ toNode' = <<>> /\ elapsed' = elapsed /\ r = EndFrame
  BY <1>1, NodeTakes, TheOthersFollow
<1>3. NodeBlockEnd /\ r.unused = SEGMENT_DATA_SIZE
  BY <1>2, NodeTakes DEF EndFrame
<1>4. /\ Filing /\ server.mode = "blockEnd" /\ server.last \in 1 .. SEGMENT_DATA_SIZE
      /\ server.text = req.text /\ req.text \in Texts
      /\ NoneIn(rxq) \/ \E f : Acknowledges(f) /\ OneIn(rxq, f)
  <2>1. /\ Received /\ loc.data = <<>>
        /\ NoneIn(rxq) \/ \E f : Acknowledges(f) /\ OneIn(rxq, f)
    BY DEF AllSent
  <2>2. server.text \o <<>> = server.text /\ server.text \in Texts
    BY <1>1, Joined DEF Servers
  <2> QED
    BY <2>1, <2>2 DEF Received
<1>5. /\ req.op = "file" /\ req.key \in DOMAIN od /\ server.key = req.key
      /\ Sound(req.text) /\ Len(req.text) > SEGMENT_DATA_SIZE
  BY <1>1, <1>4, CallIsPlain DEF Filing
<1> DEFINE n    == Len(server.text) - server.last
                      + Least(server.last, SEGMENT_DATA_SIZE - r.unused)
           part == SubSeq(req.text, 1, n)
<1>6. /\ SEGMENT_DATA_SIZE \in Nat \ {0} /\ Len(req.text) \in Nat
      /\ n = Len(req.text) - server.last
  <2>1. SEGMENT_DATA_SIZE \in Nat \ {0} /\ Len(req.text) \in Nat
    BY <1>4, NodeAssumption DEF Texts
  <2>2. Least(server.last, SEGMENT_DATA_SIZE - r.unused) = 0
    BY <1>3, <1>4, <2>1 DEF Least
  <2> QED
    BY <1>4, <2>1, <2>2
<1>7. /\ od' = [od EXCEPT ![req.key].text = part] /\ server' = NoServer
      /\ Delivers([AnswerFrame EXCEPT !.kind = "blockDone", !.even = FALSE])
  BY <1>3, <1>4, <1>5 DEF NodeBlockEnd
<1> HIDE DEF n
<1>8. /\ n \in 1 .. Len(req.text)
      /\ n \in Len(req.text) - SEGMENT_DATA_SIZE .. Len(req.text)
  BY <1>4, <1>5, <1>6
<1>9. Sound(part) /\ Len(part) = n
  BY <1>4, <1>5, <1>8, SoundPart
<1>10. DOMAIN od' = DOMAIN od /\ od'[req.key].text = part /\ ObjectsSound'
  BY <1>1, <1>5, <1>7, <1>9, ObjectStored
<1>11. Holds(part, req)
  BY <1>5, <1>8, <1>9 DEF Holds
<1> PICK f : f = [AnswerFrame EXCEPT !.kind = "blockDone", !.even = FALSE]
  OBVIOUS
<1>12. Finishes(f) /\ IsAnswer(f) /\ rxq' = Append(rxq, f)
  <2>1. f.from = "node" /\ f.kind = "blockDone"
    BY DEF AnswerFrame
  <2> QED
    BY <1>7, <2>1, NoFault DEF Finishes, IsAnswer
<1>13. OneIn(rxq', f) \/ \E g : Acknowledges(g) /\ TwoIn(rxq', g, f)
  BY <1>1, <1>4, <1>12, ArrivesAtQueue
<1>14. \A g : Acknowledges(g) => Acknowledges(g)'
  BY <1>1 DEF Acknowledges, IsAnswer
<1>15. Holds(od[req.key].text, req)'
  BY <1>1, <1>10, <1>11 DEF Holds
<1>16. server'.mode = "none"
  BY <1>7 DEF NoServer
<1> HIDE DEF part
<1>17. Finishes(f)'
  BY <1>12 DEF Finishes, IsAnswer
<1>18. (\E g : Finishes(g) /\ (OneIn(rxq, g) \/ \E h : Acknowledges(h) /\ TwoIn(rxq, h, g)))'
  BY <1>13, <1>14, <1>17
<1> QED
  BY <1>1, <1>2, <1>5, <1>10, <1>15, <1>16, <1>18 DEF EndTaken

(* A step of the node while a file is sent.                                *)
LEMMA BlocksNode ==
    ASSUME IInv, Plain, ObjectsSound, Client0, Talk, pc \in {"blocks", "ack", "end", "done"},
           Node, UNCHANGED <<setup, clientVars>>
    PROVE  Talk' /\ ObjectsSound' /\ elapsed' = elapsed
<1>1. /\ BusTyped /\ server \in Servers /\ pc' = pc /\ loc' = loc /\ req \in Calls
      /\ toNode # <<>> /\ toNode' = Tail(toNode) /\ loc \in Locals
  BY NodeTakes DEF IInv, BusTyped, ClientTyped, clientVars, Client0
<1>2. /\ Len(toNode) \in Nat \ {0} /\ Len(toNode') = Len(toNode) - 1
      /\ \A i \in 1 .. Len(toNode) - 1 : toNode'[i] = toNode[i + 1]
      /\ toNode' = <<>> <=> Len(toNode) = 1
      /\ server.seq \in Nat /\ server.size \in Nat /\ loc.block_size \in Nat
      /\ loc.segment_number \in Nat
  BY <1>1, TheOthersFollow DEF Servers, Locals
<1>3. CASE pc = "blocks"
  <2> PICK k : k = Len(toNode)
    OBVIOUS
  <2>1. /\ k \in Nat \ {0} /\ OnTheWay(k) /\ loc.data # <<>>
        /\ loc.segment_number <= loc.block_size /\ server.seq + k = loc.segment_number - 1
        /\ server.size = loc.block_size
    BY <1>2, <1>3 DEF Talk, BlockGoesOn, OnTheWay
  <2>2. /\ od' = od /\ elapsed' = elapsed
        /\ \/ OnTheWay(k - 1)' /\ server'.seq = server.seq + 1
           \/ k = 1 /\ server.seq + 1 = server.size
    BY <2>1, BlockSegmentTaken
  <2>3. OnTheWay(Len(toNode))' /\ server'.seq + Len(toNode') = loc.segment_number - 1
    <3>1. ~(k = 1 /\ server.seq + 1 = server.size)
      BY <1>2, <2>1
    <3>2. OnTheWay(k - 1)' /\ server'.seq = server.seq + 1
      BY <2>2, <3>1
    <3>3. Len(toNode') = k - 1 /\ server'.seq + (k - 1) = loc.segment_number - 1
      <4>1. server'.seq = server.seq + 1
        BY <3>2
      <4>2. k \in Int /\ server.seq \in Int
        BY <1>2, <2>1
      <4>3. (server.seq + 1) + (k - 1) = server.seq + k
        BY <4>2
      <4>4. Len(toNode') = k - 1
        BY <1>2
      <4> QED
        BY <2>1, <4>1, <4>3, <4>4
    <3> QED
      BY <3>2, <3>3
  <2>4. BlockGoesOn'
    BY <1>1, <2>1, <2>3 DEF BlockGoesOn
  <2> QED
    BY <1>1, <1>3, <2>2, <2>4, ObjectsStay DEF Talk
<1>4. CASE pc = "ack"
  <2> PICK k : k = Len(toNode)
    OBVIOUS
  <2>1. /\ k \in Nat \ {0} /\ OnTheWay(k) /\ server.seq + k = loc.block_size
        /\ server.size = loc.block_size
    BY <1>1, <1>2, <1>4 DEF Talk, BlockSent, BlockTaken, OnTheWay
  <2>2. /\ od' = od /\ elapsed' = elapsed
        /\ \/ /\ OnTheWay(k - 1)' /\ server'.seq = server.seq + 1
              /\ k = 1 => server.seq + 1 < server.size
           \/ /\ k = 1 /\ Received'
              /\ \E f : Acknowledges(f)' /\ f.seq = server.seq + 1 /\ OneIn(rxq', f)
    BY <2>1, BlockSegmentTaken
  <2>3. CASE k # 1
    <3>3. OnTheWay(k - 1)' /\ server'.seq = server.seq + 1
      BY <2>2, <2>3
    <3>4. Len(toNode') = k - 1 /\ server'.seq + (k - 1) = loc.block_size
      <4>1. server'.seq = server.seq + 1
        BY <3>3
      <4>2. k \in Int /\ server.seq \in Int
        BY <1>2, <2>1
      <4>3. (server.seq + 1) + (k - 1) = server.seq + k
        BY <4>2
      <4>4. Len(toNode') = k - 1
        BY <1>2
      <4> QED
        BY <2>1, <4>1, <4>3, <4>4
    <3>1. /\ OnTheWay(Len(toNode))' /\ toNode' # <<>>
          /\ server'.seq + Len(toNode') = loc.block_size
      BY <1>2, <2>3, <3>3, <3>4
    <3>2. BlockSent'
      BY <1>1, <3>1 DEF BlockSent
    <3> QED
      BY <1>1, <1>4, <2>2, <3>2, ObjectsStay DEF Talk
  <2>4. CASE k = 1
    <3>1. /\ Received' /\ toNode' = <<>>
          /\ \E f : Acknowledges(f)' /\ f.seq = loc.block_size /\ OneIn(rxq', f)
      BY <1>2, <2>1, <2>2, <2>4
    <3>2. BlockTaken'
      BY <1>1, <3>1 DEF BlockTaken
    <3> QED
      BY <1>1, <1>4, <2>2, <3>2, ObjectsStay DEF Talk
  <2> QED
    BY <2>3, <2>4
<1>5. ASSUME NEW k \in Nat \ {0}, AllSent(k)
      PROVE  AllSent(k - 1)' /\ od' = od /\ elapsed' = elapsed
  <2>1. OnTheWay(k) /\ loc.data = <<>>
    BY <1>5 DEF AllSent
  <2>2. /\ od' = od /\ elapsed' = elapsed
        /\ \/ OnTheWay(k - 1)' /\ k # 1
           \/ k = 1 /\ Received' /\ \E f : Acknowledges(f)' /\ OneIn(rxq', f)
    BY <2>1, BlockSegmentTaken
  <2>3. CASE OnTheWay(k - 1)' /\ k # 1
    <3>1. k - 1 # 0
      BY <2>3
    <3> QED
      BY <1>1, <2>1, <2>2, <2>3, <3>1 DEF AllSent
  <2>4. CASE k = 1 /\ Received' /\ \E f : Acknowledges(f)' /\ OneIn(rxq', f)
    <3>1. k - 1 = 0
      BY <2>4
    <3> QED
      BY <1>1, <2>1, <2>2, <2>4, <3>1 DEF AllSent
  <2> QED
    BY <2>2, <2>3, <2>4
<1>6. CASE pc = "end"
  <2> PICK k : k = Len(toNode)
    OBVIOUS
  <2>1. AllSent(k) /\ k \in Nat \ {0}
    BY <1>2, <1>6 DEF Talk
  <2>2. AllSent(k - 1)' /\ od' = od /\ elapsed' = elapsed
    BY <1>5, <2>1
  <2>3. AllSent(Len(toNode))'
    BY <1>2, <2>2
  <2> QED
    BY <1>1, <1>6, <2>2, <2>3, ObjectsStay DEF Talk
<1>7. CASE pc = "done"
  <2>1. AllSent(Len(toNode) - 1) /\ toNode[Len(toNode)] = EndFrame
    BY <1>1, <1>7 DEF Talk, EndSent, EndTaken
  <2>2. CASE Len(toNode) = 1
    <3>1. EndTaken' /\ ObjectsSound' /\ elapsed' = elapsed
      BY <1>1, <2>1, <2>2, BlocksEnd
    <3> QED
      BY <1>1, <1>7, <3>1 DEF Talk
  <2>3. CASE Len(toNode) # 1
    <3> PICK k : k = Len(toNode) - 1
      OBVIOUS
    <3>1. k \in Nat \ {0} /\ AllSent(k) /\ Len(toNode') - 1 = k - 1
      BY <1>2, <2>1, <2>3
    <3>2. AllSent(k - 1)' /\ od' = od /\ elapsed' = elapsed
      BY <1>5, <3>1
    <3>3. toNode' # <<>> /\ toNode'[Len(toNode')] = EndFrame
      <4>1. Len(toNode) - 1 \in 1 .. Len(toNode) - 1 /\ (Len(toNode) - 1) + 1 = Len(toNode)
        BY <1>2, <2>3
      <4> QED
        BY <1>2, <2>1, <2>3, <4>1
    <3>4. EndSent'
      BY <3>1, <3>2, <3>3 DEF EndSent, EndFrame
    <3> QED
      BY <1>1, <1>7, <3>2, <3>4, ObjectsStay DEF Talk
  <2> QED
    BY <2>2, <2>3
<1> QED
  BY <1>3, <1>4, <1>6, <1>7

(* A step of the node is one of the dialogue.                              *)
LEMMA RestingNode ==
    ASSUME IInv, Plain, ObjectsSound, Resting, Returned, Node, UNCHANGED <<setup, clientVars>>
    PROVE  /\ ConfirmLeft' /\ Returned' /\ ObjectsSound' /\ elapsed' = elapsed
<1>1. BusTyped /\ toNode # <<>> /\ toNode' = Tail(toNode) /\ result' = result
  BY NodeTakes DEF IInv, clientVars
<1>2. SegmentLeft
  BY <1>1 DEF Resting, Nothing, ConfirmLeft
<1>3. r = toNode[1] /\ toNode' = <<>> /\ Ends(r) /\ NoneIn(rxq)
  BY <1>1, <1>2, FirstOfTwo DEF SegmentLeft
<1>4. /\ server'.mode = "none" /\ elapsed' = elapsed
      /\ DOMAIN od' = DOMAIN od /\ ObjectsSound'
      /\ od'[server.key].text = server.text \o r.text
      /\ \E f : Confirms(f) /\ rxq' = Append(rxq, f)
  BY <1>1, <1>3, TextEnds
<1>5. PICK f : Confirms(f) /\ rxq' = Append(rxq, f)
  BY <1>4
<1>6. Confirms(f) /\ OneIn(rxq', f)
  BY <1>1, <1>3, <1>5, ArrivesAtQueue DEF Confirms
<1>7. ConfirmLeft'
  BY <1>3, <1>4, <1>6 DEF ConfirmLeft, Confirms
<1>8. Returned'
  BY <1>1, <1>3, <1>4 DEF Returned, Holds
<1> QED
  BY <1>4, <1>7, <1>8

LEMMA AskedNode ==
    ASSUME IInv, Plain, ObjectsSound, req \in Calls, Asked, Node, UNCHANGED <<setup, clientVars>>
    PROVE  /\ (Asked \/ Answered)' /\ ObjectsSound' /\ elapsed' = elapsed
<1>1. /\ BusTyped /\ toNode # <<>> /\ toNode' = Tail(toNode)
      /\ req' = req /\ FirstFrame(req)' = FirstFrame(req)
  BY NodeTakes DEF IInv, clientVars, FirstFrame, IsExpedited
<1>2. CASE Len(toNode) = 1
  <2>1. r = toNode[1] /\ toNode' = <<>> /\ r = FirstFrame(req)
    BY <1>1, <1>2, FirstOfTwo DEF Asked
  <2>2. /\ elapsed' = elapsed /\ ObjectsSound'
        /\ \E f : AnswersCall(f)' /\ rxq' = Append(rxq, f)
    BY <2>1, CallAnswered
  <2>3. PICK f : AnswersCall(f)' /\ rxq' = Append(rxq, f)
    BY <2>2
  <2>4. IsAnswer(f)
    BY <2>3 DEF AnswersCall, IsAnswer
  <2>5. NoneIn(rxq) \/ \E g : Confirms(g) /\ OneIn(rxq, g)
    BY <1>2 DEF Asked
  <2>6. OneIn(rxq', f) \/ \E g : Confirms(g) /\ TwoIn(rxq', g, f)
    BY <1>1, <2>3, <2>4, <2>5, ArrivesAtQueue
  <2>7. Answered'
    BY <2>1, <2>3, <2>6 DEF Answered, Confirms
  <2> QED
    BY <2>2, <2>7
<1>3. CASE Len(toNode) = 2
  <2>1. /\ r = toNode[1] /\ Len(toNode') = 1 /\ toNode'[1] = FirstFrame(req)
        /\ Ends(r) /\ NoneIn(rxq)
    BY <1>1, <1>3, FirstOfTwo DEF Asked
  <2>2. /\ server'.mode = "none" /\ elapsed' = elapsed /\ ObjectsSound'
        /\ \E f : Confirms(f) /\ rxq' = Append(rxq, f)
    BY <1>1, <2>1, TextEnds
  <2>3. PICK f : Confirms(f) /\ rxq' = Append(rxq, f)
    BY <2>2
  <2>4. Confirms(f) /\ OneIn(rxq', f)
    BY <1>1, <2>1, <2>3, ArrivesAtQueue DEF Confirms
  <2>5. Asked'
    BY <1>1, <2>1, <2>2, <2>4 DEF Asked, Confirms
  <2> QED
    BY <2>2, <2>5
<1> QED
  BY <1>2, <1>3 DEF Asked

LEMMA NodeDialogue ==
    ASSUME IInv, Plain, Dialogue, Node, UNCHANGED <<setup, clientVars>>
    PROVE  Dialogue'
<1>1. /\ toNode # <<>> /\ pc' = pc /\ req' = req /\ loc' = loc /\ result' = result
      /\ Calls' = Calls
  BY NodeTakes DEF clientVars, Calls
<1>2. CASE pc \in {"idle", "clear", "request"}
  <2>1. ConfirmLeft' /\ Returned' /\ ObjectsSound' /\ elapsed' = elapsed
    BY <1>2, RestingNode DEF Dialogue, Talk
  <2>2. Talk'
    BY <1>1, <1>2, <2>1 DEF Talk, Resting
  <2>3. Client0'
    BY <1>1, <2>1 DEF Dialogue, Client0
  <2> QED
    BY <2>1, <2>2, <2>3 DEF Dialogue
<1>3. CASE pc \notin {"idle", "clear", "request"}
  <2>1. result'.state = "none" /\ req \in Calls
    BY <1>1, <1>3 DEF Dialogue, Client0
  <2>2. Returned'
    BY <2>1 DEF Returned
  <2>3. Talk' /\ ObjectsSound' /\ elapsed' = elapsed
    <3>1. CASE pc = "wait"
      <4>1. Asked
        BY <1>1, <3>1 DEF Dialogue, Talk, Answered
      <4>2. (Asked \/ Answered)' /\ ObjectsSound' /\ elapsed' = elapsed
        BY <2>1, <4>1, AskedNode DEF Dialogue
      <4> QED
        BY <1>1, <3>1, <4>2 DEF Talk
    <3>2. CASE pc = "segments"
      <4>1. SegmentAsked
        BY <1>1, <3>2 DEF Dialogue, Talk, SegmentGiven
      <4>2. SegmentGiven' /\ od' = od /\ elapsed' = elapsed
        BY <4>1, SegmentUploaded
      <4> QED
        BY <1>1, <3>2, <4>2, ObjectsStay DEF Talk, Dialogue
    <3>3. CASE pc = "confirm"
      <4>1. SegmentSent
        BY <1>1, <3>3 DEF Dialogue, Talk, SegmentTaken
      <4>2. SegmentTaken' /\ od' = od /\ elapsed' = elapsed
        BY <4>1, SegmentDownloaded
      <4> QED
        BY <1>1, <3>3, <4>2, ObjectsStay DEF Talk, Dialogue
    <3>4. CASE pc \in {"blocks", "ack", "end", "done"}
      BY <3>4, BlocksNode DEF Dialogue
    <3>5. pc \notin {"segment", "next"}
      BY <1>1 DEF Dialogue, Talk, UploadStarts, DownloadGoesOn
    <3> QED
      BY <1>3, <3>1, <3>2, <3>3, <3>4, <3>5 DEF IInv, ClientTyped, TypeOK
  <2>4. Client0'
    BY <1>1, <2>3 DEF Dialogue, Client0
  <2> QED
    BY <2>2, <2>3, <2>4 DEF Dialogue
<1> QED
  BY <1>2, <1>3

-----------------------------------------------------------------------------
(* Frames of other nodes, received or read, change nothing.                *)

Keeps(q, p) ==
    /\ NoneIn(q) => NoneIn(p)
    /\ \A f : IsAnswer(f) /\ OneIn(q, f) => OneIn(p, f)
    /\ \A f, g : IsAnswer(f) /\ IsAnswer(g) /\ TwoIn(q, f, g) => TwoIn(p, f, g)

LEMMA RestingKept ==
    ASSUME Resting, Keeps(rxq, rxq'), UNCHANGED <<toNode, nodeVars>>
    PROVE  Resting'
<1>1. toNode' = toNode /\ od' = od /\ server' = server
  BY DEF nodeVars
<1>2. CASE Nothing
  BY <1>1, <1>2 DEF Resting, Nothing, Keeps
<1>3. CASE SegmentLeft
  BY <1>1, <1>3 DEF Resting, SegmentLeft, Keeps, Ends, Sound
<1>4. CASE ConfirmLeft
  <2>1. PICK f : Confirms(f) /\ OneIn(rxq, f)
    BY <1>4 DEF ConfirmLeft
  <2>2. OneIn(rxq', f)
    BY <2>1 DEF Keeps, Confirms
  <2> QED
    BY <1>1, <1>4, <2>1, <2>2 DEF Resting, ConfirmLeft, Confirms
<1> QED
  BY <1>2, <1>3, <1>4 DEF Resting

LEMMA WaitKept ==
    ASSUME Asked \/ Answered, Keeps(rxq, rxq'), UNCHANGED <<setup, toNode, nodeVars, req>>
    PROVE  (Asked \/ Answered)'
<1>1. /\ toNode' = toNode /\ od' = od /\ server' = server /\ req' = req
      /\ FirstFrame(req)' = FirstFrame(req) /\ BlockSizes' = BlockSizes
  BY DEF nodeVars, FirstFrame, IsExpedited, BlockSizes
<1>2. CASE Asked
  <2>1. NoneIn(rxq) => NoneIn(rxq')
    BY DEF Keeps
  <2>2. (\E f : Confirms(f) /\ OneIn(rxq, f)) => \E f : Confirms(f) /\ OneIn(rxq', f)
    BY DEF Keeps, Confirms
  <2>3. Ends(toNode[1]) => Ends(toNode[1])'
    BY <1>1 DEF Ends, Sound
  <2> QED
    BY <1>1, <1>2, <2>1, <2>2, <2>3 DEF Asked, Confirms
<1>3. CASE Answered
  <2>1. PICK f : AnswersCall(f) /\ (OneIn(rxq, f) \/ \E g : Confirms(g) /\ TwoIn(rxq, g, f))
    BY <1>3 DEF Answered
  <2>2. IsAnswer(f) /\ \A g : Confirms(g) => IsAnswer(g)
    BY <2>1 DEF AnswersCall, Confirms
  <2>3. OneIn(rxq', f) \/ \E g : Confirms(g) /\ TwoIn(rxq', g, f)
    BY <2>1, <2>2 DEF Keeps
  <2>4. AnswersCall(f)'
    BY <1>1, <2>1
       DEF AnswersCall, AnswersRead, AnswersWrite, AnswersFile, IsAnswer, IsExpedited
  <2>5. toNode' = <<>>
    BY <1>1, <1>3 DEF Answered
  <2> QED
    BY <2>3, <2>4, <2>5 DEF Answered, Confirms
<1> QED
  BY <1>2, <1>3

LEMMA SegmentsKept ==
    ASSUME SegmentAsked \/ SegmentGiven, Keeps(rxq, rxq'), UNCHANGED <<toNode, nodeVars, req, loc>>
    PROVE  (SegmentAsked \/ SegmentGiven)'
<1>1. toNode' = toNode /\ od' = od /\ server' = server /\ req' = req /\ loc' = loc
  BY DEF nodeVars
<1>2. CASE SegmentAsked
  BY <1>1, <1>2 DEF SegmentAsked, Uploading, Keeps
<1>3. CASE SegmentGiven
  <2>1. PICK f, text :
          /\ IsAnswer(f) /\ OneIn(rxq, f) /\ f.kind = "segment" /\ f.text = FirstPart(text)
          /\ f.even <=> Len(text) > SEGMENT_DATA_SIZE
          /\ Uploading(text) /\ loc.missing = ExpectedSegments(Len(text))
          /\ Len(text) <= SEGMENT_DATA_SIZE => server.mode = "none"
          /\ Len(text) > SEGMENT_DATA_SIZE =>
                server.mode = "upload" /\ server.toggle = 1 - loc.cmd /\ server.text = RestOf(text)
    BY <1>3 DEF SegmentGiven
  <2>2. OneIn(rxq', f)
    BY <2>1 DEF Keeps
  <2>3. Uploading(text)'
    BY <1>1, <2>1 DEF Uploading
  <2>4. toNode' = <<>>
    BY <1>1, <1>3 DEF SegmentGiven
  <2> QED
    BY <1>1, <2>1, <2>2, <2>3, <2>4 DEF SegmentGiven, IsAnswer
<1> QED
  BY <1>2, <1>3

LEMMA ConfirmKept ==
    ASSUME SegmentSent \/ SegmentTaken, Keeps(rxq, rxq'), UNCHANGED <<toNode, nodeVars, req, loc>>
    PROVE  (SegmentSent \/ SegmentTaken)'
<1>1. toNode' = toNode /\ od' = od /\ server' = server /\ req' = req /\ loc' = loc
  BY DEF nodeVars
<1>2. CASE SegmentSent
  BY <1>1, <1>2 DEF SegmentSent, Downloading, Keeps
<1>3. CASE SegmentTaken
  BY <1>1, <1>3 DEF SegmentTaken, Downloading, Keeps, Confirms
<1> QED
  BY <1>2, <1>3

LEMMA OnTheWayKept ==
    ASSUME NEW k, OnTheWay(k), NoneIn(rxq'), k \in 0 .. Len(toNode'),
           \A i \in 1 .. k : toNode'[i] = toNode[i], UNCHANGED <<setup, nodeVars, req, loc>>
    PROVE  OnTheWay(k)'
<1>1. /\ od' = od /\ server' = server /\ req' = req /\ loc' = loc /\ BlockSizes' = BlockSizes
  BY DEF nodeVars, BlockSizes
<1>2. PICK rests \in [0 .. k -> Texts] : Carries(rests, k)
  BY DEF OnTheWay
<1>3. Carries(rests, k)'
  BY <1>1, <1>2 DEF Carries, IsBlockSegment
<1>4. Filing'
  BY <1>1 DEF OnTheWay, Filing
<1> QED
  BY <1>1, <1>3, <1>4 DEF OnTheWay, NoneIn

LEMMA ReceivedKept ==
    ASSUME Received, UNCHANGED <<setup, nodeVars, req, loc>>
    PROVE  Received' /\ \A f : Acknowledges(f) => IsAnswer(f) /\ Acknowledges(f)'
<1>1. /\ od' = od /\ server' = server /\ req' = req /\ loc' = loc /\ BlockSizes' = BlockSizes
  BY DEF nodeVars, BlockSizes
<1> QED
  BY <1>1 DEF Received, Filing, Acknowledges, IsAnswer

LEMMA AllSentKept ==
    ASSUME NEW k, AllSent(k), Keeps(rxq, rxq'), k \in 0 .. Len(toNode'),
           \A i \in 1 .. k : toNode'[i] = toNode[i], UNCHANGED <<setup, nodeVars, req, loc>>
    PROVE  AllSent(k)'
<1>1. CASE k # 0 /\ OnTheWay(k)
  <2>1. NoneIn(rxq')
    BY <1>1 DEF Keeps, OnTheWay
  <2>2. OnTheWay(k)'
    BY <1>1, <2>1, OnTheWayKept
  <2> QED
    BY <1>1, <2>2 DEF AllSent
<1>2. CASE k = 0 /\ Received
  <2>1. Received' /\ \A f : Acknowledges(f) => IsAnswer(f) /\ Acknowledges(f)'
    BY <1>2, ReceivedKept
  <2>2. NoneIn(rxq) \/ \E f : Acknowledges(f) /\ OneIn(rxq, f)
    BY <1>2 DEF AllSent
  <2>3. NoneIn(rxq') \/ \E f : Acknowledges(f)' /\ OneIn(rxq', f)
    BY <2>1, <2>2 DEF Keeps
  <2> QED
    BY <1>2, <2>1, <2>3 DEF AllSent
<1> QED
  BY <1>1, <1>2 DEF AllSent

LEMMA BlocksKept ==
    ASSUME BusTyped, Keeps(rxq, rxq'), UNCHANGED <<setup, toNode, nodeVars, req, loc>>
    PROVE  /\ BlockGoesOn => BlockGoesOn'
           /\ BlockSent \/ BlockTaken => (BlockSent \/ BlockTaken)'
           /\ AllSent(Len(toNode)) => AllSent(Len(toNode))'
           /\ EndSent \/ EndTaken => (EndSent \/ EndTaken)'
<1>1. /\ toNode' = toNode /\ od' = od /\ server' = server /\ req' = req /\ loc' = loc
      /\ Len(toNode) \in Nat
  BY DEF nodeVars, BusTyped
<1> PICK n : n = Len(toNode)
  OBVIOUS
<1>2. OnTheWay(n) => OnTheWay(n)'
  <2>1. ASSUME OnTheWay(n)
        PROVE  OnTheWay(n)'
    <3>1. NoneIn(rxq') /\ n \in 0 .. Len(toNode')
      BY <1>1, <2>1 DEF Keeps, OnTheWay
    <3> QED
      BY <1>1, <2>1, <3>1, OnTheWayKept
  <2> QED
    BY <2>1
<1>3. ASSUME NEW k \in 0 .. n, AllSent(k)
      PROVE  AllSent(k)'
  BY <1>1, <1>3, AllSentKept
<1>4. BlockGoesOn => BlockGoesOn'
  BY <1>1, <1>2 DEF BlockGoesOn
<1>5. BlockSent => BlockSent'
  BY <1>1, <1>2 DEF BlockSent
<1>6. ASSUME BlockTaken
      PROVE  BlockTaken'
  <2>1. Received' /\ \A f : Acknowledges(f) => IsAnswer(f) /\ Acknowledges(f)'
    BY <1>6, ReceivedKept DEF BlockTaken
  <2>2. \E f : Acknowledges(f)' /\ f.seq = loc.block_size /\ OneIn(rxq', f)
    BY <1>6, <2>1 DEF BlockTaken, Keeps
  <2>3. toNode' = <<>>
    BY <1>1, <1>6 DEF BlockTaken
  <2> QED
    BY <1>1, <2>1, <2>2, <2>3 DEF BlockTaken
<1>7. AllSent(Len(toNode)) => AllSent(Len(toNode))'
  <2>1. n \in 0 .. n
    BY <1>1
  <2> QED
    BY <1>1, <1>3, <2>1
<1>8. ASSUME EndSent
      PROVE  EndSent'
  <2> PICK k : k = n - 1
    OBVIOUS
  <2>1. AllSent(k) /\ k \in 0 .. n
    <3>1. toNode # <<>> => Len(toNode) \in Nat \ {0}
      BY DEF BusTyped
    <3> QED
      BY <1>8, <3>1 DEF EndSent
  <2>2. AllSent(k)'
    BY <1>3, <2>1
  <2> QED
    BY <1>1, <1>8, <2>2 DEF EndSent, EndFrame
<1>9. ASSUME EndTaken
      PROVE  EndTaken'
  <2>1. PICK f : /\ Finishes(f)
                 /\ (OneIn(rxq, f) \/ \E g : Acknowledges(g) /\ TwoIn(rxq, g, f))
    BY <1>9 DEF EndTaken
  <2>2. IsAnswer(f) /\ \A g : Acknowledges(g) => IsAnswer(g) /\ Acknowledges(g)'
    BY <1>1, <2>1 DEF Finishes, Acknowledges, IsAnswer
  <2>3. OneIn(rxq', f) \/ \E g : Acknowledges(g)' /\ TwoIn(rxq', g, f)
    BY <2>1, <2>2 DEF Keeps
  <2>4. Finishes(f)'
    BY <2>1 DEF Finishes, IsAnswer
  <2>5. Holds(od[req.key].text, req)'
    BY <1>1, <1>9 DEF EndTaken, Holds
  <2> QED
    BY <1>1, <1>9, <2>3, <2>4, <2>5 DEF EndTaken
<1> QED
  BY <1>4, <1>5, <1>6, <1>7, <1>8, <1>9

LEMMA DialogueKept ==
    ASSUME BusTyped, Dialogue, Keeps(rxq, rxq'), UNCHANGED <<setup, toNode, elapsed, nodeVars, clientVars>>
    PROVE  Dialogue'
<1>1. /\ toNode' = toNode /\ od' = od /\ server' = server /\ elapsed' = elapsed
      /\ pc' = pc /\ req' = req /\ loc' = loc /\ result' = result /\ Calls' = Calls
  BY DEF nodeVars, clientVars, Calls
<1>2. ObjectsSound' /\ Client0' /\ Returned'
  BY <1>1, ObjectsStay DEF Dialogue, Client0, Returned, Holds
<1>3. Resting => Resting'
  BY RestingKept
<1>4. Asked \/ Answered => (Asked \/ Answered)'
  BY <1>1, WaitKept
<1>5. SegmentAsked \/ SegmentGiven => (SegmentAsked \/ SegmentGiven)'
  BY <1>1, SegmentsKept
<1>6. SegmentSent \/ SegmentTaken => (SegmentSent \/ SegmentTaken)'
  BY <1>1, ConfirmKept
<1>7. UploadStarts => UploadStarts'
  BY <1>1 DEF UploadStarts, Uploading, Keeps
<1>8. DownloadGoesOn => DownloadGoesOn'
  BY <1>1 DEF DownloadGoesOn, Downloading, Keeps
<1>10. /\ BlockGoesOn => BlockGoesOn'
       /\ BlockSent \/ BlockTaken => (BlockSent \/ BlockTaken)'
       /\ AllSent(Len(toNode)) => AllSent(Len(toNode))'
       /\ EndSent \/ EndTaken => (EndSent \/ EndTaken)'
  BY <1>1, BlocksKept
<1>9. Talk'
  BY <1>1, <1>3, <1>4, <1>5, <1>6, <1>7, <1>8, <1>10 DEF Dialogue, Talk
<1> QED
  BY <1>2, <1>9 DEF Dialogue

LEMMA BusDialogue ==
    ASSUME IInv, Plain, Dialogue, BusStep
    PROVE  Dialogue'
<1>1. OtherTraffic
  BY NoFault DEF BusStep, LoseRequest
<1>2. rxq \in Seq(Frames) /\ rxq' = Append(rxq, OtherFrame)
  BY <1>1 DEF OtherTraffic, Answers, IInv, BusTyped
<1>3. Keeps(rxq, rxq')
  BY <1>2, OtherArrives DEF Keeps
<1> QED
  BY <1>1, <1>3, DialogueKept DEF BusStep, OtherTraffic, IInv

-----------------------------------------------------------------------------
(* The client.                                                             *)

LEMMA AnswerTaken ==
    ASSUME BusTyped, ReadsAnswer
    PROVE  /\ ~NoneIn(rxq)
           /\ \A f : OneIn(rxq, f) => Head(rxq) = f /\ NoneIn(rxq')
           /\ \A f, g : IsAnswer(f) /\ IsAnswer(g) /\ TwoIn(rxq, f, g) =>
                           Head(rxq) = f /\ OneIn(rxq', g)
  BY AnswerLeaves DEF BusTyped, ReadsAnswer

LEMMA AnswerThere ==
    ASSUME NEW q
    PROVE  /\ \A f : IsAnswer(f) /\ OneIn(q, f) => ~NoneIn(q)
           /\ \A f, g : IsAnswer(f) /\ TwoIn(q, f, g) => ~NoneIn(q)
  BY DEF OneIn, TwoIn, NoneIn

LEMMA CallDialogue ==
    ASSUME IInv, Plain, Dialogue, Call, setup' = setup
    PROVE  Dialogue'
<1>1. /\ pc = "idle" /\ toNode' = toNode /\ rxq' = rxq /\ elapsed' = elapsed
      /\ loc' = loc /\ od' = od /\ server' = server /\ Calls' = Calls
  BY DEF Call, linkVars, nodeVars, Calls
<1>2. PICK c \in Calls : /\ req' = c /\ pc' = IF c.op = "read" THEN "clear" ELSE "request"
                         /\ result' = NoResult
  BY NoFault DEF Call
<1>3. /\ pc' \in {"clear", "request"} /\ req' \in Calls' /\ result'.state = "none"
      /\ pc' = "clear" => req'.op = "read"
  BY <1>1, <1>2 DEF NoResult
<1>4. Resting'
  <2>1. Keeps(rxq, rxq')
    BY <1>1 DEF Keeps
  <2>2. Resting
    BY <1>1 DEF Dialogue, Talk
  <2> QED
    BY <1>1, <2>1, <2>2, RestingKept DEF nodeVars
<1>5. Talk'
  BY <1>3, <1>4 DEF Talk
<1>6. Client0'
  BY <1>1, <1>3 DEF Dialogue, Client0
<1>7. ObjectsSound' /\ Returned'
  BY <1>1, <1>3, ObjectsStay DEF Dialogue, Returned
<1> QED
  BY <1>5, <1>6, <1>7 DEF Dialogue

LEMMA ClearBufferDialogue ==
    ASSUME IInv, Plain, Dialogue, ClearBuffer, setup' = setup
    PROVE  Dialogue'
<1>1. /\ pc = "clear" /\ pc' = "request" /\ loc' = loc /\ elapsed' = 0 /\ req' = req
      /\ result' = result /\ toNode' = toNode /\ od' = od /\ server' = server /\ Calls' = Calls
      /\ rxq \in Seq(Frames) /\ rxq' = IF rxq = <<>> THEN rxq ELSE Tail(rxq)
  BY DEF ClearBuffer, GoOn, nodeVars, Calls, can_read_any, IInv, BusTyped
<1>2. Resting
  BY <1>1 DEF Dialogue, Talk
<1>3. Resting'
  <2>1. CASE rxq = <<>> \/ ~IsAnswer(Head(rxq))
    <3>1. Keeps(rxq, rxq')
      BY <1>1, <2>1, OtherLeaves DEF Keeps
    <3> QED
      BY <1>1, <1>2, <3>1, RestingKept DEF nodeVars
  <2>2. CASE rxq # <<>> /\ IsAnswer(Head(rxq))
    <3>1. rxq' = Tail(rxq) /\ ~NoneIn(rxq)
      BY <1>1, <2>2, AnswerLeaves
    <3>2. ConfirmLeft
      BY <1>2, <3>1 DEF Resting, Nothing, SegmentLeft
    <3>3. NoneIn(rxq')
      BY <1>1, <2>2, <3>1, <3>2, AnswerLeaves DEF ConfirmLeft
    <3> QED
      BY <1>1, <3>2, <3>3 DEF Resting, Nothing, ConfirmLeft
  <2> QED
    BY <2>1, <2>2
<1>4. Talk'
  BY <1>1, <1>3 DEF Talk
<1>5. Client0'
  BY <1>1 DEF Dialogue, Client0
<1>6. ObjectsSound' /\ Returned'
  BY <1>1, ObjectsStay DEF Dialogue, Client0, Returned
<1> QED
  BY <1>4, <1>5, <1>6 DEF Dialogue

LEMMA Written ==
    ASSUME BusTyped, NEW f, can_write(f)
    PROVE  /\ toNode = <<>> => Len(toNode') = 1 /\ toNode'[1] = f
           /\ Len(toNode) = 1 => Len(toNode') = 2 /\ toNode'[1] = toNode[1] /\ toNode'[2] = f
  BY DEF BusTyped, can_write

LEMMA RequestDialogue ==
    ASSUME IInv, Plain, Dialogue, Request, setup' = setup
    PROVE  Dialogue'
<1>1. /\ BusTyped /\ setup \in DOMAIN Setups /\ pc = "request" /\ req \in Calls
      /\ rxq' = rxq /\ od' = od /\ server' = server /\ Calls' = Calls
  BY DEF Request, nodeVars, Calls, IInv, ClientTyped, TypeOK, Dialogue, Client0
<1>2. req.key[1] # 0
  BY <1>1, CallIsPlain
<1>3. can_write(FirstFrame(req)) /\ GoOn("wait", loc)
  BY <1>2, NoFault DEF Request
<1>4. /\ pc' = "wait" /\ loc' = loc /\ elapsed' = 0 /\ req' = req /\ result' = result
      /\ FirstFrame(req)' = FirstFrame(req)
  BY <1>3 DEF GoOn, FirstFrame, IsExpedited
<1>5. Asked'
  <2>1. Resting
    BY <1>1 DEF Dialogue, Talk
  <2>2. CASE Nothing
    BY <1>1, <1>3, <1>4, <2>2, Written DEF Nothing, Asked
  <2>3. CASE SegmentLeft
    <3>1. /\ Len(toNode') = 2 /\ toNode'[1] = toNode[1] /\ toNode'[2] = FirstFrame(req)
          /\ Ends(toNode[1]) /\ NoneIn(rxq)
      BY <1>1, <1>3, <2>3, Written DEF SegmentLeft
    <3>2. Ends(toNode[1])'
      BY <1>1, <3>1 DEF Ends, Sound
    <3> QED
      BY <1>1, <1>4, <3>1, <3>2 DEF Asked
  <2>4. CASE ConfirmLeft
    BY <1>1, <1>3, <1>4, <2>4, Written DEF ConfirmLeft, Asked, Confirms
  <2> QED
    BY <2>1, <2>2, <2>3, <2>4 DEF Resting
<1>6. Talk'
  BY <1>4, <1>5 DEF Talk
<1>7. Client0'
  BY <1>1, <1>4 DEF Dialogue, Client0
<1>8. ObjectsSound' /\ Returned'
  BY <1>1, <1>4, ObjectsStay DEF Dialogue, Client0, Returned
<1> QED
  BY <1>6, <1>7, <1>8 DEF Dialogue

(* What is read in the wait is the confirmation left by the last call, or  *)
(* the answer.                                                             *)
LEMMA DropAnswerDialogue ==
    ASSUME IInv, Plain, Dialogue, DropAnswer, setup' = setup
    PROVE  Dialogue'
<1>1. /\ BusTyped /\ pc = "wait" /\ ReadsAnswer /\ ~IndexOfRequest(Head(rxq)) /\ req \in Calls
      /\ pc' = "wait" /\ loc' = loc /\ elapsed' = 0 /\ req' = req /\ result' = result
      /\ toNode' = toNode /\ od' = od /\ server' = server /\ Calls' = Calls
      /\ FirstFrame(req)' = FirstFrame(req) /\ BlockSizes' = BlockSizes
  BY DEF DropAnswer, GoOn, nodeVars, Calls, BlockSizes, IInv, Dialogue, Client0, FirstFrame,
         IsExpedited
<1>2. Asked \/ Answered
  BY <1>1 DEF Dialogue, Talk
<1>3. ASSUME Asked
      PROVE  Asked'
  <2>1. /\ Len(toNode) = 1 /\ toNode[1] = FirstFrame(req) /\ server.mode = "none"
        /\ \E f : Confirms(f) /\ OneIn(rxq, f)
    BY <1>1, <1>3, AnswerTaken DEF Asked
  <2>2. NoneIn(rxq')
    BY <1>1, <2>1, AnswerTaken
  <2> QED
    BY <1>1, <2>1, <2>2 DEF Asked
<1>4. ASSUME Answered
      PROVE  Answered'
  <2>1. PICK f : AnswersCall(f) /\ (OneIn(rxq, f) \/ \E g : Confirms(g) /\ TwoIn(rxq, g, f))
    BY <1>4 DEF Answered
  <2>2. Head(rxq) # f
    BY <1>1, <2>1 DEF AnswersCall, IndexOfRequest
  <2>3. ~OneIn(rxq, f)
    BY <1>1, <2>2, AnswerTaken
  <2>4. PICK g : Confirms(g) /\ TwoIn(rxq, g, f)
    BY <2>1, <2>3
  <2>5. OneIn(rxq', f)
    BY <1>1, <2>1, <2>4, AnswerTaken DEF Confirms, AnswersCall
  <2>6. AnswersCall(f)'
    BY <1>1, <2>1
       DEF AnswersCall, AnswersRead, AnswersWrite, AnswersFile, IsAnswer, IsExpedited
  <2>7. toNode' = <<>>
    BY <1>1, <1>4 DEF Answered
  <2> QED
    BY <2>5, <2>6, <2>7 DEF Answered
<1>5. Talk'
  BY <1>1, <1>2, <1>3, <1>4 DEF Talk
<1>6. Client0'
  BY <1>1 DEF Dialogue, Client0
<1>7. ObjectsSound' /\ Returned'
  BY <1>1, ObjectsStay DEF Dialogue, Client0, Returned
<1> QED
  BY <1>5, <1>6, <1>7 DEF Dialogue

LEMMA TheAnswer ==
    ASSUME IInv, Plain, Dialogue, NEW op, WaitsFor(op)
    PROVE  /\ pc = "wait" /\ req.op = op /\ req \in Calls /\ loc = NoLocals
           /\ AnswersCall(Head(rxq)) /\ NoneIn(rxq')
           /\ toNode = <<>> /\ toNode' = toNode /\ od' = od /\ server' = server
<1>1. /\ BusTyped /\ setup \in DOMAIN Setups /\ pc = "wait" /\ req.op = op /\ req \in Calls
      /\ loc = NoLocals /\ ReadsAnswer /\ IndexOfRequest(Head(rxq))
      /\ toNode' = toNode /\ od' = od /\ server' = server
  BY DEF WaitsFor, nodeVars, IInv, ClientTyped, TypeOK, Dialogue, Client0
<1>2. ~Confirms(Head(rxq))
  BY <1>1, CallIsPlain DEF Confirms, NoKey, IndexOfRequest
<1>3. ~Asked
  BY <1>1, <1>2, AnswerTaken DEF Asked
<1>4. Answered
  BY <1>1, <1>3 DEF Dialogue, Talk
<1>5. PICK f : AnswersCall(f) /\ (OneIn(rxq, f) \/ \E g : Confirms(g) /\ TwoIn(rxq, g, f))
  BY <1>4 DEF Answered
<1>6. OneIn(rxq, f)
  BY <1>1, <1>2, <1>5, AnswerTaken DEF Confirms, AnswersCall
<1>7. Head(rxq) = f /\ NoneIn(rxq')
  BY <1>1, <1>6, AnswerTaken
<1> QED
  BY <1>1, <1>4, <1>5, <1>7 DEF Answered

LEMMA ReturnDialogue ==
    ASSUME Dialogue, NEW state, NEW text, Return(state, text), ObjectsSound', Resting', Returned'
    PROVE  Dialogue'
<1>1. pc' = "idle" /\ loc' = NoLocals /\ elapsed' = 0
  BY DEF Return
<1> QED
  BY <1>1 DEF Dialogue, Talk, Client0

(* The client goes on at a later point of the call.                        *)
LEMMA GoOnDialogue ==
    ASSUME Dialogue, setup' = setup, pc # "idle", NEW locals,
           NEW next \in {"segment", "segments", "next", "confirm", "blocks", "ack", "end", "done"},
           GoOn(next, locals),
           ObjectsSound', Talk'
    PROVE  Dialogue'
<1>1. pc' = next /\ elapsed' = 0 /\ req' = req /\ result' = result /\ Calls' = Calls
  BY DEF GoOn, Calls
<1>2. Client0'
  BY <1>1 DEF Dialogue, Client0
<1>3. Returned'
  BY <1>1 DEF Dialogue, Client0, Returned
<1> QED
  BY <1>2, <1>3 DEF Dialogue

LEMMA ReadAnswerDialogue ==
    ASSUME IInv, Plain, Dialogue, ReadAnswer, setup' = setup
    PROVE  Dialogue'
<1> DEFINE f == Head(rxq)
<1>1. /\ pc = "wait" /\ req.op = "read" /\ req \in Calls /\ loc = NoLocals
      /\ AnswersCall(f) /\ NoneIn(rxq') /\ toNode' = <<>> /\ od' = od /\ server' = server
  BY TheAnswer DEF ReadAnswer
<1>2. \/ f.kind = "expedited" /\ Return("expedited", f.text)
      \/ f.kind = "initiate" /\ GoOn("segment", [loc EXCEPT !.length = f.size % ByteRange])
      \/ f.kind \notin {"expedited", "initiate"} /\ Abort
  BY DEF ReadAnswer
<1> HIDE DEF f
<1>3. ObjectsSound'
  BY <1>1, ObjectsStay DEF Dialogue
<1>4. CASE req.key \notin DOMAIN od
  <2>1. f.kind = "abort" /\ server.mode = "none"
    BY <1>1, <1>4 DEF AnswersCall
  <2>2. Return("abort", <<>>)
    BY <1>2, <2>1 DEF Abort
  <2>3. Resting'
    BY <1>1, <2>1 DEF Resting, Nothing
  <2>4. Returned'
    BY <1>1, <1>4, <2>2 DEF Returned, Return
  <2> QED
    BY <1>3, <2>2, <2>3, <2>4, ReturnDialogue
<1>5. CASE req.key \in DOMAIN od /\ od[req.key].expedited
  <2>1. f.kind = "expedited" /\ f.text = od[req.key].text /\ server.mode = "none"
    BY <1>1, <1>5 DEF AnswersCall, AnswersRead
  <2>2. Return("expedited", od[req.key].text)
    BY <1>2, <2>1
  <2>3. Resting'
    BY <1>1, <2>1 DEF Resting, Nothing
  <2>4. Returned'
    BY <1>1, <1>5, <2>2 DEF Returned, Return
  <2> QED
    BY <1>3, <2>2, <2>3, <2>4, ReturnDialogue
<1>6. CASE req.key \in DOMAIN od /\ ~od[req.key].expedited
  <2> DEFINE text   == od[req.key].text
             locals == [loc EXCEPT !.length = f.size % ByteRange]
  <2>1. /\ f.kind = "initiate" /\ f.size = Len(text)
        /\ server.mode = "upload" /\ server.text = text /\ server.toggle = 0
    BY <1>1, <1>6 DEF AnswersCall, AnswersRead
  <2>2. GoOn("segment", locals)
    BY <1>2, <2>1
  <2>3. text \in Texts /\ Sound(text)
    <3>1. text \in Texts
      BY <1>6 DEF IInv, BusTyped, Objects, Texts
    <3>2. Sound(text)
      BY <1>6, Zenon DEF Dialogue, ObjectsSound
    <3> QED
      BY <3>1, <3>2
  <2>4. f.size % ByteRange = Len(text)
    <3>1. Len(text) \in 0 .. ByteRange - 1 /\ ByteRange \in Nat \ {0}
      BY <2>3, ReadAssumption DEF Sound, Texts
    <3> QED
      BY <2>1, <3>1, SmallRemainder
  <2>5. locals.length = Len(text) /\ locals.data = <<>> /\ locals.cmd = 0
    BY <1>1, <2>4 DEF NoLocals
  <2>6. pc' = "segment" /\ loc' = locals /\ req' = req
    BY <2>2 DEF GoOn
  <2>7. <<>> \o text = text
    BY <2>3, Joined
  <2> HIDE DEF locals, text
  <2>8. Uploading(text)'
    BY <1>1, <1>6, <2>3, <2>5, <2>6, <2>7 DEF Uploading, Sound, Clean, text
  <2>9. UploadStarts'
    BY <1>1, <2>1, <2>5, <2>6, <2>8 DEF UploadStarts, Uploading, text
  <2>10. Talk'
    BY <2>6, <2>9 DEF Talk
  <2> QED
    BY <1>1, <1>3, <2>2, <2>10, GoOnDialogue
<1> QED
  BY <1>4, <1>5, <1>6

LEMMA WriteAnswerDialogue ==
    ASSUME IInv, Plain, Dialogue, WriteAnswer, setup' = setup
    PROVE  Dialogue'
<1> DEFINE f == Head(rxq)
<1>1. /\ pc = "wait" /\ req.op \in {"write", "string"} /\ req \in Calls /\ loc = NoLocals
      /\ AnswersCall(f) /\ NoneIn(rxq') /\ toNode' = <<>> /\ od' = od /\ server' = server
  BY TheAnswer DEF WriteAnswer
<1>2. \/ f.kind # "downloaded" /\ Abort
      \/ f.kind = "downloaded" /\ IsExpedited(req) /\ Return("written", <<>>)
      \/ f.kind = "downloaded" /\ ~IsExpedited(req) /\ GoOn("next", [loc EXCEPT !.data = req.text])
  BY DEF WriteAnswer
<1> HIDE DEF f
<1>3. ObjectsSound'
  BY <1>1, ObjectsStay DEF Dialogue
<1>4. CASE req.key \notin DOMAIN od
  <2>1. f.kind = "abort" /\ server.mode = "none"
    BY <1>1, <1>4 DEF AnswersCall
  <2>2. Return("abort", <<>>)
    BY <1>2, <2>1 DEF Abort
  <2>3. Resting'
    BY <1>1, <2>1 DEF Resting, Nothing
  <2>4. Returned'
    BY <1>1, <1>4, <2>2 DEF Returned, Return
  <2> QED
    BY <1>3, <2>2, <2>3, <2>4, ReturnDialogue
<1>5. CASE req.key \in DOMAIN od /\ IsExpedited(req)
  <2>1. f.kind = "downloaded" /\ od[req.key].text = req.text /\ server.mode = "none"
    BY <1>1, <1>5 DEF AnswersCall, AnswersWrite
  <2>2. Return("written", <<>>)
    BY <1>2, <1>5, <2>1
  <2>3. Resting'
    BY <1>1, <2>1 DEF Resting, Nothing
  <2>4. Returned'
    BY <1>1, <1>5, <2>1, <2>2 DEF Returned, Return, Holds
  <2> QED
    BY <1>3, <2>2, <2>3, <2>4, ReturnDialogue
<1>6. CASE req.key \in DOMAIN od /\ ~IsExpedited(req)
  <2> DEFINE locals == [loc EXCEPT !.data = req.text]
  <2>1. /\ f.kind = "downloaded" /\ server.mode = "download" /\ server.key = req.key
        /\ server.text = <<>> /\ server.size = Len(req.text) /\ server.toggle = 0
    BY <1>1, <1>6 DEF AnswersCall, AnswersWrite
  <2>2. GoOn("next", locals)
    BY <1>2, <1>6, <2>1
  <2>3. req.op = "string" /\ req.text \in Texts
    <3>1. setup \in DOMAIN Setups
      BY DEF IInv, ClientTyped, TypeOK
    <3> QED
      BY <1>1, <1>6, <3>1, CallIsPlain
  <2>4. locals.data = req.text /\ locals.cmd = 0
    BY <1>1 DEF NoLocals
  <2>5. pc' = "next" /\ loc' = locals /\ req' = req
    BY <2>2 DEF GoOn
  <2>6. (<<>> \o <<>>) \o req.text = req.text
    <3>1. <<>> \in Texts
      BY DEF Texts
    <3>2. <<>> \o <<>> = <<>> /\ <<>> \o req.text = req.text
      BY <2>3, <3>1, Joined
    <3> QED
      BY <3>2
  <2> HIDE DEF locals
  <2>7. Downloading(<<>>)'
    BY <1>1, <1>6, <2>1, <2>3, <2>4, <2>5, <2>6 DEF Downloading
  <2>8. DownloadGoesOn'
    BY <1>1, <2>1, <2>4, <2>5, <2>7 DEF DownloadGoesOn
  <2>9. Talk'
    BY <2>5, <2>8 DEF Talk
  <2> QED
    BY <1>1, <1>3, <2>2, <2>9, GoOnDialogue
<1> QED
  BY <1>4, <1>5, <1>6

LEMMA SegmentRequestDialogue ==
    ASSUME IInv, Plain, Dialogue, SegmentRequest, setup' = setup
    PROVE  Dialogue'
<1> DEFINE request == [kind |-> "segment", toggle |-> loc.cmd]
           count   == ExpectedSegments(loc.length)
           locals  == [loc EXCEPT !.missing = count]
<1>1. /\ pc = "segment" /\ BusTyped /\ loc \in Locals /\ loc.data = <<>>
      /\ rxq' = rxq /\ od' = od /\ server' = server
  BY DEF SegmentRequest, nodeVars, IInv, ClientTyped, Fresh, Early
<1>2. UploadStarts
  BY <1>1 DEF Dialogue, Talk
<1>3. /\ server.text \in Texts /\ server.text # <<>> /\ toNode = <<>>
      /\ server.text = od[req.key].text /\ loc.length = Len(server.text)
  BY <1>1, <1>2, Joined DEF UploadStarts, Uploading
<1>4. count \in Nat \ {0}
  <2>1. Len(server.text) \in Nat \ {0}
    BY <1>3 DEF Texts
  <2> QED
    BY <1>3, <2>1, LastSegment
<1>5. can_write(request) /\ GoOn("segments", locals)
  BY <1>4, NoFault DEF SegmentRequest
<1>6. pc' = "segments" /\ loc' = locals /\ req' = req
  BY <1>5 DEF GoOn
<1>7. /\ locals.missing = count /\ locals.cmd = loc.cmd /\ locals.data = loc.data
      /\ locals.length = loc.length
  BY <1>1 DEF Locals
<1>8. Len(toNode') = 1 /\ toNode'[1] = request
  BY <1>1, <1>3, <1>5, Written
<1> HIDE DEF locals
<1>9. SegmentAsked'
  BY <1>1, <1>2, <1>3, <1>6, <1>7, <1>8 DEF SegmentAsked, UploadStarts, Uploading
<1>10. Talk'
  BY <1>6, <1>9 DEF Talk
<1>11. ObjectsSound'
  BY <1>1, ObjectsStay DEF Dialogue
<1> QED
  BY <1>1, <1>5, <1>10, <1>11, GoOnDialogue

(* All of a segment is stored.                                             *)
LEMMA AllIsStored ==
    ASSUME BusTyped, loc \in Locals, NEW text, Uploading(text)
    PROVE  /\ loc.data \o Stored(Printable(FirstPart(text))) = loc.data \o FirstPart(text)
           /\ (loc.data \o FirstPart(text)) \o RestOf(text) = od[req.key].text
           /\ RestOf(text) \in Texts /\ Clean(RestOf(text)) /\ FirstPart(text) \in Texts
<1> DEFINE part == FirstPart(text)
<1>1. /\ text \in Texts /\ Clean(text) /\ loc.data \in Texts
      /\ loc.data \o text = od[req.key].text /\ loc.length = Len(loc.data \o text)
  BY DEF Uploading, Locals
<1>2. part \in Texts /\ RestOf(text) \in Texts /\ Clean(part) /\ Clean(RestOf(text))
  BY <1>1, PartsOfText, CleanParts
<1>3. Printable(part) = part
  BY <1>2, CleanIsPrintable
<1>4. part \o RestOf(text) = text
  <2>1. CASE Len(text) <= SEGMENT_DATA_SIZE
    BY <1>1, <2>1, ShortText, Joined
  <2>2. CASE Len(text) > SEGMENT_DATA_SIZE
    BY <1>1, <2>2, LongText
  <2> QED
    BY <1>1, <2>1, <2>2, NodeAssumption DEF Texts
<1>5. /\ loc.length = Len(loc.data) + Len(text) /\ Len(loc.data) \in Nat
      /\ Len(text) = Len(part) + Len(RestOf(text))
      /\ Len(part) \in Nat /\ Len(RestOf(text)) \in Nat
  <2>1. Len(loc.data \o text) = Len(loc.data) + Len(text) /\ Len(loc.data) \in Nat
    BY <1>1, Joined
  <2>2. /\ Len(part \o RestOf(text)) = Len(part) + Len(RestOf(text))
        /\ Len(part) \in Nat /\ Len(RestOf(text)) \in Nat
    BY <1>2, Joined
  <2> QED
    BY <1>1, <1>4, <2>1, <2>2
<1> HIDE DEF part
<1>6. Least(Len(part), loc.length - Len(loc.data)) = Len(part)
  BY <1>5 DEF Least
<1>7. Stored(part) = part
  BY <1>2, <1>6, SubSeqFull DEF Stored, Texts
<1>8. (loc.data \o part) \o RestOf(text) = loc.data \o text
  <2>1. (loc.data \o part) \o RestOf(text) = loc.data \o (part \o RestOf(text))
    BY <1>1, <1>2, Associative
  <2> QED
    BY <1>4, <2>1
<1> QED
  BY <1>1, <1>2, <1>3, <1>7, <1>8 DEF part

LEMMA SegmentAnswerDialogue ==
    ASSUME IInv, Plain, Dialogue, SegmentAnswer, setup' = setup
    PROVE  Dialogue'
<1> DEFINE f == Head(rxq)
<1>1. /\ pc = "segments" /\ BusTyped /\ loc \in Locals /\ ReadsAnswer
      /\ od' = od /\ server' = server
  BY DEF SegmentAnswer, nodeVars, IInv, ClientTyped
<1>2. SegmentGiven
  BY <1>1, AnswerTaken DEF Dialogue, Talk, SegmentAsked
<1>3. PICK text :
         /\ OneIn(rxq, f) /\ f.kind = "segment" /\ f.text = FirstPart(text)
         /\ f.even <=> Len(text) > SEGMENT_DATA_SIZE
         /\ Uploading(text) /\ loc.missing = ExpectedSegments(Len(text))
         /\ Len(text) <= SEGMENT_DATA_SIZE => server.mode = "none"
         /\ Len(text) > SEGMENT_DATA_SIZE =>
               server.mode = "upload" /\ server.toggle = 1 - loc.cmd /\ server.text = RestOf(text)
  <2>1. \A g : OneIn(rxq, g) => f = g
    BY <1>1, AnswerTaken
  <2> QED
    BY <1>2, <2>1 DEF SegmentGiven
<1>4. NoneIn(rxq') /\ toNode = <<>>
  BY <1>1, <1>2, <1>3, AnswerTaken DEF SegmentGiven
<1> DEFINE all == loc.data \o FirstPart(text)
<1>5. /\ loc.data \o Stored(Printable(FirstPart(text))) = all
      /\ all \o RestOf(text) = od[req.key].text
      /\ RestOf(text) \in Texts /\ Clean(RestOf(text))
  BY <1>1, <1>3, AllIsStored
<1>6. \/ ~f.even /\ UNCHANGED toNode /\ Keep(f, all)
      \/ f.even /\ can_write([kind |-> "segment", toggle |-> 1 - loc.cmd]) /\ Keep(f, all)
  BY <1>3, <1>5, NoFault DEF SegmentAnswer
<1> HIDE DEF f, all
<1>7. text \in Texts /\ Len(text) \in Nat \ {0} /\ SEGMENT_DATA_SIZE \in Nat \ {0}
  BY <1>3, NodeAssumption DEF Uploading, Texts
<1>8. /\ loc.missing \in Nat \ {0}
      /\ loc.missing = 1 <=> Len(text) <= SEGMENT_DATA_SIZE
  BY <1>3, <1>7, LastSegment
<1>9. ObjectsSound'
  BY <1>1, ObjectsStay DEF Dialogue
<1>10. CASE Len(text) <= SEGMENT_DATA_SIZE
  <2>1. ~f.even /\ loc.missing = 1 /\ server.mode = "none"
    BY <1>3, <1>7, <1>8, <1>10
  <2>2. toNode' = <<>> /\ Return("segmented", all)
    BY <1>4, <1>6, <2>1 DEF Keep
  <2>3. all = od[req.key].text
    <3>1. FirstPart(text) = text
      BY <1>7, <1>10, ShortText
    <3> QED
      BY <1>3, <3>1 DEF Uploading, all
  <2>4. Resting'
    BY <1>1, <1>4, <2>1, <2>2 DEF Resting, Nothing
  <2>5. Returned'
    BY <1>1, <1>3, <2>2, <2>3 DEF Returned, Return, Uploading
  <2> QED
    BY <1>9, <2>2, <2>4, <2>5, ReturnDialogue
<1>11. CASE Len(text) > SEGMENT_DATA_SIZE
  <2> DEFINE rest    == RestOf(text)
             locals  == [loc EXCEPT !.data = all, !.missing = loc.missing - 1, !.cmd = 1 - loc.cmd]
             request == [kind |-> "segment", toggle |-> 1 - loc.cmd]
  <2>1. /\ f.even /\ loc.missing > 1 /\ server.mode = "upload" /\ server.toggle = 1 - loc.cmd
        /\ server.text = rest
    BY <1>3, <1>7, <1>8, <1>11
  <2>2. can_write(request) /\ GoOn("segments", locals)
    BY <1>6, <2>1 DEF Keep
  <2>3. pc' = "segments" /\ loc' = locals /\ req' = req
    BY <2>2 DEF GoOn
  <2>4. /\ locals.data = all /\ locals.length = loc.length /\ locals.cmd = 1 - loc.cmd
        /\ locals.missing = loc.missing - 1
    BY <1>1 DEF Locals
  <2>5. Len(toNode') = 1 /\ toNode'[1] = request
    BY <1>1, <1>4, <2>2, Written
  <2>6. rest # <<>> /\ loc.missing - 1 = ExpectedSegments(Len(rest))
    BY <1>3, <1>7, <1>11, LongText, OneSegmentLess
  <2> HIDE DEF locals, rest
  <2>7. Uploading(server.text)'
    <3>1. /\ req.op = "read" /\ req.key \in DOMAIN od /\ loc.length = Len(od[req.key].text)
      BY <1>3 DEF Uploading
    <3>2. rest \in Texts /\ Clean(rest) /\ all \o rest = od[req.key].text
      BY <1>5 DEF rest
    <3> QED
      BY <1>1, <2>1, <2>3, <2>4, <2>6, <3>1, <3>2 DEF Uploading
  <2>8. SegmentAsked'
    BY <1>1, <1>4, <2>1, <2>3, <2>4, <2>5, <2>6, <2>7 DEF SegmentAsked
  <2>9. Talk'
    BY <2>3, <2>8 DEF Talk
  <2> QED
    BY <1>1, <1>9, <2>2, <2>9, GoOnDialogue
<1> QED
  BY <1>7, <1>10, <1>11

LEMMA SendSegmentDialogue ==
    ASSUME IInv, Plain, Dialogue, SendSegment, setup' = setup
    PROVE  Dialogue'
<1> DEFINE f == [kind |-> "downloadSegment", toggle |-> loc.cmd,
                 text |-> FirstPart(loc.data), last |-> IsLast]
<1>1. /\ pc = "next" /\ BusTyped /\ loc \in Locals /\ server \in Servers
      /\ req \in Calls /\ setup \in DOMAIN Setups
      /\ rxq' = rxq /\ od' = od /\ server' = server
  BY DEF SendSegment, nodeVars, IInv, BusTyped, ClientTyped, TypeOK, Dialogue, Client0
<1>2. /\ toNode = <<>> /\ NoneIn(rxq) /\ server.toggle = loc.cmd /\ Downloading(<<>>)
  BY <1>1 DEF Dialogue, Talk, DownloadGoesOn
<1>3. /\ server.text \in Texts /\ loc.data \in Texts /\ FirstPart(loc.data) \in Texts
      /\ RestOf(loc.data) \in Texts /\ server.text \o loc.data = req.text /\ Sound(req.text)
  <2>1. server.text \in Texts /\ loc.data \in Texts
    BY <1>1 DEF Servers, Locals
  <2>2. server.text \o loc.data = req.text
    BY <1>2, <2>1, Joined DEF Downloading
  <2>3. Sound(req.text)
    BY <1>1, <1>2, CallIsPlain DEF Downloading
  <2> QED
    BY <2>1, <2>2, <2>3, PartsOfText
<1>4. can_write(f) /\ Len(toNode') = 1 /\ toNode'[1] = f
  BY <1>1, <1>2, NoFault, Written DEF SendSegment
<1>5. /\ f.kind = "downloadSegment" /\ f.toggle = loc.cmd /\ f.text = FirstPart(loc.data)
      /\ f.last <=> IsLast
  OBVIOUS
<1>6. \/ IsLast /\ Return("written", <<>>)
      \/ ~IsLast /\ GoOn("confirm", [loc EXCEPT !.data = RestOf(@)])
  BY NoFault DEF SendSegment
<1> HIDE DEF f
<1>7. ObjectsSound'
  BY <1>1, ObjectsStay DEF Dialogue
<1>8. CASE IsLast
  <2>1. Return("written", <<>>)
    BY <1>6, <1>8
  <2>2. f.text = loc.data
    BY <1>3, <1>5, <1>8, ShortText DEF IsLast
  <2>3. f.last /\ toNode'[1].last
    BY <1>4, <1>5, <1>8
  <2>4. Ends(toNode[1])'
    BY <1>1, <1>2, <1>3, <1>4, <1>5, <2>2, <2>3 DEF Ends, Downloading, Sound
  <2>5. Resting'
    BY <1>1, <1>2, <1>4, <2>4 DEF Resting, SegmentLeft
  <2>6. toNode' # <<>>
    BY <1>4
  <2>7. Returned'
    BY <1>1, <1>2, <1>3, <1>4, <2>1, <2>2, <2>6 DEF Returned, Return, Downloading
  <2> QED
    BY <1>7, <2>1, <2>5, <2>7, ReturnDialogue
<1>9. CASE ~IsLast
  <2> DEFINE locals == [loc EXCEPT !.data = RestOf(@)]
  <2>1. GoOn("confirm", locals)
    BY <1>6, <1>9
  <2>2. pc' = "confirm" /\ loc' = locals /\ req' = req
    BY <2>1 DEF GoOn
  <2>3. locals.data = RestOf(loc.data) /\ locals.cmd = loc.cmd
    BY <1>1 DEF Locals
  <2>4. Len(loc.data) > SEGMENT_DATA_SIZE
    BY <1>3, <1>9, NodeAssumption DEF IsLast, Texts
  <2>5. (server.text \o f.text) \o RestOf(loc.data) = req.text
    <3>1. FirstPart(loc.data) \o RestOf(loc.data) = loc.data
      BY <1>3, <2>4, LongText
    <3>2. (server.text \o FirstPart(loc.data)) \o RestOf(loc.data)
             = server.text \o (FirstPart(loc.data) \o RestOf(loc.data))
      BY <1>3, Associative
    <3> QED
      BY <1>3, <1>5, <3>1, <3>2
  <2> HIDE DEF locals
  <2>6. SegmentSent'
    BY <1>1, <1>2, <1>3, <1>4, <1>5, <1>9, <2>2, <2>3, <2>5 DEF SegmentSent, Downloading
  <2>7. Talk'
    BY <2>2, <2>6 DEF Talk
  <2> QED
    BY <1>1, <1>7, <2>1, <2>7, GoOnDialogue
<1> QED
  BY <1>8, <1>9

LEMMA SegmentConfirmedDialogue ==
    ASSUME IInv, Plain, Dialogue, SegmentConfirmed, setup' = setup
    PROVE  Dialogue'
<1> DEFINE locals == [loc EXCEPT !.cmd = NextToggle(Head(rxq))]
<1>1. /\ pc = "confirm" /\ BusTyped /\ loc \in Locals /\ ReadsAnswer /\ GoOn("next", locals)
      /\ toNode' = toNode /\ od' = od /\ server' = server
  BY DEF SegmentConfirmed, nodeVars, IInv, ClientTyped
<1>2. SegmentTaken
  BY <1>1, AnswerTaken DEF Dialogue, Talk, SegmentSent
<1>3. PICK f : Confirms(f) /\ f.toggle = loc.cmd /\ OneIn(rxq, f)
  BY <1>2 DEF SegmentTaken
<1>4. Head(rxq) = f /\ NoneIn(rxq')
  BY <1>1, <1>3, AnswerTaken
<1>5. NextToggle(Head(rxq)) = 1 - loc.cmd
  BY <1>3, <1>4 DEF NextToggle, Confirms
<1>6. locals.cmd = 1 - loc.cmd /\ locals.data = loc.data
  BY <1>1, <1>5 DEF Locals
<1>7. pc' = "next" /\ loc' = locals /\ req' = req
  BY <1>1 DEF GoOn
<1> HIDE DEF locals
<1>8. DownloadGoesOn'
  BY <1>1, <1>2, <1>4, <1>6, <1>7 DEF DownloadGoesOn, SegmentTaken, Downloading
<1>9. Talk'
  BY <1>7, <1>8 DEF Talk
<1>10. ObjectsSound'
  BY <1>1, ObjectsStay DEF Dialogue
<1> QED
  BY <1>1, <1>9, <1>10, GoOnDialogue

(* A segment joins those on the way.                                       *)
LEMMA OneMoreOnTheWay ==
    ASSUME BusTyped, NEW k, k = Len(toNode), OnTheWay(k), loc.data # <<>>, loc.data \in Texts,
           server.seq + k < server.size, NEW f, can_write(f),
           IsBlockSegment(f, loc.data, server.seq + (k + 1)),
           loc'.data = RestOf(loc.data), loc'.block_size = loc.block_size,
           UNCHANGED <<setup, rxq, nodeVars, req>>
    PROVE  OnTheWay(k + 1)' /\ Len(toNode') = k + 1
<1> PICK rest : rest = RestOf(loc.data)
  OBVIOUS
<1>1. /\ od' = od /\ server' = server /\ req' = req /\ rxq' = rxq /\ BlockSizes' = BlockSizes
  BY DEF nodeVars, BlockSizes
<1>2. /\ k \in Nat /\ toNode' = Append(toNode, f) /\ Len(toNode') = k + 1
      /\ toNode'[k + 1] = f /\ \A i \in 1 .. k : toNode'[i] = toNode[i]
  BY DEF BusTyped, can_write
<1>3. PICK rests \in [0 .. k -> Texts] : Carries(rests, k)
  BY DEF OnTheWay
<1> PICK more : more = [i \in 0 .. k + 1 |-> IF i = k + 1 THEN rest ELSE rests[i]]
  OBVIOUS
<1>4. rest \in Texts
  BY PartsOfText
<1>5. more \in [0 .. k + 1 -> Texts]
  BY <1>2, <1>3, <1>4
<1>6. more[0] = rests[0] /\ more[k + 1] = rest /\ \A i \in 0 .. k : more[i] = rests[i]
  BY <1>2
<1>7. ASSUME NEW i \in 1 .. k + 1
      PROVE  /\ IsBlockSegment(toNode'[i], more[i - 1], server.seq + i)
             /\ more[i] = RestOf(more[i - 1])
  <2>1. CASE i = k + 1
    <3>1. k \in 0 .. k /\ (k + 1) - 1 = k
      BY <1>2
    <3>2. more[k] = loc.data
      BY <1>3, <1>6, <3>1 DEF Carries
    <3> QED
      BY <1>2, <1>6, <2>1, <3>1, <3>2
  <2>2. CASE i # k + 1
    <3>1. i \in 1 .. k /\ i - 1 \in 0 .. k /\ i \in 0 .. k
      BY <1>2, <2>2
    <3> QED
      BY <1>2, <1>3, <1>6, <3>1 DEF Carries
  <2> QED
    BY <2>1, <2>2
<1>8. Carries(more, k + 1)'
  <2>1. server.text \o more[0] = req.text
    BY <1>3, <1>6 DEF Carries
  <2>2. more[k + 1] = loc'.data
    BY <1>6
  <2> QED
    BY <1>1, <1>7, <2>1, <2>2 DEF Carries, IsBlockSegment
<1>9. Filing'
  BY <1>1 DEF OnTheWay, Filing
<1>10. k + 1 \in 0 .. Len(toNode') /\ server.seq + (k + 1) <= server.size
  <2>1. server.seq \in Nat /\ server.size \in Nat
    BY DEF BusTyped, Servers
  <2> QED
    BY <1>2, <2>1
<1>11. NoneIn(rxq) /\ server.mode = "block" /\ server.size = loc.block_size
  BY DEF OnTheWay
<1>12. \E others \in [0 .. k + 1 -> Texts] : Carries(others, k + 1)'
  BY <1>5, <1>8
<1> QED
  BY <1>1, <1>2, <1>9, <1>10, <1>11, <1>12 DEF OnTheWay, NoneIn

LEMMA BlockAnswerDialogue ==
    ASSUME IInv, Plain, Dialogue, BlockAnswer, setup' = setup
    PROVE  Dialogue'
<1> DEFINE f == Head(rxq)
<1>1. /\ pc = "wait" /\ req.op = "file" /\ req \in Calls /\ loc = NoLocals
      /\ AnswersCall(f) /\ NoneIn(rxq') /\ toNode' = <<>> /\ od' = od /\ server' = server
      /\ BlockSizes' = BlockSizes /\ setup \in DOMAIN Setups
  BY TheAnswer DEF BlockAnswer, BlockSizes, IInv, ClientTyped, TypeOK
<1>2. \/ f.kind = "abort" /\ Abort
      \/ f.kind = "blockReady" /\ StartBlocks(f.size)
      \/ f.kind \notin {"abort", "blockReady"}
  BY DEF BlockAnswer
<1> HIDE DEF f
<1>3. ObjectsSound'
  BY <1>1, ObjectsStay DEF Dialogue
<1>4. CASE req.key \notin DOMAIN od
  <2>1. f.kind = "abort" /\ server.mode = "none"
    BY <1>1, <1>4 DEF AnswersCall
  <2>2. Return("abort", <<>>)
    BY <1>2, <2>1 DEF Abort
  <2>3. Resting'
    BY <1>1, <2>1 DEF Resting, Nothing
  <2>4. Returned'
    BY <1>1, <1>4, <2>2 DEF Returned, Return
  <2> QED
    BY <1>3, <2>2, <2>3, <2>4, ReturnDialogue
<1>5. CASE req.key \in DOMAIN od
  <2> DEFINE locals == [loc EXCEPT !.data = req.text, !.block_size = f.size]
  <2>1. /\ f.kind = "blockReady" /\ f.size \in BlockSizes
        /\ server.mode = "block" /\ server.key = req.key /\ server.text = <<>>
        /\ server.size = f.size /\ server.seq = 0
    BY <1>1, <1>5 DEF AnswersCall, AnswersFile
  <2>2. req.text \in Texts /\ req.text # <<>> /\ f.size \in Nat \ {0}
    <3>1. req.text \in Texts /\ Sound(req.text)
      BY <1>1, CallIsPlain
    <3>2. BlockSizes \subseteq Nat \ {0}
      BY <1>1, NodeAssumption DEF BlockSizes
    <3> QED
      BY <2>1, <3>1, <3>2 DEF Sound
  <2>3. GoOn("blocks", locals)
    BY <1>2, <2>1, <2>2 DEF StartBlocks
  <2>4. /\ locals.data = req.text /\ locals.block_size = f.size /\ locals.segment_number = 1
    BY <1>1 DEF NoLocals
  <2>5. pc' = "blocks" /\ loc' = locals /\ req' = req
    BY <2>3 DEF GoOn
  <2>6. <<>> \o req.text = req.text
    BY <2>2, Joined
  <2> HIDE DEF locals
  <2> PICK rests : rests = [i \in 0 .. 0 |-> req.text]
    OBVIOUS
  <2>7. rests \in [0 .. 0 -> Texts] /\ rests[0] = req.text
    BY <2>2
  <2>14. 1 .. 0 = {}
    OBVIOUS
  <2>8. Carries(rests, 0)'
    BY <1>1, <2>1, <2>4, <2>5, <2>6, <2>7, <2>14 DEF Carries
  <2>15. \E others \in [0 .. 0 -> Texts] : Carries(others, 0)'
    BY <2>7, <2>8
  <2>9. Filing'
    BY <1>1, <1>5, <2>1, <2>4, <2>5 DEF Filing
  <2>10. Len(toNode') = 0
    BY <1>1
  <2>11. OnTheWay(0)'
    BY <1>1, <2>1, <2>2, <2>4, <2>5, <2>9, <2>10, <2>15 DEF OnTheWay
  <2>12. BlockGoesOn'
    BY <1>1, <2>1, <2>2, <2>4, <2>5, <2>10, <2>11 DEF BlockGoesOn
  <2>13. Talk'
    BY <2>5, <2>12 DEF Talk
  <2> QED
    BY <1>1, <1>3, <2>3, <2>13, GoOnDialogue
<1> QED
  BY <1>4, <1>5

LEMMA SendBlockSegmentDialogue ==
    ASSUME IInv, Plain, Dialogue, SendBlockSegment, setup' = setup
    PROVE  Dialogue'
<1> DEFINE f == [kind |-> "blockSegment", seq |-> loc.segment_number,
                 text |-> FirstPart(loc.data), last |-> IsLast]
           rest   == RestOf(loc.data)
           locals == [loc EXCEPT !.data = rest, !.segment_number = @ + 1]
           next   == IF BlockFull THEN "ack" ELSE AfterBlock(rest)
<1> PICK k : k = Len(toNode)
  OBVIOUS
<1>1. /\ pc = "blocks" /\ BusTyped /\ loc \in Locals
      /\ rxq' = rxq /\ od' = od /\ server' = server
  BY DEF SendBlockSegment, nodeVars, IInv, ClientTyped
<1>2. /\ OnTheWay(k) /\ loc.data # <<>> /\ loc.segment_number <= loc.block_size
      /\ server.seq + k = loc.segment_number - 1 /\ server.size = loc.block_size
  BY <1>1 DEF Dialogue, Talk, BlockGoesOn, OnTheWay
<1>3. /\ k \in Nat /\ server.seq \in Nat /\ loc.segment_number \in Nat /\ loc.block_size \in Nat
      /\ loc.data \in Texts
  BY <1>1 DEF BusTyped, Servers, Locals
<1>4. can_write(f) /\ GoOn(next, locals)
  BY NoFault DEF SendBlockSegment
<1>5. pc' = next /\ loc' = locals /\ req' = req
  BY <1>4 DEF GoOn
<1>6. /\ locals.data = rest /\ locals.segment_number = loc.segment_number + 1
      /\ locals.block_size = loc.block_size
  BY <1>1 DEF Locals
<1>7. /\ IsBlockSegment(f, loc.data, server.seq + (k + 1)) /\ server.seq + k < server.size
      /\ server.seq + (k + 1) = loc.segment_number
  <2>1. server.seq + (k + 1) = loc.segment_number /\ server.seq + k < server.size
    <3>1. /\ server.seq + k = loc.segment_number - 1 /\ server.size = loc.block_size
          /\ loc.segment_number <= loc.block_size
      BY <1>2
    <3>2. /\ k \in Nat /\ server.seq \in Nat /\ loc.segment_number \in Nat
          /\ loc.block_size \in Nat
      BY <1>3
    <3>3. ASSUME NEW a \in Nat, NEW b \in Nat
          PROVE  a + (b + 1) = (a + b) + 1
      OBVIOUS
    <3>4. server.seq + (k + 1) = (server.seq + k) + 1
      BY <3>2, <3>3
    <3> QED
      BY <3>1, <3>2, <3>4
  <2> QED
    BY <1>2, <2>1 DEF IsBlockSegment, IsLast
<1> HIDE DEF f, locals
<1>8. OnTheWay(k + 1)' /\ Len(toNode') = k + 1
  BY <1>1, <1>2, <1>3, <1>4, <1>5, <1>6, <1>7, OneMoreOnTheWay DEF nodeVars
<1>9. toNode' # <<>>
  <2>1. Len(toNode') # 0
    BY <1>3, <1>8
  <2> QED
    BY <2>1
<1>10. ObjectsSound'
  BY <1>1, ObjectsStay DEF Dialogue
<1>11. CASE BlockFull
  <2>1. next = "ack" /\ loc.segment_number = loc.block_size
    BY <1>2, <1>3, <1>11 DEF BlockFull
  <2>2. server'.seq + Len(toNode') = loc'.block_size
    BY <1>1, <1>5, <1>6, <1>7, <1>8, <2>1
  <2>3. BlockSent'
    BY <1>8, <1>9, <2>2 DEF BlockSent
  <2>4. Talk'
    BY <1>5, <2>1, <2>3 DEF Talk
  <2> QED
    BY <1>1, <1>4, <1>10, <2>1, <2>4, GoOnDialogue
<1>12. CASE ~BlockFull /\ rest # <<>>
  <2>1. next = "blocks" /\ loc.segment_number + 1 <= loc.block_size
    BY <1>3, <1>12 DEF BlockFull, AfterBlock
  <2>2. server'.seq + Len(toNode') = loc'.segment_number - 1
    <3>1. (loc.segment_number + 1) - 1 = loc.segment_number
      BY <1>3
    <3> QED
      BY <1>1, <1>5, <1>6, <1>7, <1>8, <3>1
  <2>3. loc'.data # <<>> /\ loc'.segment_number <= loc'.block_size
    BY <1>5, <1>6, <1>12, <2>1
  <2>4. BlockGoesOn'
    BY <1>8, <2>2, <2>3 DEF BlockGoesOn
  <2>5. Talk'
    BY <1>5, <2>1, <2>4 DEF Talk
  <2> QED
    BY <1>1, <1>4, <1>10, <2>1, <2>5, GoOnDialogue
<1>13. CASE ~BlockFull /\ rest = <<>>
  <2>1. next = "end"
    BY <1>13 DEF AfterBlock
  <2>2. k + 1 # 0 /\ loc'.data = <<>>
    BY <1>3, <1>5, <1>6, <1>13
  <2>3. AllSent(k + 1)'
    BY <1>8, <2>2 DEF AllSent
  <2>4. AllSent(Len(toNode))'
    BY <1>8, <2>3
  <2>5. Talk'
    BY <1>5, <2>1, <2>4 DEF Talk
  <2> QED
    BY <1>1, <1>4, <1>10, <2>1, <2>5, GoOnDialogue
<1> QED
  BY <1>11, <1>12, <1>13

LEMMA BlockAcknowledgedDialogue ==
    ASSUME IInv, Plain, Dialogue, BlockAcknowledged, setup' = setup
    PROVE  Dialogue'
<1>1. /\ pc = "ack" /\ BusTyped /\ loc \in Locals /\ setup \in DOMAIN Setups /\ ReadsAnswer
      /\ toNode' = toNode /\ od' = od /\ server' = server /\ BlockSizes' = BlockSizes
  BY DEF BlockAcknowledged, nodeVars, IInv, ClientTyped, TypeOK, BlockSizes
<1>2. BlockTaken
  BY <1>1, AnswerTaken DEF Dialogue, Talk, BlockSent, OnTheWay
<1>3. PICK f : Acknowledges(f) /\ f.seq = loc.block_size /\ OneIn(rxq, f)
  BY <1>2 DEF BlockTaken
<1>4. Head(rxq) = f /\ NoneIn(rxq')
  BY <1>1, <1>3, AnswerTaken
<1> DEFINE locals == [loc EXCEPT !.block_size = Least(f.size, @), !.segment_number = 1]
<1>5. GoOn(AfterBlock(loc.data), locals)
  BY <1>3, <1>4 DEF BlockAcknowledged, Acknowledges
<1>6. /\ Received /\ toNode' = <<>> /\ loc.block_size \in Nat \ {0}
  <2>1. BlockSizes \subseteq Nat \ {0}
    BY <1>1, NodeAssumption DEF BlockSizes
  <2> QED
    BY <1>1, <1>2, <2>1 DEF BlockTaken, Received, Filing
<1>7. /\ locals.data = loc.data /\ locals.block_size = loc.block_size
      /\ locals.segment_number = 1
  <2>1. Least(f.size, loc.block_size) = loc.block_size
    BY <1>3 DEF Acknowledges, Least
  <2> QED
    BY <1>1, <2>1 DEF Locals
<1>8. pc' = AfterBlock(loc.data) /\ loc' = locals /\ req' = req
  BY <1>5 DEF GoOn
<1> HIDE DEF locals
<1>9. Filing' /\ server.text \o loc.data = req.text /\ server.seq = 0
  BY <1>1, <1>6, <1>7, <1>8 DEF Received, Filing
<1>10. ObjectsSound' /\ Len(toNode') = 0
  BY <1>1, <1>6, ObjectsStay DEF Dialogue
<1>11. CASE loc.data # <<>>
  <2>1. pc' = "blocks" /\ server.mode = "block" /\ server.size = loc.block_size
    BY <1>6, <1>8, <1>11 DEF AfterBlock, Received
  <2> PICK rests : rests = [i \in 0 .. 0 |-> loc.data]
    OBVIOUS
  <2>2. rests \in [0 .. 0 -> Texts] /\ rests[0] = loc.data
    BY <1>1 DEF Locals
  <2>7. 1 .. 0 = {}
    OBVIOUS
  <2>3. Carries(rests, 0)'
    BY <1>1, <1>7, <1>8, <1>9, <2>2, <2>7 DEF Carries
  <2>8. \E others \in [0 .. 0 -> Texts] : Carries(others, 0)'
    BY <2>2, <2>3
  <2>4. OnTheWay(0)'
    BY <1>1, <1>4, <1>6, <1>7, <1>8, <1>9, <1>10, <2>1, <2>8 DEF OnTheWay
  <2>5. BlockGoesOn'
    BY <1>1, <1>6, <1>7, <1>8, <1>9, <1>10, <1>11, <2>4 DEF BlockGoesOn
  <2>6. Talk'
    BY <2>1, <2>5 DEF Talk
  <2> QED
    BY <1>1, <1>5, <1>8, <1>10, <2>1, <2>6, GoOnDialogue
<1>12. CASE loc.data = <<>>
  <2>1. pc' = "end"
    BY <1>8, <1>12 DEF AfterBlock
  <2>2. Received'
    BY <1>1, <1>6, <1>7, <1>8, <1>9, <1>12 DEF Received
  <2>3. AllSent(0)'
    BY <1>4, <1>7, <1>8, <1>12, <2>2 DEF AllSent
  <2>4. AllSent(Len(toNode))'
    BY <1>10, <2>3
  <2>5. Talk'
    BY <2>1, <2>4 DEF Talk
  <2> QED
    BY <1>1, <1>5, <1>8, <1>10, <2>1, <2>5, GoOnDialogue
<1> QED
  BY <1>11, <1>12

LEMMA SendBlockEndDialogue ==
    ASSUME IInv, Plain, Dialogue, SendBlockEnd, setup' = setup
    PROVE  Dialogue'
<1> PICK k : k = Len(toNode)
  OBVIOUS
<1>1. /\ pc = "end" /\ BusTyped /\ rxq' = rxq /\ od' = od /\ server' = server
  BY DEF SendBlockEnd, nodeVars, IInv
<1>2. AllSent(k)
  BY <1>1 DEF Dialogue, Talk
<1>3. can_write(EndFrame) /\ GoOn("done", loc)
  BY NoFault DEF SendBlockEnd, EndFrame
<1>4. pc' = "done" /\ loc' = loc /\ req' = req
  BY <1>3 DEF GoOn
<1>5. /\ k \in Nat /\ Len(toNode') = k + 1 /\ toNode'[k + 1] = EndFrame
      /\ \A i \in 1 .. k : toNode'[i] = toNode[i]
  BY <1>1, <1>3 DEF BusTyped, can_write
<1>6. Len(toNode') # 0 /\ k \in 0 .. Len(toNode') /\ Len(toNode') - 1 = k
  BY <1>5
<1>7. Keeps(rxq, rxq')
  BY <1>1 DEF Keeps
<1>8. AllSent(k)'
  BY <1>1, <1>2, <1>4, <1>5, <1>6, <1>7, AllSentKept DEF nodeVars
<1>9. toNode' # <<>> /\ toNode'[Len(toNode')] = EndFrame
  BY <1>5, <1>6
<1>10. EndSent'
  BY <1>6, <1>8, <1>9 DEF EndSent, EndFrame
<1>11. Talk'
  BY <1>4, <1>10 DEF Talk
<1>12. ObjectsSound'
  BY <1>1, ObjectsStay DEF Dialogue
<1> QED
  BY <1>1, <1>3, <1>11, <1>12, GoOnDialogue

LEMMA BlockEndedDialogue ==
    ASSUME IInv, Plain, Dialogue, BlockEnded, setup' = setup
    PROVE  Dialogue'
<1>1. /\ pc = "done" /\ BusTyped /\ ReadsAnswer /\ toNode' = toNode
      /\ od' = od /\ server' = server /\ BlockSizes' = BlockSizes
  BY DEF BlockEnded, nodeVars, IInv, BlockSizes
<1>2. IF EndConfirmed(Head(rxq)) THEN Return("written", <<>>) ELSE GoOn("done", loc)
  BY DEF BlockEnded
<1>3. ObjectsSound'
  BY <1>1, ObjectsStay DEF Dialogue
<1>4. \A g : Acknowledges(g) => IsAnswer(g) /\ ~EndConfirmed(g)
  BY DEF Acknowledges, EndConfirmed
<1>5. \A g : Finishes(g) => IsAnswer(g) /\ EndConfirmed(g)
  BY DEF Finishes, EndConfirmed
<1>6. ASSUME GoOn("done", loc), (EndSent \/ EndTaken)'
      PROVE  Dialogue'
  <2>1. Talk'
    BY <1>6 DEF Talk, GoOn
  <2> QED
    BY <1>1, <1>3, <1>6, <2>1, GoOnDialogue
<1>7. CASE EndSent
  <2> PICK k : k = Len(toNode) - 1
    OBVIOUS
  <2>1. AllSent(k) /\ toNode # <<>> /\ toNode[Len(toNode)] = EndFrame
    BY <1>7 DEF EndSent
  <2>2. k = 0 /\ Received /\ loc.data = <<>> /\ \E f : Acknowledges(f) /\ OneIn(rxq, f)
    BY <1>1, <2>1, AnswerTaken DEF AllSent, OnTheWay
  <2>3. PICK f : Acknowledges(f) /\ OneIn(rxq, f)
    BY <2>2
  <2>4. Head(rxq) = f /\ NoneIn(rxq')
    BY <1>1, <2>3, AnswerTaken
  <2>5. GoOn("done", loc)
    BY <1>2, <1>4, <2>3, <2>4
  <2>6. req' = req /\ loc' = loc
    BY <2>5 DEF GoOn
  <2>7. Received'
    BY <1>1, <2>2, <2>6, ReceivedKept DEF nodeVars
  <2>8. AllSent(0)'
    BY <2>2, <2>4, <2>6, <2>7 DEF AllSent
  <2>9. EndSent'
    BY <1>1, <2>1, <2>2, <2>8 DEF EndSent, EndFrame
  <2> QED
    BY <1>6, <2>5, <2>9
<1>8. CASE EndTaken
  <2>1. /\ toNode = <<>> /\ server.mode = "none" /\ req.op = "file" /\ req.key \in DOMAIN od
        /\ Holds(od[req.key].text, req)
    BY <1>8 DEF EndTaken
  <2>2. PICK f : /\ Finishes(f)
                 /\ (OneIn(rxq, f) \/ \E g : Acknowledges(g) /\ TwoIn(rxq, g, f))
    BY <1>8 DEF EndTaken
  <2>3. CASE OneIn(rxq, f)
    <3>1. Head(rxq) = f /\ NoneIn(rxq')
      BY <1>1, <2>3, AnswerTaken
    <3>2. Return("written", <<>>)
      BY <1>2, <1>5, <2>2, <3>1
    <3>3. Resting'
      BY <1>1, <2>1, <3>1 DEF Resting, Nothing
    <3>4. Returned'
      BY <1>1, <2>1, <3>2 DEF Returned, Return, Holds
    <3> QED
      BY <1>3, <3>2, <3>3, <3>4, ReturnDialogue
  <2>4. CASE \E g : Acknowledges(g) /\ TwoIn(rxq, g, f)
    <3>1. PICK g : Acknowledges(g) /\ TwoIn(rxq, g, f)
      BY <2>4
    <3>2. Head(rxq) = g /\ OneIn(rxq', f)
      BY <1>1, <1>4, <1>5, <2>2, <3>1, AnswerTaken
    <3>3. GoOn("done", loc)
      BY <1>2, <1>4, <3>1, <3>2
    <3>4. req' = req /\ loc' = loc
      BY <3>3 DEF GoOn
    <3>5. Finishes(f)' /\ Holds(od[req.key].text, req)'
      BY <1>1, <2>1, <2>2, <3>4 DEF Finishes, IsAnswer, Holds
    <3>6. EndTaken'
      BY <1>1, <2>1, <3>2, <3>4, <3>5 DEF EndTaken
    <3> QED
      BY <1>6, <3>3, <3>6
  <2> QED
    BY <2>2, <2>3, <2>4
<1> QED
  BY <1>1, <1>7, <1>8 DEF Dialogue, Talk

LEMMA SomethingSent == Len(toNode) = 1 \/ Len(toNode) = 2 => toNode # <<>>
  OBVIOUS

(* While an answer is due, something of it is on the bus: no time passes.  *)
LEMMA PollDialogue ==
    ASSUME IInv, Plain, Dialogue, Poll, setup' = setup
    PROVE  Dialogue'
<1>1. BusTyped /\ AtWait /\ UNCHANGED <<nodeVars, clientVars>>
  BY DEF Poll, IInv
<1>2. toNode # <<>> \/ ~NoneIn(rxq)
  <2>1. CASE pc = "wait"
    <3>1. Asked => toNode # <<>>
      BY SomethingSent DEF Asked
    <3>2. Answered => ~NoneIn(rxq)
      BY AnswerThere DEF Answered, AnswersCall, Confirms
    <3> QED
      BY <2>1, <3>1, <3>2 DEF Dialogue, Talk
  <2>2. CASE pc = "segments"
    <3>1. SegmentAsked => toNode # <<>>
      BY SomethingSent, Zenon DEF SegmentAsked
    <3>2. SegmentGiven => ~NoneIn(rxq)
      BY AnswerThere DEF SegmentGiven
    <3> QED
      BY <2>2, <3>1, <3>2 DEF Dialogue, Talk
  <2>3. CASE pc = "confirm"
    <3>1. SegmentSent => toNode # <<>>
      BY SomethingSent, Zenon DEF SegmentSent
    <3>2. SegmentTaken => ~NoneIn(rxq)
      BY AnswerThere DEF SegmentTaken, Confirms
    <3> QED
      BY <2>3, <3>1, <3>2 DEF Dialogue, Talk
  <2>4. CASE pc = "ack"
    <3>1. BlockSent => toNode # <<>>
      BY DEF BlockSent
    <3>2. BlockTaken => ~NoneIn(rxq)
      BY AnswerThere DEF BlockTaken, Acknowledges
    <3> QED
      BY <2>4, <3>1, <3>2 DEF Dialogue, Talk
  <2>5. CASE pc = "done"
    <3>1. EndSent => toNode # <<>>
      BY DEF EndSent
    <3>2. EndTaken => ~NoneIn(rxq)
      BY AnswerThere DEF EndTaken, Finishes, Acknowledges
    <3> QED
      BY <2>5, <3>1, <3>2 DEF Dialogue, Talk
  <2>6. pc \in {"wait", "segments", "confirm", "ack", "done"}
    BY <1>1 DEF AtWait
  <2> QED
    BY <2>1, <2>2, <2>3, <2>4, <2>5, <2>6
<1>3. rxq \in Seq(Frames)
  BY <1>1 DEF BusTyped
<1>4. ~ReadsOther
  BY <1>2, <1>3, NoFault DEF ReadsOther, NoneIn
<1>5. SkipsOther
  BY <1>4 DEF Poll
<1>6. /\ rxq # <<>> /\ ~IsAnswer(Head(rxq)) /\ rxq' = Tail(rxq)
      /\ toNode' = toNode /\ elapsed' = elapsed
  BY <1>5 DEF SkipsOther
<1>7. Keeps(rxq, rxq')
  BY <1>3, <1>6, OtherLeaves DEF Keeps
<1> QED
  BY <1>1, <1>6, <1>7, DialogueKept

LEMMA NoTimeout ==
    ASSUME Dialogue
    PROVE  ~Timeout
<1>1. Waiting
  BY LinkAssumption DEF Dialogue, Client0, Waiting
<1> QED
  BY <1>1 DEF Timeout

LEMMA ClientDialogue ==
    ASSUME IInv, Plain, Dialogue, Client
    PROVE  Dialogue'
<1>1. setup' = setup
  BY DEF Client
<1>2. CASE Request
  BY <1>1, <1>2, RequestDialogue
<1>3. CASE DropAnswer
  BY <1>1, <1>3, DropAnswerDialogue
<1>4. CASE Reading
  <2>1. CASE ClearBuffer
    BY <1>1, <2>1, ClearBufferDialogue
  <2>2. CASE ReadAnswer
    BY <1>1, <2>2, ReadAnswerDialogue
  <2>3. CASE SegmentRequest
    BY <1>1, <2>3, SegmentRequestDialogue
  <2>4. CASE SegmentAnswer
    BY <1>1, <2>4, SegmentAnswerDialogue
  <2> QED
    BY <1>4, <2>1, <2>2, <2>3, <2>4 DEF Reading
<1>5. CASE Writing
  <2>1. CASE WriteAnswer
    BY <1>1, <2>1, WriteAnswerDialogue
  <2>2. CASE SendSegment
    BY <1>1, <2>2, SendSegmentDialogue
  <2>3. CASE SegmentConfirmed
    BY <1>1, <2>3, SegmentConfirmedDialogue
  <2>4. CASE BlockAnswer
    BY <1>1, <2>4, BlockAnswerDialogue
  <2>5. CASE SendBlockSegment
    BY <1>1, <2>5, SendBlockSegmentDialogue
  <2>6. CASE BlockAcknowledged
    BY <1>1, <2>6, BlockAcknowledgedDialogue
  <2>7. CASE SendBlockEnd
    BY <1>1, <2>7, SendBlockEndDialogue
  <2>8. CASE BlockEnded
    BY <1>1, <2>8, BlockEndedDialogue
  <2> QED
    BY <1>5, <2>1, <2>2, <2>3, <2>4, <2>5, <2>6, <2>7, <2>8 DEF Writing
<1>6. CASE Poll
  BY <1>1, <1>6, PollDialogue
<1> QED
  BY <1>2, <1>3, <1>4, <1>5, <1>6, NoTimeout DEF Client

-----------------------------------------------------------------------------
(* The dialogue goes on as it should in every plain setup.                 *)

PlainInv == Plain => Dialogue

LEMMA InitPlain ==
    ASSUME Init
    PROVE  PlainInv
<1> SUFFICES ASSUME Plain
             PROVE  Dialogue
  BY DEF PlainInv
<1>1. /\ setup \in DOMAIN Setups /\ toNode = <<>> /\ rxq = <<>> /\ elapsed = 0
      /\ od = OD /\ server = NoServer /\ pc = "idle" /\ req = NoRequest /\ loc = NoLocals
      /\ result = NoResult
  BY DEF Init, LinkInit, NodeInit, ClientInit
<1>2. Resting
  BY <1>1 DEF Resting, Nothing, NoneIn, NoServer
<1>3. ObjectsSound
  BY <1>1 DEF Plain, ObjectsSound
<1>4. Talk /\ Client0 /\ Returned
  BY <1>1, <1>2 DEF Talk, Client0, Returned, NoResult
<1> QED
  BY <1>3, <1>4 DEF Dialogue

LEMMA PlainStep == IInv /\ PlainInv /\ [Next]_vars => PlainInv'
<1> SUFFICES ASSUME IInv, PlainInv, [Next]_vars
             PROVE  PlainInv'
  OBVIOUS
<1>1. setup' = setup
  BY DEF Next, Client, NodeStep, BusStep, vars
<1>2. Plain' <=> Plain
  BY <1>1 DEF Plain, Prompt, Faults, BlockSizes, OD, Calls, Sound
<1> SUFFICES ASSUME Plain, Dialogue
             PROVE  Dialogue'
  BY <1>2 DEF PlainInv
<1>3. CASE UNCHANGED vars
  <2>1. Keeps(rxq, rxq')
    BY <1>3 DEF vars, Keeps
  <2> QED
    BY <1>3, <2>1, DialogueKept DEF vars, nodeVars, clientVars, IInv
<1>4. CASE Call /\ UNCHANGED setup
  BY <1>4, CallDialogue
<1>5. CASE Client
  BY <1>5, ClientDialogue
<1>6. CASE NodeStep
  BY <1>6, NodeDialogue DEF NodeStep
<1>7. CASE BusStep
  BY <1>7, BusDialogue
<1> QED
  BY <1>3, <1>4, <1>5, <1>6, <1>7 DEF Next

LEMMA AlwaysPlain == Spec => [](IInv /\ PlainInv)
<1>1. Init => IInv /\ PlainInv
  BY InitTyped, InitPlain
<1>2. IInv /\ PlainInv /\ [Next]_vars => (IInv /\ PlainInv)'
  BY InvStep, PlainStep
<1> QED
  BY <1>1, <1>2, PTL DEF Spec

(* In a plain setup every read that succeeds, in one frame or in segments, *)
(* returns the whole object that was asked for: sdo_read with the clearing *)
(* of its buffer, the comparison of the index and the toggle bit.          *)
THEOREM ReadCorrect == Spec => [](Plain => ReadReturnsTheObject)
<1>1. IInv /\ PlainInv => (Plain => ReadReturnsTheObject)
  BY DEF PlainInv, Dialogue, Returned, ReadReturnsTheObject
<1> QED
  BY <1>1, AlwaysPlain, PTL

(* In a plain setup a text that was written, in one frame or in segments,  *)
(* is in the node as soon as it has handled the frames sent to it, though  *)
(* sdo_write_segmented does not wait for the last confirmation; and a file *)
(* that sdo_write_block sent is there up to, at most, its last segment.    *)
THEOREM WriteCorrect == Spec => [](Plain => WrittenIsStored)
<1>1. IInv /\ PlainInv => (Plain => WrittenIsStored)
  BY DEF PlainInv, Dialogue, Returned, WrittenIsStored
<1> QED
  BY <1>1, AlwaysPlain, PTL

(* In a plain setup no call about an object that is there fails: none      *)
(* takes what another left for its answer, and none times out.             *)
THEOREM NoneFails == Spec => [](Plain => NoCallFails)
<1>1. IInv /\ PlainInv => (Plain => NoCallFails)
  BY DEF PlainInv, Dialogue, Returned, NoCallFails
<1> QED
  BY <1>1, AlwaysPlain, PTL

(* In a plain setup no call leaves more than the last segment of a text or *)
(* the confirmation of it.                                                 *)
THEOREM NothingLeft == Spec => [](Plain => NothingLeftBehind)
<1>1. ASSUME IInv, Plain, Dialogue, pc = "idle"
      PROVE  NothingLeftBehind
  <2>1. /\ toNode \in Seq(Requests) /\ DOMAIN toNode = 1 .. Len(toNode)
        /\ rxq \in Seq(Frames) /\ DOMAIN rxq = 1 .. Len(rxq)
    BY <1>1 DEF IInv, BusTyped
  <2>2. CASE Nothing
    BY <2>1, <2>2 DEF Nothing, NoneIn, NothingLeftBehind
  <2>3. CASE SegmentLeft
    <3>1. Len(toNode) = 1 /\ toNode[1].kind = "downloadSegment" /\ NoneIn(rxq)
      BY <2>3 DEF SegmentLeft, Ends
    <3>2. toNode # <<>>
      BY <3>1, SomethingSent
    <3> QED
      BY <2>1, <3>1, <3>2 DEF NoneIn, NothingLeftBehind
  <2>4. CASE ConfirmLeft
    <3>1. PICK f : Confirms(f) /\ OneIn(rxq, f)
      BY <2>4 DEF ConfirmLeft
    <3>2. PICK i \in 1 .. Len(rxq) :
             rxq[i] = f /\ \A j \in 1 .. Len(rxq) : IsAnswer(rxq[j]) => j = i
      BY <3>1 DEF OneIn
    <3>3. toNode = <<>> /\ server.mode = "none"
      BY <2>4 DEF ConfirmLeft
    <3> QED
      BY <2>1, <3>1, <3>2, <3>3 DEF Confirms, NothingLeftBehind
  <2>5. Resting
    BY <1>1 DEF Dialogue, Talk
  <2> QED
    BY <2>2, <2>3, <2>4, <2>5 DEF Resting
<1>2. IInv /\ PlainInv => (Plain => NothingLeftBehind)
  BY <1>1 DEF PlainInv, NothingLeftBehind
<1> QED
  BY <1>2, AlwaysPlain, PTL
=============================================================================
