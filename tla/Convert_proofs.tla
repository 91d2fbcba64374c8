--------------------------- MODULE Convert_proofs ---------------------------
(***************************************************************************)
(* Proofs about Convert for every set of lines and profiles: the two       *)
(* passes and the copies agree on the room for the entries, and the        *)
(* document has every object of the profile.                               *)
(***************************************************************************)
EXTENDS Convert, InductionLemmas, FiniteSetTheorems, SequenceTheorems, TLAPS

(* How far each pass has come: the line it is at is one of the file or the *)
(* end of it, and no entry is filled in before the second.                 *)
Passes ==
    /\ pc = "check" => at = 1 /\ count = 0
    /\ pc \in {"check", "count"} => current = 0
    /\ pc \in {"count", "read"} => at <= Len(file) + 1

IInv == TypeOK /\ Passes /\ RoomForEveryEntry

-----------------------------------------------------------------------------
(* The length of a sequence given by a function of its places.             *)
LEMMA PlacesOfSequence ==
    ASSUME NEW n \in Nat, NEW f, f = [k \in 1 .. n |-> f[k]]
    PROVE  Len(f) = n /\ DOMAIN f = 1 .. n
<1> DEFINE S == {f[k] : k \in 1 .. n}
<1>1. f \in [1 .. n -> S]
  OBVIOUS
<1>2. f \in Seq(S)
  BY <1>1
<1>3. Len(f) \in Nat /\ DOMAIN f = 1 .. Len(f) /\ DOMAIN f = 1 .. n
  BY <1>1, <1>2, LenProperties
<1> HIDE DEF S
<1> QED
  BY <1>3

(* The files are sequences of names of lines.                              *)
LEMMA FileIsSequence ==
    ASSUME file \in Profiles
    PROVE  Len(file) \in Nat /\ DOMAIN file = 1 .. Len(file)
<1>1. file \in Seq(DOMAIN Lines)
  BY ConvertAssumption
<1> QED
  BY <1>1, LenProperties

(* What is left to be counted from a line on: that line, if it is counted, *)
(* and what is left from the next line on.                                 *)
LEMMA LeftStep ==
    ASSUME file \in Profiles, NEW n \in DOMAIN file
    PROVE  /\ Left(n) \in Nat /\ Left(n + 1) \in Nat
           /\ Left(n) = IF Counted(LineAt(n)) THEN Left(n + 1) + 1 ELSE Left(n + 1)
<1> DEFINE R(m) == {k \in m .. Len(file) : Counted(LineAt(k))}
<1>1. Len(file) \in Nat /\ n \in 1 .. Len(file)
  BY FileIsSequence
<1>2. IsFiniteSet((n + 1) .. Len(file))
  BY <1>1, FS_Interval
<1>3. R(n + 1) \in SUBSET ((n + 1) .. Len(file))
  OBVIOUS
<1>4. IsFiniteSet(R(n + 1))
  BY <1>2, <1>3, FS_Subset
<1>5. Cardinality(R(n + 1)) \in Nat
  BY <1>4, FS_CardinalityType
<1>6. n \notin R(n + 1)
  BY <1>1
<1>7. CASE Counted(LineAt(n))
  <2>1. R(n) = R(n + 1) \cup {n}
    BY <1>1, <1>7
  <2>2. Cardinality(R(n)) = Cardinality(R(n + 1)) + 1
    <3> HIDE DEF R
    <3> QED
      BY <2>1, <1>4, <1>6, FS_AddElement
  <2> QED
    BY <2>2, <1>5, <1>7 DEF Left
<1>8. CASE ~Counted(LineAt(n))
  <2>1. R(n) = R(n + 1)
    BY <1>1, <1>8
  <2> QED
    BY <2>1, <1>5, <1>8 DEF Left
<1> QED
  BY <1>7, <1>8

(* After the last line nothing is left, before it at least that line.      *)
LEMMA LeftAtEnd ==
    ASSUME file \in Profiles, at \in Nat \ {0}, at \notin DOMAIN file
    PROVE  Left(at) = 0
<1>1. Len(file) \in Nat /\ DOMAIN file = 1 .. Len(file)
  BY FileIsSequence
<1>2. {k \in at .. Len(file) : Counted(LineAt(k))} = {}
  BY <1>1
<1> QED
  BY <1>2, FS_EmptySet DEF Left

(* The source of a copy has a number of entries.                           *)
LEMMA SourceCount ==
    ASSUME TypeOK, NEW index
    PROVE  IsFiniteSet(EntriesOf(index)) /\ Cardinality(EntriesOf(index)) \in Nat
<1>1. DOMAIN entries = 1 .. Len(entries) /\ Len(entries) \in Nat
  BY DEF TypeOK
<1>2. EntriesOf(index) \in SUBSET (1 .. Len(entries)) /\ IsFiniteSet(1 .. Len(entries))
  BY <1>1, FS_Interval DEF EntriesOf
<1>3. IsFiniteSet(EntriesOf(index))
  BY <1>2, FS_Subset
<1> QED
  BY <1>3, FS_CardinalityType

-----------------------------------------------------------------------------
LEMMA InitInv == Init => IInv
<1> SUFFICES ASSUME Init PROVE IInv
  OBVIOUS
<1>1. Len(<<>>) = 0 /\ entries = [k \in 1 .. 0 |-> entries[k]]
  BY DEF Init
<1>2. TypeOK
  BY <1>1 DEF Init, TypeOK
<1> QED
  BY <1>2 DEF Init, IInv, Passes, RoomForEveryEntry

(* Failing only changes where the program is.                              *)
LEMMA FailInv == IInv /\ Fail => IInv'
<1> SUFFICES ASSUME IInv, Fail PROVE IInv'
  OBVIOUS
<1>1. TypeOK'
  BY DEF IInv, Fail, TypeOK
<1> QED
  BY <1>1 DEF IInv, Fail, Passes, RoomForEveryEntry

(* Allocations fail where memory may run out.                              *)
LEMMA OnlyMemory ==
    ASSUME NEW X, NEW S \in Losses(X), Lose(S), lost # {} => "memory" \in Trouble
    PROVE  lost' # {} => "memory" \in Trouble
<1>1. S # {} => "memory" \in Trouble
  BY DEF Losses
<1>2. lost' = lost \cup ({<<pc, at>>} \X S)
  BY DEF Lose
<1>3. S = {} => lost' = lost
  BY <1>2
<1> QED
  BY <1>1, <1>3

(* What was not lost is as it should be.                                   *)
LEMMA NothingLost ==
    ASSUME NEW S, Lose(S), lost' = {}
    PROVE  S = {} /\ lost = {}
<1>1. \A x \in S : <<<<pc, at>>, x>> \in lost'
  BY DEF Lose
<1> QED
  BY <1>1 DEF Lose

LEMMA BlankIsConstant == Blank' = Blank
BY DEF Blank, init_codb_entry, NoAttr, None

(* Where nothing about the lines, the entries and the room changes.        *)
LEMMA SameRoom ==
    ASSUME UNCHANGED <<file, at>>
    PROVE  Left(at)' = Left(at) /\ Left(1)' = Left(1)
BY DEF Left, LineAt

LEMMA CheckInv == IInv /\ is_codb_file => IInv'
<1> SUFFICES ASSUME IInv, is_codb_file PROVE IInv'
  OBVIOUS
<1>1. CASE Fail
  BY <1>1, FailInv
<1>2. CASE pc' = "count" /\ UNCHANGED <<file, at, count, entries, current, json, output, lost>>
  <2>1. TypeOK'
    BY <1>2 DEF IInv, TypeOK
  <2>2. at = 1 /\ count = 0 /\ current = 0
    BY DEF IInv, Passes, is_codb_file
  <2>3. Len(file) \in Nat
    BY FileIsSequence DEF IInv, TypeOK
  <2>4. Passes'
    BY <1>2, <2>2, <2>3 DEF Passes
  <2>5. Left(at)' = Left(1)'
    BY <1>2, <2>2 DEF Left, LineAt
  <2>6. Left(1)' \in Nat
    <3>1. {k \in 1 .. Len(file) : Counted(LineAt(k))} \in SUBSET (1 .. Len(file))
      OBVIOUS
    <3>2. IsFiniteSet(1 .. Len(file))
      BY <2>3, FS_Interval
    <3>3. IsFiniteSet({k \in 1 .. Len(file) : Counted(LineAt(k))})
      BY <3>1, <3>2, FS_Subset
    <3> QED
      BY <3>3, <1>2, FS_CardinalityType DEF Left, LineAt
  <2>7. RoomForEveryEntry'
    BY <1>2, <2>2, <2>5, <2>6 DEF RoomForEveryEntry
  <2> QED
    BY <2>1, <2>4, <2>7 DEF IInv
<1> QED
  BY <1>1, <1>2 DEF is_codb_file

LEMMA CountInv == IInv /\ CountLine => IInv'
<1> SUFFICES ASSUME IInv, CountLine PROVE IInv'
  OBVIOUS
<1>1. file \in Profiles /\ Len(file) \in Nat /\ DOMAIN file = 1 .. Len(file) /\ at \in DOMAIN file
  BY FileIsSequence DEF IInv, TypeOK, CountLine
<1>2. TypeOK'
  BY DEF IInv, TypeOK, CountLine
<1>3. Passes'
  BY <1>1 DEF IInv, TypeOK, Passes, CountLine
<1>4. Left(at)' = Left(at + 1) /\ Left(1)' = Left(1)
  BY DEF CountLine, Left, LineAt
<1>5. count' + Left(at + 1) = Left(1)
  BY <1>1, LeftStep DEF IInv, TypeOK, RoomForEveryEntry, CountLine
<1>6. RoomForEveryEntry'
  BY <1>4, <1>5 DEF RoomForEveryEntry, CountLine
<1> QED
  BY <1>2, <1>3, <1>6 DEF IInv

LEMMA AllocateInv == IInv /\ Allocate => IInv'
<1> SUFFICES ASSUME IInv, Allocate PROVE IInv'
  OBVIOUS
<1>1. CASE Fail
  BY <1>1, FailInv
<1>2. CASE /\ pc' = "read" /\ at' = 1
           /\ entries' = [k \in 1 .. count |-> Blank]
           /\ UNCHANGED <<file, count, current, json, output, lost>>
  <2>1. file \in Profiles /\ at \in Nat \ {0} /\ at \notin DOMAIN file /\ count \in Nat
    BY DEF IInv, TypeOK, Allocate
  <2>2. Len(file) \in Nat
    BY <2>1, FileIsSequence
  <2>3. entries' = [k \in 1 .. count |-> entries'[k]]
    BY <1>2
  <2>4. Len(entries') = count /\ DOMAIN entries' = 1 .. count
    BY <2>1, <2>3, PlacesOfSequence
  <2>5. current = 0 /\ count + Left(at) = Left(1)
    BY DEF IInv, Passes, RoomForEveryEntry, Allocate
  <2>6. Left(at) = 0
    BY <2>1, LeftAtEnd
  <2>7. count = Left(1)
    BY <2>1, <2>5, <2>6
  <2>8. Left(at)' = Left(1)
    BY <1>2 DEF Left, LineAt
  <2>9. TypeOK'
    BY <1>2, <2>1, <2>3, <2>4, <2>5 DEF IInv, TypeOK
  <2>10. Passes'
    BY <1>2, <2>2 DEF Passes
  <2>11. \A k \in 1 .. count : entries'[k] = Blank
    BY <1>2
  <2>12. RoomForEveryEntry'
    BY <1>2, <2>1, <2>4, <2>5, <2>7, <2>8, <2>11, BlankIsConstant DEF RoomForEveryEntry
  <2> QED
    BY <2>9, <2>10, <2>12 DEF IInv
<1> QED
  BY <1>1, <1>2 DEF Allocate

LEMMA SkipInv == IInv /\ SkipLine => IInv'
<1> SUFFICES ASSUME IInv, SkipLine PROVE IInv'
  OBVIOUS
<1>1. file \in Profiles /\ Len(file) \in Nat /\ DOMAIN file = 1 .. Len(file) /\ at \in DOMAIN file
  BY FileIsSequence DEF IInv, TypeOK, SkipLine, Reading
<1>2. TypeOK'
  BY DEF IInv, TypeOK, SkipLine
<1>3. Passes'
  BY <1>1 DEF IInv, TypeOK, Passes, SkipLine, Reading
<1>4. Left(at)' = Left(at + 1)
  BY DEF SkipLine, Left, LineAt
<1>5. Left(at) = Left(at + 1)
  BY <1>1, LeftStep DEF SkipLine, Reading, Line, Counted
<1>6. RoomForEveryEntry'
  BY <1>4, <1>5, BlankIsConstant DEF IInv, RoomForEveryEntry, SkipLine, Reading
<1> QED
  BY <1>2, <1>3, <1>6 DEF IInv

LEMMA ReadEntryInv == IInv /\ ReadEntry => IInv'
<1> SUFFICES ASSUME IInv, ReadEntry PROVE IInv'
  OBVIOUS
<1>1. file \in Profiles /\ Len(file) \in Nat /\ DOMAIN file = 1 .. Len(file) /\ at \in DOMAIN file
  BY FileIsSequence DEF IInv, TypeOK, ReadEntry, Reading
<1>2. Len(entries) \in Nat /\ current \in Nat /\ current < Len(entries)
  BY DEF IInv, TypeOK, ReadEntry, Convertible, HasRoom
<1>a. PICK S \in Losses(IF IsHeader(Line) THEN {"name"} ELSE {}) :
        entries' = [entries EXCEPT ![current + 1] = Nameless(EntryOf(Line), S)] /\ Lose(S)
  BY DEF ReadEntry
<1>3. /\ entries = [k \in 1 .. Len(entries) |-> entries[k]]
      /\ entries' = [entries EXCEPT ![current + 1] = Nameless(EntryOf(Line), S)]
  BY <1>a DEF IInv, TypeOK
<1>4. entries' = [k \in 1 .. Len(entries) |-> entries'[k]]
  BY <1>3
<1>5. Len(entries') = Len(entries)
  BY <1>2, <1>4, PlacesOfSequence
<1>b. (lost # {} => "memory" \in Trouble)'
  BY <1>a, OnlyMemory DEF IInv, TypeOK
<1>6. TypeOK'
  BY <1>2, <1>4, <1>5, <1>b DEF IInv, TypeOK, ReadEntry
<1>7. Passes'
  BY <1>1 DEF IInv, TypeOK, Passes, ReadEntry, Reading
<1>8. Left(at)' = Left(at + 1)
  BY DEF ReadEntry, Left, LineAt
<1>9. Left(at) = Left(at + 1) + 1 /\ Left(at + 1) \in Nat
  BY <1>1, LeftStep DEF ReadEntry, Line, IsEntry, Counted
<1>10. current + Left(at) = Len(entries)
  BY DEF IInv, RoomForEveryEntry, ReadEntry, Reading
<1>11. \A k \in current + 2 .. Len(entries) : entries'[k] = Blank
  <2> SUFFICES ASSUME NEW k \in current + 2 .. Len(entries) PROVE entries'[k] = Blank
    OBVIOUS
  <2>1. k \in current + 1 .. Len(entries) /\ k # current + 1 /\ k \in 1 .. Len(entries)
    BY <1>2
  <2>2. entries'[k] = entries[k]
    BY <1>3, <2>1
  <2>3. entries[k] = Blank
    BY <2>1 DEF IInv, RoomForEveryEntry, ReadEntry, Reading
  <2> QED
    BY <2>2, <2>3
<1>12. current' = current + 1 /\ pc' = "read"
  BY DEF ReadEntry, Reading
<1>13. current' + Left(at)' = Len(entries')
  BY <1>2, <1>5, <1>8, <1>9, <1>10, <1>12
<1>14. \A k \in current' + 1 .. Len(entries') : entries'[k] = Blank
  BY <1>2, <1>5, <1>11, <1>12
<1>15. RoomForEveryEntry'
  BY <1>12, <1>13, <1>14, BlankIsConstant DEF RoomForEveryEntry
<1> QED
  BY <1>6, <1>7, <1>15 DEF IInv

LEMMA CopyInv == IInv /\ CopyObject => IInv'
<1> SUFFICES ASSUME IInv, CopyObject PROVE IInv'
  OBVIOUS
<1> DEFINE n == Cardinality(EntriesOf(Line.source))
<1>1. file \in Profiles /\ Len(file) \in Nat /\ DOMAIN file = 1 .. Len(file) /\ at \in DOMAIN file
  BY FileIsSequence DEF IInv, TypeOK, CopyObject, Reading
<1>2. Len(entries) \in Nat /\ current \in Nat /\ current <= Len(entries)
  BY DEF IInv, TypeOK, CopyObject, Reading
<1>3. n \in Nat
  BY SourceCount DEF IInv
<1>a. PICK S \in Losses(Duplicated) : MakeCopies(S) /\ Lose(S)
  BY DEF CopyObject
<1>b. (lost # {} => "memory" \in Trouble)'
  BY <1>a, OnlyMemory DEF IInv, TypeOK
<1>4. /\ current' = current + n
      /\ entries' = [k \in 1 .. Len(entries) + n |->
                        IF k \in current + 1 .. current + n
                        THEN Kept(Copied(entries[Nth(EntriesOf(Line.source), k - current)], Line.dest), k, S)
                        ELSE IF k <= Len(entries) THEN entries[k] ELSE Blank]
  BY <1>a DEF MakeCopies
<1>5. pc' = "read" /\ at' = at + 1 /\ pc = "read" /\ UNCHANGED <<file, count, json, output>>
  BY DEF CopyObject, Reading
<1>6. Line.kind = "copy"
  BY DEF CopyObject, IsCopy
<1> HIDE DEF n
<1>7. entries' = [k \in 1 .. Len(entries) + n |-> entries'[k]]
  BY <1>4
<1>8. Len(entries) + n \in Nat
  BY <1>2, <1>3
<1>9. Len(entries') = Len(entries) + n
  BY <1>7, <1>8, PlacesOfSequence
<1>10. TypeOK'
  BY <1>1, <1>2, <1>3, <1>4, <1>5, <1>7, <1>9, <1>b DEF IInv, TypeOK
<1>11. Passes'
  BY <1>1, <1>5 DEF Passes
<1>12. Left(at)' = Left(at + 1)
  BY <1>5 DEF Left, LineAt
<1>13. Left(at) = Left(at + 1) /\ Left(at + 1) \in Nat
  BY <1>1, <1>6, LeftStep DEF Line, Counted
<1>14. current + Left(at) = Len(entries)
  BY <1>5 DEF IInv, RoomForEveryEntry
<1>15. \A k \in current' + 1 .. Len(entries') : entries'[k] = Blank
  <2> SUFFICES ASSUME NEW k \in current' + 1 .. Len(entries') PROVE entries'[k] = Blank
    OBVIOUS
  <2>1. k \in 1 .. Len(entries) + n /\ k \notin current + 1 .. current + n
    BY <1>2, <1>3, <1>4, <1>9
  <2>2. entries'[k] = IF k <= Len(entries) THEN entries[k] ELSE Blank
    BY <1>4, <2>1
  <2>3. k <= Len(entries) => k \in current + 1 .. Len(entries)
    BY <1>2, <1>3, <1>4, <1>9
  <2>4. k <= Len(entries) => entries[k] = Blank
    BY <1>5, <2>3 DEF IInv, RoomForEveryEntry
  <2> QED
    BY <2>2, <2>4
<1>16. current' + Left(at)' = Len(entries')
  <2>1. current' = current + n
    BY <1>4
  <2>2. Left(at)' = Left(at) /\ Left(at) \in Nat
    BY <1>12, <1>13
  <2> HIDE DEF Left
  <2> QED
    BY <1>2, <1>3, <1>9, <1>14, <2>1, <2>2
<1>17. RoomForEveryEntry'
  BY <1>5, <1>15, <1>16, BlankIsConstant DEF RoomForEveryEntry
<1> QED
  BY <1>10, <1>11, <1>17 DEF IInv

LEMMA OpenInv == IInv /\ OpenOutput => IInv'
<1> SUFFICES ASSUME IInv, OpenOutput PROVE IInv'
  OBVIOUS
<1>1. CASE Fail
  BY <1>1, FailInv
<1>2. CASE /\ \/ pc' = "write" /\ at' = 1
              \/ pc' = "failed" /\ at' = at
           /\ output' = "empty"
           /\ UNCHANGED <<file, count, entries, current, json, lost>>
  <2>1. file \in Profiles /\ at \in Nat \ {0} /\ at \notin DOMAIN file /\ current \in Nat
    BY DEF IInv, TypeOK, OpenOutput
  <2>2. current = Len(entries)
    BY <2>1, LeftAtEnd DEF IInv, RoomForEveryEntry, OpenOutput
  <2>3. TypeOK'
    BY <1>2 DEF IInv, TypeOK, OpenOutput
  <2> QED
    BY <1>2, <2>2, <2>3 DEF IInv, Passes, RoomForEveryEntry
<1> QED
  BY <1>1, <1>2 DEF OpenOutput

LEMMA WriteInv == IInv /\ WriteEntry => IInv'
<1> SUFFICES ASSUME IInv, WriteEntry PROVE IInv'
  OBVIOUS
<1>1. CASE Fail
  BY <1>1, FailInv
<1>2. CASE /\ at' = at + 1 /\ UNCHANGED <<file, pc, count, entries, current, output>>
           /\ \/ lost' = lost
              \/ \E S \in Losses(Members(write_json_entry(at))) : Lose(S)
  <2>1. (lost # {} => "memory" \in Trouble)'
    BY <1>2, OnlyMemory DEF IInv, TypeOK
  <2>2. TypeOK'
    BY <1>2, <2>1 DEF IInv, TypeOK
  <2> QED
    BY <1>2, <2>2 DEF IInv, Passes, RoomForEveryEntry, WriteEntry
<1> QED
  BY <1>1, <1>2 DEF WriteEntry

LEMMA FinishInv == IInv /\ Finish => IInv'
<1> SUFFICES ASSUME IInv, Finish PROVE IInv'
  OBVIOUS
<1>1. Len(<<>>) = 0 /\ entries' = <<>> /\ entries' = [k \in 1 .. 0 |-> entries'[k]]
  BY DEF Finish
<1>2. TypeOK'
  BY <1>1 DEF IInv, TypeOK, Finish
<1> QED
  BY <1>2 DEF IInv, Finish, Passes, RoomForEveryEntry

LEMMA EndedInv == IInv /\ UNCHANGED vars => IInv'
<1> SUFFICES ASSUME IInv, UNCHANGED vars PROVE IInv'
  OBVIOUS
<1>1. Left(at)' = Left(at) /\ Left(1)' = Left(1)
  BY SameRoom DEF vars
<1> QED
  BY <1>1, BlankIsConstant DEF IInv, TypeOK, Passes, RoomForEveryEntry, vars

-----------------------------------------------------------------------------
(* The types, and the room for the entries, in every state: the two passes *)
(* and the copies of read_codb agree.                                      *)
THEOREM Inductive == Spec => []IInv
<1>1. IInv /\ [Next]_vars => IInv'
  <2> SUFFICES ASSUME IInv, [Next]_vars PROVE IInv'
    OBVIOUS
  <2>1. CASE Reject
    BY <2>1, FailInv DEF Reject
  <2>2. CASE Ended
    BY <2>2, EndedInv DEF Ended
  <2>3. CASE UNCHANGED vars
    BY <2>3, EndedInv
  <2> QED
    BY <2>1, <2>2, <2>3, CheckInv, CountInv, AllocateInv, SkipInv, ReadEntryInv, CopyInv, OpenInv,
       WriteInv, FinishInv DEF Next
<1> QED
  BY <1>1, InitInv, PTL DEF Spec

(* Every value of the converter's state is of its type.                    *)
THEOREM TypeCorrect == Spec => []TypeOK
BY Inductive, PTL DEF IInv

(* For every profile, of whatever lines: there is room for exactly the     *)
(* entries that are still to be read, and no blank entry is written.       *)
THEOREM RoomIsExact == Spec => []RoomForEveryEntry
BY Inductive, PTL DEF IInv

(* The lines that have been read have no error.                            *)
LinesAccepted ==
    /\ pc = "read" => \A k \in DOMAIN file : k < at => Acceptable(LineAt(k))
    /\ pc \in {"count", "read"} => \A k \in DOMAIN file : IsCodb(LineAt(k))
    /\ pc = "write" => output = "empty"

(* The JSON file of an earlier conversion is opened when the whole profile *)
(* has been read, and never for one of which a line has an error.          *)
THEOREM OldFileIsKept == Spec => []ErrorKeepsOldFile
<1>1. Init => LinesAccepted /\ ErrorKeepsOldFile
  BY DEF Init, LinesAccepted, ErrorKeepsOldFile
<1>2. IInv /\ LinesAccepted /\ ErrorKeepsOldFile /\ [Next]_vars => (LinesAccepted /\ ErrorKeepsOldFile)'
  <2> SUFFICES ASSUME IInv, LinesAccepted, ErrorKeepsOldFile, [Next]_vars
               PROVE  (LinesAccepted /\ ErrorKeepsOldFile)'
    OBVIOUS
  <2>1. file' = file /\ at \in Nat \ {0} /\ file \in Profiles
    BY DEF IInv, TypeOK, Next, vars, Fail, is_codb_file, CountLine, Allocate, SkipLine, ReadEntry, CopyObject,
           Reject, OpenOutput, WriteEntry, Finish, Ended
  <2>2. Len(file) \in Nat /\ DOMAIN file = 1 .. Len(file)
    BY <2>1, FileIsSequence
  <2>3. \A k : LineAt(k)' = LineAt(k)
    BY <2>1 DEF LineAt
  <2>4. CASE Fail \/ UNCHANGED vars
    BY <2>1, <2>3, <2>4 DEF Fail, vars, LinesAccepted, ErrorKeepsOldFile
  <2>5. CASE is_codb_file /\ ~Fail
    BY <2>1, <2>3, <2>5 DEF is_codb_file, LinesAccepted, ErrorKeepsOldFile
  <2>6. CASE CountLine
    BY <2>1, <2>3, <2>6 DEF CountLine, LinesAccepted, ErrorKeepsOldFile
  <2>7. CASE Allocate /\ ~Fail
    <3>1. \A k \in DOMAIN file : ~(k < 1)
      BY <2>2
    <3> QED
      BY <2>1, <2>3, <2>7, <3>1 DEF Allocate, LinesAccepted, ErrorKeepsOldFile
  <2>8. CASE SkipLine \/ ReadEntry \/ CopyObject
    <3>1. pc = "read" /\ pc' = "read" /\ at' = at + 1 /\ output' = output /\ at \in DOMAIN file
      BY <2>8 DEF SkipLine, ReadEntry, CopyObject, Reading
    <3>2. IsCodb(LineAt(at))
      BY <3>1 DEF LinesAccepted
    <3>3. Acceptable(LineAt(at))
      BY <2>8, <3>2 DEF SkipLine, ReadEntry, CopyObject, Line, Acceptable, IsCodb, IsEntry, IsCopy,
                        Convertible, Copyable
    <3>4. \A k \in DOMAIN file : k < at + 1 => k < at \/ k = at
      BY <2>1, <2>2
    <3> HIDE DEF Acceptable
    <3> QED
      BY <2>1, <2>3, <3>1, <3>3, <3>4 DEF LinesAccepted, ErrorKeepsOldFile
  <2>9. CASE OpenOutput /\ ~Fail
    <3>1. pc = "read" /\ pc' \in {"write", "failed"} /\ at \notin DOMAIN file /\ output' = "empty"
      BY <2>9 DEF OpenOutput
    <3>2. \A k \in DOMAIN file : k < at
      BY <2>1, <2>2, <3>1
    <3> HIDE DEF Acceptable
    <3> QED
      BY <2>1, <2>3, <3>1, <3>2 DEF LinesAccepted, ErrorKeepsOldFile
  <2>10. CASE WriteEntry /\ ~Fail
    BY <2>1, <2>3, <2>10 DEF WriteEntry, LinesAccepted, ErrorKeepsOldFile
  <2>11. CASE Finish
    <3>1. output # "old" /\ pc = "write" /\ pc' = "done"
      BY <2>11 DEF Finish, LinesAccepted
    <3> QED
      BY <2>1, <2>3, <2>11, <3>1 DEF LinesAccepted, ErrorKeepsOldFile
  <2> QED
    BY <2>4, <2>5, <2>6, <2>7, <2>8, <2>9, <2>10, <2>11 DEF Next, Reject, Ended
<1> QED
  BY <1>1, <1>2, Inductive, PTL DEF Spec

(* The error "More entries than expected" of read_codb is never reported.  *)
THEOREM NeverTooMany == Spec => [](Reading /\ IsEntry(Line) => HasRoom)
<1>1. IInv => (Reading /\ IsEntry(Line) => HasRoom)
  <2> SUFFICES ASSUME IInv, Reading, IsEntry(Line) PROVE HasRoom
    OBVIOUS
  <2>1. file \in Profiles /\ at \in DOMAIN file
    BY DEF IInv, TypeOK, Reading
  <2>2. Left(at) = Left(at + 1) + 1 /\ Left(at + 1) \in Nat
    BY <2>1, LeftStep DEF Line, IsEntry, Counted
  <2>3. current + Left(at) = Len(entries) /\ current \in Nat
    BY DEF IInv, TypeOK, RoomForEveryEntry, Reading
  <2> QED
    BY <2>2, <2>3 DEF HasRoom
<1> QED
  BY <1>1, Inductive, PTL

-----------------------------------------------------------------------------
(* The document.  What is read up to a line: the objects that start before *)
(* it, the lines of an index before it, and of the entries those with a    *)
(* name and those of an index.                                             *)
StartsBefore(l)   == {k \in DOMAIN file : Starts(k) /\ k < l}
LinesTo(i, l)     == {k \in EntryPlaces : IndexAt(k) = i /\ k < l}
HeadsOf(list, c)  == {k \in 1 .. c : list[k].name # None}
OwnOf(list, c, i) == {k \in 1 .. c : list[k].main = i}

EntryFields == {"name", "main", "sub", "desc", "kind", "unit", "code", "code_attr", "type", "access",
                "min", "max", "low", "high", "default", "mappable"}
IsRecord(e) == e = [f \in EntryFields |-> e[f]]

(* The n-th object is in the entries of its index, one after the other:    *)
(* those of its lines, or those of another object, copied.                 *)
FromLines(list, h, b, k, places) ==
    /\ Cardinality(places) = b /\ InOrder(places)[1] = k
    /\ \A j \in 1 .. b : list[h + j - 1] = EntryOf(LineAt(InOrder(places)[j]))
FromObject(list, c, h, b, k, source, from) ==
    /\ source = LineAt(k).source
    /\ OwnOf(list, c, source) = from .. from + b - 1
    /\ \A j \in 1 .. b : list[h + j - 1] = Copied(list[from + j - 1], IndexAt(k))
ObjectIs(list, c, l, S, H, n) ==
    \E b \in Nat \ {0} :
       /\ OwnOf(list, c, IndexAt(S[n])) = H[n] .. H[n] + b - 1
       /\ \A k \in H[n] + 1 .. H[n] + b - 1 : list[k].name = None
       /\ S[n] \in EntryPlaces => FromLines(list, H[n], b, S[n], LinesTo(IndexAt(S[n]), l))
       /\ S[n] \in CopyPlaces =>
             \E m \in 1 .. n - 1 : FromObject(list, c, H[n], b, S[n], IndexAt(S[m]), H[m])

ObjectsAre(list, c, l, S, H, N) ==
    /\ \A k \in 1 .. c : IsRecord(list[k]) /\ \E n \in 1 .. N : list[k].main = IndexAt(S[n])
    /\ \A n \in 1 .. N : ObjectIs(list, c, l, S, H, n)
    /\ N # 0 => list[c].main = IndexAt(S[N])

ReadTo(list, c, l) ==
    /\ Cardinality(HeadsOf(list, c)) = Cardinality(StartsBefore(l))
    /\ ObjectsAre(list, c, l, InOrder(StartsBefore(l)), InOrder(HeadsOf(list, c)),
                  Cardinality(StartsBefore(l)))

LEMMA StartsGrow ==
    ASSUME file \in Profiles, NEW l \in Nat
    PROVE  /\ StartsBefore(l) \in SUBSET Nat /\ IsFiniteSet(StartsBefore(l))
           /\ \A k \in StartsBefore(l) : k < l /\ Starts(k) /\ k \in DOMAIN file
           /\ StartsBefore(l + 1) = IF l \in DOMAIN file /\ Starts(l) THEN StartsBefore(l) \cup {l}
                                    ELSE StartsBefore(l)
<1>1. Len(file) \in Nat /\ DOMAIN file = 1 .. Len(file)
  BY FileIsSequence
<1>2. IsFiniteSet(1 .. Len(file))
  BY <1>1, FS_Interval
<1>3. StartsBefore(l) \in SUBSET (1 .. Len(file))
  BY <1>1 DEF StartsBefore
<1>4. IsFiniteSet(StartsBefore(l))
  BY <1>2, <1>3, FS_Subset
<1>5. \A k \in DOMAIN file : k < l + 1 <=> k < l \/ k = l
  BY <1>1
<1> HIDE DEF Starts
<1>6. StartsBefore(l + 1) = IF l \in DOMAIN file /\ Starts(l) THEN StartsBefore(l) \cup {l}
                            ELSE StartsBefore(l)
  BY <1>5 DEF StartsBefore
<1>7. \A k \in StartsBefore(l) : k < l /\ Starts(k) /\ k \in DOMAIN file
  BY DEF StartsBefore
<1> QED
  BY <1>3, <1>4, <1>6, <1>7

LEMMA LinesGrow ==
    ASSUME file \in Profiles, NEW l \in Nat, NEW i
    PROVE  /\ LinesTo(i, l) \in SUBSET Nat /\ IsFiniteSet(LinesTo(i, l))
           /\ \A k \in LinesTo(i, l) : k < l
           /\ LinesTo(i, l + 1) = IF l \in EntryPlaces /\ IndexAt(l) = i THEN LinesTo(i, l) \cup {l}
                                  ELSE LinesTo(i, l)
<1>1. Len(file) \in Nat /\ EntryPlaces \in SUBSET (1 .. Len(file))
  BY FileIsSequence DEF EntryPlaces
<1>2. IsFiniteSet(1 .. Len(file))
  BY <1>1, FS_Interval
<1>3. LinesTo(i, l) \in SUBSET (1 .. Len(file))
  BY <1>1 DEF LinesTo
<1>4. IsFiniteSet(LinesTo(i, l))
  BY <1>2, <1>3, FS_Subset
<1>5. \A k \in EntryPlaces : k < l + 1 <=> k < l \/ k = l
  BY <1>1
<1>6. LinesTo(i, l + 1) = IF l \in EntryPlaces /\ IndexAt(l) = i THEN LinesTo(i, l) \cup {l}
                          ELSE LinesTo(i, l)
  BY <1>5 DEF LinesTo
<1>7. \A k \in LinesTo(i, l) : k < l
  BY DEF LinesTo
<1> QED
  BY <1>3, <1>4, <1>6, <1>7

LEMMA HeadsGrow ==
    ASSUME NEW list, NEW c \in Nat
    PROVE  /\ HeadsOf(list, c) \in SUBSET Nat /\ IsFiniteSet(HeadsOf(list, c))
           /\ \A k \in HeadsOf(list, c) : k < c + 1
<1>1. HeadsOf(list, c) \in SUBSET (1 .. c)
  BY DEF HeadsOf
<1>2. IsFiniteSet(1 .. c)
  BY FS_Interval
<1>3. IsFiniteSet(HeadsOf(list, c))
  BY <1>1, <1>2, FS_Subset
<1> QED
  BY <1>1, <1>3

(* The entries of an interval in their order.                              *)
LEMMA NthOfInterval ==
    ASSUME NEW a \in Nat, NEW b \in Nat \ {0}
    PROVE  /\ Cardinality(a .. a + b - 1) = b
           /\ \A j \in 1 .. b : Nth(a .. a + b - 1, j) = a + j - 1
<1> DEFINE S == a .. a + b - 1
<1>1. IsFiniteSet(S) /\ Cardinality(S) = b
  <2>1. a + b - 1 \in Int /\ a <= a + b - 1 /\ (a + b - 1) - a + 1 = b
    OBVIOUS
  <2> HIDE DEF S
  <2>2. IsFiniteSet(a .. a + b - 1) /\ Cardinality(a .. a + b - 1) = (a + b - 1) - a + 1
    BY <2>1, FS_Interval
  <2> QED
    BY <2>1, <2>2 DEF S
<1>2. S \in SUBSET Nat
  OBVIOUS
<1>3. ASSUME NEW j \in 1 .. b
      PROVE  Nth(S, j) = a + j - 1
  <2>1. a + j - 1 \in S /\ a + j - 1 \in Int /\ a <= a + j - 1 /\ (a + j - 1) - a + 1 = j
    OBVIOUS
  <2>2. {m \in S : m <= a + j - 1} = a .. a + j - 1
    OBVIOUS
  <2>3. Cardinality(a .. a + j - 1) = j
    BY <2>1, FS_Interval
  <2>4. Rank(S, a + j - 1) = j
    BY <2>2, <2>3 DEF Rank
  <2> HIDE DEF S
  <2>5. \A k, m \in S : k < m => Rank(S, k) < Rank(S, m)
    BY <1>1, <1>2, RankGrows
  <2>6. ASSUME NEW k \in S, Rank(S, k) = j
        PROVE  k = a + j - 1
    <3>1. k \in Nat /\ a + j - 1 \in Nat /\ j \in Nat
      BY <1>2, <2>1
    <3>2. ~(k < a + j - 1) /\ ~(a + j - 1 < k)
      BY <2>1, <2>4, <2>5, <2>6, <3>1
    <3> QED
      BY <3>1, <3>2
  <2>7. Nth(S, j) = CHOOSE k \in S : Rank(S, k) = j
    BY DEF Nth, Rank
  <2> QED
    BY <2>1, <2>4, <2>6, <2>7
<1> QED
  BY <1>1, <1>3

-----------------------------------------------------------------------------
(* An object that has been read stays as it is while others come after it. *)
LEMMA ObjectKept ==
    ASSUME NEW list, NEW c \in Nat, NEW l, NEW S, NEW H, NEW n \in Nat \ {0},
           ObjectIs(list, c, l, S, H, n),
           NEW more, NEW d, NEW r, NEW T, NEW G,
           \A k \in 1 .. c : more[k] = list[k],
           \A m \in 1 .. n : /\ T[m] = S[m] /\ G[m] = H[m] /\ H[m] \in Nat
                             /\ OwnOf(more, d, IndexAt(S[m])) = OwnOf(list, c, IndexAt(S[m])),
           LinesTo(IndexAt(S[n]), r) = LinesTo(IndexAt(S[n]), l)
    PROVE  ObjectIs(more, d, r, T, G, n)
<1>1. PICK b \in Nat \ {0} :
         /\ OwnOf(list, c, IndexAt(S[n])) = H[n] .. H[n] + b - 1
         /\ \A k \in H[n] + 1 .. H[n] + b - 1 : list[k].name = None
         /\ S[n] \in EntryPlaces => FromLines(list, H[n], b, S[n], LinesTo(IndexAt(S[n]), l))
         /\ S[n] \in CopyPlaces =>
               \E m \in 1 .. n - 1 : FromObject(list, c, H[n], b, S[n], IndexAt(S[m]), H[m])
  BY DEF ObjectIs
<1>2. n \in 1 .. n /\ H[n] \in Nat /\ T[n] = S[n] /\ G[n] = H[n]
  OBVIOUS
<1>3. \A i : \A k \in OwnOf(list, c, i) : more[k] = list[k]
  BY DEF OwnOf
<1>4. \A k \in H[n] .. H[n] + b - 1 : more[k] = list[k]
  BY <1>1, <1>3
<1>5. OwnOf(more, d, IndexAt(T[n])) = G[n] .. G[n] + b - 1
  BY <1>1, <1>2
<1>6. \A k \in G[n] + 1 .. G[n] + b - 1 : more[k].name = None
  BY <1>1, <1>2, <1>4
<1>7. ASSUME T[n] \in EntryPlaces
      PROVE  FromLines(more, G[n], b, T[n], LinesTo(IndexAt(T[n]), r))
  <2>1. FromLines(list, H[n], b, S[n], LinesTo(IndexAt(S[n]), l))
    BY <1>1, <1>2, <1>7
  <2>2. \A j \in 1 .. b : H[n] + j - 1 \in H[n] .. H[n] + b - 1
    BY <1>2
  <2> QED
    BY <1>2, <1>4, <2>1, <2>2 DEF FromLines
<1>8. ASSUME T[n] \in CopyPlaces
      PROVE  \E m \in 1 .. n - 1 : FromObject(more, d, G[n], b, T[n], IndexAt(T[m]), G[m])
  <2>1. PICK m \in 1 .. n - 1 : FromObject(list, c, H[n], b, S[n], IndexAt(S[m]), H[m])
    BY <1>1, <1>2, <1>8
  <2>2. m \in 1 .. n /\ H[m] \in Nat /\ T[m] = S[m] /\ G[m] = H[m]
        /\ OwnOf(more, d, IndexAt(S[m])) = OwnOf(list, c, IndexAt(S[m]))
    OBVIOUS
  <2>3. \A k \in H[m] .. H[m] + b - 1 : more[k] = list[k]
    BY <1>3, <2>1 DEF FromObject
  <2>4. \A j \in 1 .. b : /\ H[n] + j - 1 \in H[n] .. H[n] + b - 1
                          /\ H[m] + j - 1 \in H[m] .. H[m] + b - 1
    BY <1>2, <2>2
  <2>5. FromObject(more, d, G[n], b, T[n], IndexAt(T[m]), G[m])
    BY <1>2, <1>4, <2>1, <2>2, <2>3, <2>4 DEF FromObject
  <2> QED
    BY <2>5
<1> QED
  BY <1>5, <1>6, <1>7, <1>8 DEF ObjectIs

(* The objects read so far, one after the other.                           *)
LEMMA ReadParts ==
    ASSUME file \in Profiles, NEW list, NEW c \in Nat, NEW l \in Nat, ReadTo(list, c, l)
    PROVE  LET S == InOrder(StartsBefore(l))
               H == InOrder(HeadsOf(list, c))
               N == Cardinality(StartsBefore(l))
           IN  /\ N \in Nat /\ N = Cardinality(HeadsOf(list, c))
               /\ S \in [1 .. N -> StartsBefore(l)] /\ H \in [1 .. N -> HeadsOf(list, c)]
               /\ S \in Seq(Nat) /\ H \in Seq(Nat) /\ Len(S) = N /\ Len(H) = N
               /\ \A m, n \in 1 .. N : S[m] = S[n] => m = n
<1> DEFINE B == StartsBefore(l)
           E == HeadsOf(list, c)
<1>1. B \in SUBSET Nat /\ IsFiniteSet(B)
  BY StartsGrow
<1>2. E \in SUBSET Nat /\ IsFiniteSet(E)
  BY HeadsGrow
<1>3. Cardinality(B) = Cardinality(E)
  BY DEF ReadTo
<1> HIDE DEF B, E
<1>4. /\ Cardinality(B) \in Nat /\ InOrder(B) \in [1 .. Cardinality(B) -> B]
      /\ \A n \in 1 .. Cardinality(B) : Rank(B, InOrder(B)[n]) = n
  BY <1>1, InOrderIsInverse
<1>5. InOrder(E) \in [1 .. Cardinality(E) -> E]
  BY <1>2, InOrderIsInverse
<1>6. /\ InOrder(B) \in Seq(Nat) /\ InOrder(E) \in Seq(Nat)
      /\ Len(InOrder(B)) = Cardinality(B) /\ Len(InOrder(E)) = Cardinality(B)
  <2>1. /\ InOrder(B) \in [1 .. Cardinality(B) -> Nat]
        /\ InOrder(E) \in [1 .. Cardinality(B) -> Nat]
    BY <1>1, <1>2, <1>3, <1>4, <1>5
  <2> QED
    BY <1>4, <2>1
<1>7. \A m, n \in 1 .. Cardinality(B) : InOrder(B)[m] = InOrder(B)[n] => m = n
  BY <1>4
<1> QED
  BY <1>3, <1>4, <1>5, <1>6, <1>7 DEF B, E

(* No two lines start an object of one index.                              *)
LEMMA OneStart ==
    ASSUME Grouped, NEW j \in DOMAIN file, NEW k \in DOMAIN file, Starts(j), Starts(k),
           IndexAt(j) = IndexAt(k)
    PROVE  j = k
<1> HIDE DEF Starts, IndexAt
<1> QED
  BY DEF Grouped

(* One more object, of the line that starts it.                            *)
LEMMA NewObject ==
    ASSUME file \in Profiles, Grouped, NEW list, NEW c \in Nat, NEW l \in DOMAIN file, Starts(l),
           ReadTo(list, c, l), NEW more, NEW b \in Nat \ {0},
           \A k \in 1 .. c : more[k] = list[k],
           \A k \in c + 1 .. c + b : /\ IsRecord(more[k]) /\ more[k].main = IndexAt(l)
                                     /\ more[k].name # None <=> k = c + 1,
           l \in EntryPlaces => FromLines(more, c + 1, b, l, LinesTo(IndexAt(l), l + 1)),
           l \in CopyPlaces =>
              \E m \in 1 .. Cardinality(StartsBefore(l)) :
                 FromObject(more, c + b, c + 1, b, l, IndexAt(InOrder(StartsBefore(l))[m]),
                            InOrder(HeadsOf(list, c))[m])
    PROVE  ReadTo(more, c + b, l + 1)
<1> DEFINE B == StartsBefore(l)
           E == HeadsOf(list, c)
           S == InOrder(B)
           H == InOrder(E)
           N == Cardinality(B)
           T == InOrder(StartsBefore(l + 1))
           G == InOrder(HeadsOf(more, c + b))
<1>1. Len(file) \in Nat /\ DOMAIN file = 1 .. Len(file) /\ l \in Nat
  BY FileIsSequence
<1>2. /\ N \in Nat /\ N = Cardinality(E) /\ S \in Seq(Nat) /\ H \in Seq(Nat) /\ Len(S) = N /\ Len(H) = N
      /\ S \in [1 .. N -> B] /\ H \in [1 .. N -> E]
  BY <1>1, ReadParts
<1>3. /\ B \in SUBSET Nat /\ IsFiniteSet(B)
      /\ \A k \in B : k < l /\ Starts(k) /\ k \in DOMAIN file
      /\ StartsBefore(l + 1) = B \cup {l}
  BY <1>1, StartsGrow
<1>4. E \in SUBSET Nat /\ IsFiniteSet(E) /\ \A k \in E : k < c + 1
  BY HeadsGrow
<1>5. HeadsOf(more, c + b) = E \cup {c + 1}
  <2>1. \A k \in 1 .. c + b : k \in 1 .. c \/ k \in c + 1 .. c + b
    OBVIOUS
  <2>2. c + 1 \in 1 .. c + b /\ 1 .. c \subseteq 1 .. c + b
    OBVIOUS
  <2>3. c + 1 \in c + 1 .. c + b
    OBVIOUS
  <2> QED
    BY <2>1, <2>2, <2>3 DEF HeadsOf
<1>6. T = Append(S, l) /\ Cardinality(StartsBefore(l + 1)) = N + 1
  <2> HIDE DEF B
  <2> QED
    BY <1>1, <1>3, OneMoreInOrder
<1>7. G = Append(H, c + 1) /\ Cardinality(HeadsOf(more, c + b)) = N + 1
  <2> HIDE DEF E
  <2>1. c + 1 \in Nat
    OBVIOUS
  <2> QED
    BY <1>2, <1>4, <1>5, <2>1, OneMoreInOrder
<1>8. ObjectsAre(list, c, l, S, H, N)
  BY DEF ReadTo
<1>9. \A n \in 1 .. N : IndexAt(S[n]) # IndexAt(l)
  <2> SUFFICES ASSUME NEW n \in 1 .. N, IndexAt(S[n]) = IndexAt(l)
               PROVE  FALSE
    OBVIOUS
  <2>1. S[n] \in B /\ S[n] < l /\ S[n] \in Nat
    BY <1>2, <1>3
  <2>2. S[n] = l
    BY <1>3, <2>1, OneStart
  <2> QED
    BY <1>1, <2>1, <2>2
<1> HIDE DEF B, E, S, H, N, T, G
<1>10. \A n \in 1 .. N : T[n] = S[n] /\ G[n] = H[n] /\ H[n] \in Nat
  BY <1>1, <1>2, <1>6, <1>7
<1>11. N + 1 \in Nat \ {0} /\ T[N + 1] = l /\ G[N + 1] = c + 1
  <2>1. N + 1 \in Nat \ {0} /\ c + 1 \in Nat
    BY <1>2
  <2>2. T[N + 1] = l
    BY <1>1, <1>2, <1>6
  <2>3. G[N + 1] = c + 1
    BY <1>2, <1>7, <2>1
  <2> QED
    BY <2>1, <2>2, <2>3
<1>12. \A k \in 1 .. c : \E n \in 1 .. N : list[k].main = IndexAt(S[n])
  BY <1>8 DEF ObjectsAre
<1>13. \A k \in 1 .. c + b : k \in 1 .. c \/ k \in c + 1 .. c + b
  OBVIOUS
<1>14. \A i : i # IndexAt(l) => OwnOf(more, c + b, i) = OwnOf(list, c, i)
  <2>1. 1 .. c \subseteq 1 .. c + b
    OBVIOUS
  <2> QED
    BY <1>13, <2>1 DEF OwnOf
<1>15. OwnOf(more, c + b, IndexAt(l)) = c + 1 .. (c + 1) + b - 1
  <2>1. \A k \in 1 .. c : more[k].main # IndexAt(l)
    BY <1>9, <1>12
  <2>2. c + 1 .. (c + 1) + b - 1 = c + 1 .. c + b /\ c + 1 .. c + b \subseteq 1 .. c + b
    OBVIOUS
  <2> QED
    BY <1>13, <2>1, <2>2 DEF OwnOf
<1>16. ASSUME NEW n \in 1 .. N
       PROVE  ObjectIs(more, c + b, l + 1, T, G, n)
  <2>1. ObjectIs(list, c, l, S, H, n) /\ n \in Nat \ {0}
    BY <1>8 DEF ObjectsAre
  <2>2. \A m \in 1 .. n : m \in 1 .. N
    BY <1>2
  <2>3. \A m \in 1 .. n : /\ T[m] = S[m] /\ G[m] = H[m] /\ H[m] \in Nat
                          /\ OwnOf(more, c + b, IndexAt(S[m])) = OwnOf(list, c, IndexAt(S[m]))
    BY <1>9, <1>10, <1>14, <2>2
  <2>4. LinesTo(IndexAt(S[n]), l + 1) = LinesTo(IndexAt(S[n]), l)
    BY <1>1, <1>9, LinesGrow
  <2> QED
    BY <2>1, <2>3, <2>4, ObjectKept
<1>17. ObjectIs(more, c + b, l + 1, T, G, N + 1)
  <2>1. \A k \in c + 2 .. (c + 1) + b - 1 : k \in c + 1 .. c + b /\ k # c + 1
    OBVIOUS
  <2>2. \A k \in (c + 1) + 1 .. (c + 1) + b - 1 : more[k].name = None
    BY <2>1
  <2>3. ASSUME l \in CopyPlaces
        PROVE  \E m \in 1 .. (N + 1) - 1 :
                  FromObject(more, c + b, c + 1, b, l, IndexAt(T[m]), G[m])
    <3>1. PICK m \in 1 .. N : FromObject(more, c + b, c + 1, b, l, IndexAt(S[m]), H[m])
      BY <2>3 DEF B, E, S, H, N
    <3>2. m \in 1 .. (N + 1) - 1
      BY <1>2
    <3> QED
      BY <1>10, <3>1, <3>2
  <2> QED
    BY <1>11, <1>15, <2>2, <2>3 DEF ObjectIs
<1>18. ObjectsAre(more, c + b, l + 1, T, G, N + 1)
  <2>1. \A n \in 1 .. N + 1 : n \in 1 .. N \/ n = N + 1
    BY <1>2
  <2>2. \A n \in 1 .. N + 1 : ObjectIs(more, c + b, l + 1, T, G, n)
    BY <1>16, <1>17, <2>1
  <2>3. ASSUME NEW k \in 1 .. c + b
        PROVE  IsRecord(more[k]) /\ \E n \in 1 .. N + 1 : more[k].main = IndexAt(T[n])
    <3>1. CASE k \in 1 .. c
      <4>1. IsRecord(list[k]) /\ more[k] = list[k]
        BY <1>8, <3>1 DEF ObjectsAre
      <4>2. PICK n \in 1 .. N : list[k].main = IndexAt(S[n])
        BY <1>12, <3>1
      <4>3. n \in 1 .. N + 1 /\ more[k].main = IndexAt(T[n])
        BY <1>2, <1>10, <4>1, <4>2
      <4> QED
        BY <4>1, <4>3
    <3>2. CASE k \in c + 1 .. c + b
      <4>1. N + 1 \in 1 .. N + 1
        BY <1>2
      <4> QED
        BY <1>11, <3>2, <4>1
    <3> QED
      BY <1>13, <3>1, <3>2
  <2>4. c + b \in c + 1 .. c + b
    OBVIOUS
  <2> QED
    BY <1>11, <2>2, <2>3, <2>4 DEF ObjectsAre
<1> QED
  BY <1>6, <1>7, <1>18 DEF ReadTo, T, G

(* The fields of the entry of a line, and of a copy.                       *)
LEMMA EntryIs ==
    ASSUME NEW line
    PROVE  IsRecord(EntryOf(line)) /\ EntryOf(line).main = Index(line) /\ EntryOf(line).name = NameOf(line)
<1>1. IsRecord(init_codb_entry)
  BY DEF init_codb_entry, IsRecord, EntryFields
<1> DEFINE entry   == EntryOf(line)
           blank   == init_codb_entry
           name    == NameOf(line)
           main    == Index(line)
           sub     == IF IsHeader(line) THEN 0 ELSE line.sub % 256
           desc    == Text(line, "PARAMETER_NAME")
           kind    == Given(line, "OBJECT_KIND", blank.kind)
           unit    == Text(line, "UNIT")
           code    == Given(line, "OBJECT_CODE", blank.code)
           attr    == CodeAttr(line)
           type    == DataType(Given(line, "DATA_TYPE", Empty))
           access  == AccessType(Given(line, "ACCESS_TYPE", Empty))
           min     == Number8(line, "MIN_ELEMENTS")
           max     == Number8(line, "MAX_ELEMENTS")
           low     == Given(line, "LOW_LIMIT", blank.low)
           high    == Given(line, "HIGH_LIMIT", blank.high)
           default == IF Has(line, "DEFAULT_VALUE")
                      THEN DefaultValue(Field(line, "DEFAULT_VALUE")) ELSE blank.default
           map     == Mappable(Given(line, "MAPPABLE", Empty))
<1>2. entry = [blank EXCEPT
         !.name = name, !.main = main, !.sub = sub, !.desc = desc, !.kind = kind, !.unit = unit,
         !.code = code, !.code_attr = attr, !.type = type, !.access = access, !.min = min,
         !.max = max, !.low = low, !.high = high, !.default = default, !.mappable = map]
  BY DEF EntryOf
<1>3. IsRecord(blank)
  BY <1>1
<1> HIDE DEF entry, blank, name, main, sub, desc, kind, unit, code, attr, type, access, min, max, low, high,
             default, map
<1>4. IsRecord(entry) /\ entry.main = main /\ entry.name = name
  BY <1>2, <1>3 DEF IsRecord, EntryFields
<1> QED
  BY <1>4 DEF entry, main, name

LEMMA CopiedIs ==
    ASSUME NEW e, IsRecord(e), NEW dest
    PROVE  /\ IsRecord(Copied(e, dest)) /\ Copied(e, dest).main = dest
           /\ Copied(e, dest).name = IF e.name # None THEN HexName[dest] ELSE None
           /\ \A f \in EntryFields \ {"name", "main"} : Copied(e, dest)[f] = e[f]
BY DEF Copied, IsRecord, EntryFields

(* The lines of an entry and of a copy.                                    *)
LEMMA LineKinds ==
    ASSUME file \in Profiles, NEW l \in DOMAIN file
    PROVE  /\ l \in EntryPlaces => /\ IndexAt(l) = Index(LineAt(l))
                                   /\ Starts(l) <=> IsHeader(LineAt(l))
                                   /\ LineAt(l).text # None
           /\ l \in CopyPlaces => /\ IndexAt(l) = LineAt(l).dest /\ Starts(l)
                                  /\ HexName[LineAt(l).dest] # None
           /\ ~(l \in EntryPlaces /\ l \in CopyPlaces)
<1>1. file[l] \in DOMAIN Lines
  <2>1. file \in Seq(DOMAIN Lines)
    BY ConvertAssumption
  <2> QED
    BY <2>1
<1>2. ~(l \in EntryPlaces /\ l \in CopyPlaces)
  BY DEF EntryPlaces, CopyPlaces, IsEntry, IsCopy
<1> QED
  BY <1>1, <1>2, ConvertAssumption DEF EntryPlaces, CopyPlaces, IndexAt, Starts, LineAt

LEMMA HeaderRead ==
    ASSUME file \in Profiles, Grouped, NEW list, NEW c \in Nat, NEW l \in EntryPlaces,
           IsHeader(LineAt(l)), ReadTo(list, c, l), NEW more,
           \A k \in 1 .. c : more[k] = list[k], more[c + 1] = EntryOf(LineAt(l))
    PROVE  ReadTo(more, c + 1, l + 1)
<1>1. Len(file) \in Nat /\ DOMAIN file = 1 .. Len(file) /\ l \in DOMAIN file /\ l \in Nat
  BY FileIsSequence DEF EntryPlaces
<1>2. /\ Starts(l) /\ IndexAt(l) = Index(LineAt(l)) /\ LineAt(l).text # None /\ l \notin CopyPlaces
  BY <1>1, LineKinds
<1>3. /\ IsRecord(more[c + 1]) /\ more[c + 1].main = IndexAt(l) /\ more[c + 1].name # None
  BY <1>2, EntryIs DEF NameOf
<1>4. LinesTo(IndexAt(l), l) = {}
  <2> SUFFICES ASSUME NEW k \in LinesTo(IndexAt(l), l)
               PROVE  FALSE
    OBVIOUS
  <2>1. k \in EntryPlaces /\ IndexAt(k) = IndexAt(l) /\ k < l
    BY DEF LinesTo
  <2>2. PICK h \in EntryPlaces : h <= k /\ IndexAt(h) = IndexAt(k) /\ Starts(h)
    <3> HIDE DEF EntryPlaces, CopyPlaces, IndexAt, Starts
    <3> QED
      BY <2>1 DEF Grouped
  <2>3. h \in DOMAIN file /\ k \in DOMAIN file
    BY <2>1 DEF EntryPlaces
  <2>4. h = l
    BY <1>1, <1>2, <2>1, <2>2, <2>3, OneStart
  <2> QED
    BY <1>1, <2>1, <2>2, <2>3, <2>4
<1>5. LinesTo(IndexAt(l), l + 1) = {l}
  BY <1>1, <1>4, LinesGrow
<1>6. InOrder({l}) = <<l>> /\ Cardinality({l}) = 1
  <2>1. InOrder({} \cup {l}) = Append(InOrder({}), l) /\ Cardinality({} \cup {l}) = Cardinality({}) + 1
    <3>1. IsFiniteSet({}) /\ {} \in SUBSET Nat
      BY FS_EmptySet
    <3> QED
      BY <1>1, <3>1, OneMoreInOrder
  <2>2. {} \cup {l} = {l} /\ Cardinality({}) = 0
    BY FS_EmptySet
  <2>3. Append(<<>>, l) = <<l>> /\ 0 + 1 = 1
    OBVIOUS
  <2>4. InOrder({l}) = Append(<<>>, l) /\ Cardinality({l}) = 0 + 1
    BY <2>1, <2>2, NoneInOrder
  <2> QED
    BY <2>3, <2>4
<1>7. FromLines(more, c + 1, 1, l, LinesTo(IndexAt(l), l + 1))
  <2>1. \A j \in 1 .. 1 : (c + 1) + j - 1 = c + 1 /\ j = 1
    OBVIOUS
  <2> QED
    BY <1>5, <1>6, <2>1 DEF FromLines
<1>8. \A k \in c + 1 .. c + 1 : k = c + 1
  OBVIOUS
<1>9. 1 \in Nat \ {0}
  OBVIOUS
<1> HIDE DEF Grouped
<1> QED
  BY <1>1, <1>2, <1>3, <1>7, <1>8, <1>9, NewObject

(* A line that is no entry and starts nothing adds nothing.                *)
LEMMA CommentRead ==
    ASSUME file \in Profiles, NEW list, NEW c \in Nat, NEW l \in DOMAIN file,
           LineAt(l).kind = "comment", ReadTo(list, c, l)
    PROVE  ReadTo(list, c, l + 1)
<1>1. l \in Nat
  BY FileIsSequence
<1>2. l \notin EntryPlaces /\ ~Starts(l)
  BY DEF EntryPlaces, CopyPlaces, Starts, IsEntry, IsCopy
<1>3. StartsBefore(l + 1) = StartsBefore(l)
  BY <1>1, <1>2, StartsGrow
<1>4. \A i : LinesTo(i, l + 1) = LinesTo(i, l)
  BY <1>1, <1>2, LinesGrow
<1>5. \A S, H, N : ObjectsAre(list, c, l, S, H, N) => ObjectsAre(list, c, l + 1, S, H, N)
  <2> TAKE S, H, N
  <2>1. \A n \in 1 .. N : ObjectIs(list, c, l, S, H, n) => ObjectIs(list, c, l + 1, S, H, n)
    <3> TAKE n \in 1 .. N
    <3>1. LinesTo(IndexAt(S[n]), l + 1) = LinesTo(IndexAt(S[n]), l)
      BY <1>4
    <3> QED
      BY <3>1 DEF ObjectIs
  <2> QED
    BY <2>1 DEF ObjectsAre
<1> QED
  BY <1>3, <1>5 DEF ReadTo

(* A sub-index is one of the object that was started last.                 *)
LEMMA OfLastStart ==
    ASSUME file \in Profiles, Grouped, NEW l \in EntryPlaces, ~IsHeader(LineAt(l))
    PROVE  \E h \in StartsBefore(l) : /\ h \in EntryPlaces /\ IndexAt(h) = IndexAt(l)
                                      /\ \A s \in StartsBefore(l) : s <= h
<1>1. l \in DOMAIN file /\ DOMAIN file \subseteq Nat
  BY FileIsSequence DEF EntryPlaces
<1>2. ~Starts(l)
  BY <1>1, LineKinds
<1>3. PICK h \in EntryPlaces :
         /\ h <= l /\ IndexAt(h) = IndexAt(l) /\ Starts(h)
         /\ \A m \in (h + 1 .. l) \ {j \in DOMAIN file : LineAt(j).kind = "comment"} : ~Starts(m)
  <2> HIDE DEF EntryPlaces, CopyPlaces, IndexAt, Starts
  <2> QED
    BY DEF Grouped
<1>4. h \in DOMAIN file /\ h # l
  BY <1>2, <1>3 DEF EntryPlaces
<1>5. h \in StartsBefore(l)
  BY <1>1, <1>3, <1>4 DEF StartsBefore
<1>6. ASSUME NEW s \in StartsBefore(l)
      PROVE  s <= h
  <2>1. s \in DOMAIN file /\ Starts(s) /\ s < l
    BY DEF StartsBefore
  <2>2. LineAt(s).kind # "comment"
    BY <2>1 DEF Starts, EntryPlaces, CopyPlaces, IsEntry, IsCopy
  <2>3. s \notin h + 1 .. l
    <3> HIDE DEF Starts
    <3> QED
      BY <1>3, <2>1, <2>2
  <2> QED
    BY <1>1, <1>4, <2>1, <2>3
<1> QED
  BY <1>3, <1>5, <1>6

LEMMA SubIndexRead ==
    ASSUME file \in Profiles, Grouped, NEW list, NEW c \in Nat, NEW l \in EntryPlaces,
           ~IsHeader(LineAt(l)), ReadTo(list, c, l), NEW more,
           \A k \in 1 .. c : more[k] = list[k], more[c + 1] = EntryOf(LineAt(l))
    PROVE  ReadTo(more, c + 1, l + 1)
<1> DEFINE B == StartsBefore(l)
           E == HeadsOf(list, c)
           S == InOrder(B)
           H == InOrder(E)
           N == Cardinality(B)
<1>1. Len(file) \in Nat /\ DOMAIN file = 1 .. Len(file) /\ l \in DOMAIN file /\ l \in Nat
  BY FileIsSequence DEF EntryPlaces
<1>2. IndexAt(l) = Index(LineAt(l)) /\ ~Starts(l)
  BY <1>1, LineKinds
<1>3. IsRecord(more[c + 1]) /\ more[c + 1].main = IndexAt(l) /\ more[c + 1].name = None
  BY <1>2, EntryIs DEF NameOf
<1>4. /\ N \in Nat /\ N = Cardinality(E)
      /\ S \in [1 .. N -> B] /\ H \in [1 .. N -> E]
  BY <1>1, ReadParts
<1>5. /\ B \in SUBSET Nat /\ IsFiniteSet(B) /\ StartsBefore(l + 1) = B
      /\ \A k \in B : k < l /\ Starts(k) /\ k \in DOMAIN file
  BY <1>1, <1>2, StartsGrow
<1>6. \A k \in 1 .. c + 1 : k \in 1 .. c \/ k = c + 1
  OBVIOUS
<1>7. 1 .. c \subseteq 1 .. c + 1 /\ c + 1 \in 1 .. c + 1
  OBVIOUS
<1>8. HeadsOf(more, c + 1) = E
  BY <1>3, <1>6, <1>7 DEF HeadsOf
<1>9. ObjectsAre(list, c, l, S, H, N)
  BY DEF ReadTo
<1>10. PICK h \in B : h \in EntryPlaces /\ IndexAt(h) = IndexAt(l) /\ \A s \in B : s <= h
  BY OfLastStart
<1>11. N # 0 /\ N \in 1 .. N /\ S[N] = h
  <2>1. PICK n \in 1 .. N : S[n] = h
    <3> HIDE DEF B
    <3>1. Rank(B, h) \in 1 .. N /\ S[Rank(B, h)] = h
      BY <1>5, <1>10, InOrderIsInverse
    <3> QED
      BY <3>1
  <2>2. n = N
    <3> HIDE DEF B
    <3> QED
      BY <1>5, <1>10, <2>1, LastInOrder
  <2> QED
    BY <2>1, <2>2
<1>12. E \in SUBSET (1 .. c)
  BY DEF HeadsOf
<1>13. \A n \in 1 .. N : IndexAt(S[n]) = IndexAt(l) => n = N
  <2> SUFFICES ASSUME NEW n \in 1 .. N, IndexAt(S[n]) = IndexAt(l)
               PROVE  n = N
    OBVIOUS
  <2>1. S[n] \in B /\ h \in B
    BY <1>4
  <2>2. S[n] = h
    BY <1>5, <1>10, <2>1, OneStart
  <2>3. \A m, k \in 1 .. N : S[m] = S[k] => m = k
    BY <1>1, ReadParts
  <2> QED
    BY <1>11, <2>2, <2>3
<1> HIDE DEF B, E, S, H, N
<1>14. \A n \in 1 .. N : H[n] \in Nat /\ H[n] \in 1 .. c
  <2>1. \A n \in 1 .. N : H[n] \in E
    BY <1>4
  <2>2. \A k \in E : k \in Nat /\ k \in 1 .. c
    BY <1>12
  <2> QED
    BY <2>1, <2>2
<1>15. \A i : i # IndexAt(l) => OwnOf(more, c + 1, i) = OwnOf(list, c, i)
  BY <1>3, <1>6, <1>7 DEF OwnOf
<1>16. OwnOf(more, c + 1, IndexAt(l)) = OwnOf(list, c, IndexAt(l)) \cup {c + 1}
  BY <1>3, <1>6, <1>7 DEF OwnOf
<1>17. ASSUME NEW n \in 1 .. N, n # N
       PROVE  ObjectIs(more, c + 1, l + 1, S, H, n)
  <2>1. ObjectIs(list, c, l, S, H, n) /\ n \in Nat \ {0}
    BY <1>9 DEF ObjectsAre
  <2>2. \A m \in 1 .. n : m \in 1 .. N /\ m # N
    BY <1>4, <1>17
  <2>3. \A m \in 1 .. n : H[m] \in Nat /\ IndexAt(S[m]) # IndexAt(l)
    BY <1>13, <1>14, <2>2
  <2>4. \A m \in 1 .. n : OwnOf(more, c + 1, IndexAt(S[m])) = OwnOf(list, c, IndexAt(S[m]))
    BY <1>15, <2>3
  <2>5. LinesTo(IndexAt(S[n]), l + 1) = LinesTo(IndexAt(S[n]), l)
    BY <1>1, <1>13, <1>17, LinesGrow
  <2> QED
    BY <2>1, <2>3, <2>4, <2>5, ObjectKept
<1>18. ObjectIs(more, c + 1, l + 1, S, H, N)
  <2>1. PICK b \in Nat \ {0} :
           /\ OwnOf(list, c, IndexAt(S[N])) = H[N] .. H[N] + b - 1
           /\ \A k \in H[N] + 1 .. H[N] + b - 1 : list[k].name = None
           /\ FromLines(list, H[N], b, S[N], LinesTo(IndexAt(S[N]), l))
    BY <1>9, <1>10, <1>11 DEF ObjectsAre, ObjectIs
  <2>2. c = H[N] + b - 1
    <3>1. c \in 1 .. c
      BY <1>11, <1>14
    <3>2. c \in OwnOf(list, c, IndexAt(S[N]))
      BY <1>9, <1>11, <3>1 DEF ObjectsAre, OwnOf
    <3>3. H[N] + b - 1 \in OwnOf(list, c, IndexAt(S[N]))
      BY <1>11, <1>14, <2>1
    <3>4. H[N] + b - 1 \in 1 .. c
      BY <3>3 DEF OwnOf
    <3> QED
      BY <2>1, <3>2, <3>4
  <2>3. b + 1 \in Nat \ {0} /\ H[N] \in Nat
    BY <1>11, <1>14
  <2>4. OwnOf(more, c + 1, IndexAt(S[N])) = H[N] .. H[N] + (b + 1) - 1
    <3>1. (H[N] .. H[N] + b - 1) \cup {c + 1} = H[N] .. H[N] + (b + 1) - 1
      BY <2>2, <2>3
    <3> QED
      BY <1>10, <1>11, <1>16, <2>1, <3>1
  <2>5. \A k \in H[N] .. H[N] + b - 1 : k \in 1 .. c /\ more[k] = list[k]
    BY <2>1 DEF OwnOf
  <2>6. \A k \in H[N] + 1 .. H[N] + (b + 1) - 1 : more[k].name = None
    <3>1. \A k \in H[N] + 1 .. H[N] + (b + 1) - 1 :
             k = c + 1 \/ (k \in H[N] + 1 .. H[N] + b - 1 /\ k \in H[N] .. H[N] + b - 1)
      BY <2>2, <2>3
    <3> QED
      BY <1>3, <2>1, <2>5, <3>1
  <2>7. FromLines(more, H[N], b + 1, S[N], LinesTo(IndexAt(S[N]), l + 1))
    <3> DEFINE P == LinesTo(IndexAt(l), l)
               Q == LinesTo(IndexAt(l), l + 1)
    <3>1. /\ P \in SUBSET Nat /\ IsFiniteSet(P) /\ Q = P \cup {l} /\ \A k \in P : k < l
      BY <1>1, LinesGrow
    <3>2. /\ Cardinality(P) = b /\ InOrder(P)[1] = S[N]
          /\ \A j \in 1 .. b : list[H[N] + j - 1] = EntryOf(LineAt(InOrder(P)[j]))
      BY <1>10, <1>11, <2>1 DEF FromLines
    <3> HIDE DEF P, Q
    <3>3. InOrder(Q) = Append(InOrder(P), l) /\ Cardinality(Q) = b + 1
      BY <1>1, <3>1, <3>2, OneMoreInOrder
    <3>4. InOrder(P) \in Seq(Nat) /\ Len(InOrder(P)) = b
      <4>1. InOrder(P) \in [1 .. b -> P]
        BY <3>1, <3>2, InOrderIsInverse
      <4>2. InOrder(P) \in [1 .. b -> Nat]
        BY <3>1, <4>1
      <4> QED
        BY <4>2
    <3>5. /\ \A j \in 1 .. b : InOrder(Q)[j] = InOrder(P)[j]
          /\ InOrder(Q)[b + 1] = l
      BY <1>1, <3>3, <3>4
    <3>6. \A j \in 1 .. b + 1 : j \in 1 .. b \/ j = b + 1
      OBVIOUS
    <3>7. \A j \in 1 .. b : H[N] + j - 1 \in H[N] .. H[N] + b - 1
      BY <2>3
    <3>8. H[N] + (b + 1) - 1 = c + 1
      BY <2>2, <2>3
    <3>9. \A j \in 1 .. b + 1 : more[H[N] + j - 1] = EntryOf(LineAt(InOrder(Q)[j]))
      BY <2>5, <3>2, <3>5, <3>6, <3>7, <3>8
    <3>10. 1 \in 1 .. b
      OBVIOUS
    <3> QED
      BY <1>10, <1>11, <3>2, <3>3, <3>5, <3>9, <3>10 DEF FromLines, Q
  <2>8. S[N] \notin CopyPlaces
    BY <1>5, <1>10, <1>11, LineKinds
  <2> QED
    BY <2>3, <2>4, <2>6, <2>7, <2>8 DEF ObjectIs
<1>19. ObjectsAre(more, c + 1, l + 1, S, H, N)
  <2>1. \A n \in 1 .. N : ObjectIs(more, c + 1, l + 1, S, H, n)
    BY <1>17, <1>18
  <2>2. \A k \in 1 .. c : IsRecord(more[k]) /\ \E n \in 1 .. N : more[k].main = IndexAt(S[n])
    BY <1>9 DEF ObjectsAre
  <2> QED
    BY <1>3, <1>6, <1>10, <1>11, <2>1, <2>2 DEF ObjectsAre
<1> QED
  BY <1>4, <1>5, <1>8, <1>19 DEF ReadTo, B, E, S, H, N

(* A copy is a new object with the entries of its source.                  *)
LEMMA CopyRead ==
    ASSUME file \in Profiles, Grouped, NEW list, NEW c \in Nat, NEW l \in CopyPlaces,
           ReadTo(list, c, l), NEW own, own = OwnOf(list, c, LineAt(l).source), own # {}, NEW more,
           \A k \in 1 .. c : more[k] = list[k],
           \A j \in 1 .. Cardinality(own) : more[c + j] = Copied(list[Nth(own, j)], LineAt(l).dest)
    PROVE  ReadTo(more, c + Cardinality(own), l + 1)
<1> DEFINE B == StartsBefore(l)
           S == InOrder(B)
           H == InOrder(HeadsOf(list, c))
           N == Cardinality(B)
           dest == LineAt(l).dest
<1>1. Len(file) \in Nat /\ DOMAIN file = 1 .. Len(file) /\ l \in DOMAIN file /\ l \in Nat
  BY FileIsSequence DEF CopyPlaces
<1>2. IndexAt(l) = dest /\ Starts(l) /\ HexName[dest] # None /\ l \notin EntryPlaces
  BY <1>1, LineKinds
<1>3. N \in Nat /\ S \in [1 .. N -> B] /\ H \in [1 .. N -> HeadsOf(list, c)]
  BY <1>1, ReadParts
<1>4. \A k \in B : k < l /\ Starts(k) /\ k \in DOMAIN file
  BY <1>1, StartsGrow
<1>5. ObjectsAre(list, c, l, S, H, N)
  BY DEF ReadTo
<1> HIDE DEF B, S, H, N, dest
<1>6. PICK k \in 1 .. c : list[k].main = LineAt(l).source
  BY DEF OwnOf
<1>7. PICK m \in 1 .. N : IndexAt(S[m]) = LineAt(l).source
  BY <1>5, <1>6 DEF ObjectsAre
<1>8. PICK b \in Nat \ {0} :
         /\ OwnOf(list, c, IndexAt(S[m])) = H[m] .. H[m] + b - 1
         /\ \A e \in H[m] + 1 .. H[m] + b - 1 : list[e].name = None
  BY <1>5 DEF ObjectsAre, ObjectIs
<1>9. H[m] \in Nat /\ H[m] \in 1 .. c /\ list[H[m]].name # None
  BY <1>3 DEF HeadsOf
<1>10. own = H[m] .. H[m] + b - 1
  BY <1>7, <1>8
<1>11. Cardinality(own) = b /\ \A j \in 1 .. b : Nth(own, j) = H[m] + j - 1
  <2>1. /\ Cardinality(H[m] .. H[m] + b - 1) = b
        /\ \A j \in 1 .. b : Nth(H[m] .. H[m] + b - 1, j) = H[m] + j - 1
    BY <1>9, NthOfInterval
  <2> QED
    BY <1>10, <2>1
<1>12. \A j \in 1 .. b : more[c + j] = Copied(list[H[m] + j - 1], dest)
  BY <1>11 DEF dest
<1>13. LineAt(l).source # dest
  <2>1. S[m] \in B
    BY <1>3
  <2>2. S[m] \in DOMAIN file /\ Starts(S[m]) /\ S[m] # l
    BY <1>1, <1>4, <2>1
  <2> QED
    BY <1>1, <1>2, <1>7, <2>2, OneStart
<1>14. ASSUME NEW j \in 1 .. b
       PROVE  /\ IsRecord(more[c + j]) /\ more[c + j].main = dest
              /\ more[c + j].name # None <=> j = 1
  <2> DEFINE e == H[m] + j - 1
  <2>1. e \in H[m] .. H[m] + b - 1 /\ (j # 1 => e \in H[m] + 1 .. H[m] + b - 1) /\ (j = 1 => e = H[m])
    BY <1>9
  <2>2. e \in 1 .. c
    BY <1>8, <2>1 DEF OwnOf
  <2> HIDE DEF e
  <2>3. IsRecord(list[e])
    BY <1>5, <2>2 DEF ObjectsAre
  <2>4. list[e].name # None <=> j = 1
    BY <1>8, <1>9, <2>1
  <2>5. more[c + j] = Copied(list[e], dest)
    BY <1>12 DEF e
  <2>6. /\ IsRecord(Copied(list[e], dest)) /\ Copied(list[e], dest).main = dest
        /\ Copied(list[e], dest).name = IF list[e].name # None THEN HexName[dest] ELSE None
    BY <2>3, CopiedIs
  <2> QED
    BY <1>2, <2>4, <2>5, <2>6
<1>15. \A e \in c + 1 .. c + b : e - c \in 1 .. b /\ c + (e - c) = e /\ (e - c = 1 <=> e = c + 1)
  OBVIOUS
<1>16. \A e \in c + 1 .. c + b : /\ IsRecord(more[e]) /\ more[e].main = IndexAt(l)
                                 /\ more[e].name # None <=> e = c + 1
  <2> TAKE e \in c + 1 .. c + b
  <2> QED
    BY <1>2, <1>14, <1>15
<1>17. OwnOf(more, c + b, IndexAt(S[m])) = H[m] .. H[m] + b - 1
  <2>1. \A e \in 1 .. c + b : e \in 1 .. c \/ e \in c + 1 .. c + b
    OBVIOUS
  <2>2. 1 .. c \subseteq 1 .. c + b
    OBVIOUS
  <2>3. OwnOf(more, c + b, IndexAt(S[m])) = OwnOf(list, c, IndexAt(S[m]))
    BY <1>2, <1>7, <1>13, <1>16, <2>1, <2>2 DEF OwnOf
  <2> QED
    BY <1>8, <2>3
<1>18. FromObject(more, c + b, c + 1, b, l, IndexAt(S[m]), H[m])
  <2>1. ASSUME NEW j \in 1 .. b
        PROVE  more[(c + 1) + j - 1] = Copied(more[H[m] + j - 1], IndexAt(l))
    <3>1. (c + 1) + j - 1 = c + j /\ H[m] + j - 1 \in H[m] .. H[m] + b - 1
      BY <1>9
    <3>2. H[m] + j - 1 \in 1 .. c
      BY <1>8, <3>1 DEF OwnOf
    <3> QED
      BY <1>2, <1>12, <3>1, <3>2
  <2> QED
    BY <1>7, <1>17, <2>1 DEF FromObject
<1>19. \E n \in 1 .. N : FromObject(more, c + b, c + 1, b, l, IndexAt(S[n]), H[n])
  BY <1>18
<1> QED
  BY <1>1, <1>2, <1>11, <1>16, <1>19, NewObject DEF B, S, H, N

-----------------------------------------------------------------------------
(* What is written.  A copy is written as its source under another name    *)
(* and index.                                                              *)
JsonFields == {"id", "index", "code", "code_attr", "min", "max", "desc", "kind", "sub_indices"}

LEMMA ObjectWritten ==
    ASSUME NEW e, NEW subs
    PROVE  LET o == ObjectOf(e, subs)
           IN  /\ o = [f \in JsonFields |-> o[f]]
               /\ o.id = e.name /\ o.index = e.main /\ o.code = e.code /\ o.code_attr = e.code_attr
               /\ o.min = e.min /\ o.max = e.max /\ o.desc = e.desc
               /\ o.kind = e.kind /\ o.sub_indices = subs
BY DEF ObjectOf, JsonFields

LEMMA CopyWritten ==
    ASSUME NEW e, IsRecord(e), NEW dest, e.name # None, NEW subs
    PROVE  ObjectOf(Copied(e, dest), subs) = [ObjectOf(e, subs) EXCEPT !.id = HexName[dest], !.index = dest]
<1> DEFINE d == Copied(e, dest)
           o == ObjectOf(e, subs)
           p == ObjectOf(d, subs)
<1>1. /\ d.main = dest /\ d.name = HexName[dest]
      /\ d.code = e.code /\ d.code_attr = e.code_attr /\ d.min = e.min /\ d.max = e.max
      /\ d.desc = e.desc /\ d.kind = e.kind
  BY CopiedIs DEF EntryFields
<1>2. /\ o = [f \in JsonFields |-> o[f]]
      /\ o.code = e.code /\ o.code_attr = e.code_attr
      /\ o.min = e.min /\ o.max = e.max /\ o.desc = e.desc
      /\ o.kind = e.kind /\ o.sub_indices = subs
  BY ObjectWritten
<1> HIDE DEF d
<1>3. /\ p = [f \in JsonFields |-> p[f]]
      /\ p.id = d.name /\ p.index = d.main /\ p.code = d.code /\ p.code_attr = d.code_attr
      /\ p.min = d.min /\ p.max = d.max /\ p.desc = d.desc
      /\ p.kind = d.kind /\ p.sub_indices = subs
  BY ObjectWritten
<1> HIDE DEF o, p
<1>4. p = [o EXCEPT !.id = HexName[dest], !.index = dest]
  <2> DEFINE q == [o EXCEPT !.id = HexName[dest], !.index = dest]
  <2>1. /\ q = [f \in JsonFields |-> q[f]] /\ q.id = HexName[dest] /\ q.index = dest
        /\ \A f \in JsonFields \ {"id", "index"} : q[f] = o[f]
    BY <1>2 DEF JsonFields
  <2>2. \A f \in JsonFields \ {"id", "index"} : p[f] = o[f]
    BY <1>1, <1>2, <1>3 DEF JsonFields
  <2> HIDE DEF q
  <2>3. \A f \in JsonFields : p[f] = q[f]
    BY <1>1, <1>3, <2>1, <2>2
  <2>4. p = q
    BY <1>3, <2>1, <2>3
  <2> QED
    BY <2>4 DEF q
<1> QED
  BY <1>4 DEF d, o, p

LEMMA SubIndexCopied ==
    ASSUME NEW e, IsRecord(e), NEW dest
    PROVE  add_sub_index_to_object(Copied(e, dest)) = add_sub_index_to_object(e)
<1> DEFINE d == Copied(e, dest)
<1>1. /\ d.sub = e.sub /\ d.kind = e.kind /\ d.type = e.type /\ d.access = e.access /\ d.low = e.low
      /\ d.high = e.high /\ d.default = e.default /\ d.mappable = e.mappable /\ d.desc = e.desc
      /\ d.unit = e.unit
  BY CopiedIs DEF EntryFields
<1> HIDE DEF d
<1>2. add_sub_index_to_object(d) = add_sub_index_to_object(e)
  BY <1>1 DEF add_sub_index_to_object
<1> QED
  BY <1>2 DEF d

(* The sub-indices of an object are the entries after its first, or that.  *)
SubsFrom(list, h, b) ==
    IF b = 1 THEN <<add_sub_index_to_object(list[h])>>
    ELSE [k \in 1 .. b - 1 |-> add_sub_index_to_object(list[h + k])]

LEMMA SubIndicesAre ==
    ASSUME TypeOK, NEW i, NEW h \in Nat, NEW b \in Nat \ {0},
           OwnOf(entries, Len(entries), i) = h .. h + b - 1
    PROVE  SubIndices(h) = SubsFrom(entries, h, b)
<1> DEFINE c == Len(entries)
           last == h + b - 1
           Ends(k) == SameObject(h, k) /\ ~SameObject(h, k + 1)
<1>1. c \in Nat /\ DOMAIN entries = 1 .. c
  BY DEF TypeOK
<1> HIDE DEF c
<1>2. \A k \in h .. last : k \in 1 .. c /\ entries[k].main = i
  BY DEF OwnOf, c
<1>3. \A k \in 1 .. c : entries[k].main = i => k \in h .. last
  BY DEF OwnOf, c
<1>4. h \in h .. last /\ last \in h .. last /\ last \in Nat
  OBVIOUS
<1>5. entries[h].main = i
  BY <1>2, <1>4
<1> HIDE DEF last
<1>6. Ends(last)
  <2>1. SameObject(h, last)
    BY <1>1, <1>2, <1>4, <1>5 DEF SameObject
  <2>2. ~SameObject(h, last + 1)
    <3>1. last + 1 \in h .. last + 1 /\ last + 1 \notin h .. last
      BY <1>4
    <3>2. SameObject(h, last + 1) => last + 1 \in 1 .. c /\ entries[last + 1].main = i
      BY <1>1, <1>5, <3>1 DEF SameObject
    <3> QED
      BY <1>3, <3>1, <3>2
  <2> QED
    BY <2>1, <2>2
<1>7. ASSUME NEW k \in DOMAIN entries, Ends(k)
      PROVE  k = last
  <2>1. k \in Nat
    BY <1>1
  <2>2. ~(k > last)
    <3> SUFFICES ASSUME k > last
                 PROVE  FALSE
      OBVIOUS
    <3>1. k \in h .. k /\ k \notin h .. last
      BY <1>4, <2>1
    <3>2. entries[k].main = i
      BY <1>5, <1>7, <3>1 DEF SameObject
    <3> QED
      BY <1>1, <1>3, <3>1, <3>2
  <2>3. ~(k < last)
    <3> SUFFICES ASSUME k < last
                 PROVE  FALSE
      OBVIOUS
    <3>1. k + 1 \in DOMAIN entries
      <4>1. last \in 1 .. c
        BY <1>2, <1>4
      <4> QED
        BY <1>1, <2>1, <4>1
    <3>2. \A m \in h .. k + 1 : m \in h .. last
      BY <1>4, <2>1
    <3>3. \A m \in h .. k + 1 : entries[m].main = entries[h].main
      BY <1>2, <1>5, <3>2
    <3> QED
      BY <1>7, <3>1, <3>3 DEF SameObject
  <2> QED
    BY <1>4, <2>1, <2>2, <2>3
<1>8. last \in DOMAIN entries
  BY <1>1, <1>2, <1>4
<1>9. (CHOOSE k \in DOMAIN entries : Ends(k)) = last
  <2> HIDE DEF Ends
  <2> QED
    BY <1>6, <1>7, <1>8
<1>10. (CHOOSE k \in DOMAIN entries : SameObject(h, k) /\ ~SameObject(h, k + 1)) = last
  BY <1>9
<1>11. (last = h <=> b = 1) /\ last - h = b - 1
  BY DEF last
<1> QED
  BY <1>10, <1>11 DEF SubIndices, SubsFrom

(* Of whatever lines, an object is written as its lines are read.          *)
AsRead(k) ==
    LET lines == LinesOf(IndexAt(k))
        own   == EntryOf(LineAt(k))
        subs  == [n \in 1 .. Len(lines) - 1 |-> add_sub_index_to_object(EntryOf(LineAt(lines[n + 1])))]
    IN  ObjectOf(own, IF subs = <<>> THEN <<add_sub_index_to_object(own)>> ELSE subs)

(* The document of a file that was read to its end.                        *)
Whole ==
    LET starts == InOrder({k \in DOMAIN file : Starts(k)}) IN
    /\ Len(json) = Len(starts) /\ DOMAIN json = 1 .. Len(json)
    /\ \A n \in DOMAIN json :
          /\ starts[n] \in EntryPlaces => json[n] = AsRead(starts[n])
          /\ starts[n] \in CopyPlaces =>
                \E m \in 1 .. n - 1 :
                   /\ IndexAt(starts[m]) = LineAt(starts[n]).source
                   /\ json[n] = [json[m] EXCEPT !.id = HexName[IndexAt(starts[n])],
                                                !.index = IndexAt(starts[n])]

(* The objects written are those of the named entries before a place.      *)
WrittenTo(list, k) ==
    json = [n \in 1 .. Cardinality(HeadsOf(list, k)) |-> write_json_entry(InOrder(HeadsOf(list, k))[n])]

LEMMA WholeDocument ==
    ASSUME TypeOK, Grouped, ReadTo(entries, Len(entries), Len(file) + 1),
           WrittenTo(entries, Len(entries))
    PROVE  Whole
<1> DEFINE c == Len(entries)
           l == Len(file) + 1
           B == StartsBefore(l)
           S == InOrder(B)
           H == InOrder(HeadsOf(entries, c))
           N == Cardinality(B)
<1>1. /\ file \in Profiles /\ Len(file) \in Nat /\ DOMAIN file = 1 .. Len(file) /\ l \in Nat
      /\ \A k \in DOMAIN file : k < l
      /\ c \in Nat
  <2>1. file \in Profiles /\ c \in Nat
    BY DEF TypeOK
  <2>2. Len(file) \in Nat /\ DOMAIN file = 1 .. Len(file)
    BY <2>1, FileIsSequence
  <2> QED
    BY <2>1, <2>2
<1>2. /\ N \in Nat /\ N = Cardinality(HeadsOf(entries, c)) /\ Len(S) = N
      /\ S \in [1 .. N -> B] /\ H \in [1 .. N -> HeadsOf(entries, c)]
  BY <1>1, ReadParts
<1>3. B = {k \in DOMAIN file : Starts(k)}
  BY <1>1 DEF StartsBefore
<1>4. \A i : LinesTo(i, l) = {k \in EntryPlaces : IndexAt(k) = i}
  BY <1>1 DEF LinesTo, EntryPlaces
<1>5. ObjectsAre(entries, c, l, S, H, N)
  BY DEF ReadTo
<1>6. json = [n \in 1 .. N |-> write_json_entry(H[n])]
  BY <1>2 DEF WrittenTo
<1> HIDE DEF c, l, B, S, H, N
<1>7. Len(json) = N /\ DOMAIN json = 1 .. N
  BY <1>2, <1>6, PlacesOfSequence
<1>8. \A n \in 1 .. N : H[n] \in Nat /\ H[n] \in 1 .. c /\ entries[H[n]].name # None
  BY <1>2 DEF HeadsOf
<1>9. ASSUME NEW n \in 1 .. N, NEW b \in Nat \ {0},
             OwnOf(entries, c, IndexAt(S[n])) = H[n] .. H[n] + b - 1
      PROVE  json[n] = ObjectOf(entries[H[n]], SubsFrom(entries, H[n], b))
  <2>1. SubIndices(H[n]) = SubsFrom(entries, H[n], b)
    BY <1>8, <1>9, SubIndicesAre DEF c
  <2> QED
    BY <1>6, <2>1 DEF write_json_entry
<1>10. ASSUME NEW n \in 1 .. N, S[n] \in EntryPlaces
       PROVE  json[n] = AsRead(S[n])
  <2> DEFINE lines == LinesOf(IndexAt(S[n]))
  <2>1. PICK b \in Nat \ {0} :
           /\ OwnOf(entries, c, IndexAt(S[n])) = H[n] .. H[n] + b - 1
           /\ FromLines(entries, H[n], b, S[n], LinesTo(IndexAt(S[n]), l))
    BY <1>5, <1>10 DEF ObjectsAre, ObjectIs
  <2>2. lines = InOrder(LinesTo(IndexAt(S[n]), l)) /\ Cardinality(LinesTo(IndexAt(S[n]), l)) = b
    BY <1>4, <2>1 DEF LinesOf, FromLines
  <2>3. Len(lines) = b
    <3>1. InOrder(LinesTo(IndexAt(S[n]), l)) = [j \in 1 .. b |-> InOrder(LinesTo(IndexAt(S[n]), l))[j]]
      BY <2>2 DEF InOrder
    <3> QED
      BY <2>2, <3>1, PlacesOfSequence
  <2>4. lines[1] = S[n] /\ \A j \in 1 .. b : entries[H[n] + j - 1] = EntryOf(LineAt(lines[j]))
    BY <2>1, <2>2 DEF FromLines
  <2> HIDE DEF lines
  <2>5. entries[H[n]] = EntryOf(LineAt(S[n]))
    <3>1. 1 \in 1 .. b /\ H[n] + 1 - 1 = H[n]
      BY <1>8
    <3> QED
      BY <2>4, <3>1
  <2>6. \A k \in 1 .. b - 1 : entries[H[n] + k] = EntryOf(LineAt(lines[k + 1]))
    <3>1. \A k \in 1 .. b - 1 : k + 1 \in 1 .. b /\ H[n] + (k + 1) - 1 = H[n] + k
      BY <1>8
    <3> QED
      BY <2>4, <3>1
  <2> DEFINE subs == [k \in 1 .. Len(lines) - 1 |-> add_sub_index_to_object(EntryOf(LineAt(lines[k + 1])))]
  <2>7. subs = [k \in 1 .. b - 1 |-> add_sub_index_to_object(entries[H[n] + k])]
    BY <2>3, <2>6
  <2>8. subs = <<>> <=> b = 1
    <3>1. b - 1 \in Nat /\ (b = 1 <=> b - 1 = 0)
      OBVIOUS
    <3>2. Len(subs) = b - 1 /\ Len(<<>>) = 0 /\ (b - 1 = 0 => 1 .. b - 1 = {})
      BY <2>3, <3>1
    <3>3. b - 1 = 0 => subs = <<>>
      BY <2>7, <3>2
    <3> HIDE DEF subs
    <3> QED
      BY <3>1, <3>2, <3>3
  <2>9. SubsFrom(entries, H[n], b) =
           IF subs = <<>> THEN <<add_sub_index_to_object(EntryOf(LineAt(S[n])))>> ELSE subs
    BY <2>5, <2>7, <2>8 DEF SubsFrom
  <2>10. json[n] = ObjectOf(EntryOf(LineAt(S[n])), SubsFrom(entries, H[n], b))
    BY <1>9, <2>1, <2>5
  <2> QED
    BY <2>9, <2>10 DEF AsRead, lines
<1>11. ASSUME NEW n \in 1 .. N, S[n] \in CopyPlaces
       PROVE  \E m \in 1 .. n - 1 :
                 /\ IndexAt(S[m]) = LineAt(S[n]).source
                 /\ json[n] = [json[m] EXCEPT !.id = HexName[IndexAt(S[n])], !.index = IndexAt(S[n])]
  <2> DEFINE dest == IndexAt(S[n])
  <2>1. PICK b \in Nat \ {0} :
           /\ OwnOf(entries, c, IndexAt(S[n])) = H[n] .. H[n] + b - 1
           /\ \E m \in 1 .. n - 1 : FromObject(entries, c, H[n], b, S[n], IndexAt(S[m]), H[m])
    BY <1>5, <1>11 DEF ObjectsAre, ObjectIs
  <2>2. PICK m \in 1 .. n - 1 : FromObject(entries, c, H[n], b, S[n], IndexAt(S[m]), H[m])
    BY <2>1
  <2>3. /\ IndexAt(S[m]) = LineAt(S[n]).source
        /\ OwnOf(entries, c, IndexAt(S[m])) = H[m] .. H[m] + b - 1
        /\ \A j \in 1 .. b : entries[H[n] + j - 1] = Copied(entries[H[m] + j - 1], dest)
    BY <2>2 DEF FromObject
  <2>4. m \in 1 .. N
    BY <1>2
  <2>5. \A j \in 1 .. b : IsRecord(entries[H[m] + j - 1])
    <3>1. \A j \in 1 .. b : H[m] + j - 1 \in H[m] .. H[m] + b - 1
      BY <1>8, <2>4
    <3>2. \A k \in H[m] .. H[m] + b - 1 : k \in 1 .. c
      BY <2>3 DEF OwnOf
    <3> QED
      BY <1>5, <3>1, <3>2 DEF ObjectsAre
  <2> HIDE DEF dest
  <2>6. IsRecord(entries[H[m]]) /\ entries[H[n]] = Copied(entries[H[m]], dest)
    <3>1. 1 \in 1 .. b /\ H[n] + 1 - 1 = H[n] /\ H[m] + 1 - 1 = H[m]
      BY <1>8, <2>4
    <3> QED
      BY <2>3, <2>5, <3>1
  <2>7. \A k \in 1 .. b - 1 : /\ IsRecord(entries[H[m] + k])
                              /\ entries[H[n] + k] = Copied(entries[H[m] + k], dest)
    <3>1. \A k \in 1 .. b - 1 : /\ k + 1 \in 1 .. b
                                /\ H[n] + (k + 1) - 1 = H[n] + k /\ H[m] + (k + 1) - 1 = H[m] + k
      BY <1>8, <2>4
    <3> QED
      BY <2>3, <2>5, <3>1
  <2>8. SubsFrom(entries, H[n], b) = SubsFrom(entries, H[m], b)
    <3>1. add_sub_index_to_object(entries[H[n]]) = add_sub_index_to_object(entries[H[m]])
      BY <2>6, SubIndexCopied
    <3>2. \A k \in 1 .. b - 1 :
             add_sub_index_to_object(entries[H[n] + k]) = add_sub_index_to_object(entries[H[m] + k])
      BY <2>7, SubIndexCopied
    <3> QED
      BY <3>1, <3>2 DEF SubsFrom
  <2>9. json[m] = ObjectOf(entries[H[m]], SubsFrom(entries, H[m], b))
    BY <1>9, <2>3, <2>4
  <2>10. json[n] = ObjectOf(Copied(entries[H[m]], dest), SubsFrom(entries, H[m], b))
    BY <1>9, <2>1, <2>6, <2>8
  <2>11. entries[H[m]].name # None
    BY <1>8, <2>4
  <2>12. json[n] = [json[m] EXCEPT !.id = HexName[dest], !.index = dest]
    <3> DEFINE e    == entries[H[m]]
               subs == SubsFrom(entries, H[m], b)
    <3>1. IsRecord(e) /\ e.name # None
      BY <2>6, <2>11
    <3>2. json[m] = ObjectOf(e, subs) /\ json[n] = ObjectOf(Copied(e, dest), subs)
      BY <2>9, <2>10
    <3> HIDE DEF e, subs
    <3>3. ObjectOf(Copied(e, dest), subs) = [ObjectOf(e, subs) EXCEPT !.id = HexName[dest], !.index = dest]
      BY <3>1, CopyWritten
    <3> QED
      BY <3>2, <3>3
  <2> QED
    BY <2>3, <2>12 DEF dest
<1> QED
  BY <1>2, <1>3, <1>7, <1>10, <1>11 DEF Whole, S

-----------------------------------------------------------------------------
(* The document in every state.                                            *)
DocInv ==
    Grouped /\ lost = {} =>
       /\ pc \in {"check", "count", "read"} => json = <<>>
       /\ pc = "read"  => ReadTo(entries, current, at)
       /\ pc = "write" => /\ ReadTo(entries, Len(entries), Len(file) + 1)
                          /\ at - 1 \in 0 .. Len(entries) /\ WrittenTo(entries, at - 1)
       /\ pc = "done"  => Whole

LEMMA SameFile ==
    ASSUME file' = file
    PROVE  /\ Grouped' <=> Grouped
           /\ \A list, c, l : ReadTo(list, c, l)' <=> ReadTo(list, c, l)
<1>1. \A k : LineAt(k)' = LineAt(k)
  BY DEF LineAt
<1>2. EntryPlaces' = EntryPlaces /\ CopyPlaces' = CopyPlaces
  BY <1>1 DEF EntryPlaces, CopyPlaces
<1>3. \A k : IndexAt(k)' = IndexAt(k) /\ (Starts(k)' <=> Starts(k))
  BY <1>1, <1>2 DEF IndexAt, Starts
<1>4. Grouped' <=> Grouped
  BY <1>1, <1>2, <1>3 DEF Grouped
<1>5. \A l : StartsBefore(l)' = StartsBefore(l)
  BY <1>3 DEF StartsBefore
<1>6. \A i, l : LinesTo(i, l)' = LinesTo(i, l)
  BY <1>2, <1>3 DEF LinesTo
<1>7. \A list, h, b, k, places : FromLines(list, h, b, k, places)' <=> FromLines(list, h, b, k, places)
  BY <1>1 DEF FromLines
<1>8. \A list, c, h, b, k, source, from :
         FromObject(list, c, h, b, k, source, from)' <=> FromObject(list, c, h, b, k, source, from)
  BY <1>1, <1>3 DEF FromObject
<1>9. \A list, c, l, S, H, n : ObjectIs(list, c, l, S, H, n)' <=> ObjectIs(list, c, l, S, H, n)
  <2> TAKE list, c, l, S, H, n
  <2>1. LinesTo(IndexAt(S[n]), l)' = LinesTo(IndexAt(S[n]), l)
    BY <1>3, <1>6
  <2>2. \A b : FromLines(list, H[n], b, S[n], LinesTo(IndexAt(S[n]), l))'
                   <=> FromLines(list, H[n], b, S[n], LinesTo(IndexAt(S[n]), l))
    BY <1>7, <2>1
  <2>3. \A b, m : FromObject(list, c, H[n], b, S[n], IndexAt(S[m]), H[m])'
                   <=> FromObject(list, c, H[n], b, S[n], IndexAt(S[m]), H[m])
    BY <1>3, <1>8
  <2>4. OwnOf(list, c, IndexAt(S[n]))' = OwnOf(list, c, IndexAt(S[n]))
    BY <1>3
  <2> QED
    BY <1>2, <2>2, <2>3, <2>4, Zenon DEF ObjectIs
<1>10. \A list, c, l, S, H, N : ObjectsAre(list, c, l, S, H, N)' <=> ObjectsAre(list, c, l, S, H, N)
  BY <1>3, <1>9 DEF ObjectsAre
<1>11. \A list, c, l : ReadTo(list, c, l)' <=> ReadTo(list, c, l)
  BY <1>5, <1>10 DEF ReadTo
<1> QED
  BY <1>4, <1>11

LEMMA SameDocument ==
    ASSUME file' = file, json' = json
    PROVE  Whole' <=> Whole
<1>1. \A k : LineAt(k)' = LineAt(k)
  BY DEF LineAt
<1>2. EntryPlaces' = EntryPlaces /\ CopyPlaces' = CopyPlaces
  BY <1>1 DEF EntryPlaces, CopyPlaces
<1>3. \A k : IndexAt(k)' = IndexAt(k) /\ (Starts(k)' <=> Starts(k))
  BY <1>1, <1>2 DEF IndexAt, Starts
<1>4. \A k : AsRead(k)' = AsRead(k)
  BY <1>1, <1>2, <1>3 DEF AsRead, LinesOf
<1>5. {k \in DOMAIN file : Starts(k)}' = {k \in DOMAIN file : Starts(k)}
  BY <1>3
<1>6. InOrder({k \in DOMAIN file : Starts(k)})' = InOrder({k \in DOMAIN file : Starts(k)})
  BY <1>5
<1> DEFINE starts == InOrder({k \in DOMAIN file : Starts(k)})
           Is(n) == /\ starts[n] \in EntryPlaces => json[n] = AsRead(starts[n])
                    /\ starts[n] \in CopyPlaces =>
                          \E m \in 1 .. n - 1 :
                             /\ IndexAt(starts[m]) = LineAt(starts[n]).source
                             /\ json[n] = [json[m] EXCEPT !.id = HexName[IndexAt(starts[n])],
                                                          !.index = IndexAt(starts[n])]
<1>7. \A n : Is(n)' <=> Is(n)
  BY <1>1, <1>2, <1>3, <1>4, <1>6
<1>8. Whole <=> Len(json) = Len(starts) /\ DOMAIN json = 1 .. Len(json) /\ \A n \in DOMAIN json : Is(n)
  BY DEF Whole
<1>9. Whole' <=> Len(json') = Len(starts') /\ DOMAIN json' = 1 .. Len(json') /\ \A n \in DOMAIN json' : Is(n)'
  BY DEF Whole
<1> HIDE DEF Is
<1> QED
  BY <1>6, <1>7, <1>8, <1>9

LEMMA SameWriting ==
    ASSUME entries' = entries
    PROVE  \A k : write_json_entry(k)' = write_json_entry(k)
<1>1. \A k : SubIndices(k)' = SubIndices(k)
  BY DEF SubIndices, SameObject
<1> QED
  BY <1>1 DEF write_json_entry

(* Before the first line nothing has been read.                            *)
LEMMA NothingRead ==
    ASSUME file \in Profiles, NEW list
    PROVE  ReadTo(list, 0, 1)
<1>1. StartsBefore(1) = {}
  <2>1. \A k \in DOMAIN file : k \in Nat /\ k >= 1
    BY FileIsSequence
  <2> QED
    BY <2>1 DEF StartsBefore
<1>2. HeadsOf(list, 0) = {}
  BY DEF HeadsOf
<1>3. Cardinality({}) = 0
  BY FS_EmptySet
<1>4. \A S, H : ObjectsAre(list, 0, 1, S, H, 0)
  BY DEF ObjectsAre
<1> QED
  BY <1>1, <1>2, <1>3, <1>4 DEF ReadTo

(* A copy whose texts were all duplicated.                                 *)
LEMMA AllKept ==
    ASSUME NEW entry, NEW dest, NEW k
    PROVE  Kept(Copied(entry, dest), k, {}) = Copied(entry, dest)
<1>1. Copied(entry, dest) = [f \in DOMAIN Copied(entry, dest) |-> Copied(entry, dest)[f]]
  BY DEF Copied
<1>2. Kept(Copied(entry, dest), k, {}) = [f \in DOMAIN Copied(entry, dest) |-> Copied(entry, dest)[f]]
  BY DEF Kept
<1> QED
  BY <1>1, <1>2

(* Reading a line.                                                         *)
LEMMA LineRead ==
    ASSUME IInv, DocInv, Grouped, lost' = {}, SkipLine \/ ReadEntry \/ CopyObject
    PROVE  ReadTo(entries', current', at')
<1>0. lost = {}
  BY NothingLost DEF SkipLine, ReadEntry, CopyObject
<1>1. /\ file \in Profiles /\ at \in DOMAIN file /\ current \in Nat /\ Len(entries) \in Nat
      /\ DOMAIN entries = 1 .. Len(entries) /\ current <= Len(entries)
      /\ ReadTo(entries, current, at) /\ Line = LineAt(at) /\ at' = at + 1
  BY <1>0 DEF IInv, TypeOK, DocInv, SkipLine, ReadEntry, CopyObject, Reading, Line
<1>2. CASE SkipLine
  <2>1. LineAt(at).kind = "comment" /\ entries' = entries /\ current' = current
    BY <1>1, <1>2 DEF SkipLine
  <2> QED
    BY <1>1, <2>1, CommentRead
<1>3. CASE ReadEntry
  <2>1. at \in EntryPlaces /\ current < Len(entries) /\ current' = current + 1
        /\ entries' = [entries EXCEPT ![current + 1] = EntryOf(LineAt(at))]
    <3>1. PICK S : entries' = [entries EXCEPT ![current + 1] = Nameless(EntryOf(Line), S)] /\ Lose(S)
      BY <1>3 DEF ReadEntry
    <3>2. S = {}
      BY <3>1, NothingLost
    <3>3. Nameless(EntryOf(Line), S) = EntryOf(Line)
      BY <3>2 DEF Nameless
    <3> QED
      BY <1>1, <1>3, <3>1, <3>3 DEF ReadEntry, EntryPlaces, Convertible, HasRoom
  <2>2. /\ \A k \in 1 .. current : entries'[k] = entries[k]
        /\ entries'[current + 1] = EntryOf(LineAt(at))
    BY <1>1, <2>1
  <2>3. CASE IsHeader(LineAt(at))
    BY <1>1, <2>1, <2>2, <2>3, HeaderRead
  <2>4. CASE ~IsHeader(LineAt(at))
    BY <1>1, <2>1, <2>2, <2>4, SubIndexRead
  <2> QED
    BY <2>3, <2>4
<1>4. CASE CopyObject
  <2> DEFINE places == EntriesOf(LineAt(at).source)
             n      == Cardinality(places)
             own    == OwnOf(entries, current, LineAt(at).source)
  <2>1. /\ at \in CopyPlaces /\ places # {}
        /\ current' = current + n
        /\ entries' = [k \in 1 .. Len(entries) + n |->
                          IF k \in current + 1 .. current + n
                          THEN Copied(entries[Nth(places, k - current)], LineAt(at).dest)
                          ELSE IF k <= Len(entries) THEN entries[k] ELSE Blank]
    <3>1. PICK S : MakeCopies(S) /\ Lose(S)
      BY <1>4 DEF CopyObject
    <3>2. S = {}
      BY <3>1, NothingLost
    <3>3. \A k, e : Kept(Copied(e, LineAt(at).dest), k, S) = Copied(e, LineAt(at).dest)
      BY <3>2, AllKept
    <3> HIDE DEF n
    <3>4. /\ current' = current + n
          /\ entries' = [k \in 1 .. Len(entries) + n |->
                            IF k \in current + 1 .. current + n
                            THEN Kept(Copied(entries[Nth(places, k - current)], LineAt(at).dest), k, S)
                            ELSE IF k <= Len(entries) THEN entries[k] ELSE Blank]
      BY <1>1, <3>1 DEF MakeCopies, n
    <3>5. at \in CopyPlaces /\ places # {}
      BY <1>1, <1>4 DEF CopyObject, Copyable, CopyPlaces
    <3> HIDE DEF places
    <3> QED
      BY <3>3, <3>4, <3>5
  <2>2. places = own
    <3>1. LineAt(at).source # 0
      BY <2>1 DEF Grouped
    <3>2. \A k \in current + 1 .. Len(entries) : entries[k].main = 0
      BY <1>4 DEF IInv, RoomForEveryEntry, CopyObject, Reading, Blank, init_codb_entry
    <3>3. \A k \in 1 .. Len(entries) : k \in 1 .. current \/ k \in current + 1 .. Len(entries)
      BY <1>1
    <3>4. 1 .. current \subseteq 1 .. Len(entries)
      BY <1>1
    <3> QED
      BY <1>1, <3>1, <3>2, <3>3, <3>4 DEF EntriesOf, OwnOf
  <2>3. n \in Nat
    BY SourceCount DEF IInv
  <2> HIDE DEF places, n
  <2>4. \A k \in 1 .. current : entries'[k] = entries[k]
    BY <1>1, <2>1, <2>3
  <2>5. \A j \in 1 .. n : entries'[current + j] = Copied(entries[Nth(places, j)], LineAt(at).dest)
    <3> TAKE j \in 1 .. n
    <3>1. /\ current + j \in 1 .. Len(entries) + n /\ current + j \in current + 1 .. current + n
          /\ (current + j) - current = j
      BY <1>1, <2>3
    <3> QED
      BY <2>1, <3>1
  <2>6. ReadTo(entries', current + Cardinality(places), at + 1)
    BY <1>1, <2>1, <2>2, <2>4, <2>5, CopyRead DEF n
  <2> QED
    BY <1>1, <2>1, <2>6 DEF n
<1> QED
  BY <1>2, <1>3, <1>4

(* Writing an entry.                                                       *)
LEMMA EntryWritten ==
    ASSUME TypeOK, NEW k \in DOMAIN entries, WrittenTo(entries, k - 1),
           json' = IF entries[k].name # None THEN Append(json, write_json_entry(k)) ELSE json,
           entries' = entries
    PROVE  WrittenTo(entries, k)'
<1> DEFINE B == HeadsOf(entries, k - 1)
           C == HeadsOf(entries, k)
           N == Cardinality(B)
<1>1. k \in Nat \ {0} /\ k - 1 \in Nat
  BY DEF TypeOK
<1>2. B \in SUBSET Nat /\ IsFiniteSet(B) /\ \A j \in B : j < k
  <2>1. \A j \in B : j < (k - 1) + 1
    BY <1>1, HeadsGrow
  <2> QED
    BY <1>1, <2>1, HeadsGrow
<1>3. N \in Nat /\ InOrder(B) \in [1 .. N -> B]
  <2> HIDE DEF B
  <2> QED
    BY <1>2, InOrderIsInverse
<1>4. json = [n \in 1 .. N |-> write_json_entry(InOrder(B)[n])]
  BY DEF WrittenTo
<1>5. \A j : write_json_entry(j)' = write_json_entry(j)
  BY SameWriting
<1>6. \A j \in 1 .. k : j \in 1 .. k - 1 \/ j = k
  BY <1>1
<1>7. 1 .. k - 1 \subseteq 1 .. k /\ k \in 1 .. k
  BY <1>1
<1>8. json' = [n \in 1 .. Cardinality(C) |-> write_json_entry(InOrder(C)[n])]
  <2>1. CASE entries[k].name = None
    <3>1. C = B
      BY <1>6, <1>7, <2>1 DEF HeadsOf
    <3> QED
      BY <1>4, <2>1, <3>1
  <2>2. CASE entries[k].name # None
    <3>1. C = B \cup {k}
      BY <1>6, <1>7, <2>2 DEF HeadsOf
    <3> HIDE DEF B, C, N
    <3>2. InOrder(C) = Append(InOrder(B), k) /\ Cardinality(C) = N + 1
      BY <1>1, <1>2, <3>1, OneMoreInOrder DEF N
    <3>3. InOrder(B) \in Seq(Nat) /\ Len(InOrder(B)) = N
      <4>1. InOrder(B) \in [1 .. N -> Nat]
        BY <1>2, <1>3
      <4> QED
        BY <1>3, <4>1
    <3>4. /\ \A n \in 1 .. N : InOrder(C)[n] = InOrder(B)[n]
          /\ InOrder(C)[N + 1] = k
      BY <1>1, <1>3, <3>2, <3>3
    <3> DEFINE t == [n \in 1 .. N + 1 |-> write_json_entry(InOrder(C)[n])]
               A == {write_json_entry(InOrder(C)[n]) : n \in 1 .. N + 1}
    <3>5. \A n \in 1 .. N : n \in 1 .. N + 1 /\ json[n] = t[n]
      BY <1>3, <1>4, <3>4
    <3>6. N + 1 \in 1 .. N + 1 /\ t[N + 1] = write_json_entry(k)
      BY <1>3, <3>4
    <3>7. \A n \in 1 .. N + 1 : t[n] \in A
      OBVIOUS
    <3>8. t \in [1 .. N + 1 -> A]
      OBVIOUS
    <3> HIDE DEF t, A
    <3>9. json \in [1 .. N -> A] /\ write_json_entry(k) \in A
      <4>1. \A n \in 1 .. N : json[n] \in A
        BY <3>5, <3>7
      <4> QED
        BY <1>4, <3>6, <3>7, <4>1
    <3>10. json \in Seq(A) /\ Len(json) = N /\ t \in Seq(A) /\ Len(t) = N + 1
      BY <1>3, <3>8, <3>9
    <3>11. t = Append(json, write_json_entry(k))
      BY <3>5, <3>6, <3>9, <3>10, IsAppended
    <3> QED
      BY <2>2, <3>2, <3>11 DEF t
  <2> QED
    BY <2>1, <2>2
<1> QED
  BY <1>5, <1>8 DEF WrittenTo

(* An object with all its members.                                         *)
LEMMA AllMembers == ASSUME NEW k PROVE Without(write_json_entry(k), {}) = write_json_entry(k)
<1> DEFINE subs == SubIndices(k)
           o    == write_json_entry(k)
           all  == [o EXCEPT !.sub_indices = [n \in DOMAIN @ |-> WithMembers(@[n], n, {})]]
<1>1. \A e, n : WithMembers(add_sub_index_to_object(e), n, {}) = add_sub_index_to_object(e)
  BY DEF WithMembers, add_sub_index_to_object
<1>2. subs = [n \in DOMAIN subs |-> subs[n]] /\ \A n \in DOMAIN subs : WithMembers(subs[n], n, {}) = subs[n]
  <2> DEFINE last == CHOOSE m \in DOMAIN entries : SameObject(k, m) /\ ~SameObject(k, m + 1)
  <2>1. \/ subs = <<add_sub_index_to_object(entries[k])>>
        \/ subs = [n \in 1 .. last - k |-> add_sub_index_to_object(entries[k + n])]
    BY DEF SubIndices
  <2> HIDE DEF last, subs
  <2>2. CASE subs = <<add_sub_index_to_object(entries[k])>>
    <3>1. \A x : <<x>> = [n \in {1} |-> x] /\ DOMAIN <<x>> = {1}
      OBVIOUS
    <3> QED
      BY <1>1, <2>2, <3>1
  <2>3. CASE subs = [n \in 1 .. last - k |-> add_sub_index_to_object(entries[k + n])]
    BY <1>1, <2>3
  <2> QED
    BY <2>1, <2>2, <2>3
<1>3. /\ o = [f \in JsonFields |-> o[f]] /\ o.sub_indices = subs
  BY ObjectWritten DEF write_json_entry
<1> HIDE DEF subs, o
<1>4. all = o
  <2>1. [n \in DOMAIN o.sub_indices |-> WithMembers(o.sub_indices[n], n, {})] = subs
    BY <1>2, <1>3
  <2>2. [o EXCEPT !.sub_indices = subs] = o
    BY <1>3 DEF JsonFields
  <2> QED
    BY <2>1, <2>2
<1>5. WithMembers(o, 0, {}) = o
  BY <1>3 DEF WithMembers
<1>6. Without(o, {}) = WithMembers(all, 0, {})
  BY DEF Without
<1> QED
  BY <1>4, <1>5, <1>6 DEF o

LEMMA DocInit == Init => DocInv
BY DEF Init, DocInv

(* Where neither the document nor what was read of it changes.             *)
LEMMA DocFail == DocInv /\ Fail => DocInv'
BY DEF DocInv, Fail

LEMMA DocSame == DocInv /\ UNCHANGED vars => DocInv'
<1> SUFFICES ASSUME DocInv, UNCHANGED vars PROVE DocInv'
  OBVIOUS
<1>1. UNCHANGED <<file, pc, at, entries, current, json, lost>>
  BY DEF vars
<1>2. /\ Grouped' <=> Grouped
      /\ \A list, c, l : ReadTo(list, c, l)' <=> ReadTo(list, c, l)
  BY <1>1, SameFile
<1>3. Whole' <=> Whole
  BY <1>1, SameDocument
<1>4. \A list, k : WrittenTo(list, k)' <=> WrittenTo(list, k)
  BY <1>1, SameWriting DEF WrittenTo
<1> QED
  BY <1>1, <1>2, <1>3, <1>4 DEF DocInv

LEMMA DocCount == DocInv /\ (is_codb_file \/ CountLine) => DocInv'
<1> SUFFICES ASSUME DocInv, is_codb_file \/ CountLine PROVE DocInv'
  OBVIOUS
<1>1. CASE Fail
  BY <1>1, DocFail
<1>2. CASE ~Fail
  <2>1. file' = file /\ json' = json /\ lost' = lost /\ pc \in {"check", "count"} /\ pc' = "count"
    BY <1>2 DEF is_codb_file, CountLine
  <2>2. Grouped' <=> Grouped
    BY <2>1, SameFile
  <2> QED
    BY <2>1, <2>2 DEF DocInv
<1> QED
  BY <1>1, <1>2

LEMMA DocAllocate == IInv /\ DocInv /\ Allocate => DocInv'
<1> SUFFICES ASSUME IInv, DocInv, Allocate PROVE DocInv'
  OBVIOUS
<1>1. CASE Fail
  BY <1>1, DocFail
<1>2. CASE ~Fail
  <2>1. /\ file' = file /\ json' = json /\ lost' = lost
        /\ pc = "count" /\ pc' = "read" /\ at' = 1 /\ current' = current
    BY <1>2 DEF Allocate
  <2>2. current = 0 /\ file \in Profiles
    BY <2>1 DEF IInv, TypeOK, Passes
  <2>3. /\ Grouped' <=> Grouped
        /\ \A list, c, l : ReadTo(list, c, l)' <=> ReadTo(list, c, l)
    BY <2>1, SameFile
  <2>4. ReadTo(entries', 0, 1)
    BY <2>2, NothingRead
  <2>5. ReadTo(entries, current, at)'
    BY <2>1, <2>2, <2>3, <2>4
  <2> QED
    BY <2>1, <2>3, <2>5 DEF DocInv
<1> QED
  BY <1>1, <1>2

LEMMA DocRead == IInv /\ DocInv /\ (SkipLine \/ ReadEntry \/ CopyObject) => DocInv'
<1> SUFFICES ASSUME IInv, DocInv, SkipLine \/ ReadEntry \/ CopyObject PROVE DocInv'
  OBVIOUS
<1>1. file' = file /\ json' = json /\ pc = "read" /\ pc' = "read"
  BY DEF SkipLine, ReadEntry, CopyObject, Reading
<1>2. /\ Grouped' <=> Grouped
      /\ \A list, c, l : ReadTo(list, c, l)' <=> ReadTo(list, c, l)
  BY <1>1, SameFile
<1>3. lost' = {} => lost = {}
  BY NothingLost DEF SkipLine, ReadEntry, CopyObject
<1>4. Grouped /\ lost' = {} => ReadTo(entries, current, at)'
  BY <1>2, LineRead
<1> QED
  BY <1>1, <1>2, <1>3, <1>4 DEF DocInv

LEMMA DocOpen == IInv /\ DocInv /\ OpenOutput => DocInv'
<1> SUFFICES ASSUME IInv, DocInv, OpenOutput PROVE DocInv'
  OBVIOUS
<1>1. CASE Fail
  BY <1>1, DocFail
<1>2. CASE ~Fail /\ pc' # "failed"
  <2>1. /\ UNCHANGED <<file, count, entries, current, json, lost>>
        /\ pc = "read" /\ pc' = "write" /\ at \notin DOMAIN file /\ at' = 1
    BY <1>2 DEF OpenOutput
  <2>2. at = Len(file) + 1 /\ Left(at) = 0 /\ Len(entries) \in Nat /\ current \in Nat
    <3>1. file \in Profiles /\ at \in Nat \ {0} /\ at <= Len(file) + 1
      BY <2>1 DEF IInv, TypeOK, Passes
    <3>2. Len(file) \in Nat /\ DOMAIN file = 1 .. Len(file)
      BY <3>1, FileIsSequence
    <3>3. Left(at) = 0
      BY <2>1, <3>1, LeftAtEnd
    <3> QED
      BY <2>1, <3>1, <3>2, <3>3 DEF IInv, TypeOK
  <2>3. current = Len(entries)
    BY <2>1, <2>2 DEF IInv, RoomForEveryEntry
  <2>4. /\ Grouped' <=> Grouped
        /\ \A list, c, l : ReadTo(list, c, l)' <=> ReadTo(list, c, l)
    BY <2>1, SameFile
  <2>5. Grouped /\ lost = {} => ReadTo(entries, Len(entries), Len(file) + 1)'
    BY <2>1, <2>2, <2>3, <2>4 DEF DocInv
  <2>6. Grouped /\ lost = {} => WrittenTo(entries, 0)'
    <3>1. HeadsOf(entries, 0)' = {} /\ Cardinality({}) = 0
      BY FS_EmptySet DEF HeadsOf
    <3>2. Grouped /\ lost = {} => json' = <<>>
      BY <2>1 DEF DocInv
    <3> QED
      BY <3>1, <3>2 DEF WrittenTo
  <2>7. (at - 1)' = 0 /\ 0 \in 0 .. Len(entries)'
    BY <2>1, <2>2
  <2> QED
    BY <2>1, <2>4, <2>5, <2>6, <2>7 DEF DocInv
<1>3. CASE ~Fail /\ pc' = "failed"
  BY <1>3, SameFile DEF OpenOutput, DocInv
<1> QED
  BY <1>1, <1>2, <1>3

LEMMA DocWrite == IInv /\ DocInv /\ WriteEntry => DocInv'
<1> SUFFICES ASSUME IInv, DocInv, WriteEntry PROVE DocInv'
  OBVIOUS
<1>1. CASE Fail
  BY <1>1, DocFail
<1>2. CASE ~Fail
  <2>1. /\ UNCHANGED <<file, pc, entries, current>>
        /\ pc = "write" /\ at \in DOMAIN entries /\ at' = at + 1
        /\ lost' = {} => lost = {}
        /\ lost' = {} =>
              json' = IF entries[at].name # None THEN Append(json, write_json_entry(at)) ELSE json
    <3>1. CASE entries[at].name # None
      <4>1. PICK S : json' = Append(json, Without(write_json_entry(at), S)) /\ Lose(S)
        BY <1>2, <3>1 DEF WriteEntry
      <4>2. lost' = {} => S = {} /\ lost = {}
        BY <4>1, NothingLost
      <4>3. Without(write_json_entry(at), {}) = write_json_entry(at)
        BY AllMembers
      <4> QED
        BY <1>2, <3>1, <4>1, <4>2, <4>3 DEF WriteEntry
    <3>2. CASE entries[at].name = None
      BY <1>2, <3>2 DEF WriteEntry
    <3> QED
      BY <3>1, <3>2
  <2>2. TypeOK /\ at \in 1 .. Len(entries) /\ Len(entries) \in Nat
    BY <2>1 DEF IInv, TypeOK
  <2>3. /\ Grouped' <=> Grouped
        /\ \A list, c, l : ReadTo(list, c, l)' <=> ReadTo(list, c, l)
    BY <2>1, SameFile
  <2>4. Grouped /\ lost' = {} => ReadTo(entries, Len(entries), Len(file) + 1)'
    BY <2>1, <2>3 DEF DocInv
  <2>5. (at - 1)' = at /\ at \in 0 .. Len(entries)'
    BY <2>1, <2>2
  <2>6. Grouped /\ lost' = {} => WrittenTo(entries, at - 1)'
    <3> SUFFICES ASSUME Grouped, lost' = {} PROVE WrittenTo(entries, at - 1)'
      OBVIOUS
    <3>1. PICK k \in DOMAIN entries : k = at
      BY <2>1
    <3>2. WrittenTo(entries, k - 1)
      BY <2>1, <3>1 DEF DocInv
    <3>3. WrittenTo(entries, k)'
      BY <2>1, <2>2, <3>1, <3>2, EntryWritten
    <3> QED
      BY <2>5, <3>1, <3>3 DEF WrittenTo
  <2> QED
    BY <2>1, <2>3, <2>4, <2>5, <2>6 DEF DocInv
<1> QED
  BY <1>1, <1>2

LEMMA DocFinish == IInv /\ DocInv /\ Finish => DocInv'
<1> SUFFICES ASSUME IInv, DocInv, Finish PROVE DocInv'
  OBVIOUS
<1>1. /\ file' = file /\ json' = json /\ lost' = lost
      /\ pc = "write" /\ pc' = "done" /\ at \notin DOMAIN entries
  BY DEF Finish
<1>2. Grouped' <=> Grouped
  BY <1>1, SameFile
<1>3. Whole' <=> Whole
  BY <1>1, SameDocument
<1>4. TypeOK /\ at \in Nat \ {0} /\ DOMAIN entries = 1 .. Len(entries) /\ Len(entries) \in Nat
  BY DEF IInv, TypeOK
<1>5. ASSUME Grouped, lost = {} PROVE Whole
  <2>1. /\ ReadTo(entries, Len(entries), Len(file) + 1) /\ WrittenTo(entries, at - 1)
        /\ at - 1 \in 0 .. Len(entries)
    BY <1>1, <1>5 DEF DocInv
  <2>2. at - 1 = Len(entries)
    BY <1>1, <1>4, <2>1
  <2> QED
    BY <1>4, <1>5, <2>1, <2>2, WholeDocument
<1> QED
  BY <1>1, <1>2, <1>3, <1>5 DEF DocInv

(* The field of a number, by its identifier.                               *)
LEMMA FieldOfId ==
    ASSUME NEW line, Places(line) \subseteq 1 .. 21, NEW id, NEW p \in 1 .. 21,
           \A k \in 1 .. 21 : FieldIds[k] = id <=> k = p
    PROVE  /\ Has(line, id) <=> p \in Places(line)
           /\ Has(line, id) => Field(line, id) = line.fields[p]
<1>1. \A k \in Places(line) : FieldIds[k] = id <=> k = p
  OBVIOUS
<1>2. Has(line, id) <=> p \in Places(line)
  BY <1>1 DEF Has
<1>3. Has(line, id) => Field(line, id) = line.fields[p]
  <2> SUFFICES ASSUME p \in Places(line) PROVE Field(line, id) = line.fields[p]
    BY <1>2
  <2>1. (CHOOSE k \in Places(line) : FieldIds[k] = id) = p
    BY <1>1
  <2> QED
    BY <2>1 DEF Field
<1> QED
  BY <1>2, <1>3

LEMMA FieldOfNr ==
    ASSUME NEW line, Places(line) \subseteq DOMAIN FieldIds
    PROVE  /\ Text(line, "PARAMETER_NAME") = TextNr(line, 3)
           /\ \A d : Given(line, "OBJECT_KIND", d) = Nr(line, 4, d)
           /\ Text(line, "UNIT") = TextNr(line, 5)
           /\ \A d : Given(line, "OBJECT_CODE", d) = Nr(line, 6, d)
           /\ \A d : Given(line, "DATA_TYPE", d) = Nr(line, 8, d)
           /\ \A d : Given(line, "MIN_ELEMENTS", d) = Nr(line, 12, d)
           /\ \A d : Given(line, "MAX_ELEMENTS", d) = Nr(line, 14, d)
           /\ \A d : Given(line, "LOW_LIMIT", d) = Nr(line, 16, d)
           /\ \A d : Given(line, "HIGH_LIMIT", d) = Nr(line, 18, d)
           /\ \A d : Given(line, "DEFAULT_VALUE", d) = Nr(line, 20, d)
           /\ \A d : Given(line, "MAPPABLE", d) = Nr(line, 22, d)
<1>1. DOMAIN FieldIds = 1 .. 21
  BY DEF FieldIds
<1>2. Places(line) \subseteq 1 .. 21
  BY <1>1
<1>3. ASSUME NEW id, NEW n \in 3 .. 23, \A k \in 1 .. 21 : FieldIds[k] = id <=> k = n - 2
      PROVE  /\ Text(line, id) = TextNr(line, n)
             /\ \A d : Given(line, id, d) = Nr(line, n, d)
  <2>1. n - 2 \in 1 .. 21
    OBVIOUS
  <2>2. /\ Has(line, id) <=> n - 2 \in Places(line)
        /\ Has(line, id) => Field(line, id) = line.fields[n - 2]
    BY <1>2, <1>3, <2>1, FieldOfId
  <2> QED
    BY <2>2 DEF Text, TextNr, Given, Nr
<1>4. \A k \in 1 .. 21 :
         /\ FieldIds[k] = "PARAMETER_NAME" <=> k = 1
         /\ FieldIds[k] = "OBJECT_KIND" <=> k = 2
         /\ FieldIds[k] = "UNIT" <=> k = 3
         /\ FieldIds[k] = "OBJECT_CODE" <=> k = 4
         /\ FieldIds[k] = "DATA_TYPE" <=> k = 6
         /\ FieldIds[k] = "MIN_ELEMENTS" <=> k = 10
         /\ FieldIds[k] = "MAX_ELEMENTS" <=> k = 12
         /\ FieldIds[k] = "LOW_LIMIT" <=> k = 14
         /\ FieldIds[k] = "HIGH_LIMIT" <=> k = 16
         /\ FieldIds[k] = "DEFAULT_VALUE" <=> k = 18
         /\ FieldIds[k] = "MAPPABLE" <=> k = 20
  BY DEF FieldIds
<1>5. /\ Text(line, "PARAMETER_NAME") = TextNr(line, 3)
      /\ \A d : Given(line, "PARAMETER_NAME", d) = Nr(line, 3, d)
  <2>1. \A k \in 1 .. 21 : FieldIds[k] = "PARAMETER_NAME" <=> k = 3 - 2
    BY <1>4
  <2> QED
    BY <1>3, <2>1
<1>6. /\ Text(line, "OBJECT_KIND") = TextNr(line, 4)
      /\ \A d : Given(line, "OBJECT_KIND", d) = Nr(line, 4, d)
  <2>1. \A k \in 1 .. 21 : FieldIds[k] = "OBJECT_KIND" <=> k = 4 - 2
    BY <1>4
  <2> QED
    BY <1>3, <2>1
<1>7. /\ Text(line, "UNIT") = TextNr(line, 5)
      /\ \A d : Given(line, "UNIT", d) = Nr(line, 5, d)
  <2>1. \A k \in 1 .. 21 : FieldIds[k] = "UNIT" <=> k = 5 - 2
    BY <1>4
  <2> QED
    BY <1>3, <2>1
<1>8. /\ Text(line, "OBJECT_CODE") = TextNr(line, 6)
      /\ \A d : Given(line, "OBJECT_CODE", d) = Nr(line, 6, d)
  <2>1. \A k \in 1 .. 21 : FieldIds[k] = "OBJECT_CODE" <=> k = 6 - 2
    BY <1>4
  <2> QED
    BY <1>3, <2>1
<1>9. /\ Text(line, "DATA_TYPE") = TextNr(line, 8)
      /\ \A d : Given(line, "DATA_TYPE", d) = Nr(line, 8, d)
  <2>1. \A k \in 1 .. 21 : FieldIds[k] = "DATA_TYPE" <=> k = 8 - 2
    BY <1>4
  <2> QED
    BY <1>3, <2>1
<1>10. /\ Text(line, "MIN_ELEMENTS") = TextNr(line, 12)
      /\ \A d : Given(line, "MIN_ELEMENTS", d) = Nr(line, 12, d)
  <2>1. \A k \in 1 .. 21 : FieldIds[k] = "MIN_ELEMENTS" <=> k = 12 - 2
    BY <1>4
  <2> QED
    BY <1>3, <2>1
<1>11. /\ Text(line, "MAX_ELEMENTS") = TextNr(line, 14)
      /\ \A d : Given(line, "MAX_ELEMENTS", d) = Nr(line, 14, d)
  <2>1. \A k \in 1 .. 21 : FieldIds[k] = "MAX_ELEMENTS" <=> k = 14 - 2
    BY <1>4
  <2> QED
    BY <1>3, <2>1
<1>12. /\ Text(line, "LOW_LIMIT") = TextNr(line, 16)
      /\ \A d : Given(line, "LOW_LIMIT", d) = Nr(line, 16, d)
  <2>1. \A k \in 1 .. 21 : FieldIds[k] = "LOW_LIMIT" <=> k = 16 - 2
    BY <1>4
  <2> QED
    BY <1>3, <2>1
<1>13. /\ Text(line, "HIGH_LIMIT") = TextNr(line, 18)
      /\ \A d : Given(line, "HIGH_LIMIT", d) = Nr(line, 18, d)
  <2>1. \A k \in 1 .. 21 : FieldIds[k] = "HIGH_LIMIT" <=> k = 18 - 2
    BY <1>4
  <2> QED
    BY <1>3, <2>1
<1>14. /\ Text(line, "DEFAULT_VALUE") = TextNr(line, 20)
      /\ \A d : Given(line, "DEFAULT_VALUE", d) = Nr(line, 20, d)
  <2>1. \A k \in 1 .. 21 : FieldIds[k] = "DEFAULT_VALUE" <=> k = 20 - 2
    BY <1>4
  <2> QED
    BY <1>3, <2>1
<1>15. /\ Text(line, "MAPPABLE") = TextNr(line, 22)
      /\ \A d : Given(line, "MAPPABLE", d) = Nr(line, 22, d)
  <2>1. \A k \in 1 .. 21 : FieldIds[k] = "MAPPABLE" <=> k = 22 - 2
    BY <1>4
  <2> QED
    BY <1>3, <2>1
<1> QED
  BY <1>5, <1>6, <1>7, <1>8, <1>9, <1>10, <1>11, <1>12, <1>13, <1>14, <1>15

(* The entry of a line, field by field.                                    *)
LEMMA EntryHas ==
    ASSUME NEW line
    PROVE  LET e == EntryOf(line) IN
           /\ e.sub = IF IsHeader(line) THEN 0 ELSE line.sub % 256
           /\ e.desc = Text(line, "PARAMETER_NAME") /\ e.unit = Text(line, "UNIT")
           /\ e.kind = Given(line, "OBJECT_KIND", "optional")
           /\ e.code = Given(line, "OBJECT_CODE", "DOMAIN")
           /\ e.type = DataType(Given(line, "DATA_TYPE", Empty))
           /\ e.min = Number8(line, "MIN_ELEMENTS") /\ e.max = Number8(line, "MAX_ELEMENTS")
           /\ e.low = Given(line, "LOW_LIMIT", 0) /\ e.high = Given(line, "HIGH_LIMIT", 0)
           /\ e.default = IF Has(line, "DEFAULT_VALUE") THEN DefaultValue(Field(line, "DEFAULT_VALUE"))
                          ELSE [bit31 |-> FALSE, value |-> 0]
           /\ e.mappable = Mappable(Given(line, "MAPPABLE", Empty))
BY DEF EntryOf, init_codb_entry

(* A number of few enough digits is kept as it is.                         *)
LEMMA DigitsKept ==
    ASSUME NEW n
    PROVE  /\ Digits(n, 256) => n % 256 = n
           /\ Digits(n, 65536) => n % 65536 = n
BY DEF Digits

(* What a sub-index of the document says is what its line says.            *)
LEMMA SubIndexToldIs ==
    ASSUME NEW line, Places(line) \subseteq DOMAIN FieldIds, InFormat(line)
    PROVE  SubIndexTold(add_sub_index_to_object(EntryOf(line))) = SubIndexOf(line)
<1>1. PICK e : e = EntryOf(line)
  OBVIOUS
<1>2. e.sub = IF line.sub = NoSub THEN 0 ELSE line.sub
  <2>1. e.sub = IF line.sub = NoSub THEN 0 ELSE line.sub % 256
    BY <1>1, EntryHas DEF IsHeader
  <2>2. line.sub = NoSub \/ Digits(line.sub, 256)
    BY SMT DEF InFormat
  <2> QED
    BY <2>1, <2>2, DigitsKept
<1>3. e.desc = TextNr(line, 3) /\ e.kind = Nr(line, 4, "optional") /\ e.unit = TextNr(line, 5)
  BY <1>1, EntryHas, FieldOfNr
<1>4. e.type = IF Nr(line, 8, Empty) = Empty THEN "NONE_T" ELSE Nr(line, 8, Empty)
  BY <1>1, EntryHas, FieldOfNr DEF DataType
<1>5. e.low = Nr(line, 16, 0) /\ e.high = Nr(line, 18, 0)
  BY <1>1, EntryHas, FieldOfNr
<1>6. e.default = DefaultValue(Nr(line, 20, [nodeid |-> FALSE, bit31 |-> FALSE, value |-> 0]))
  <2>1. PICK none : none = [nodeid |-> FALSE, bit31 |-> FALSE, value |-> 0]
    OBVIOUS
  <2>2. DefaultValue(none) = [bit31 |-> FALSE, value |-> 0]
    BY <2>1 DEF DefaultValue
  <2>3. Given(line, "DEFAULT_VALUE", none) = Nr(line, 20, none)
    BY FieldOfNr
  <2>4. e.default = DefaultValue(Given(line, "DEFAULT_VALUE", none))
    <3>1. e.default = IF Has(line, "DEFAULT_VALUE") THEN DefaultValue(Field(line, "DEFAULT_VALUE"))
                      ELSE [bit31 |-> FALSE, value |-> 0]
      BY <1>1, EntryHas
    <3>2. CASE Has(line, "DEFAULT_VALUE")
      BY <3>1, <3>2 DEF Given
    <3>3. CASE ~Has(line, "DEFAULT_VALUE")
      BY <2>2, <3>1, <3>3 DEF Given
    <3> QED
      BY <3>2, <3>3
  <2> QED
    BY <2>1, <2>3, <2>4
<1>7. e.mappable = (Nr(line, 22, "n") = "y")
  <2>1. e.mappable = (Given(line, "MAPPABLE", Empty) = "y")
    BY <1>1, EntryHas DEF Mappable
  <2>2. Given(line, "MAPPABLE", Empty) = Nr(line, 22, Empty)
    BY FieldOfNr
  <2>3. Nr(line, 22, Empty) = "y" <=> Nr(line, 22, "n") = "y"
    BY DEF Nr, Empty
  <2> QED
    BY <2>1, <2>2, <2>3
<1>8. PICK sub : sub = add_sub_index_to_object(e)
  OBVIOUS
<1>9. /\ sub.index = e.sub /\ sub.desc = e.desc /\ sub.kind = e.kind /\ sub.unit = e.unit
      /\ sub.type = e.type /\ sub.low = e.low /\ sub.high = e.high /\ sub.default = e.default
      /\ sub.mappable = e.mappable
  BY <1>8 DEF add_sub_index_to_object
<1>10. SubIndexTold(sub) = SubIndexOf(line)
  BY <1>2, <1>3, <1>4, <1>5, <1>6, <1>7, <1>9 DEF SubIndexTold, SubIndexOf
<1> QED
  BY <1>1, <1>8, <1>10

(* The lines in their order are lines of the file.                         *)
LEMMA LinesInOrder ==
    ASSUME file \in Profiles, NEW i
    PROVE  /\ Len(LinesOf(i)) \in Nat /\ DOMAIN LinesOf(i) = 1 .. Len(LinesOf(i))
           /\ \A n \in 1 .. Len(LinesOf(i)) : LinesOf(i)[n] \in EntryPlaces /\ IndexAt(LinesOf(i)[n]) = i
<1> DEFINE B == {k \in EntryPlaces : IndexAt(k) = i}
<1>1. Len(file) \in Nat /\ EntryPlaces \in SUBSET (1 .. Len(file))
  BY FileIsSequence DEF EntryPlaces
<1>2. IsFiniteSet(B) /\ B \in SUBSET Nat
  <2> HIDE DEF B
  <2>1. B \in SUBSET EntryPlaces
    <3> USE DEF B
    <3> QED
      OBVIOUS
  <2>2. IsFiniteSet(1 .. Len(file))
    BY <1>1, FS_Interval
  <2>3. B \in SUBSET (1 .. Len(file))
    BY <1>1, <2>1
  <2>4. IsFiniteSet(B)
    BY <2>2, <2>3, FS_Subset
  <2> QED
    BY <1>1, <2>3, <2>4
<1>3. \A k \in B : k \in EntryPlaces /\ IndexAt(k) = i
  OBVIOUS
<1>4. LinesOf(i) = InOrder(B)
  BY DEF LinesOf
<1> HIDE DEF B
<1>5. Cardinality(B) \in Nat /\ InOrder(B) \in [1 .. Cardinality(B) -> B]
  BY <1>2, InOrderIsInverse
<1>6. Len(InOrder(B)) = Cardinality(B) /\ DOMAIN InOrder(B) = 1 .. Cardinality(B)
  BY <1>5, PlacesOfSequence
<1> QED
  BY <1>3, <1>4, <1>5, <1>6

LEMMA StartsInOrder ==
    ASSUME file \in Profiles, NEW n,
           LET starts == InOrder({k \in DOMAIN file : Starts(k)})
           IN  Len(json) = Len(starts) /\ n \in DOMAIN json /\ DOMAIN json = 1 .. Len(json)
    PROVE  LET starts == InOrder({k \in DOMAIN file : Starts(k)})
           IN  Starts(starts[n]) /\ starts[n] \in DOMAIN file
<1> DEFINE B == {k \in DOMAIN file : Starts(k)}
<1>1. Len(file) \in Nat /\ DOMAIN file = 1 .. Len(file)
  BY FileIsSequence
<1>2. IsFiniteSet(B) /\ B \in SUBSET Nat
  <2> HIDE DEF Starts
  <2>1. B \in SUBSET (1 .. Len(file)) /\ IsFiniteSet(1 .. Len(file))
    BY <1>1, FS_Interval
  <2> QED
    BY <1>1, <2>1, FS_Subset
<1>3. \A k \in B : k \in DOMAIN file /\ Starts(k)
  OBVIOUS
<1>4. n \in 1 .. Len(InOrder(B))
  OBVIOUS
<1> HIDE DEF B
<1>5. Cardinality(B) \in Nat /\ InOrder(B) \in [1 .. Cardinality(B) -> B]
  BY <1>2, InOrderIsInverse
<1>6. Len(InOrder(B)) = Cardinality(B)
  BY <1>5, PlacesOfSequence
<1>7. InOrder(B)[n] \in B
  BY <1>4, <1>5, <1>6
<1> QED
  BY <1>3, <1>7 DEF B

(* What an object of the document says is what its lines say.              *)
LEMMA ToldAsDescribed ==
    ASSUME file \in Profiles, NEW k \in EntryPlaces, Starts(k),
           \A m \in EntryPlaces : IndexAt(m) = IndexAt(k) => InFormat(LineAt(m))
    PROVE  Told(AsRead(k)) = Described(k)
<1>1. PICK line : line = LineAt(k)
  OBVIOUS
<1>2. PICK lines : lines = LinesOf(IndexAt(k))
  OBVIOUS
<1>3. \A m \in EntryPlaces : Places(LineAt(m)) \subseteq DOMAIN FieldIds
  <2> SUFFICES ASSUME NEW m \in EntryPlaces PROVE Places(LineAt(m)) \subseteq DOMAIN FieldIds
    OBVIOUS
  <2>1. file[m] \in DOMAIN Lines /\ IsEntry(Lines[file[m]])
    <3>1. file \in Seq(DOMAIN Lines)
      BY ConvertAssumption
    <3> QED
      BY <3>1 DEF EntryPlaces, LineAt
  <2> QED
    BY <2>1, ConvertAssumption DEF LineAt
<1>4. \A m \in EntryPlaces : IndexAt(m) = IndexAt(k) =>
         SubIndexTold(add_sub_index_to_object(EntryOf(LineAt(m)))) = SubIndexOf(LineAt(m))
  BY <1>3, SubIndexToldIs
<1>5. /\ Len(lines) \in Nat
      /\ \A n \in 1 .. Len(lines) : lines[n] \in EntryPlaces /\ IndexAt(lines[n]) = IndexAt(k)
  BY <1>2, LinesInOrder
<1>6. InFormat(line) /\ IsHeader(line) /\ Places(line) \subseteq DOMAIN FieldIds
  BY <1>1, <1>3, LineKinds DEF EntryPlaces
<1>7. PICK subs : subs = [n \in 1 .. Len(lines) - 1 |-> add_sub_index_to_object(EntryOf(LineAt(lines[n + 1])))]
  OBVIOUS
<1>8. PICK told : told = [n \in 1 .. Len(lines) - 1 |-> SubIndexOf(LineAt(lines[n + 1]))]
  OBVIOUS
<1>9. DOMAIN subs = DOMAIN told /\ told = [n \in DOMAIN subs |-> SubIndexTold(subs[n])]
  <2>1. \A n \in 1 .. Len(lines) - 1 : n + 1 \in 1 .. Len(lines)
    BY <1>5
  <2>2. \A n \in 1 .. Len(lines) - 1 : SubIndexTold(subs[n]) = told[n]
    BY <1>4, <1>5, <1>7, <1>8, <2>1
  <2> QED
    BY <1>7, <1>8, <2>2
<1>10. subs = <<>> <=> told = <<>>
  <2>1. Len(lines) - 1 \in Nat \/ Len(lines) = 0
    BY <1>5
  <2>2. \A f : f = <<>> => DOMAIN f = {}
    OBVIOUS
  <2>3. \A f : f = [x \in DOMAIN f |-> f[x]] /\ DOMAIN f = {} => f = <<>>
    <3>1. <<>> = [x \in {} |-> 0]
      OBVIOUS
    <3> QED
      BY <3>1
  <2>4. subs = [x \in DOMAIN subs |-> subs[x]] /\ told = [x \in DOMAIN told |-> told[x]]
    BY <1>7, <1>8
  <2> QED
    BY <1>9, <2>2, <2>3, <2>4
<1>11. PICK own : own = EntryOf(line)
  OBVIOUS
<1>12. PICK all : all = IF subs = <<>> THEN <<add_sub_index_to_object(own)>> ELSE subs
  OBVIOUS
<1>13. [n \in DOMAIN all |-> SubIndexTold(all[n])] = IF told = <<>> THEN <<SubIndexOf(line)>> ELSE told
  <2>1. CASE subs = <<>>
    <3>1. SubIndexTold(add_sub_index_to_object(own)) = SubIndexOf(line)
      BY <1>1, <1>4, <1>11
    <3>2. \A x : <<x>> = [n \in {1} |-> x] /\ DOMAIN <<x>> = {1} /\ <<x>>[1] = x
      OBVIOUS
    <3>3. all = <<add_sub_index_to_object(own)>>
      BY <1>12, <2>1
    <3>4. [n \in DOMAIN all |-> SubIndexTold(all[n])] = [n \in {1} |-> SubIndexOf(line)]
      BY <3>1, <3>2, <3>3
    <3> QED
      BY <1>10, <2>1, <3>2, <3>4
  <2>2. CASE subs # <<>>
    BY <1>9, <1>10, <1>12, <2>2
  <2> QED
    BY <2>1, <2>2
<1>14. PICK o : o = ObjectOf(own, all)
  OBVIOUS
<1>15. /\ o.id = line.text /\ o.index = line.index
  <2>1. o.id = NameOf(line) /\ o.index = Index(line)
    BY <1>11, <1>14, ObjectWritten, EntryIs
  <2>2. Digits(line.index, 65536)
    BY <1>6, SMT DEF InFormat
  <2>3. NameOf(line) = line.text
    BY <1>6, Zenon DEF NameOf
  <2>4. Index(line) = line.index
    BY <2>2, DigitsKept, SMT DEF Index
  <2> QED
    BY <2>1, <2>3, <2>4
<1>16. /\ o.desc = TextNr(line, 3) /\ o.kind = Nr(line, 4, "optional") /\ o.code = Nr(line, 6, "DOMAIN")
       /\ o.sub_indices = all
  BY <1>6, <1>11, <1>14, ObjectWritten, EntryHas, FieldOfNr
<1>17. o.min = Nr(line, 12, 0) /\ o.max = Nr(line, 14, 0)
  <2>1. o.min = Nr(line, 12, 0) % 256 /\ o.max = Nr(line, 14, 0) % 256
    BY <1>6, <1>11, <1>14, ObjectWritten, EntryHas, FieldOfNr DEF Number8
  <2>2. Digits(Nr(line, 12, 0), 256) /\ Digits(Nr(line, 14, 0), 256)
    BY <1>6, SMT DEF InFormat
  <2> QED
    BY <2>1, <2>2, DigitsKept
<1>18. AsRead(k) = o
  BY <1>1, <1>2, <1>7, <1>11, <1>12, <1>14 DEF AsRead
<1>19. Described(k) =
         [id |-> line.text, index |-> line.index, desc |-> TextNr(line, 3),
          kind |-> Nr(line, 4, "optional"), code |-> Nr(line, 6, "DOMAIN"),
          min |-> Nr(line, 12, 0), max |-> Nr(line, 14, 0),
          sub_indices |-> IF told = <<>> THEN <<SubIndexOf(line)>> ELSE told]
  BY <1>1, <1>2, <1>8 DEF Described
<1>20. Told(o) = Described(k)
  BY <1>13, <1>15, <1>16, <1>17, <1>19 DEF Told
<1> QED
  BY <1>18, <1>20

(* For every profile whose objects are grouped, of whatever lines, copies  *)
(* and copies of copies, and where no allocation failed unnoticed: the     *)
(* JSON file has every object of it, in its order, with what its lines say *)
(* and its own sub-indices.                                                *)
THEOREM DocumentCorrect == Spec => []DocumentIsWhole
<1>1. IInv /\ DocInv => DocumentIsWhole
  <2> SUFFICES ASSUME IInv, DocInv, pc = "done", lost = {}, Grouped
               PROVE  LET starts == InOrder({k \in DOMAIN file : Starts(k)}) IN
                      /\ Len(json) = Len(starts)
                      /\ \A n \in DOMAIN json :
                            /\ starts[n] \in EntryPlaces
                                  /\ (\A k \in EntryPlaces :
                                          IndexAt(k) = IndexAt(starts[n]) => InFormat(LineAt(k)))
                                  => Told(json[n]) = Described(starts[n])
                            /\ starts[n] \in CopyPlaces =>
                                  \E m \in 1 .. n - 1 :
                                     /\ IndexAt(starts[m]) = LineAt(starts[n]).source
                                     /\ json[n] = [json[m] EXCEPT !.id = HexName[IndexAt(starts[n])],
                                                                  !.index = IndexAt(starts[n])]
    BY DEF DocumentIsWhole
  <2> DEFINE starts == InOrder({k \in DOMAIN file : Starts(k)})
  <2>1. Whole /\ file \in Profiles
    BY DEF DocInv, IInv, TypeOK
  <2>2. Len(json) = Len(starts)
    BY <2>1 DEF Whole
  <2>3. \A n \in DOMAIN json :
           /\ starts[n] \in EntryPlaces => json[n] = AsRead(starts[n])
           /\ starts[n] \in CopyPlaces =>
                 \E m \in 1 .. n - 1 :
                    /\ IndexAt(starts[m]) = LineAt(starts[n]).source
                    /\ json[n] = [json[m] EXCEPT !.id = HexName[IndexAt(starts[n])],
                                                 !.index = IndexAt(starts[n])]
    BY <2>1 DEF Whole
  <2>4. \A n \in DOMAIN json : Starts(starts[n]) /\ starts[n] \in DOMAIN file
    BY <2>1, StartsInOrder DEF Whole
  <2>5. ASSUME NEW n \in DOMAIN json, starts[n] \in EntryPlaces,
               \A k \in EntryPlaces : IndexAt(k) = IndexAt(starts[n]) => InFormat(LineAt(k))
        PROVE  Told(json[n]) = Described(starts[n])
    <3> HIDE DEF starts
    <3>1. Told(AsRead(starts[n])) = Described(starts[n])
      BY <2>1, <2>4, <2>5, ToldAsDescribed
    <3> QED
      BY <2>3, <2>5, <3>1
  <2> HIDE DEF starts
  <2>6. \A n \in DOMAIN json :
           /\ starts[n] \in EntryPlaces
                 /\ (\A k \in EntryPlaces : IndexAt(k) = IndexAt(starts[n]) => InFormat(LineAt(k)))
                 => Told(json[n]) = Described(starts[n])
           /\ starts[n] \in CopyPlaces =>
                 \E m \in 1 .. n - 1 :
                    /\ IndexAt(starts[m]) = LineAt(starts[n]).source
                    /\ json[n] = [json[m] EXCEPT !.id = HexName[IndexAt(starts[n])],
                                                 !.index = IndexAt(starts[n])]
    BY <2>3, <2>5
  <2> QED
    BY <2>2, <2>6 DEF starts
<1>2. IInv /\ DocInv /\ [Next]_vars => DocInv'
  <2> SUFFICES ASSUME IInv, DocInv, [Next]_vars PROVE DocInv'
    OBVIOUS
  <2>1. CASE Reject
    BY <2>1, DocFail DEF Reject
  <2>2. CASE Ended
    BY <2>2, DocSame DEF Ended
  <2>3. CASE UNCHANGED vars
    BY <2>3, DocSame
  <2> QED
    BY <2>1, <2>2, <2>3, DocCount, DocAllocate, DocRead, DocOpen, DocWrite, DocFinish DEF Next
<1> QED
  BY <1>1, <1>2, DocInit, Inductive, PTL DEF Spec
=============================================================================
