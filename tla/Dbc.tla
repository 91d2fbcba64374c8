-------------------------------- MODULE Dbc --------------------------------
(***************************************************************************)
(* The database of CAN messages (src/src/core/dbc.c): loading a DBC file   *)
(* line by line, finding a message, decoding a frame.                      *)
(*                                                                         *)
(* A file is the sequence of its lines.  A line that starts with BO_ has   *)
(* the identifier and the name of a message, one that starts with SG_ the  *)
(* name, first bit, length and byte order of a signal; other lines have no *)
(* effect.  A message has the size of the line it is decoded to, a signal  *)
(* that of its name and of its value with the unit.  A frame is the set of *)
(* the bits that are 1 in its 64.                                          *)
(***************************************************************************)
EXTENDS Integers, Sequences, SequencesExt, FiniteSetsExt, Ordered

CONSTANTS
    DbcFiles,     \* name -> the lines of that file
    NoFile,       \* no file, or one that cannot be opened
    Like,         \* the names a text is part of when case is ignored
    HasText,      \* the names a text is part of
    ResultSize,   \* the room for a decoded frame, in characters
    MaxNull       \* the most texts of a database there is no memory for

ASSUME DbcAssumption ==
    /\ \A file \in DOMAIN DbcFiles : DbcFiles[file] \in Seq(Range(DbcFiles[file]))
    /\ ResultSize \in Nat /\ MaxNull \in Nat

VARIABLES
    dbc,          \* the database: loaded or not, its messages, and which of
                  \* their texts are null for want of memory
    dbcFile,      \* the file named in the last call of dbc_load
    dbcLine       \* how many of its lines were read

dbcVars == <<dbc, dbcFile, dbcLine>>

NoDatabase    == [loaded |-> FALSE, messages |-> <<>>, null |-> {}]
EmptyDatabase == [loaded |-> TRUE, messages |-> <<>>, null |-> {}]

DbcInit == dbc = NoDatabase /\ dbcFile = NoFile /\ dbcLine = 0

LinesOf(file) == IF file = NoFile THEN <<>> ELSE DbcFiles[file]

-----------------------------------------------------------------------------
(* Loading.  Each way a load may end has its status.                       *)

dbc_unload == dbc' = NoDatabase
NothingLoaded == dbc_unload /\ dbcFile' = NoFile /\ dbcLine' = 0

LoadOver == dbc' = [dbc EXCEPT !.loaded = TRUE]   \* mutant: nothing is unloaded
StartEmpty == dbc' = EmptyDatabase

dbc_load(file) ==
    /\ StartEmpty
    /\ dbcFile' = file /\ dbcLine' = 0

(* The line "BO_ id name: ...".  The bit that marks an extended identifier *)
(* is masked.                                                              *)
Message(line) == [id |-> line.id, name |-> line.name, size |-> line.size, signals |-> <<>>]

AddLine(line) ==
    CASE line.kind = "BO_" -> Append(dbc.messages, Message(line))
      [] line.kind = "SG_" /\ dbc.messages # <<>> ->
            [dbc.messages EXCEPT ![Len(dbc.messages)].signals = Append(@, line.signal)]
      [] OTHER -> dbc.messages

(* The texts that are copied from a line, each with the number of its      *)
(* message and of its signal, 0 for the message itself.  No copy is looked *)
(* at: without memory for it the text is null, and loading goes on.        *)
Copied(line) ==
    LET last == Len(dbc.messages) IN
    CASE line.kind = "BO_" -> {<<last + 1, 0, "name">>}
      [] line.kind = "SG_" /\ last > 0 ->
            {last} \X {Len(dbc.messages[last].signals) + 1} \X {"name", "unit"}
      [] OTHER -> {}

AnotherLine == dbcLine < Len(LinesOf(dbcFile))
NextLine    == LinesOf(dbcFile)[dbcLine + 1]

ReadLine ==
    /\ AnotherLine
    /\ \E lost \in SUBSET Copied(NextLine) :
          /\ Cardinality(dbc.null \cup lost) <= MaxNull
          /\ dbc' = [dbc EXCEPT !.messages = AddLine(NextLine), !.null = @ \cup lost]
    /\ dbcLine' = dbcLine + 1
    /\ UNCHANGED dbcFile

(* Without memory for the message or the signal everything is released.    *)
NoMemoryForLine ==
    /\ AnotherLine /\ NextLine.kind # "other"
    /\ NothingLoaded

-----------------------------------------------------------------------------
(* Finding and decoding: the first message counts.                         *)

FirstWhere(Test(_)) == SelectInSeq(dbc.messages, Test)

(* Each name is copied to be compared without case.  The search ends at a  *)
(* null name, or wherever there is no memory for a copy.                   *)
NoId == -1
FindByName(search) ==
    LET Ends(m) == m.name \in Like[search] IN FirstWhere(Ends)
NullBefore(at) == \E k \in DOMAIN dbc.messages : (at = 0 \/ k <= at) /\ <<k, 0, "name">> \in dbc.null

Failed(status) == [status |-> status, id |-> NoId]

dbc_find_id_by_name(search) ==
    LET at == FindByName(search) IN
    IF ~dbc.loaded THEN {Failed("OS_INVALID_ARGUMENT")}
    ELSE {Failed("OS_MEMORY_ALLOCATION_ERROR")} \cup
            (IF NullBefore(at) THEN {}
             ELSE IF at = 0 THEN {Failed("ITEM_NOT_FOUND")}
             ELSE {[status |-> "ALL_OK", id |-> dbc.messages[at].id]})

(* Shifting by a negative number is undefined; the processors count modulo *)
(* the width, a compiler may take the value for 0.  So is shifting 1 by 64 *)
(* to make the mask of a signal of 64 bits.                                *)
Shifted(bits, n) == {b - n : b \in {c \in bits : c >= n}}
ShiftRight(bits, n) == IF n >= 0 THEN {Shifted(bits, n)} ELSE {Shifted(bits, n % 64), {}}
Masks(length) == IF length < 64 THEN {0 .. length - 1} ELSE {{}, 0 .. 63}

extract_raw_signal(frame, signal) ==
    LET shift == IF signal.intel THEN signal.start ELSE 64 - (signal.start + signal.length) IN
    {bits \cap mask : bits \in ShiftRight(frame, shift), mask \in Masks(signal.length)}

(* The signals whose name has the text asked for, each with its value.     *)
AnyName == "any name"
AsksFor(filter, signal) == filter = AnyName \/ signal.name \in HasText[filter]
Places(message, filter) == {j \in DOMAIN message.signals : AsksFor(filter, message.signals[j])}
Selected(message, filter) ==
    LET at == InOrder(Places(message, filter)) IN [k \in DOMAIN at |-> message.signals[at[k]]]

(* The line of a signal: name and blanks, 38 characters, then the value.   *)
(* LengthTo[k] is the length of the text with the first k of the signals.  *)
NameColumn == 38
LengthTo(message, shown) ==
    LET length[k \in 0 .. Len(shown)] ==
            IF k = 0 THEN message.size ELSE length[k - 1] + NameColumn + shown[k].size
    IN  length
FitsTo(message, shown, k) == \A j \in 0 .. k : LengthTo(message, shown)[j] < ResultSize

(* The null name of a message may print as such; a text too long is cut.   *)
NoName  == "null"
Nothing == [found |-> FALSE, name |-> NoName, signals |-> <<>>, cut |-> FALSE]

MessageOf(can_id) == LET IsIt(m) == m.id = can_id IN FirstWhere(IsIt)

dbc_decode(can_id, frame, filter) ==
    LET at    == MessageOf(can_id)
        shown == Selected(dbc.messages[at], filter)
        whole == {k \in DOMAIN shown : FitsTo(dbc.messages[at], shown, k)}
    IN IF at = 0 THEN {Nothing}
       ELSE {[found |-> TRUE, cut |-> ~FitsTo(dbc.messages[at], shown, Len(shown)),
              name |-> IF <<at, 0, "name">> \in dbc.null THEN NoName ELSE dbc.messages[at].name,
              signals |-> [k \in whole |-> [name |-> shown[k].name, value |-> values[k]]]] :
                values \in {v \in [DOMAIN shown -> UNION {extract_raw_signal(frame, shown[k]) :
                                                            k \in DOMAIN shown}] :
                              \A k \in DOMAIN shown : v[k] \in extract_raw_signal(frame, shown[k])}}

(* The function is left by no return when the name of a signal is null, or *)
(* too long to be followed by blanks.  It is undefined what printing a     *)
(* null name or unit does, and printing with a size below 0, past the end. *)
LongestName == 35
NeverReturns(at, filter) ==
    \/ \E j \in DOMAIN dbc.messages[at].signals : <<at, j, "name">> \in dbc.null
    \/ \E j \in Places(dbc.messages[at], filter) : dbc.messages[at].signals[j].chars > LongestName
PastTheEnd(message, shown) ==
    \E k \in DOMAIN shown : LengthTo(message, shown)[k - 1] + NameColumn > ResultSize

DecodeFails(can_id, filter) ==
    MessageOf(can_id) # 0 /\ NeverReturns(MessageOf(can_id), filter)
DecodeUndefined(can_id, filter) ==
    LET at == MessageOf(can_id) IN
    /\ at # 0
    /\ \/ NeverReturns(at, filter)
       \/ <<at, 0, "name">> \in dbc.null
       \/ \E j \in Places(dbc.messages[at], filter) : <<at, j, "unit">> \in dbc.null
       \/ PastTheEnd(dbc.messages[at], Selected(dbc.messages[at], filter))

-----------------------------------------------------------------------------
(* Type invariant of the database.                                         *)
DbcTypeOK ==
    /\ dbc.loaded \in BOOLEAN
    /\ dbcFile \in DOMAIN DbcFiles \cup {NoFile}
    /\ dbcLine \in 0 .. Len(LinesOf(dbcFile))

(* What a database of the lines read should be: a message for each BO_     *)
(* line, with the signals up to the next one.                              *)
MessageLines(lines) == {k \in DOMAIN lines : lines[k].kind = "BO_"}
SignalsAfter(lines, k) ==
    {j \in DOMAIN lines : lines[j].kind = "SG_" /\ j > k
                             /\ \A i \in MessageLines(lines) : i <= k \/ i > j}
SignalsOf(lines, k) ==
    LET of == InOrder(SignalsAfter(lines, k)) IN [j \in DOMAIN of |-> lines[of[j]].signal]
MessageAt(lines, k) ==
    [id |-> lines[k].id, name |-> lines[k].name, size |-> lines[k].size,
     signals |-> SignalsOf(lines, k)]
MessagesOf(lines) ==
    LET at == InOrder(MessageLines(lines)) IN [n \in DOMAIN at |-> MessageAt(lines, at[n])]
=============================================================================
