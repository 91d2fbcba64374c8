------------------------------ MODULE Convert ------------------------------
(***************************************************************************)
(* codb2json (src/src/codb2json/codb2json.c), from the command line to the *)
(* JSON file: the profile is read twice, once to count its entries and     *)
(* once to fill them in; copies of objects make room as they come.         *)
(*                                                                         *)
(* Where the code looks at what an allocation returned, a failed one ends  *)
(* the program.  Where it does not, the program goes on without what was   *)
(* to be allocated: lost is the set of these, of at most MaxLost.          *)
(***************************************************************************)
EXTENDS CodbLine, FiniteSets, Ordered

CONSTANTS
    Profiles,   \* the files: sequences of names of lines
    Trouble,    \* what may fail: "open", "memory", "create", "print"
    MaxLost     \* bound: failed allocations the program does not notice

ASSUME ConvertAssumption ==
    /\ \A name \in DOMAIN Lines :      \* the name of an object is not null
          /\ IsEntry(Lines[name]) => /\ Lines[name].text # None
                                     /\ Places(Lines[name]) \subseteq DOMAIN FieldIds
          /\ IsCopy(Lines[name]) => HexName[Lines[name].dest] # None
    /\ Profiles \subseteq Seq(DOMAIN Lines)
    /\ Trouble \subseteq {"open", "memory", "create", "print"}
    /\ MaxLost \in Nat

VARIABLES
    file,       \* the profile
    pc,         \* where the program is
    at,         \* the line, or the entry, it has come to
    count,      \* entry_count
    entries,    \* codb_db->entries, total_entries of them
    current,    \* current_entry
    json,       \* the array of objects
    output,     \* the JSON file: "old", "empty", "written" or "spoiled"
    lost        \* what could not be allocated, unnoticed

vars == <<file, pc, at, count, entries, current, json, output, lost>>

Blank == init_codb_entry
LineAt(k) == Lines[file[k]]

Init ==
    /\ file \in Profiles
    /\ pc = "check" /\ at = 1 /\ count = 0 /\ entries = <<>> /\ current = 0
    /\ json = <<>> /\ output = "old" /\ lost = {}

(* os_exit(EXIT_FAILURE).                                                  *)
Fail == pc' = "failed" /\ UNCHANGED <<file, at, count, entries, current, json, output, lost>>

(* The sets of allocations of X that may fail together.                    *)
Losses(X) ==
    LET upTo[n \in 0 .. MaxLost] ==
            IF n = 0 THEN {{}} ELSE upTo[n - 1] \cup {S \cup {x} : S \in upTo[n - 1], x \in X}
    IN  IF "memory" \in Trouble THEN upTo[MaxLost - Cardinality(lost)] ELSE {{}}
Lose(S) == lost' = lost \cup ({<<pc, at>>} \X S)

-----------------------------------------------------------------------------
(* is_codb_file, and the first pass.                                       *)

is_codb_file ==
    /\ pc = "check"
    /\ \/ "open" \in Trouble /\ Fail
       \/ (\E k \in DOMAIN file : ~IsCodb(LineAt(k))) /\ Fail
       \/ /\ \A k \in DOMAIN file : IsCodb(LineAt(k))
          /\ pc' = "count"
          /\ UNCHANGED <<file, at, count, entries, current, json, output, lost>>

CountLine ==
    /\ pc = "count" /\ at \in DOMAIN file
    /\ at' = at + 1
    /\ count' = IF Counted(LineAt(at)) THEN count + 1 ELSE count
    /\ UNCHANGED <<file, pc, entries, current, json, output, lost>>

(* mutant: the JSON file is opened already.                                *)
AllocateAndOpen ==
    /\ pc = "count" /\ at \notin DOMAIN file
    /\ pc' = "read" /\ at' = 1 /\ output' = "empty"
    /\ entries' = [k \in 1 .. count |-> Blank]
    /\ UNCHANGED <<file, count, current, json, lost>>

Allocate ==
    /\ pc = "count" /\ at \notin DOMAIN file
    /\ \/ "memory" \in Trouble /\ Fail
       \/ /\ pc' = "read" /\ at' = 1
          /\ entries' = [k \in 1 .. count |-> Blank]
          /\ UNCHANGED <<file, count, current, json, output, lost>>

-----------------------------------------------------------------------------
(* The second pass: a line at a time.                                      *)

Reading == pc = "read" /\ at \in DOMAIN file
Line    == LineAt(at)

SkipLine ==
    /\ Reading /\ Line.kind = "comment"
    /\ at' = at + 1
    /\ UNCHANGED <<file, pc, count, entries, current, json, output, lost>>

NewName(line)     == IsHeader(line) => \A k \in DOMAIN entries : entries[k].name # NameOf(line)
HasRoom           == current < Len(entries)
Convertible(line) == WellFormed(line) /\ NewName(line) /\ HasRoom

(* The name of an object is not looked at again: without it the entry is   *)
(* like that of a sub-index.                                               *)
Nameless(entry, S) == IF "name" \in S THEN [entry EXCEPT !.name = None] ELSE entry

ReadEntry ==
    /\ Reading /\ IsEntry(Line) /\ Convertible(Line)
    /\ at' = at + 1 /\ current' = current + 1
    /\ \E S \in Losses(IF IsHeader(Line) THEN {"name"} ELSE {}) :
          /\ entries' = [entries EXCEPT ![current + 1] = Nameless(EntryOf(Line), S)]
          /\ Lose(S)
    /\ UNCHANGED <<file, pc, count, json, output>>

(* The entries of an index so far, and the j-th of a set of them.          *)
EntriesOf(index) == {k \in DOMAIN entries : entries[k].main = index}
Nth(places, j)   == CHOOSE k \in places : Cardinality({m \in places : m <= k}) = j

Copied(entry, dest) ==
    [entry EXCEPT !.main = dest, !.name = IF entry.name # None THEN HexName[dest] ELSE None]

Copyable(line) == line.equals /\ line.source # line.dest /\ EntriesOf(line.source) # {}

(* The texts of the copies, by their places; one that could not be         *)
(* duplicated is null, as if there was none.                               *)
Texts == {"name", "desc", "unit"}
TextsOf(entry)    == {t \in Texts : entry[t] # None}
Kept(entry, k, S) == [f \in DOMAIN entry |-> IF <<k, f>> \in S THEN None ELSE entry[f]]

(* mutant: the room for the copies is not added.                           *)
CopyInPlace(S) ==
    LET places == EntriesOf(Line.source)
        n      == Cardinality(places)
    IN  /\ current' = current + n
        /\ entries' = [k \in 1 .. Len(entries) |->
                          IF k \in current + 1 .. current + n
                          THEN Kept(Copied(entries[Nth(places, k - current)], Line.dest), k, S)
                          ELSE entries[k]]

(* Room for as many entries as the source has is added at the end, and     *)
(* they are written from the current entry on.  An index of 0 is that of   *)
(* the entries not read yet, which are then copied onto themselves.        *)
MakeCopies(S) ==
    LET places == EntriesOf(Line.source)
        n      == Cardinality(places)
    IN  /\ current' = current + n
        /\ entries' = [k \in 1 .. Len(entries) + n |->
                          IF k \in current + 1 .. current + n
                          THEN Kept(Copied(entries[Nth(places, k - current)], Line.dest), k, S)
                          ELSE IF k <= Len(entries) THEN entries[k] ELSE Blank]

Duplicated ==
    LET places == EntriesOf(Line.source)
    IN  UNION {{current + j} \X TextsOf(entries[Nth(places, j)]) : j \in 1 .. Cardinality(places)}

CopyObject ==
    /\ Reading /\ IsCopy(Line) /\ Copyable(Line)
    /\ at' = at + 1
    /\ \E S \in Losses(Duplicated) : MakeCopies(S) /\ Lose(S)
    /\ UNCHANGED <<file, pc, count, json, output>>

(* What is looked at: the texts of a line and the codes in upper case, and *)
(* the room for copies.                                                    *)
NeedsMemory(line) ==
    \/ IsCopy(line)
    \/ /\ IsEntry(line)
       /\ \/ \E id \in {"PARAMETER_NAME", "UNIT"} : Text(line, id) # None
          \/ \E id \in {"OBJECT_CODE", "DATA_TYPE"} : Has(line, id)

(* Every error that is noticed ends the program.                           *)
Reject ==
    /\ Reading
    /\ \/ Line.kind = "long"
       \/ IsEntry(Line) /\ ~Convertible(Line)
       \/ IsCopy(Line) /\ ~Copyable(Line)
       \/ "memory" \in Trouble /\ NeedsMemory(Line)
    /\ Fail

-----------------------------------------------------------------------------
(* write_json.  The file is emptied when it is opened, before there is     *)
(* memory for the array.                                                   *)

OpenOutput ==
    /\ pc = "read" /\ at \notin DOMAIN file
    /\ \/ "create" \in Trouble /\ Fail
       \/ /\ \/ pc' = "write" /\ at' = 1
             \/ "memory" \in Trouble /\ pc' = "failed" /\ at' = at
          /\ output' = "empty"
          /\ UNCHANGED <<file, count, entries, current, json, lost>>

(* A text that is null is no member of the JSON object.                    *)
add_sub_index_to_object(e) ==
    [index |-> e.sub, desc |-> e.desc, kind |-> e.kind, unit |-> e.unit, type |-> e.type,
     access |-> e.access, low |-> e.low, high |-> e.high, default |-> e.default,
     mappable |-> e.mappable]

ObjectOf(e, subs) ==
    [id |-> e.name, index |-> e.main, code |-> e.code, code_attr |-> e.code_attr,
     min |-> e.min, max |-> e.max, desc |-> e.desc, kind |-> e.kind, sub_indices |-> subs]

SameObject(j, k) == k \in DOMAIN entries /\ \A m \in j .. k : entries[m].main = entries[j].main

(* mutant: an object takes the entry after its last one, too.              *)
OneMore(j) == LET last == CHOOSE k \in DOMAIN entries : SameObject(j, k) /\ ~SameObject(j, k + 1)
              IN  IF last = j THEN <<add_sub_index_to_object(entries[j])>>
                  ELSE [k \in 1 .. last - j + 1 |-> add_sub_index_to_object(entries[j + k - 1])]

(* The entries that follow one of the same index, or the only one.         *)
SubIndices(j) == LET last == CHOOSE k \in DOMAIN entries : SameObject(j, k) /\ ~SameObject(j, k + 1)
                 IN  IF last = j THEN <<add_sub_index_to_object(entries[j])>>
                     ELSE [k \in 1 .. last - j |-> add_sub_index_to_object(entries[j + k])]

write_json_entry(j) == ObjectOf(entries[j], SubIndices(j))

(* The members of an object, 0, and of its sub-indices: one that could not *)
(* be created or added, as a whole or in part, is left out.                *)
Members(object) ==
    ({0} \X DOMAIN object) \cup
        UNION {{k} \X DOMAIN object.sub_indices[k] : k \in DOMAIN object.sub_indices}
WithMembers(record, k, S) == [f \in {g \in DOMAIN record : <<k, g>> \notin S} |-> record[f]]
Without(object, S) ==
    WithMembers([object EXCEPT !.sub_indices = [k \in DOMAIN @ |-> WithMembers(@[k], k, S)]], 0, S)

(* Only an object, a sub-index or the array of these that cannot be made   *)
(* ends the program.                                                       *)
WriteEntry ==
    /\ pc = "write" /\ at \in DOMAIN entries
    /\ \/ "memory" \in Trouble /\ entries[at].name # None /\ Fail
       \/ /\ at' = at + 1
          /\ IF entries[at].name # None
             THEN \E S \in Losses(Members(write_json_entry(at))) :
                     json' = Append(json, Without(write_json_entry(at), S)) /\ Lose(S)
             ELSE UNCHANGED <<json, lost>>
          /\ UNCHANGED <<file, pc, count, entries, current, output>>

(* Neither the text of the document nor its way to the file is looked at.  *)
Finish ==
    /\ pc = "write" /\ at \notin DOMAIN entries
    /\ pc' = "done" /\ entries' = <<>>
    /\ output' \in {"written"} \cup (IF Trouble \cap {"memory", "print"} # {} THEN {"spoiled"} ELSE {})
    /\ UNCHANGED <<file, at, count, current, json, lost>>

Ended == pc \in {"done", "failed"} /\ UNCHANGED vars

Next == is_codb_file \/ CountLine \/ Allocate \/ SkipLine \/ ReadEntry \/ CopyObject \/ Reject
           \/ OpenOutput \/ WriteEntry \/ Finish \/ Ended

Spec == Init /\ [][Next]_vars

-----------------------------------------------------------------------------
(* Properties.                                                             *)

(* Type invariant.                                                         *)
TypeOK ==
    /\ file \in Profiles
    /\ pc \in {"check", "count", "read", "write", "done", "failed"}
    /\ at \in Nat \ {0} /\ count \in Nat /\ current \in Nat
    /\ Len(entries) \in Nat /\ entries = [k \in 1 .. Len(entries) |-> entries[k]]
    /\ pc \in {"read", "write"} => current <= Len(entries)
    /\ output \in {"old", "empty", "written", "spoiled"}
    /\ lost # {} => "memory" \in Trouble

(* The lines from a place on that the first pass counts.                   *)
Left(n) == Cardinality({k \in n .. Len(file) : Counted(LineAt(k))})

(* There is room for exactly the entries that are still to be read: the    *)
(* first pass, the second and the copies agree, so that no line finds the  *)
(* room full and no entry that was never filled in is written.             *)
RoomForEveryEntry ==
    /\ pc = "count" => count + Left(at) = Left(1)
    /\ pc = "read"  => /\ current + Left(at) = Len(entries)
                       /\ \A k \in current + 1 .. Len(entries) : entries[k] = Blank
    /\ pc = "write" => current = Len(entries)

(* The profiles in which the entries of an object are together, its own    *)
(* first, and an index is copied once it is complete, to an unused one.    *)
EntryPlaces == {k \in DOMAIN file : IsEntry(LineAt(k))}
CopyPlaces  == {k \in DOMAIN file : IsCopy(LineAt(k))}
IndexAt(k)  == IF k \in CopyPlaces THEN LineAt(k).dest ELSE Index(LineAt(k))
Starts(k)   == k \in CopyPlaces \/ (k \in EntryPlaces /\ IsHeader(LineAt(k)))

Grouped ==
    /\ \A k \in EntryPlaces : \E h \in EntryPlaces :
          /\ h <= k /\ IndexAt(h) = IndexAt(k) /\ Starts(h)
          /\ \A m \in (h + 1 .. k) \ {j \in DOMAIN file : LineAt(j).kind = "comment"} :
                m \in EntryPlaces /\ IndexAt(m) = IndexAt(k) /\ ~Starts(m)
    /\ \A j, k \in DOMAIN file : Starts(j) /\ Starts(k) /\ IndexAt(j) = IndexAt(k) => j = k
    /\ \A c \in CopyPlaces : LineAt(c).source # 0 /\
          \A k \in EntryPlaces : IndexAt(k) = LineAt(c).source => k < c

(* The fields of a line by the numbers the file's description gives them,  *)
(* and the lines that keep to it: four digits for the index, two for the   *)
(* sub-index, at most 255 elements.                                        *)
Nr(line, n, default) == IF n - 2 \in Places(line) THEN line.fields[n - 2] ELSE default

Digits(n, room) == n \in Nat /\ n < room

InFormat(line) ==
    /\ Digits(line.index, 65536) /\ (line.sub = NoSub \/ Digits(line.sub, 256))
    /\ Digits(Nr(line, 12, 0), 256) /\ Digits(Nr(line, 14, 0), 256)

TextNr(line, n) == IF Nr(line, n, Empty) = Empty THEN None ELSE Nr(line, n, Empty)

(* A sub-index and an object as the description of the formats has them.   *)
SubIndexOf(line) ==
    [index |-> IF line.sub = NoSub THEN 0 ELSE line.sub,
     desc |-> TextNr(line, 3), kind |-> Nr(line, 4, "optional"), unit |-> TextNr(line, 5),
     type |-> IF Nr(line, 8, Empty) = Empty THEN "NONE_T" ELSE Nr(line, 8, Empty),
     low |-> Nr(line, 16, 0), high |-> Nr(line, 18, 0),
     default |-> DefaultValue(Nr(line, 20, [nodeid |-> FALSE, bit31 |-> FALSE, value |-> 0])),
     mappable |-> Nr(line, 22, "n") = "y"]

(* The lines of an index: the first is the object's own, the others are    *)
(* its sub-indices.                                                        *)
LinesOf(index) == InOrder({k \in EntryPlaces : IndexAt(k) = index})

Described(k) ==
    LET line  == LineAt(k)
        lines == LinesOf(IndexAt(k))
        subs  == [n \in 1 .. Len(lines) - 1 |-> SubIndexOf(LineAt(lines[n + 1]))]
    IN  [id |-> line.text, index |-> line.index, desc |-> TextNr(line, 3),
         kind |-> Nr(line, 4, "optional"), code |-> Nr(line, 6, "DOMAIN"),
         min |-> Nr(line, 12, 0), max |-> Nr(line, 14, 0),
         sub_indices |-> IF subs = <<>> THEN <<SubIndexOf(line)>> ELSE subs]

(* What the document says of these.  The attributes and the access type    *)
(* are left out, which the converter does not keep to (README).            *)
SubIndexTold(sub) ==
    [index |-> sub.index, desc |-> sub.desc, kind |-> sub.kind, unit |-> sub.unit,
     type |-> sub.type, low |-> sub.low, high |-> sub.high, default |-> sub.default,
     mappable |-> sub.mappable]
Told(object) ==
    [id |-> object.id, index |-> object.index, desc |-> object.desc, kind |-> object.kind,
     code |-> object.code, min |-> object.min, max |-> object.max,
     sub_indices |-> [n \in DOMAIN object.sub_indices |-> SubIndexTold(object.sub_indices[n])]]

(* When the JSON file was written and no allocation failed unnoticed, it   *)
(* has every object of such a file, in the order of the file and under its *)
(* own name and index, with what its lines say and with exactly its own    *)
(* sub-indices in their order; a copy is written as the object it was      *)
(* copied from, which may be a copy.                                       *)
DocumentIsWhole ==
    pc = "done" /\ output = "written" /\ lost = {} /\ Grouped =>
        LET starts == InOrder({k \in DOMAIN file : Starts(k)}) IN
        /\ Len(json) = Len(starts)
        /\ \A n \in DOMAIN json :
              /\ starts[n] \in EntryPlaces
                    /\ (\A k \in EntryPlaces : IndexAt(k) = IndexAt(starts[n]) => InFormat(LineAt(k)))
                    => Told(json[n]) = Described(starts[n])
              /\ starts[n] \in CopyPlaces =>
                    \E m \in 1 .. n - 1 :
                       /\ IndexAt(starts[m]) = LineAt(starts[n]).source
                       /\ json[n] = [json[m] EXCEPT !.id = HexName[IndexAt(starts[n])],
                                                    !.index = IndexAt(starts[n])]

(* A line without an error of its own.                                     *)
Acceptable(line) ==
    /\ line.kind \notin {"foreign", "long"}
    /\ IsEntry(line) => WellFormed(line)
    /\ IsCopy(line)  => line.equals /\ line.source # line.dest

(* A file that cannot be converted leaves the JSON file of an earlier      *)
(* conversion: it is opened when the whole profile has been read, and only *)
(* for one in which no line has an error.                                  *)
ErrorKeepsOldFile ==
    /\ pc \in {"check", "count", "read"} => output = "old"
    /\ output # "old" => \A k \in DOMAIN file : Acceptable(LineAt(k))
=============================================================================
