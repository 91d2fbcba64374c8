-------------------------------- MODULE Eds --------------------------------
(***************************************************************************)
(* The conformance test (src/src/core/eds.c): reading an electronic data   *)
(* sheet, then reading each of its objects from a node.                    *)
(*                                                                         *)
(* A file is the sequence of its keys, each with its section, as the INI   *)
(* parser hands them to parse_eds.  Sections gives the index and sub-index *)
(* of the sections that have both in their name; all others are left out.  *)
(* Of an entry only what the test looks at is kept.                        *)
(***************************************************************************)
EXTENDS Integers, Sequences, SequencesExt, FiniteSets, Ordered

CONSTANTS
    EdsFiles,     \* name -> the keys of that file
    MissingFile,  \* a name no file has
    Sections,     \* section -> [index, sub]
    SubsSize      \* the room for the sub-indices of an object, in characters

ASSUME EdsAssumption ==
    /\ SubsSize \in Nat \ {0}
    /\ \A file \in DOMAIN EdsFiles : EdsFiles[file] \in Seq(Range(EdsFiles[file]))
    /\ \A section \in DOMAIN Sections : Sections[section] \in [index : Nat, sub : Nat]

VARIABLES
    entries,      \* eds.entries and eds.num_entries
    entriesLost,  \* whether eds.entries is null though eds.num_entries counts some
    prev_section, \* the section of the last entry, of any file
    test          \* the run of run_conformance_test: see NoTest

edsVars == <<entries, entriesLost, prev_section, test>>

AccessTypes == {"ro", "wo", "rw", "rww", "const"}

NoIndex == 65535
NoSub   == -1

(* A run: its mode and file, the keys handled, the objects asked for, the  *)
(* results added, the range of sub-indices being collected, the length of  *)
(* the text of its index so far, and the ranges before it.  History        *)
(* variables: the section of the last entry before the run, the objects    *)
(* the node did not give, whether memory was short.                        *)
NoTest == [mode |-> "none", file |-> MissingFile, keys |-> 0, asked |-> 0,
           results |-> <<>>, index |-> NoIndex, first |-> NoSub, last |-> NoSub,
           length |-> 0, ranges |-> <<>>, status |-> "ALL_OK", before |-> "none", absent |-> {},
           short |-> FALSE]

EdsInit ==
    /\ entries = <<>> /\ entriesLost = FALSE
    /\ prev_section = "none" /\ test = NoTest

KeysOf(file) == IF file = MissingFile THEN <<>> ELSE EdsFiles[file]

run_conformance_test(mode, file) ==
    /\ test' = [NoTest EXCEPT !.mode = mode, !.file = file, !.before = prev_section,
                              !.status = IF file = MissingFile THEN "EDS_PARSE_ERROR" ELSE @]
    /\ UNCHANGED <<entries, entriesLost, prev_section>>

-----------------------------------------------------------------------------
(* parse_eds, called for each key.  A key of a section whose name has a    *)
(* sub-index starts an entry, unless the last entry was of a section of    *)
(* that name; every key describes the last entry, whatever its section.    *)

MoreKeys == test.keys < Len(KeysOf(test.file))
Key      == KeysOf(test.file)[test.keys + 1]

AlwaysStarts == Key.section \in DOMAIN Sections   \* mutant: each key an entry
StartsEntry == Key.section \in DOMAIN Sections /\ Key.section # prev_section

GivesType(key) == key.name = "AccessType" /\ key.value \in AccessTypes

Described(list, key) ==
    IF list # <<>> /\ GivesType(key)
    THEN [list EXCEPT ![Len(list)].access = key.value] ELSE list

(* The new entry is memory as realloc gives it, and so are the old ones if *)
(* they were lost; which object is asked for then does not matter here.    *)
Kept == IF entriesLost
        THEN {[k \in DOMAIN entries |-> [entries[k] EXCEPT !.access = types[k]]] :
                 types \in [DOMAIN entries -> AccessTypes]}
        ELSE {entries}
NewEntry(access) == [section |-> Key.section, access |-> access]

AddEntry ==
    /\ StartsEntry
    /\ \E old \in Kept, access \in AccessTypes :
          entries' = Described(Append(old, NewEntry(access)), Key)
    /\ entriesLost' = FALSE
    /\ prev_section' = Key.section

NoMemoryForEntry ==
    /\ StartsEntry
    /\ entriesLost' = (entries # <<>>)
    /\ prev_section' = Key.section
    /\ UNCHANGED entries

DescribeEntry ==
    /\ ~StartsEntry /\ ~entriesLost
    /\ entries' = Described(entries, Key)
    /\ UNCHANGED <<entriesLost, prev_section>>

parse_eds ==
    /\ MoreKeys
    /\ \/ (AddEntry \/ DescribeEntry) /\ test' = [test EXCEPT !.keys = @ + 1]
       \/ NoMemoryForEntry /\ test' = [test EXCEPT !.keys = @ + 1, !.short = TRUE]

(* Entries are used through the null pointer, by the next key or the test. *)
LostEntryUsed ==
    /\ entriesLost
    /\ MoreKeys => ~StartsEntry
    /\ UNCHANGED edsVars

-----------------------------------------------------------------------------
(* Asking the node for each object that can be read.                       *)

Asked == entries[test.asked + 1]
MoreObjects == ~MoreKeys /\ ~entriesLost /\ test.asked < Len(entries)

(* The sub-indices of an object that are not available become a text of    *)
(* ranges, printed before the next index: those that fit, and none of the  *)
(* index that stands for no index.                                         *)
Figures(n) == IF n < 10 THEN 1 ELSE IF n < 100 THEN 2 ELSE 3
RangeSize(t) == Figures(t.first) + (IF t.last = t.first THEN 0 ELSE 1 + Figures(t.last))
Separator == 2

Collected(t) ==
    [index |-> t.index, first |-> t.first, last |-> t.last,
     printed |-> t.index # NoIndex /\ t.length + RangeSize(t) < SubsSize]

(* The range being collected ends at another index or after a gap.         *)
EndsRange(object) ==
    test.first # NoSub /\ (object.index # test.index \/ object.sub # test.last + 1)

(* The text so far, with this range: a part of it, if it is too long.      *)
LengthWith(t) ==
    IF t.length + RangeSize(t) + Separator < SubsSize THEN t.length + RangeSize(t) + Separator
    ELSE SubsSize - 1

Collect(object) ==
    [test EXCEPT !.ranges = IF EndsRange(object) THEN Append(@, Collected(test)) ELSE @,
                 !.length = IF object.index # test.index THEN 0
                            ELSE IF EndsRange(object) THEN LengthWith(test) ELSE @,
                 !.first = IF EndsRange(object) \/ @ = NoSub THEN object.sub ELSE @,
                 !.last = object.sub, !.index = object.index]

AddResult(available) ==
    [test EXCEPT !.results = Append(@, [section |-> Asked.section, has_passed |-> available])]

After(available) ==
    CASE test.mode = "SCRIPT_MODE" -> AddResult(available)
      [] test.mode # "SCRIPT_MODE" /\ ~available -> Collect(Sections[Asked.section])
      [] OTHER -> test

(* The SDO read ends in ABORT_TRANSFER or not.                             *)
ReadObject(available) ==
    /\ MoreObjects /\ Asked.access # "wo"
    /\ test' = [After(available) EXCEPT
                  !.asked = @ + 1,
                  !.absent = IF available THEN @ ELSE @ \cup {test.asked + 1},
                  !.status = IF available THEN @ ELSE "EDS_OBJECT_NOT_AVAILABLE"]
    /\ UNCHANGED <<entries, entriesLost, prev_section>>

SkipObject ==
    /\ MoreObjects /\ Asked.access = "wo"
    /\ test' = [test EXCEPT !.asked = @ + 1]
    /\ UNCHANGED <<entries, entriesLost, prev_section>>

LastRange == IF test.first # NoSub THEN Append(test.ranges, Collected(test)) ELSE test.ranges

TestEnded == test.mode # "none" /\ ~MoreKeys /\ ~entriesLost /\ test.asked = Len(entries)

(* The entries are released, prev_section is not reset.                    *)
TestEnds ==
    /\ TestEnded
    /\ entries' = <<>> /\ test' = NoTest
    /\ UNCHANGED <<entriesLost, prev_section>>

-----------------------------------------------------------------------------
(* Type invariant of the test.                                             *)
EdsTypeOK ==
    /\ \A k \in DOMAIN entries :
          entries[k].section \in DOMAIN Sections /\ entries[k].access \in AccessTypes
    /\ entriesLost \in BOOLEAN
    /\ prev_section \in DOMAIN Sections \cup {"none"}
    /\ test.keys \in 0 .. Len(KeysOf(test.file)) /\ test.asked \in 0 .. Len(entries)

(* What the file says of an object is in its section.  A section is        *)
(* undisturbed when its keys are together, it is not the first of its file *)
(* with the name of the last one parsed before it, and no access type of a *)
(* section without sub-index follows.  Where this is not so, entries are   *)
(* lost or doubled, or tested by the access type of another object.        *)
KeysIn(keys, section) == {k \in DOMAIN keys : keys[k].section = section}
EntryKeys(keys)       == {k \in DOMAIN keys : keys[k].section \in DOMAIN Sections}
TypesIn(keys, section) == {k \in KeysIn(keys, section) : GivesType(keys[k])}

KeysAfter(keys, section) == {k \in DOMAIN keys : \A j \in KeysIn(keys, section) : j < k}
Undisturbed(keys, section) ==
    /\ \A j, k \in KeysIn(keys, section) : j .. k \subseteq KeysIn(keys, section)
    /\ section = test.before =>
          \E j \in EntryKeys(keys) : \A k \in KeysIn(keys, section) : j < k
    /\ \A k \in KeysAfter(keys, section) \ EntryKeys(keys) : GivesType(keys[k]) =>
          \E j \in KeysAfter(keys, section) \cap EntryKeys(keys) : j < k

(* Such a section has one entry, with the access type given in it.  There  *)
(* is no entry that is not in the file.                                    *)
OneEntryEach(keys) ==
    /\ \A n \in DOMAIN entries : KeysIn(keys, entries[n].section) # {}
    /\ \A section \in DOMAIN Sections :
          KeysIn(keys, section) # {} /\ Undisturbed(keys, section) =>
             \E n \in DOMAIN entries :
                /\ \A m \in DOMAIN entries : entries[m].section = section <=> m = n
                /\ \A k \in TypesIn(keys, section) :
                      (\A j \in TypesIn(keys, section) : j <= k) => entries[n].access = keys[k].value

ObjectOf(n) == Sections[entries[n].section]
Readable  == {n \in DOMAIN entries : entries[n].access # "wo"}

(* A script's report has as many results of a section, passed and failed,  *)
(* as entries of it were given and not.                                    *)
InResults(section, available) ==
    {k \in DOMAIN test.results :
        test.results[k].section = section /\ test.results[k].has_passed = available}
Given(section, available) ==
    {n \in Readable : entries[n].section = section /\ (n \notin test.absent <=> available)}

Reported ==
    \A section \in DOMAIN Sections, available \in BOOLEAN :
       Cardinality(InResults(section, available)) = Cardinality(Given(section, available))

(* The console shows an object among those that are not available as often *)
(* as the node did not give it, and no other, unless the sub-indices of an *)
(* index are more than there is room for.                                  *)
InRanges(object) ==
    {k \in DOMAIN LastRange : /\ LastRange[k].printed /\ LastRange[k].index = object.index
                              /\ object.sub \in LastRange[k].first .. LastRange[k].last}
Missing(object) == {n \in test.absent : ObjectOf(n) = object}
NoRoom == \E k \in DOMAIN LastRange : ~LastRange[k].printed /\ LastRange[k].index # NoIndex

Shown ==
    /\ ~NoRoom => \A section \in DOMAIN Sections :
          Sections[section].index # NoIndex =>
             Cardinality(InRanges(Sections[section])) = Cardinality(Missing(Sections[section]))
    /\ \A k \in DOMAIN LastRange : LastRange[k].printed =>
          \A sub \in LastRange[k].first .. LastRange[k].last :
             Missing([index |-> LastRange[k].index, sub |-> sub]) # {}

(* The test of a file has one entry for each undisturbed section, with the *)
(* access type of that section. It asks for each entry that can be read    *)
(* once, and fails exactly if one is missing, which the report or the      *)
(* console then tells.                                                     *)
EveryObjectJudgedOnce ==
    TestEnded /\ ~test.short =>
        /\ OneEntryEach(KeysOf(test.file))
        /\ test.absent \subseteq Readable
        /\ test.mode = "SCRIPT_MODE" => Reported
        /\ test.mode = "TERM_MODE" => Shown
        /\ test.status = "EDS_OBJECT_NOT_AVAILABLE" <=> test.absent # {}
=============================================================================
