----------------------------- MODULE Dictionary -----------------------------
(***************************************************************************)
(* Descriptions of objects (src/src/core/codb.c, src/src/core/dict.c) from *)
(* the profiles that are loaded, and of frames.  A file maps an index to   *)
(* the sequence of its sub-indices, each with its number and access type,  *)
(* as the schema of the JSON files requires; a description is the entry it *)
(* was taken from.                                                         *)
(***************************************************************************)
EXTENDS Codb

CONSTANTS Indices, SubIndices   \* what is asked for

ASSUME DictionaryAssumption ==
    /\ SubIndices \subseteq Nat
    /\ \A k \in DOMAIN Files : \A index \in DOMAIN Files[k].objects :
          \A s \in DOMAIN Files[k].objects[index] :
             Files[k].objects[index][s].sub \in Nat /\ Files[k].objects[index][s].access \in 0 .. 6

NoEntry == [file |-> NotLoaded, index |-> 0, sub |-> 0]

Base == CHOOSE k \in FileNumbers : Jsons[k].kind = "ds301"

-----------------------------------------------------------------------------
(* codb_desc_lookup: the sub-index is a position in the list.              *)

HasItem(file, index, sub_index) ==
    /\ index \in DOMAIN Jsons[file].objects
    /\ sub_index + 1 \in DOMAIN Jsons[file].objects[index]

codb_desc_lookup(file, index, sub_index) ==
    IF HasItem(file, index, sub_index)
    THEN [file |-> file, index |-> index,
          sub |-> Jsons[file].objects[index][sub_index + 1].sub]
    ELSE NoEntry

InProfile(index, sub_index) ==
    IF codb = NotLoaded THEN NoEntry ELSE codb_desc_lookup(codb, index, sub_index)
InBase(index, sub_index) ==
    IF ds301 THEN codb_desc_lookup(Base, index, sub_index) ELSE NoEntry

(* mutant: the CiA 301 profile comes first.                                *)
BaseFirst(index, sub_index) ==
    IF InBase(index, sub_index) # NoEntry
    THEN InBase(index, sub_index) ELSE InProfile(index, sub_index)
dict_lookup(index, sub_index) ==
    IF InProfile(index, sub_index) # NoEntry
    THEN InProfile(index, sub_index) ELSE InBase(index, sub_index)

-----------------------------------------------------------------------------
(* codb_info_lookup fills in what the file has; does_exist asks for the    *)
(* sub-index.  The access type is converted to bool.                       *)

NoInfo == [object |-> <<NotLoaded, 0>>, entry_count |-> 0, entry |-> NoEntry,
           access_type |-> 0, does_exist |-> FALSE]

codb_info_lookup(file, index, sub_index, info) ==
    LET subs   == Jsons[file].objects[index]
        object == [info EXCEPT !.object = <<file, index>>,
                      !.entry_count = IF Len(subs) > @ THEN Len(subs) ELSE @]
    IN  IF index \notin DOMAIN Jsons[file].objects THEN info
        ELSE IF ~HasItem(file, index, sub_index) THEN object
        ELSE [object EXCEPT !.entry = codb_desc_lookup(file, index, sub_index),
                            !.access_type = IF subs[sub_index + 1].access = 0 THEN 0 ELSE 1,
                            !.does_exist = TRUE]

(* mutant: the CiA 301 profile is asked in any case.                       *)
AskBoth(index, sub_index) ==
    LET own == IF codb = NotLoaded THEN NoInfo
               ELSE codb_info_lookup(codb, index, sub_index, NoInfo)
    IN  IF ds301 THEN codb_info_lookup(Base, index, sub_index, own) ELSE own
(* What is printed, if it exists.                                          *)
dict_lookup_object(index, sub_index) ==
    LET own == IF codb = NotLoaded THEN NoInfo
               ELSE codb_info_lookup(codb, index, sub_index, NoInfo)
    IN  IF ds301 /\ ~own.does_exist THEN codb_info_lookup(Base, index, sub_index, own) ELSE own

-----------------------------------------------------------------------------
(* dict_lookup_raw.  A frame is its identifier and length; known says that *)
(* the state or command in it is a listed one, abort that it is an abort.  *)

(* Are all bits of a mask set in id: a mask of consecutive bits, from that *)
(* of the unit on, of this size.                                           *)
Bits(id, unit, size) == (id \div unit) % size = size - 1

IsNmt(f)       == f.id = 0 /\ f.length = 2
IsHeartbeat(f) == Bits(f.id, 256, 8) /\ f.length = 1
IsSdo(f)       == Bits(f.id, 512, 4)
IsResponse(f)  == Bits(f.id, 128, 4) /\ Bits(f.id, 1024, 2)
IsEmcy(f)      == Bits(f.id, 128, 2)

PdoRanges == <<[name |-> "PDO1 (tx)", from |-> 385, to |-> 511],
               [name |-> "PDO1 (rx)", from |-> 513, to |-> 639],
               [name |-> "PDO2 (tx)", from |-> 641, to |-> 767],
               [name |-> "PDO2 (rx)", from |-> 769, to |-> 895],
               [name |-> "PDO3 (tx)", from |-> 897, to |-> 1023],
               [name |-> "PDO3 (rx)", from |-> 1025, to |-> 1151],
               [name |-> "PDO4 (tx)", from |-> 1153, to |-> 1279],
               [name |-> "PDO4 (rx)", from |-> 1281, to |-> 1407]>>
Named(known, name) == IF known THEN name ELSE ""
Nmt(f)       == [is |-> IsNmt(f), name |-> Named(f.known, "NMT")]
Heartbeat(f) == [is |-> IsHeartbeat(f), name |-> Named(f.known, "Heartbeat")]
Request(f)   == [is |-> IsSdo(f), name |-> "SDO request"]
Response(f)  == [is |-> IsResponse(f), name |-> IF f.abort /\ f.length = 8
                                               THEN "SDO abort" ELSE "SDO response"]
Pdo(f, p)    == [is |-> f.id \in p.from .. p.to, name |-> p.name]
Emcy(f)      == [is |-> IsEmcy(f), name |-> "EMCY"]

AfterSdo(f) == <<Response(f)>> \o [p \in DOMAIN PdoRanges |-> Pdo(f, PdoRanges[p])] \o <<Emcy(f)>>

(* mutant: requests are looked for before heartbeats.                      *)
RequestsFirst(f) == <<Nmt(f), Request(f), Heartbeat(f)>> \o AfterSdo(f)
(* In the order of the code; the masks overlap and the first one counts.   *)
Rules(f) == <<Nmt(f), Heartbeat(f), Request(f)>> \o AfterSdo(f)

dict_lookup_raw(f) ==
    LET hit == SelectInSeq(Rules(f), LAMBDA rule : rule.is)
    IN  IF hit = 0 THEN "" ELSE Rules(f)[hit].name

-----------------------------------------------------------------------------
(* Properties.                                                             *)

Defines(file, index, sub_index) ==
    /\ file # NotLoaded /\ index \in DOMAIN Jsons[file].objects
    /\ \E s \in DOMAIN Jsons[file].objects[index] : Jsons[file].objects[index][s].sub = sub_index
Defining(index, sub_index) ==
    IF Defines(codb, index, sub_index) THEN codb
    ELSE IF ds301 /\ Defines(Base, index, sub_index) THEN Base
    ELSE NotLoaded

(* What dict_lookup returns for an object is the description of its index  *)
(* and sub-index, from the device profile before the CiA 301 profile, and  *)
(* it is empty when neither profile that is loaded has it.                 *)
DescribesTheObject ==
    \A index \in Indices, sub_index \in SubIndices :
       LET file == Defining(index, sub_index)
       IN  dict_lookup(index, sub_index) =
              IF file = NotLoaded THEN NoEntry
              ELSE [file |-> file, index |-> index, sub |-> sub_index]

(* What dict_lookup_object prints is the entry dict_lookup describes, with *)
(* the name of the object of the same file.                                *)
PrintsTheEntryDescribed ==
    \A index \in Indices, sub_index \in SubIndices :
       LET info  == dict_lookup_object(index, sub_index)
           entry == dict_lookup(index, sub_index)
       IN  /\ info.does_exist <=> entry # NoEntry
           /\ info.does_exist => info.entry = entry /\ info.object = <<entry.file, index>>

FunctionCode(id) == id \div 128
TxNames == <<"PDO1 (tx)", "PDO2 (tx)", "PDO3 (tx)", "PDO4 (tx)">>
RxNames == <<"PDO1 (rx)", "PDO2 (rx)", "PDO3 (rx)", "PDO4 (rx)">>
PdoName(direction, n) == IF direction = "tx" THEN TxNames[n] ELSE RxNames[n]

(* What a frame of the predefined connection set of CiA 301 is named for:  *)
(* its function code, in the upper bits of the identifier.                 *)
NamedForFunction(id, length, abort) ==
    LET code == FunctionCode(id)
        name == dict_lookup_raw([id |-> id, length |-> length, known |-> TRUE, abort |-> abort])
    IN  /\ code = 1 => name = "EMCY"
        /\ code \in {3, 5, 7, 9} => name = PdoName("tx", (code - 1) \div 2)
        /\ code \in {4, 6, 8, 10} => name = PdoName("rx", (code - 2) \div 2)
        /\ code = 11 => name = IF abort /\ length = 8 THEN "SDO abort" ELSE "SDO response"
        /\ code = 12 => name = "SDO request"
        /\ code = 14 /\ length = 1 => name = "Heartbeat"

(* dict_lookup_raw, which reads no state, does so for every such frame.    *)
Ids == {i \in 0 .. 2047 : i % 128 # 0}
NamesPredefinedSet ==
    \A id \in Ids, length \in 0 .. 8, abort \in BOOLEAN :
       NamedForFunction(id, length, abort)
=============================================================================
