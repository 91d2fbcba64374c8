------------------------------ MODULE CodbLine ------------------------------
(***************************************************************************)
(* What codb2json (src/src/codb2json/codb2json.c) makes of one line of a   *)
(* profile: whether it is an entry, whether its fields are accepted, and   *)
(* the entry they describe.                                                *)
(*                                                                         *)
(* Lines gives each line a name.  A line is a comment (or empty), a copy,  *)
(* an entry, too long, or foreign: it starts with another character.  An   *)
(* entry has its main index as text and as the number strtol makes of it,  *)
(* its sub-index, and its further fields up to the last that is there.     *)
(* The last field includes the end of the line: where that is all it has,  *)
(* it is Newline instead of Empty.                                         *)
(***************************************************************************)
EXTENDS Integers, Sequences, SequencesExt

CONSTANTS
    Lines,      \* name -> line
    HexName     \* the "%04X" of an index

None    == "none"       \* a null pointer
Empty   == ""
Newline == "newline"

(* Indices and numbers that are not hexadecimal, and a sub-index left out. *)
NotHex == -1
NoSub  == -2

IsCodb(line)  == line.kind # "foreign"
IsEntry(line) == line.kind = "entry"
IsCopy(line)  == line.kind = "copy"

EveryLine(line) == line.kind # "copy"   \* mutant: comments are counted
Counted(line)   == line.kind \notin {"copy", "comment"}

-----------------------------------------------------------------------------
(* The fields after the sub-index, and the tokens each accepts.            *)

FieldIds == <<"PARAMETER_NAME", "OBJECT_KIND", "UNIT", "OBJECT_CODE", "OBJECT_CODE_ATTR",
              "DATA_TYPE", "DATA_TYPE_ATTR", "ACCESS_TYPE", "ACCESS_TYPE_ATTR",
              "MIN_ELEMENTS", "MIN_ELEMENTS_ATTR", "MAX_ELEMENTS", "MAX_ELEMENTS_ATTR",
              "LOW_LIMIT", "LOW_LIMIT_ATTR", "HIGH_LIMIT", "HIGH_LIMIT_ATTR",
              "DEFAULT_VALUE", "DEFAULT_VALUE_ATTR", "MAPPABLE", "MAPPABLE_ATTR">>
AttrIds == {"OBJECT_CODE_ATTR", "DATA_TYPE_ATTR", "ACCESS_TYPE_ATTR", "MIN_ELEMENTS_ATTR",
            "MAX_ELEMENTS_ATTR", "LOW_LIMIT_ATTR", "HIGH_LIMIT_ATTR", "DEFAULT_VALUE_ATTR",
            "MAPPABLE_ATTR"}

ObjectKinds == {"mandatory", "optional", "conditional"}
ObjectCodes == {"DOMAIN", "DEFTYPE", "DEFSTRUCT", "VAR", "ARRAY", "RECORD"}

(* Object codes and data types are compared in upper case, the INTEGER56   *)
(* and UNSIGNED56 of the format not at all.                                *)
DataTypes ==
    {"BOOLEAN", "INTEGER8", "UNSIGNED8", "INTEGER16", "UNSIGNED16", "INTEGER24", "UNSIGNED24",
     "INTEGER32", "UNSIGNED32", "INTEGER48", "UNSIGNED48", "INTEGER64", "UNSIGNED64", "REAL32",
     "REAL64", "TIME_OF_DAY", "VISIBLE_STRING", "OCTET_STRING", "DOMAIN", "FLOAT"}
DataType(token) == IF token = Empty THEN "NONE_T" ELSE token

(* Only the first two characters of "rww" are compared, with "rw".         *)
AccessTypes == [const |-> "CONST_T", ro |-> "RO", wo |-> "WO", rw |-> "RW", wwr |-> "WWR",
                rww |-> "RW"]
AccessType(token) == IF token = Empty THEN "UNSPECIFIED" ELSE AccessTypes[token]

(* A default value keeps its bit 31 apart; $NODEID sets it.                *)
DefaultValue(token) == [bit31 |-> token.nodeid \/ token.bit31, value |-> token.value]

Mappable(token) == token = "y"

Accepted(id, token) ==
    /\ id = "OBJECT_KIND" => token \in ObjectKinds
    /\ id = "OBJECT_CODE" => token \in ObjectCodes
    /\ id = "DATA_TYPE"   => token \in DataTypes \cup {Empty}
    /\ id = "ACCESS_TYPE" => token \in DOMAIN AccessTypes \cup {Empty}
    /\ id = "DEFAULT_VALUE" => token.valid

-----------------------------------------------------------------------------
(* Attributes: a mark, and for "d[lower,upper]" the limits.                *)

NoAttr == [type |-> "EMPTY", lower |-> 0, upper |-> 0]

(* The copy of the limits is one character short, which the last number    *)
(* loses; a decimal of one digit is then not there at all.                 *)
Shortened(limits) ==
    LET n    == Len(limits)
        last == limits[n]
    IN  IF n = 0 THEN limits
        ELSE IF last.value < last.base /\ last.base = 10
        THEN Front(limits)
        ELSE [limits EXCEPT ![n].value = last.value \div last.base]

handle_attribute(attr, token) ==
    IF token.mark = "d[" /\ token.closed
    THEN LET limits == Shortened(token.limits)
         IN  [type  |-> "DEFAULT_LIMITS",
              lower |-> IF Len(limits) > 0 THEN limits[1].value ELSE attr.lower,
              upper |-> IF Len(limits) > 1 THEN limits[2].value ELSE attr.upper]
    ELSE [attr EXCEPT !.type = CASE token.mark = "m"  -> "MANDATORY"
                                 [] token.mark = "d"  -> "DEFAULT"
                                 [] token.mark = "d[" -> "DEFAULT_LIMITS"
                                 [] token.mark = "n"  -> "NOT_APPLICABLE"
                                 [] OTHER             -> "EMPTY"]

-----------------------------------------------------------------------------
(* The entry of a line.                                                    *)

init_codb_entry ==
    [name |-> None, main |-> 0, sub |-> 0, desc |-> None, kind |-> "optional", unit |-> None,
     code |-> "DOMAIN", code_attr |-> NoAttr, type |-> "NONE_T", access |-> "UNSPECIFIED",
     min |-> 0, max |-> 0, low |-> 0, high |-> 0,
     default |-> [bit31 |-> FALSE, value |-> 0], mappable |-> FALSE]

Places(line) == DOMAIN line.fields
Has(line, id) == \E k \in Places(line) : FieldIds[k] = id
Field(line, id) == line.fields[CHOOSE k \in Places(line) : FieldIds[k] = id]
Given(line, id, default) == IF Has(line, id) THEN Field(line, id) ELSE default
Text(line, id) == IF Has(line, id) /\ Field(line, id) # Empty THEN Field(line, id) ELSE None
Number8(line, id) == Given(line, id, 0) % 256

Index(line)    == line.index % 65536
IsHeader(line) == line.sub = NoSub
NameOf(line)   == IF IsHeader(line) THEN line.text ELSE None

(* Every attribute of the line ends up in that of the object code.         *)
Attributes(line) == SelectSeq([k \in Places(line) |-> k], LAMBDA k : FieldIds[k] \in AttrIds)
CodeAttr(line)   == FoldLeft(LAMBDA attr, k : handle_attribute(attr, line.fields[k]),
                             NoAttr, Attributes(line))

WellFormed(line) ==
    /\ line.index # NotHex /\ Index(line) \notin {0, 65535} /\ line.sub # NotHex
    /\ Places(line) # {}
    /\ \A k \in Places(line) : Accepted(FieldIds[k], line.fields[k])

EntryOf(line) ==
    [init_codb_entry EXCEPT
        !.name      = NameOf(line),
        !.main      = Index(line),
        !.sub       = IF IsHeader(line) THEN 0 ELSE line.sub % 256,
        !.desc      = Text(line, "PARAMETER_NAME"),
        !.kind      = Given(line, "OBJECT_KIND", @),
        !.unit      = Text(line, "UNIT"),
        !.code      = Given(line, "OBJECT_CODE", @),
        !.code_attr = CodeAttr(line),
        !.type      = DataType(Given(line, "DATA_TYPE", Empty)),
        !.access    = AccessType(Given(line, "ACCESS_TYPE", Empty)),
        !.min       = Number8(line, "MIN_ELEMENTS"),
        !.max       = Number8(line, "MAX_ELEMENTS"),
        !.low       = Given(line, "LOW_LIMIT", @),
        !.high      = Given(line, "HIGH_LIMIT", @),
        !.default   = IF Has(line, "DEFAULT_VALUE")
                      THEN DefaultValue(Field(line, "DEFAULT_VALUE")) ELSE @,
        !.mappable  = Mappable(Given(line, "MAPPABLE", Empty))]
=============================================================================
