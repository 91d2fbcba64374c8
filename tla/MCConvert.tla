------------------------------ MODULE MCConvert ------------------------------
(***************************************************************************)
(* Instances of Convert: files of up to two of the lines below, of three   *)
(* of the useful ones, and of an array and another object with up to three *)
(* copies and a new object after them.                                     *)
(***************************************************************************)
EXTENDS Convert, TLC

Attr(mark)    == [mark |-> mark, limits |-> <<>>, closed |-> TRUE]
Decimal(n)    == [value |-> n, base |-> 10]
Hex(n)        == [value |-> n, base |-> 16]
Limits(l)     == [mark |-> "d[", limits |-> l, closed |-> TRUE]
Value(n)      == [nodeid |-> FALSE, bit31 |-> FALSE, value |-> n, valid |-> TRUE]
NodeId(n)     == [nodeid |-> TRUE, bit31 |-> FALSE, value |-> n, valid |-> TRUE]
WrongValue    == [nodeid |-> FALSE, bit31 |-> FALSE, value |-> 0, valid |-> FALSE]

Entry(text, index, sub, fields) ==
    [kind |-> "entry", text |-> text, index |-> index, sub |-> sub, fields |-> fields]
Copy(dest, source) == [kind |-> "copy", equals |-> TRUE, dest |-> dest, source |-> source]

Short(name, kind) == <<name, kind>>
Full(code, type, access, default) ==
    <<"name", "mandatory", "unit", code, Limits(<<Decimal(12), Hex(255)>>), type, Attr("m"),
      access, Attr("d"), 25, Attr("n"), 3, Attr(Empty), 1, Limits(<<Decimal(7)>>), 9, Limits(<<>>),
      default, [Limits(<<>>) EXCEPT !.closed = FALSE], "y", Attr("m")>>

(* An object of one entry, one of three, their copies, a copy of a copy.   *)
MCLines ==
    [ note    |-> [kind |-> "comment"],
      foreign |-> [kind |-> "foreign"],
      long    |-> [kind |-> "long"],
      one     |-> Entry("1005", 4101, NoSub, Full("VAR", "UNSIGNED32", "rww", NodeId(128))),
      arr     |-> Entry("1003", 4099, NoSub, Short("errors", "optional") \o <<Empty, "ARRAY">>),
      arr0    |-> Entry("1003", 4099, 0, Short(Empty, "conditional")),
      arr1    |-> Entry("1003", 4099, 1, Full("VAR", Empty, Empty, Value(5))),
      wide    |-> Entry("1003", 69635, 258, [Full("VAR", "REAL32", "ro", Value(5)) EXCEPT ![10] = 257]),
      again   |-> Entry("1A01", 6657, NoSub, Short("name", "optional")),
      zero    |-> Entry("0000", 65536, NoSub, Short("name", "optional")),
      kind    |-> Entry("1005", 4101, 1, Short("name", "necessary")),
      type    |-> Entry("1005", 4101, 1, SubSeq(Full("VAR", "INTEGER56", "ro", Value(1)), 1, 6)),
      access  |-> Entry("1005", 4101, 1, SubSeq(Full("VAR", "FLOAT", Newline, Value(1)), 1, 8)),
      value   |-> Entry("1005", 4101, 1, Full("DOMAIN", "FLOAT", "const", WrongValue)),
      copy    |-> Copy(6657, 4099),
      recopy  |-> Copy(6658, 6657),
      blank   |-> Copy(6659, 0),
      self    |-> Copy(4099, 4099),
      open    |-> [Copy(6657, 4099) EXCEPT !.equals = FALSE] ]

MCHexName == (4099 :> "1003") @@ (6657 :> "1A01") @@ (6658 :> "1A02") @@ (6659 :> "1A03")

Useful == {"note", "one", "arr", "arr0", "arr1", "again", "copy", "recopy", "blank"}

MCProfiles ==
    UNION {[1 .. n -> DOMAIN MCLines] : n \in 0 .. 2} \cup UNION {[1 .. n -> Useful] : n \in 3 .. 3}
       \cup {<<"one", "arr", "note", "arr0", "arr1">> \o tail :
                tail \in UNION {[1 .. n -> {"copy", "recopy", "blank", "again"}] : n \in 0 .. 3}}
=============================================================================
