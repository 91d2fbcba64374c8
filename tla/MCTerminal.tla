----------------------------- MODULE MCTerminal -----------------------------
(***************************************************************************)
(* An instance of Terminal: lines for every command and every way it can   *)
(* be short of an argument, DBC files that share a CAN-ID, data sheets     *)
(* with gaps, objects without sub-index and a section in common.           *)
(***************************************************************************)
EXTENDS Terminal, TLC

W(word, letter, size) ==
    [word |-> word, letter |-> letter, size |-> size, number |-> 0, form |-> "word",
     opens |-> FALSE, closes |-> FALSE]
N(n)       == Number(n, "digits")
HexN(n)    == Number(n, "hex")
UpperN(n)  == Number(n, "HEX")
Open(w)    == [W(w, "quote", 3) EXCEPT !.opens = TRUE]
Close(w)   == [W(w, "text", 3) EXCEPT !.closes = TRUE]
Quote      == [W("quote", "quote", 1) EXCEPT !.opens = TRUE, !.closes = TRUE]
Entry(tokens)       == [blanks |-> 0, tokens |-> tokens]
Indented(k, tokens) == [blanks |-> k, tokens |-> tokens]
L(c) == [Word(c) EXCEPT !.size = 1]

(* Each line, and each of its beginnings.                                  *)
AddPdo == <<L("p"), W("add", "a", 3), N(385), N(10), N(264), N(1)>>
Whole ==
    {<<L("y"), N(1)>>, <<L("b"), N(270)>>, <<L("c")>>, <<L("d"), N(3)>>, <<L("d"), HexN(4120), N(1)>>,
     <<L("q")>>, <<L("h")>>, <<L("l")>>, <<L("x")>>, <<W("quit", "q", 4)>>,
     <<L("n"), N(5), W("op", "o", 2)>>, <<L("n"), N(256), W("p", "p", 1)>>,
     <<L("n"), HexN(200), W("r", "r", 1)>>, <<L("n"), N(0), N(258)>>, <<L("n"), N(7), HexN(129)>>,
     <<L("n"), N(7), W("go", "g", 2)>>, <<L("n"), UpperN(16), W("comm", "c", 4)>>,
     AddPdo, [AddPdo EXCEPT ![3] = N(384)], <<L("p"), W("del", "d", 3), N(65536 + 641)>>,
     <<L("p"), N(1)>>, <<L("r"), N(1), HexN(4104), N(256)>>,
     <<L("w"), N(1), HexN(4119), N(0), N(2), N(500)>>, <<L("w"), N(1), HexN(4119), N(0), N(0)>>,
     <<L("w"), N(1), HexN(4104), N(0), Open("new"), Close("name")>>,
     <<L("w"), N(1), HexN(4104), N(0), Quote>>, <<L("s"), W("demo", "d", 4)>>}
MCLines ==
    UNION {{Entry(SubSeq(w, 1, k)) : k \in 0 .. Len(w)} : w \in Whole}
      \cup {Indented(1, <<W("demo", "d", 4)>>), Indented(1, <<L("n"), N(5), N(1)>>),
            Indented(2, <<W("quit", "q", 4)>>)}

MCUnfinished ==
    {Entry(<<>>), Entry(<<L("b")>>), Entry(<<L("d")>>), Entry(<<L("h")>>), Entry(<<L("s")>>),
     Entry(<<L("b"), N(99)>>), Entry(<<L("n"), N(5), N(7)>>), Entry(<<L("w"), N(1), HexN(4119), N(0)>>),
     Indented(1, <<>>), Indented(2, <<>>), Indented(2, <<L("n"), W("name", "n", 4)>>)}
      \cup {Entry(<<L(c), node>>) :
              c \in {"n", "r", "w"}, node \in {N(5), HexN(127), UpperN(16), W("name", "n", 4)}}
MCWords ==
    UNION {{t.word, t.letter} : t \in UNION {Range(w) : w \in Whole}}
      \cup {"b", "d", "h", "n", "q", "r", "s", "w", "op", "stop", "preop", "reset", "comm",
            "number", "demo", "quit", "name"}
MCScriptNames == {"demo", "quit", "s"}
MCScriptNmt == {[node |-> 5, command |-> 1], [node |-> 200, command |-> 2],
                [node |-> 256 + 3, command |-> 130], [node |-> -1, command |-> 129],
                [node |-> 5, command |-> 3], [node |-> 5, command |-> 257]}

BO(id, name) == [kind |-> "BO_", id |-> id, name |-> name, size |-> 14]
SG(name, start, length, intel) ==
    [kind |-> "SG_",
     signal |-> [name |-> name, start |-> start, length |-> length, intel |-> intel,
                 chars |-> 5, size |-> 14]]
LongName == [SG("Long", 0, 8, TRUE) EXCEPT !.signal.chars = 36]
Other == [kind |-> "other"]

(* Signals before any message, a signal of 64 bits, one that ends beyond   *)
(* the frame, two messages of one CAN-ID, one with more signals than there *)
(* is room for, one with a name that is too long.                          *)
MCDbcFiles ==
    [ engine  |-> <<Other, SG("Lost", 0, 8, TRUE), BO(100, "Engine"), SG("Speed", 8, 8, TRUE),
                    Other, SG("Load", 60, 8, FALSE), BO(101, "Gear"), SG("Raw", 0, 64, TRUE)>>,
      vehicle |-> <<BO(102, "Speed"), BO(100, "Vehicle"), SG("Speed", 0, 8, FALSE), BO(100, "engine")>>,
      wide    |-> <<BO(100, "Wide"), SG("Speed", 0, 8, TRUE), SG("Load", 8, 8, TRUE),
                    SG("Speed", 16, 8, TRUE), BO(101, "Deep"), LongName>>]
MCLike    == [ speed |-> {"Speed"}, engine |-> {"Engine", "engine"}, ve |-> {"Vehicle"} ]
MCHasText == [ Speed |-> {"Speed"}, engine |-> {"engine"}, oa |-> {"Load"} ]
MCIds     == {100, 101, 103}
MCFrames  == {{0, 8, 9, 63}}

Key1(section, name, value) == [section |-> section, name |-> name, value |-> value]
Access(section, value) == Key1(section, "AccessType", value)
Named(section) == Key1(section, "ParameterName", "name")

MCSections == [ s1000sub0 |-> [index |-> 4096, sub |-> 0], s1000sub1 |-> [index |-> 4096, sub |-> 1],
                s1000sub2 |-> [index |-> 4096, sub |-> 2], s1001sub3 |-> [index |-> 4097, sub |-> 3],
                sFFFFsub1 |-> [index |-> 65535, sub |-> 1] ]

(* The first starts where the second ends; the third has an object without *)
(* sub-index, whose access type goes to the entry before; the fourth has a *)
(* section twice; the last has the index that stands for no index.         *)
MCEdsFiles ==
    [ gaps  |-> <<Access("s1000sub0", "ro"), Access("s1000sub1", "const"), Access("s1000sub2", "rw"),
                  Access("s1001sub3", "rww")>>,
      again |-> <<Named("info"), Named("s1001sub3"), Access("s1001sub3", "ro"),
                  Access("s1000sub0", "wo"), Named("s1000sub0")>>,
      plain |-> <<Access("s1000sub1", "ro"), Access("s1002", "wo"), Access("s1000sub1", "none"),
                  Access("s1000sub2", "none")>>,
      twice |-> <<Access("s1000sub1", "ro"), Access("s1000sub2", "rw"), Access("s1000sub1", "const")>>,
      edge  |-> <<Access("s1000sub2", "ro"), Access("sFFFFsub1", "ro"), Access("s1000sub0", "ro"),
                  Access("s1002", "rw"), Access("s1001sub3", "ro")>> ]
=============================================================================
