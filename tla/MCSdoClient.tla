---------------------------- MODULE MCSdoClient ----------------------------
(***************************************************************************)
(* Instances of SdoClient: segments of two characters, sizes kept modulo   *)
(* six, expedited downloads of one character.                              *)
(***************************************************************************)
EXTENDS SdoClient, TLC

Value(text)       == [expedited |-> TRUE, sized |-> TRUE, text |-> text]
Text(text, sized) == [expedited |-> FALSE, sized |-> sized, text |-> text]

Read(key)         == [op |-> "read", key |-> key, text |-> <<>>]
Write(key, text)  == [op |-> "write", key |-> key, text |-> text]
String(key, text) == [op |-> "string", key |-> key, text |-> text]
File(key, text)   == [op |-> "file", key |-> key, text |-> text]

(* Two sub-indices of one index, and texts that fill two segments and that *)
(* fill three, the last one partly; <<4, 0>> is not there.                 *)
MCOD == (<<1, 0>> :> Value(<<"a">>)) @@ (<<1, 1>> :> Value(<<"b">>))
           @@ (<<2, 0>> :> Text(<<"c", "d", "e", "f">>, TRUE))
           @@ (<<3, 0>> :> Text(<<"g", "h", "i", "j", "k">>, TRUE))

MCReads  == {Read(key) : key \in DOMAIN MCOD \cup {<<4, 0>>}}
(* Texts of one to three segments, and one short enough for one frame.     *)
MCWrites == {Write(<<1, 1>>, <<"x">>), String(<<2, 0>>, <<"y">>),
             String(<<2, 0>>, <<"s", "t">>), String(<<3, 0>>, <<"u", "v", "w", "x", "y">>)}
(* A file that ends with a block, and one that does not.                   *)
MCFiles  == {File(<<3, 0>>, <<"A", "B", "C">>), File(<<2, 0>>, <<"D", "E", "F", "G", "H">>)}

MCTexts  == MCReads \cup MCWrites \cup {String(<<4, 0>>, <<"s", "t">>)}
MCCalls  == MCTexts \cup MCFiles

(* With a text longer than one byte can tell, one not all printable, a     *)
(* text of unknown size, and the index for which no answer is waited for.  *)
MCHarshOD ==
    (<<1, 0>> :> Value(<<"a">>)) @@ (<<1, 1>> :> Value(<<"b">>))
       @@ (<<2, 0>> :> Text(<<"c", "nul", "e">>, TRUE))
       @@ (<<5, 0>> :> Text(<<"l", "m", "n", "o", "p", "q", "r", "s", "t", "u", "v">>, TRUE))
       @@ (<<6, 0>> :> Text(<<"u", "v">>, FALSE))
MCHarshCalls ==
    {Read(key) : key \in {<<1, 0>>, <<2, 0>>, <<5, 0>>, <<6, 0>>, <<0, 1>>}}
       \cup {Write(<<1, 1>>, <<"x">>), String(<<2, 0>>, <<"s", "t", "w">>),
             File(<<2, 0>>, <<"A", "B", "C">>), File(<<0, 1>>, <<"A">>)}

MCNonPrintable == {"nul"}
MCChars == UNION UNION {{Range(d[key].text) : key \in DOMAIN d} : d \in {MCOD, MCHarshOD}}
              \cup UNION {Range(c.text) : c \in MCCalls \cup MCHarshCalls}

Prompted(set, faults, queue, number) ==
    [prompt |-> TRUE, faults |-> faults, od |-> MCOD, calls |-> set, blocks |-> {2},
     maxQueue |-> queue, maxCalls |-> number]
Harsh == [prompt |-> FALSE, faults |-> {"loss", "abort", "write", "file"}, od |-> MCHarshOD,
          calls |-> MCHarshCalls, blocks |-> {1, 2}, maxQueue |-> 1, maxCalls |-> 3]

(* A prompt node that is asked for texts, one that is sent files as well,  *)
(* both as in Plain, and one that is late, loses frames and aborts.        *)
MCSetups      == <<Prompted(MCTexts, {}, 2, 4), Prompted(MCCalls, {}, 1, 3), Harsh>>
MCAbortSetups == <<Prompted(MCReads, {"abort"}, 1, 2)>>
MCFileSetups  == <<Prompted(MCFiles, {}, 0, 1)>>

ASSUME WrittenAsRead
=============================================================================
