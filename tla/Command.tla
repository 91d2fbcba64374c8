------------------------------ MODULE Command ------------------------------
(***************************************************************************)
(* The command line (src/src/core/command.c): what a line asks for, and    *)
(* what is offered to complete it.                                         *)
(*                                                                         *)
(* A line is the number of blanks before its first token, and its tokens.  *)
(* A token has its first letter, its size, the number written in it (0 if  *)
(* there is none) and how that is written: "digits", "hex" (0x) or "HEX"   *)
(* (0X); any other token is a "word".  A quotation mark may open or close  *)
(* a word.  Numbers are below 2^31.                                        *)
(***************************************************************************)
EXTENDS PdoIds, Sequences, SequencesExt

CONSTANT Words   \* words and letters: those named here, and any others

Letters == {"b", "d", "n", "q", "r", "s", "w"}   \* the commands offered

ASSUME WordsAssumption ==
    Letters \cup {"op", "stop", "preop", "reset", "comm", "number"} \subseteq Words

Token == {t \in [word : Words, letter : Words, size : Nat, number : Nat,
                 form : {"digits", "hex", "HEX", "word"}, opens : BOOLEAN, closes : BOOLEAN] :
            t.word \in Letters => t.letter = t.word /\ t.size = 1}
Line  == [blanks : Nat, tokens : Seq(Token)]

(* A call: the function, its numbers, and its text if it has one.          *)
Call(fn, args) == [fn |-> fn, args |-> args, text |-> <<>>]

Usage == Call("print_usage_information", <<FALSE>>)

UINT8(n)  == n % 256
UINT16(n) == n % 65536

convert_token_to_uint(token) == IF token.form = "HEX" THEN 0 ELSE token.number
Numbers(tokens) == [k \in DOMAIN tokens |-> convert_token_to_uint(tokens[k])]

-----------------------------------------------------------------------------
(* One operator per command; args are the tokens that follow it.           *)

set_channel(args) ==
    IF args = <<>> THEN Call("can_print_channel_help", <<>>)
                   ELSE Call("can_set_channel", <<Numbers(args)[1]>>)

set_baud_rate(args) ==
    IF args = <<>> THEN Call("can_print_baud_rate_help", <<>>)
                   ELSE Call("can_set_baud_rate", <<UINT8(Numbers(args)[1])>>)

database(args) ==
    CASE Len(args) = 0 -> Call("list_codb", <<>>)
      [] Len(args) = 1 -> Call("load_codb", Numbers(args))
      [] OTHER -> Call("dict_lookup_object", <<UINT16(Numbers(args)[1]), UINT8(Numbers(args)[2])>>)

(* The aliases of the commands, in the order of the comparisons.  A token  *)
(* is compared over its own length: the first alias it begins counts.      *)
Aliases == <<[name |-> {"o", "op"}, command |-> 1],
             [name |-> {"s", "st", "sto", "stop"}, command |-> 2],
             [name |-> {"p", "pr", "pre", "preo", "preop"}, command |-> 128],
             [name |-> {"r", "re", "res", "rese", "reset"}, command |-> 129],
             [name |-> {"c", "co", "com", "comm"}, command |-> 130]>>

CommandOf(token) ==
    LET Fits(a) == token.word \in a.name
        at == SelectInSeq(Aliases, Fits)
    IN IF at = 0 THEN convert_token_to_uint(token) ELSE Aliases[at].command

nmt(args) ==
    CASE Len(args) = 0 -> Usage
      [] Len(args) = 1 -> Call("nmt_print_help", <<>>)
      [] OTHER -> Call("nmt_send_command", <<UINT8(Numbers(args)[1]), UINT8(CommandOf(args[2]))>>)

(* A PDO is checked as an uint16, then CAN must be initialised.            *)
WithPdo(can_id, initialised, call) ==
    CASE ~pdo_is_id_valid(UINT16(can_id)) -> Call("pdo_print_help", <<>>)
      [] ~initialised -> Call("os_log", <<>>)
      [] OTHER -> call

pdo(args, initialised) ==
    LET n == Numbers(args) IN
    CASE Len(args) >= 5 /\ args[1].word = "add" ->
            WithPdo(n[2], initialised, Call("pdo_add", <<UINT16(n[2]), n[3], UINT8(n[4]), n[5]>>))
      [] Len(args) >= 2 /\ args[1].word = "del" ->
            WithPdo(n[2], initialised, Call("pdo_del", <<UINT16(n[2])>>))
      [] OTHER -> Usage

(* Node, index and sub-index of an SDO.                                    *)
Object(n, sub_index) == <<UINT8(n[1]), UINT16(n[2]), UINT8(sub_index)>>

read(args) ==
    IF Len(args) < 2 THEN Usage
    ELSE Call("sdo_read", Object(Numbers(args), IF Len(args) = 2 THEN 0 ELSE Numbers(args)[3]))

(* Data that begins with digits are a length and a number; everything else *)
(* is a text, whose words are joined by single blanks, without the         *)
(* quotation marks around it.                                              *)
TextSize(words) ==
    FoldLeft(LAMBDA size, w : size + 1 + w.size, -1, words)
      - (IF Head(words).opens /\ Last(words).closes THEN 2 ELSE 0)

write(args) ==
    LET n     == Numbers(args)
        words == SubSeq(args, 4, Len(args))
    IN CASE Len(args) < 4 -> Usage
         [] Head(words).form = "digits" /\ n[4] > 0 ->
               Call("sdo_write", Object(n, n[3]) \o <<n[4], IF Len(args) = 4 THEN 0 ELSE n[5]>>)
         [] Head(words).form # "digits" /\ TextSize(words) > 0 ->
               [Call("sdo_write_segmented", Object(n, n[3]) \o <<TextSize(words)>>)
                   EXCEPT !.text = [k \in DOMAIN words |-> words[k].word]]
         [] OTHER -> Usage

RunScript(token) == [Call("run_script", <<>>) EXCEPT !.text = <<token.word>>]

script(args) ==
    IF args = <<>> THEN Call("print_usage_information", <<TRUE>>) ELSE RunScript(args[1])

(* A word of its own is a script, and so is whatever follows one blank.    *)
IsScript(line) ==
    \/ line.blanks = 1
    \/ line.blanks = 0 /\ line.tokens[1].size > 1

FirstLetter(line, initialised) ==
    LET c    == line.tokens[1].letter
        args == Tail(line.tokens)
    IN CASE c = "y" -> set_channel(args)
         [] c = "b" -> set_baud_rate(args)
         [] c = "c" -> Call("system", <<>>)
         [] c = "d" -> database(args)
         [] c = "q" -> Call("quit", <<>>)
         [] c = "h" -> Call("print_usage_information", <<TRUE>>)
         [] c = "n" -> nmt(args)
         [] c = "l" -> Call("list_scripts", <<>>)
         [] c = "p" -> pdo(args, initialised)
         [] c = "r" -> read(args)
         [] c = "w" -> write(args)
         [] c = "s" -> script(args)
         [] OTHER -> Usage

parse_command(line, initialised) ==
    CASE line.tokens = <<>> -> Call("nothing", <<>>)
      [] line.tokens # <<>> /\ IsScript(line) -> RunScript(line.tokens[1])
      [] OTHER -> FirstLetter(line, initialised)

-----------------------------------------------------------------------------
(* Completion of a line that ends after a blank.                           *)

AnyWord(line, cmd) == Len(line.tokens) >= 2 /\ line.tokens[1].word = cmd   \* mutant
has_node_id_arg(line, cmd) ==
    /\ line.blanks = 0 /\ Len(line.tokens) >= 2
    /\ line.tokens[1].word = cmd /\ line.tokens[2].form # "word"

Begins(line, cmd) == line.blanks = 0 /\ line.tokens # <<>> /\ line.tokens[1].word = cmd

(* Words and numbers offered for a line, given the scripts there are.      *)
Offered(w, n, form) ==
    [word |-> w, letter |-> w, size |-> IF w \in Letters THEN 1 ELSE 2, number |-> n,
     form |-> form, opens |-> FALSE, closes |-> FALSE]
Word(w)         == Offered(w, 0, "word")
Number(n, form) == Offered("number", n, form)

completion_add(line, scripts) ==
    CASE line.blanks = 0 /\ line.tokens = <<>> ->
            {Word(c) : c \in Letters}
      [] Begins(line, "b") -> {Number(n, "digits") : n \in 1 .. 14}
      [] Begins(line, "d") -> {Number(n, "digits") : n \in 1 .. 16}
      [] has_node_id_arg(line, "n") -> {Word(w) : w \in {"op", "stop", "preop", "reset", "comm"}}
      [] has_node_id_arg(line, "r") ->
            {Number(n, "hex") : n \in {4096, 4097, 4098, 4099, 4104, 4105, 4106, 4120}}
      [] has_node_id_arg(line, "w") -> {Number(n, "hex") : n \in {4112, 4113, 4118, 4119}}
      [] Begins(line, "s") \/ line.blanks > 0 -> {Word(s) : s \in scripts}
      [] OTHER -> {}
=============================================================================
