-------------------------- MODULE Terminal_proofs --------------------------
(***************************************************************************)
(* Proofs about Terminal for every line, completion and call of a script:  *)
(* an NMT frame is the command and the node that were given, a completed   *)
(* line is a command, answers come from the last DBC file or say that      *)
(* memory is short, and a conformance test judges once each object whose   *)
(* section nothing disturbs.                                               *)
(***************************************************************************)
EXTENDS Terminal, InductionLemmas, TLAPS

NmtCall  == "nmt_send_command"
NmtCalls == {"nmt_send_command", "lua_nmt_send_command"}

(* Numbers are natural, and cut to a byte they are those of the byte.      *)
LEMMA NumberIsNatural ==
    ASSUME NEW token \in Token
    PROVE  convert_token_to_uint(token) \in Nat
  BY DEF convert_token_to_uint, Token

LEMMA LowByte ==
    ASSUME NEW n \in Int
    PROVE  UINT8(n) \in 0 .. 255 /\ (n \in 0 .. 127 => UINT8(n) = n)
  BY DEF UINT8

(* Limited, a byte is a node, and limiting it again changes nothing.       *)
LEMMA LimitedByte ==
    ASSUME NEW k \in 0 .. 255
    PROVE  limit_node_id(k) \in 0 .. 127
  BY DEF limit_node_id

LEMMA NodeUnchanged ==
    ASSUME NEW k \in 0 .. 127
    PROVE  limit_node_id(k) = k
  BY DEF limit_node_id

LEMMA Limited ==
    ASSUME NEW n \in Int
    PROVE  /\ limit_node_id(UINT8(n)) \in 0 .. 127
           /\ limit_node_id(limit_node_id(UINT8(n))) = limit_node_id(UINT8(n))
           /\ n \in 0 .. 127 => limit_node_id(UINT8(n)) = n
<1>1. UINT8(n) \in 0 .. 255
  BY LowByte
<1>2. limit_node_id(UINT8(n)) \in 0 .. 127
  BY <1>1, LimitedByte, Zenon
<1>3. limit_node_id(limit_node_id(UINT8(n))) = limit_node_id(UINT8(n))
  BY <1>2, NodeUnchanged, Zenon
<1>4. ASSUME n \in 0 .. 127
      PROVE  limit_node_id(UINT8(n)) = n
  <2>1. UINT8(n) = n
    BY <1>4, LowByte
  <2>2. limit_node_id(n) = n
    BY <1>4, NodeUnchanged, Zenon
  <2> QED
    BY <2>1, <2>2, Zenon
<1> QED
  BY <1>2, <1>3, <1>4

-----------------------------------------------------------------------------
(* No other command calls nmt_send_command, and none the script's.         *)

LEMMA OthersDoNotSend ==
    ASSUME NEW args, NEW initialised
    PROVE  /\ set_channel(args).fn \notin NmtCalls
           /\ set_baud_rate(args).fn \notin NmtCalls
           /\ database(args).fn \notin NmtCalls
           /\ read(args).fn \notin NmtCalls
           /\ script(args).fn \notin NmtCalls
<1>1. set_channel(args).fn \notin NmtCalls
  BY DEF set_channel, Call, NmtCalls
<1>2. set_baud_rate(args).fn \notin NmtCalls
  BY DEF set_baud_rate, Call, NmtCalls
<1>3. database(args).fn \notin NmtCalls
  BY DEF database, Call, NmtCalls
<1>4. read(args).fn \notin NmtCalls
  BY DEF read, Call, Usage, NmtCalls
<1>5. script(args).fn \notin NmtCalls
  BY DEF script, RunScript, Call, NmtCalls
<1> QED
  BY <1>1, <1>2, <1>3, <1>4, <1>5

LEMMA PdoDoesNotSend ==
    ASSUME NEW args, NEW initialised
    PROVE  pdo(args, initialised).fn \notin NmtCalls
<1>1. ASSUME NEW id, NEW call, call.fn \notin NmtCalls
      PROVE  WithPdo(id, initialised, call).fn \notin NmtCalls
  BY <1>1 DEF WithPdo, Call, NmtCalls
<1>2. \A numbers : Call("pdo_add", numbers).fn \notin NmtCalls /\ Call("pdo_del", numbers).fn \notin NmtCalls
  BY DEF Call, NmtCalls
<1>3. Usage.fn \notin NmtCalls
  BY DEF Usage, Call, NmtCalls
<1> QED
  BY <1>1, <1>2, <1>3 DEF pdo

LEMMA WriteDoesNotSend ==
    ASSUME NEW args
    PROVE  write(args).fn \notin NmtCalls
<1>1. \A numbers : Call("sdo_write", numbers).fn \notin NmtCalls
  BY DEF Call, NmtCalls
<1>2. \A numbers, words :
         [Call("sdo_write_segmented", numbers) EXCEPT !.text = words].fn \notin NmtCalls
  BY DEF Call, NmtCalls
<1>3. Usage.fn \notin NmtCalls
  BY DEF Usage, Call, NmtCalls
<1> QED
  BY <1>1, <1>2, <1>3 DEF write

LEMMA AtLeastTwo ==
    ASSUME NEW n \in Nat, n # 0, n # 1
    PROVE  n >= 2
  OBVIOUS

(* A line that sends is an "n" with two more tokens; the call has the low  *)
(* bytes of the node and the command.                                      *)
LEMMA NmtLine ==
    ASSUME NEW line \in Line, NEW initialised,
           parse_command(line, initialised).fn \in NmtCalls
    PROVE  /\ Len(line.tokens) >= 3
           /\ parse_command(line, initialised).fn = "nmt_send_command"
           /\ parse_command(line, initialised).args
                = <<UINT8(convert_token_to_uint(line.tokens[2])),
                    UINT8(CommandOf(line.tokens[3]))>>
<1> DEFINE args == Tail(line.tokens)
<1>1. line.tokens \in Seq(Token)
  BY DEF Line
<1>2. \A token : RunScript(token).fn \notin NmtCalls
  BY DEF RunScript, Call, NmtCalls
<1>3. line.tokens # <<>> /\ parse_command(line, initialised) = FirstLetter(line, initialised)
  BY <1>2 DEF parse_command, Call, NmtCalls
<1>4. Usage.fn \notin NmtCalls
  BY DEF Usage, Call, NmtCalls
<1>5. \A fn, numbers : Call(fn, numbers).fn = fn /\ Call(fn, numbers).args = numbers
  BY DEF Call
<1>6. FirstLetter(line, initialised) = nmt(args)
  BY <1>3, <1>4, <1>5, OthersDoNotSend, PdoDoesNotSend, WriteDoesNotSend DEF FirstLetter, NmtCalls
<1>7. args \in Seq(Token) /\ Len(args) = Len(line.tokens) - 1
      /\ \A k \in 1 .. Len(args) : args[k] = line.tokens[k + 1]
  BY <1>1, <1>3
<1>8. Len(args) >= 2
  <2>1. nmt(args).fn \in NmtCalls
    BY <1>3, <1>6
  <2>2. ASSUME Len(args) = 0
        PROVE  FALSE
    <3>1. Len(args) # 1
      BY <2>2
    <3>2. nmt(args) = Usage
      BY <2>2, <3>1 DEF nmt
    <3> QED
      BY <1>4, <2>1, <3>2
  <2>3. ASSUME Len(args) = 1
        PROVE  FALSE
    <3>1. Len(args) # 0
      BY <2>3
    <3>2. nmt(args) = Call("nmt_print_help", <<>>)
      BY <2>3, <3>1 DEF nmt
    <3> QED
      BY <1>5, <2>1, <3>2 DEF NmtCalls
  <2>4. Len(args) \in Nat
    BY <1>7
  <2>5. Len(args) # 0 /\ Len(args) # 1
    BY <2>2, <2>3
  <2> QED
    BY <2>4, <2>5, AtLeastTwo
<1>9. nmt(args) = Call("nmt_send_command", <<UINT8(Numbers(args)[1]), UINT8(CommandOf(args[2]))>>)
  BY <1>7, <1>8 DEF nmt
<1>10. Numbers(args)[1] = convert_token_to_uint(args[1])
  BY <1>7, <1>8 DEF Numbers
<1>11. nmt(args).fn = "nmt_send_command"
  BY <1>5, <1>9
<1>12. nmt(args).args = <<UINT8(Numbers(args)[1]), UINT8(CommandOf(args[2]))>>
  BY <1>5, <1>9
<1>13. args[1] = line.tokens[2] /\ args[2] = line.tokens[3]
  BY <1>7, <1>8
<1> QED
  BY <1>3, <1>6, <1>7, <1>8, <1>10, <1>11, <1>12, <1>13

-----------------------------------------------------------------------------
(* What a call of nmt_send_command sends is what AsGiven asks for.         *)
Sent(o) == \/ o.frame = NoFrame
           \/ o.frame[1] \in NmtCommands /\ o.frame[2] \in 0 .. 127

LEMMA SentAsGiven ==
    ASSUME NEW n \in Int, NEW b \in Int, NEW command, NEW accepted \in BOOLEAN,
           NEW o, o = nmt_send_command(b, command, accepted),
           limit_node_id(b) = limit_node_id(UINT8(n))
    PROVE  /\ Sent(o)
           /\ IF command \in NmtCommands
              THEN n \in 0 .. 127 => \/ o.frame = <<command, n>>
                                     \/ o.status = "CAN_WRITE_ERROR" /\ o.frame = NoFrame
              ELSE o.frame = NoFrame /\ o.status = "NMT_UNKNOWN_COMMAND"
<1>1. limit_node_id(b) \in 0 .. 127 /\ (n \in 0 .. 127 => limit_node_id(b) = n)
  BY Limited
<1>2. CASE command \notin NmtCommands
  BY <1>2 DEF nmt_send_command, Sent
<1>3. CASE command \in NmtCommands /\ accepted
  BY <1>1, <1>3 DEF nmt_send_command, Sent
<1>4. CASE command \in NmtCommands /\ ~accepted
  BY <1>1, <1>4 DEF nmt_send_command, Sent
<1> QED
  BY <1>2, <1>3, <1>4

(* A line leaves the frame it gives.                                       *)
LEMMA LineIsSent ==
    ASSUME NEW line \in Line, NEW completed, NEW initialised, NEW accepted \in BOOLEAN,
           Entered(line, completed, initialised, accepted)
    PROVE  FrameIsTheCommandGiven'
<1> DEFINE call == parse_command(line, initialised)
           sent == IF call.fn = NmtCall
                   THEN nmt_send_command(call.args[1], call.args[2], accepted)
                   ELSE [status |-> "ALL_OK", frame |-> NoFrame]
<1>1. out' = [NoOutcome EXCEPT !.fn = call.fn, !.args = call.args, !.text = call.text,
                               !.line = line, !.completed = completed,
                               !.status = sent.status, !.frame = sent.frame]
  BY DEF Entered, NmtCall
<1>2. /\ out'.fn = call.fn /\ out'.line = line
      /\ out'.status = sent.status /\ out'.frame = sent.frame
  BY <1>1 DEF NoOutcome
<1>3. CASE call.fn \notin NmtCalls
  <2>1. out'.fn \notin NmtCalls /\ out'.frame = NoFrame
    BY <1>2, <1>3 DEF NmtCalls, NmtCall
  <2> QED
    BY <2>1 DEF FrameIsTheCommandGiven, NmtCalls, NmtCall
<1>4. CASE call.fn \in NmtCalls
  <2> DEFINE node    == convert_token_to_uint(line.tokens[2])
             command == UINT8(CommandOf(line.tokens[3]))
  <2>1. /\ Len(line.tokens) >= 3
        /\ call.fn = NmtCall /\ call.args = <<UINT8(node), command>>
    BY <1>4, NmtLine DEF NmtCall
  <2>2. node \in Nat
    BY <2>1, NumberIsNatural DEF Line
  <2>3. sent = nmt_send_command(UINT8(node), command, accepted)
    BY <2>1
  <2>4. UINT8(node) \in Int
    BY <2>2, LowByte
  <2>5. /\ Sent(sent)
        /\ IF command \in NmtCommands
           THEN node \in 0 .. 127 => \/ sent.frame = <<command, node>>
                                     \/ sent.status = "CAN_WRITE_ERROR" /\ sent.frame = NoFrame
           ELSE sent.frame = NoFrame /\ sent.status = "NMT_UNKNOWN_COMMAND"
    <3> HIDE DEF node, command, sent
    <3> QED
      BY <2>2, <2>3, <2>4, SentAsGiven
  <2>6. out'.fn = NmtCall
    BY <1>2, <2>1
  <2>7. TypedNode' = node /\ UINT8(CommandOf(out'.line.tokens[3])) = command
    BY <1>2 DEF TypedNode
  <2> QED
    <3> HIDE DEF node, command, sent, call
    <3>1. Sent(out)'
      BY <1>2, <2>5 DEF Sent
    <3>2. AsGiven(TypedNode, UINT8(CommandOf(out.line.tokens[3])))'
      BY <1>2, <2>5, <2>7 DEF AsGiven
    <3> QED
      BY <2>6, <3>1, <3>2 DEF FrameIsTheCommandGiven, Sent, NmtCall
<1> QED
  BY <1>3, <1>4

(* So does a script's call: it limits the low byte of the node twice.      *)
LEMMA ScriptIsSent ==
    ASSUME lua_nmt_send_command
    PROVE  FrameIsTheCommandGiven'
<1>1. PICK c \in ScriptNmt, accepted \in BOOLEAN :
         out' = [NoOutcome EXCEPT
                   !.fn = "lua_nmt_send_command", !.args = <<c.node, c.command>>,
                   !.status = script_nmt_send_command(c.node, c.command, accepted).status,
                   !.frame = script_nmt_send_command(c.node, c.command, accepted).frame]
  BY DEF lua_nmt_send_command
<1> DEFINE node    == c.node
           command == c.command
           sent    == script_nmt_send_command(node, command, accepted)
<1>2. node \in Int /\ command \in Int
  BY TerminalAssumption
<1>3. /\ out'.fn = "lua_nmt_send_command" /\ out'.args = <<node, command>>
      /\ out'.status = sent.status /\ out'.frame = sent.frame
  BY <1>1 DEF NoOutcome
<1> HIDE DEF node, command
<1>4. /\ Sent(sent)
      /\ IF command \in NmtCommands
         THEN node \in 0 .. 127 => \/ sent.frame = <<command, node>>
                                   \/ sent.status = "CAN_WRITE_ERROR" /\ sent.frame = NoFrame
         ELSE sent.frame = NoFrame /\ sent.status = "NMT_UNKNOWN_COMMAND"
  <2>1. CASE command \in NmtCommands
    <3> DEFINE b == limit_node_id(UINT8(node))
    <3>1. sent = nmt_send_command(b, command, accepted)
      BY <2>1 DEF script_nmt_send_command
    <3>2. b \in Int /\ limit_node_id(b) = limit_node_id(UINT8(node))
      BY <1>2, Limited
    <3> HIDE DEF b, sent
    <3> QED
      BY <1>2, <3>1, <3>2, SentAsGiven
  <2>2. CASE command \notin NmtCommands
    BY <2>2 DEF script_nmt_send_command, Sent
  <2> QED
    BY <2>1, <2>2
<1> HIDE DEF sent
<1>5. Sent(out)'
  BY <1>3, <1>4 DEF Sent
<1>6. AsGiven(out.args[1], out.args[2])'
  BY <1>3, <1>4 DEF AsGiven
<1> QED
  BY <1>3, <1>5, <1>6 DEF FrameIsTheCommandGiven, Sent

(* A word that is offered is a token.                                      *)
LEMMA WordIsToken ==
    ASSUME NEW w \in Words
    PROVE  Word(w) \in Token /\ Word(w).word = w
  BY DEF Word, Offered, Token

LEMMA NumberIsToken ==
    ASSUME NEW n \in Nat, NEW form \in {"digits", "hex"}
    PROVE  /\ Number(n, form) \in Token
           /\ Number(n, form).number = n /\ Number(n, form).form = form
<1>1. Number(n, form) = [word |-> "number", letter |-> "number", size |-> 2, number |-> n,
                         form |-> form, opens |-> FALSE, closes |-> FALSE]
  BY DEF Number, Offered, Letters
<1>2. "number" \in Words /\ "number" \notin Letters
  BY WordsAssumption DEF Letters
<1> QED
  BY <1>1, <1>2 DEF Token

LEMMA OfferedIsToken ==
    ASSUME NEW line, NEW word \in completion_add(line, ScriptNames)
    PROVE  word \in Token
<1>1. \/ \E w \in Letters \cup {"op", "stop", "preop", "reset", "comm"} \cup ScriptNames : word = Word(w)
      \/ \E n \in (1 .. 16) \cup {4096, 4097, 4098, 4099, 4104, 4105, 4106, 4112, 4113,
                                   4118, 4119, 4120}, form \in {"digits", "hex"} :
            word = Number(n, form)
  BY DEF completion_add
<1>2. Letters \cup {"op", "stop", "preop", "reset", "comm"} \cup ScriptNames \subseteq Words
  BY WordsAssumption, TerminalAssumption
<1>3. (1 .. 16) \cup {4096, 4097, 4098, 4099, 4104, 4105, 4106, 4112, 4113, 4118, 4119, 4120}
         \subseteq Nat
  OBVIOUS
<1> QED
  BY <1>1, <1>2, <1>3, WordIsToken, NumberIsToken

LEMMA CompletedIsLine ==
    ASSUME NEW prefix \in Unfinished, NEW word \in completion_add(prefix, ScriptNames)
    PROVE  [prefix EXCEPT !.tokens = Append(@, word)] \in Line
<1>1. prefix \in Line
  BY TerminalAssumption
<1>2. word \in Token
  BY OfferedIsToken
<1> QED
  BY <1>1, <1>2 DEF Line

(* Every other step leaves the outcome alone, or one without a frame.      *)
Quiet(o) == o.frame = NoFrame /\ o.fn \notin NmtCalls

LEMMA QuietIsFine ==
    ASSUME Quiet(out)
    PROVE  FrameIsTheCommandGiven
  BY DEF Quiet, FrameIsTheCommandGiven, NmtCalls

LEMMA OthersAreQuiet ==
    ASSUME \/ lua_dbc_load \/ LoadGoesOn \/ lua_dbc_find_id_by_name
           \/ lua_dbc_decode \/ py_dbc_decode
           \/ lua_test_eds_file \/ TestGoesOn \/ NextTurn \/ core_deinit
    PROVE  out' = out \/ Quiet(out')
<1>1. Quiet(NoOutcome)
  BY DEF NoOutcome, Quiet, NmtCalls
<1>2. ASSUME NEW status, LoadReturns(status)
      PROVE  Quiet(out')
  BY <1>2 DEF LoadReturns, NoOutcome, Quiet, NmtCalls
<1>3. ASSUME NEW can_id, NEW frame, NEW filter, Decoded(can_id, frame, filter)
      PROVE  Quiet(out')
  <2>1. CASE out' = NoOutcome
    BY <1>1, <2>1
  <2>2. ASSUME NEW answer, out' = [NoOutcome EXCEPT !.fn = "dbc_decode", !.args = <<can_id>>,
                                                    !.text = <<filter>>, !.answer = answer]
        PROVE  Quiet(out')
    BY <2>2 DEF NoOutcome, Quiet, NmtCalls
  <2> QED
    BY <1>3, <2>1, <2>2, Zenon DEF Decoded
<1>4. CASE lua_dbc_load
  BY <1>1, <1>2, <1>4 DEF lua_dbc_load
<1>5. CASE LoadGoesOn
  BY <1>2, <1>5 DEF LoadGoesOn
<1>6. CASE lua_dbc_find_id_by_name
  BY <1>6 DEF lua_dbc_find_id_by_name, NoOutcome, Quiet, NmtCalls
<1>7. CASE lua_dbc_decode
  BY <1>3, <1>7 DEF lua_dbc_decode
<1>8. CASE py_dbc_decode
  BY <1>3, <1>8 DEF py_dbc_decode
<1>9. CASE lua_test_eds_file
  BY <1>1, <1>9 DEF lua_test_eds_file
<1>10. CASE TestGoesOn
  BY <1>10 DEF TestGoesOn
<1>11. CASE NextTurn
  BY <1>1, <1>11 DEF NextTurn
<1>12. CASE core_deinit
  BY <1>12 DEF core_deinit
<1> QED
  BY <1>4, <1>5, <1>6, <1>7, <1>8, <1>9, <1>10, <1>11, <1>12

LEMMA FrameStep ==
    ASSUME FrameIsTheCommandGiven, [Next]_vars
    PROVE  FrameIsTheCommandGiven'
<1>1. ASSUME out' = out
      PROVE  FrameIsTheCommandGiven'
  BY <1>1 DEF FrameIsTheCommandGiven, AsGiven, TypedNode
<1>2. CASE core_update
  <2>1. PICK line \in InputLines, initialised \in BOOLEAN, accepted \in BOOLEAN :
           Entered(line, FALSE, initialised, accepted)
    BY <1>2 DEF core_update
  <2>2. line \in Line
    BY TerminalAssumption
  <2> QED
    BY <2>1, <2>2, LineIsSent
<1>3. CASE completion_callback
  <2>1. PICK prefix \in Unfinished, initialised \in BOOLEAN, accepted \in BOOLEAN :
           \E word \in completion_add(prefix, ScriptNames) :
              Entered([prefix EXCEPT !.tokens = Append(@, word)], TRUE, initialised, accepted)
    BY <1>3 DEF completion_callback
  <2>2. PICK word \in completion_add(prefix, ScriptNames) :
           Entered([prefix EXCEPT !.tokens = Append(@, word)], TRUE, initialised, accepted)
    BY <2>1
  <2>3. [prefix EXCEPT !.tokens = Append(@, word)] \in Line
    BY CompletedIsLine
  <2> QED
    BY <2>2, <2>3, LineIsSent
<1>4. CASE lua_nmt_send_command
  BY <1>4, ScriptIsSent
<1>5. ASSUME Quiet(out')
      PROVE  FrameIsTheCommandGiven'
  BY <1>5 DEF Quiet, FrameIsTheCommandGiven, NmtCalls
<1>6. CASE UNCHANGED vars
  BY <1>1, <1>6 DEF vars
<1> QED
  BY <1>1, <1>2, <1>3, <1>4, <1>5, <1>6, OthersAreQuiet DEF Next

(* The frame a line, a completion or a script sends is the command and the *)
(* node given, whatever lines, scripts, files and data sheets there are.   *)
THEOREM FrameCorrect == Spec => []FrameIsTheCommandGiven
<1>1. Init => FrameIsTheCommandGiven
  <2>1. Quiet(NoOutcome)
    BY DEF NoOutcome, Quiet, NmtCalls
  <2> QED
    BY <2>1, QuietIsFine DEF Init
<1>2. FrameIsTheCommandGiven /\ [Next]_vars => FrameIsTheCommandGiven'
  BY FrameStep
<1> QED
  BY <1>1, <1>2, PTL DEF Spec
-----------------------------------------------------------------------------
(* What a completed line asks for.                                         *)

LEMMA AliasIsCommand ==
    ASSUME NEW w \in {"op", "stop", "preop", "reset", "comm"}
    PROVE  UINT8(CommandOf(Word(w))) \in NmtCommands
<1> DEFINE I == {k \in 1 .. Len(Aliases) : w \in Aliases[k].name}
<1>1. CommandOf(Word(w)) = IF (IF I # {} THEN Min(I) ELSE 0) = 0
                           THEN convert_token_to_uint(Word(w))
                           ELSE Aliases[IF I # {} THEN Min(I) ELSE 0].command
  BY DEF CommandOf, SelectInSeq, Word, Offered
<1>2. Len(Aliases) = 5
  BY DEF Aliases
<1>3. I # {}
  <2>1. \E k \in 1 .. 5 : w \in Aliases[k].name
    BY DEF Aliases
  <2> QED
    BY <1>2, <2>1
<1>4. Min(I) \in 1 .. 5
  <2>1. I \in SUBSET Nat
    BY <1>2
  <2>2. \E x \in I : \A y \in I : x <= y
    BY <1>3, <2>1, HasLeast, Zenon
  <2> HIDE DEF I
  <2>3. Min(I) \in I
    BY <2>2 DEF Min
  <2> QED
    BY <1>2, <2>3 DEF I
<1> HIDE DEF I
<1>5. CommandOf(Word(w)) = Aliases[Min(I)].command
  BY <1>1, <1>3, <1>4
<1>6. \A k \in 1 .. 5 : Aliases[k].command \in {1, 2, 128, 129, 130}
  BY DEF Aliases
<1>7. \A n \in {1, 2, 128, 129, 130} : UINT8(n) \in NmtCommands
  BY DEF UINT8, NmtCommands, NMT_OPERATIONAL, NMT_STOP, NMT_PRE_OPERATIONAL,
         NMT_RESET_NODE, NMT_RESET_COMM
<1> QED
  BY <1>4, <1>5, <1>6, <1>7

(* What is offered, for which lines.                                       *)
LEMMA WhatIsOffered ==
    ASSUME NEW prefix, NEW word \in completion_add(prefix, ScriptNames)
    PROVE  \/ prefix.blanks = 0 /\ prefix.tokens = <<>> /\ \E c \in Letters : word = Word(c)
           \/ Begins(prefix, "b") /\ \E n \in 1 .. 14 : word = Number(n, "digits")
           \/ Begins(prefix, "d")
           \/ /\ has_node_id_arg(prefix, "n")
              /\ \E w \in {"op", "stop", "preop", "reset", "comm"} : word = Word(w)
           \/ has_node_id_arg(prefix, "r")
           \/ has_node_id_arg(prefix, "w")
           \/ Begins(prefix, "s") \/ prefix.blanks > 0
<1> HIDE DEF Begins, has_node_id_arg
<1> QED
  BY DEF completion_add

(* A command by itself, and what follows it.                               *)
LEMMA ByLetter ==
    ASSUME NEW line, NEW initialised
    PROVE  LET is(c) == line.tokens[1].letter = c
               call  == FirstLetter(line, initialised)
               args  == Tail(line.tokens)
           IN /\ is("b") => call = set_baud_rate(args)
              /\ is("d") => call = database(args)
              /\ is("n") => call = nmt(args)
              /\ is("q") => call = Call("quit", <<>>)
              /\ is("r") => call = read(args)
              /\ is("s") => call = script(args)
              /\ is("w") => call = write(args)
  BY DEF FirstLetter

CommandLine(line, c) ==
    line.blanks = 0 /\ line.tokens # <<>> /\ line.tokens[1].word = c

LEMMA OneLetterLine ==
    ASSUME NEW line \in Line, NEW initialised, NEW c \in Letters, CommandLine(line, c)
    PROVE  /\ parse_command(line, initialised) = FirstLetter(line, initialised)
           /\ line.tokens[1].letter = c
           /\ Tail(line.tokens) \in Seq(Token) /\ Len(Tail(line.tokens)) = Len(line.tokens) - 1
           /\ \A k \in 1 .. Len(line.tokens) - 1 : Tail(line.tokens)[k] = line.tokens[k + 1]
<1>1. line.tokens \in Seq(Token) /\ line.blanks \in Nat /\ line.tokens # <<>>
  BY DEF Line, CommandLine
<1>2. line.tokens[1] \in Token
  BY <1>1
<1>3. line.tokens[1].letter = c /\ line.tokens[1].size = 1
  BY <1>2 DEF Token, CommandLine
<1>4. ~IsScript(line)
  BY <1>3 DEF IsScript, CommandLine
<1> QED
  BY <1>1, <1>3, <1>4 DEF parse_command

(* The part of the property that is about the call.                        *)
CallFits(call, line) ==
    /\ call.fn = "print_usage_information" => Len(line.tokens) = 1 \/ line.tokens[1].word = "w"
    /\ call.fn \in {"nmt_send_command", "sdo_read"} => line.tokens[2].form # "word"
    /\ call.fn = "can_set_baud_rate" /\ Len(line.tokens) = 2 => call.args[1] \in 1 .. 14
    /\ call.fn = "nmt_send_command" /\ Len(line.tokens) = 3 => call.args[2] \in NmtCommands

Fine == {"can_print_baud_rate_help", "list_codb", "load_codb", "dict_lookup_object", "quit",
         "nmt_print_help", "run_script", "sdo_write", "sdo_write_segmented"}

LEMMA FineFits ==
    ASSUME NEW call, NEW line, call.fn \in Fine
    PROVE  CallFits(call, line)
  BY DEF Fine, CallFits

LEMMA FnOfCall ==
    ASSUME NEW fn, NEW numbers
    PROVE  Call(fn, numbers).fn = fn /\ Call(fn, numbers).args = numbers
  BY DEF Call

LEMMA FnOfOthers ==
    /\ Usage.fn = "print_usage_information"
    /\ \A token : RunScript(token).fn = "run_script"
    /\ \A numbers, words :
          [Call("sdo_write_segmented", numbers) EXCEPT !.text = words].fn = "sdo_write_segmented"
  BY DEF Usage, RunScript, Call

(* The commands, with what they are given.                                 *)
LEMMA BaudRateCall ==
    ASSUME NEW args, args # <<>>
    PROVE  set_baud_rate(args) = Call("can_set_baud_rate", <<UINT8(Numbers(args)[1])>>)
  BY DEF set_baud_rate

LEMMA DatabaseIsFine ==
    ASSUME NEW args
    PROVE  database(args).fn \in Fine
  BY FnOfCall DEF database, Fine

LEMMA NmtCallWithTwo ==
    ASSUME NEW args \in Seq(Token), Len(args) >= 2
    PROVE  nmt(args) = Call("nmt_send_command",
                            <<UINT8(Numbers(args)[1]), UINT8(CommandOf(args[2]))>>)
<1> DEFINE n == Len(args)
<1>1. n \in Nat /\ n >= 2
  OBVIOUS
<1> HIDE DEF n
<1>2. n # 0 /\ n # 1
  BY <1>1
<1> QED
  BY <1>2 DEF nmt, n

LEMMA ReadCall ==
    ASSUME NEW args \in Seq(Token), Len(args) >= 2
    PROVE  read(args).fn = "sdo_read"
<1>1. ~(Len(args) < 2)
  OBVIOUS
<1> QED
  BY <1>1, FnOfCall DEF read

LEMMA WriteIsFine ==
    ASSUME NEW args
    PROVE  write(args).fn \in Fine \cup {"print_usage_information"}
<1>1. \A numbers : Call("sdo_write", numbers).fn \in Fine
  BY FnOfCall DEF Fine
<1>2. \A numbers, words : [Call("sdo_write_segmented", numbers) EXCEPT !.text = words].fn \in Fine
  BY FnOfOthers DEF Fine
<1>3. Usage.fn = "print_usage_information"
  BY FnOfOthers
<1> QED
  BY <1>1, <1>2, <1>3 DEF write

LEMMA ScriptIsFine ==
    ASSUME NEW args, args # <<>>
    PROVE  script(args).fn \in Fine
  BY FnOfOthers DEF script, Fine

LEMMA AloneIsFine ==
    /\ set_baud_rate(<<>>).fn \in Fine /\ database(<<>>).fn \in Fine
    /\ nmt(<<>>) = Usage /\ read(<<>>) = Usage
    /\ script(<<>>).fn = "print_usage_information"
    /\ Call("quit", <<>>).fn \in Fine
<1>1. set_baud_rate(<<>>).fn \in Fine /\ script(<<>>).fn = "print_usage_information"
      /\ Call("quit", <<>>).fn \in Fine
  BY FnOfCall DEF set_baud_rate, script, Fine
<1>2. Len(<<>>) = 0
  OBVIOUS
<1>3. nmt(<<>>) = Usage /\ read(<<>>) = Usage
  BY <1>2 DEF nmt, read
<1> QED
  BY <1>1, <1>3, DatabaseIsFine

LEMMA CompletedFits ==
    ASSUME NEW prefix \in Line, NEW word \in completion_add(prefix, ScriptNames),
           NEW line \in Line,
           line.blanks = prefix.blanks, line.tokens = Append(prefix.tokens, word),
           NEW initialised, line.blanks <= 1
    PROVE  CallFits(parse_command(line, initialised), line)
<1> DEFINE call == parse_command(line, initialised)
           args == Tail(line.tokens)
           n    == Len(prefix.tokens)
<1>1. prefix.blanks \in Nat /\ prefix.tokens \in Seq(Token) /\ word \in Token
  BY OfferedIsToken DEF Line
<1>2. /\ n \in Nat /\ Len(line.tokens) = n + 1 /\ line.tokens # <<>>
      /\ line.tokens[n + 1] = word
      /\ \A k \in 1 .. n : line.tokens[k] = prefix.tokens[k]
  BY <1>1
<1>3. prefix.tokens # <<>> => n >= 1 /\ line.tokens[1] = prefix.tokens[1]
  BY <1>1, <1>2
<1>4. prefix.tokens = <<>> => n = 0
  OBVIOUS
<1>5. ASSUME NEW c \in Letters, CommandLine(line, c)
      PROVE  /\ call = FirstLetter(line, initialised) /\ line.tokens[1].letter = c
             /\ args \in Seq(Token) /\ Len(args) = n
             /\ \A k \in 1 .. n : args[k] = line.tokens[k + 1]
             /\ n = 0 => args = <<>>
             /\ n # 0 => args # <<>>
  <2>1. /\ call = FirstLetter(line, initialised) /\ line.tokens[1].letter = c
        /\ args \in Seq(Token) /\ Len(args) = Len(line.tokens) - 1
        /\ \A k \in 1 .. Len(line.tokens) - 1 : args[k] = line.tokens[k + 1]
    BY <1>5, OneLetterLine
  <2>2. Len(line.tokens) - 1 = n
    BY <1>2
  <2> HIDE DEF args, n
  <2>3. Len(args) = 0 <=> args = <<>>
    BY <2>1
  <2> QED
    BY <2>1, <2>2, <2>3
<1> HIDE DEF n
<1>6. ASSUME NEW c \in Letters, Begins(prefix, c)
      PROVE  CommandLine(line, c) /\ n >= 1
  BY <1>2, <1>3, <1>6 DEF Begins, CommandLine
<1>7. ASSUME NEW c \in Letters, has_node_id_arg(prefix, c)
      PROVE  CommandLine(line, c) /\ n >= 2 /\ line.tokens[2].form # "word"
  <2>1. n >= 2 /\ prefix.tokens[2].form # "word" /\ prefix.tokens[1].word = c
    BY <1>7 DEF has_node_id_arg, n
  <2>2. 1 \in 1 .. n /\ 2 \in 1 .. n
    BY <1>2, <2>1
  <2> QED
    BY <1>2, <1>7, <2>1, <2>2 DEF has_node_id_arg, CommandLine
<1>8. CASE prefix.blanks > 0
  <2>1. IsScript(line)
    BY <1>1, <1>8 DEF IsScript
  <2>2. call.fn = "run_script"
    BY <1>2, <2>1, FnOfOthers DEF parse_command
  <2> QED
    BY <2>2, FineFits DEF Fine
<1>9. ASSUME prefix.blanks = 0, prefix.tokens = <<>>, NEW c \in Letters, word = Word(c)
      PROVE  CallFits(call, line)
  <2>1. CommandLine(line, c) /\ Len(line.tokens) = 1 /\ line.tokens[1].word = c
    BY <1>2, <1>4, <1>9 DEF CommandLine, Word, Offered
  <2>2. call = FirstLetter(line, initialised) /\ line.tokens[1].letter = c /\ args = <<>>
    BY <1>4, <1>5, <1>9, <2>1
  <2> HIDE DEF call, args
  <2>3. ASSUME call.fn \in Fine \cup {"print_usage_information"}
        PROVE  CallFits(call, line)
    BY <2>1, <2>3, FineFits DEF CallFits
  <2>4. \/ c = "b" /\ call = set_baud_rate(<<>>)
        \/ c = "d" /\ call = database(<<>>)
        \/ c = "n" /\ call = nmt(<<>>)
        \/ c = "q" /\ call = Call("quit", <<>>)
        \/ c = "r" /\ call = read(<<>>)
        \/ c = "s" /\ call = script(<<>>)
        \/ c = "w" /\ call = write(<<>>)
    <3>1. c \in {"b", "d", "n", "q", "r", "s", "w"}
      BY DEF Letters
    <3> QED
      BY <2>2, <3>1, ByLetter DEF args
  <2> QED
    BY <2>3, <2>4, AloneIsFine, WriteIsFine, FnOfOthers
<1>10. ASSUME Begins(prefix, "b"), NEW k \in 1 .. 14, word = Number(k, "digits")
       PROVE  CallFits(call, line)
  <2>1. "b" \in Letters
    BY DEF Letters
  <2>2. CommandLine(line, "b") /\ n >= 1
    BY <1>6, <1>10, <2>1
  <2>3. /\ call = FirstLetter(line, initialised) /\ line.tokens[1].letter = "b"
        /\ args \in Seq(Token) /\ Len(args) = n /\ args # <<>>
        /\ \A j \in 1 .. n : args[j] = line.tokens[j + 1]
    BY <1>2, <1>5, <2>1, <2>2
  <2>4. call = set_baud_rate(args)
    BY <2>3, ByLetter
  <2> HIDE DEF call, args
  <2>5. call.fn = "can_set_baud_rate" /\ call.args = <<UINT8(Numbers(args)[1])>>
    <3>1. call = Call("can_set_baud_rate", <<UINT8(Numbers(args)[1])>>)
      BY <2>3, <2>4, BaudRateCall
    <3> QED
      BY <3>1, FnOfCall, Zenon
  <2>6. ASSUME Len(line.tokens) = 2
        PROVE  call.args[1] \in 1 .. 14
    <3>1. n = 1
      BY <1>2, <2>6
    <3>2. args[1] = word
      BY <1>2, <2>3, <3>1
    <3>3. word.form = "digits" /\ word.number = k
      BY <1>10, NumberIsToken
    <3>4. Numbers(args)[1] = k
      BY <2>3, <3>1, <3>2, <3>3 DEF Numbers, convert_token_to_uint
    <3>5. UINT8(k) = k
      BY LowByte
    <3> QED
      BY <2>5, <3>4, <3>5
  <2> QED
    BY <2>5, <2>6 DEF CallFits
<1>11. CASE Begins(prefix, "d")
  <2>1. "d" \in Letters
    BY DEF Letters
  <2>2. call = database(args)
    BY <1>5, <1>6, <1>11, <2>1, ByLetter
  <2> QED
    BY <2>2, DatabaseIsFine, FineFits
<1>12. ASSUME has_node_id_arg(prefix, "n"),
              NEW w \in {"op", "stop", "preop", "reset", "comm"}, word = Word(w)
       PROVE  CallFits(call, line)
  <2>1. "n" \in Letters
    BY DEF Letters
  <2>2. CommandLine(line, "n") /\ n >= 2 /\ line.tokens[2].form # "word"
    BY <1>7, <1>12, <2>1
  <2>3. /\ call = FirstLetter(line, initialised) /\ line.tokens[1].letter = "n"
        /\ args \in Seq(Token) /\ Len(args) = n
        /\ \A j \in 1 .. n : args[j] = line.tokens[j + 1]
    BY <1>5, <2>1, <2>2
  <2>4. call = nmt(args)
    BY <2>3, ByLetter
  <2> HIDE DEF call, args
  <2>5. call.fn = "nmt_send_command"
        /\ call.args = <<UINT8(Numbers(args)[1]), UINT8(CommandOf(args[2]))>>
    <3>1. call = Call("nmt_send_command", <<UINT8(Numbers(args)[1]), UINT8(CommandOf(args[2]))>>)
      BY <2>2, <2>3, <2>4, NmtCallWithTwo
    <3> QED
      BY <3>1, FnOfCall, Zenon
  <2>6. ASSUME Len(line.tokens) = 3
        PROVE  call.args[2] \in NmtCommands
    <3>1. n = 2
      BY <1>2, <2>6
    <3>2. args[2] = word
      BY <1>2, <2>3, <3>1
    <3>3. UINT8(CommandOf(word)) \in NmtCommands
      BY <1>12, AliasIsCommand
    <3> QED
      BY <2>5, <3>2, <3>3
  <2> QED
    BY <2>2, <2>5, <2>6 DEF CallFits
<1>13. CASE has_node_id_arg(prefix, "r")
  <2>1. "r" \in Letters
    BY DEF Letters
  <2>2. CommandLine(line, "r") /\ n >= 2 /\ line.tokens[2].form # "word"
    BY <1>7, <1>13, <2>1
  <2>3. call = read(args) /\ args \in Seq(Token) /\ Len(args) = n
    BY <1>5, <2>1, <2>2, ByLetter
  <2>4. call.fn = "sdo_read"
    BY <2>2, <2>3, ReadCall
  <2> QED
    BY <2>2, <2>4 DEF CallFits
<1>14. ASSUME has_node_id_arg(prefix, "w")
       PROVE  CallFits(call, line)
  <2>1. "w" \in Letters
    BY DEF Letters
  <2>2. CommandLine(line, "w")
    BY <1>7, <1>14, <2>1
  <2>3. call = write(args)
    BY <1>5, <2>1, <2>2, ByLetter
  <2>4. call.fn \in Fine \/ call.fn = "print_usage_information"
    BY <2>3, WriteIsFine
  <2> HIDE DEF call, args
  <2> QED
    BY <2>2, <2>4, FineFits DEF CallFits, CommandLine
<1>15. CASE Begins(prefix, "s")
  <2>1. "s" \in Letters
    BY DEF Letters
  <2>2. CommandLine(line, "s") /\ n >= 1
    BY <1>6, <1>15, <2>1
  <2>3. /\ call = FirstLetter(line, initialised) /\ line.tokens[1].letter = "s"
        /\ args # <<>>
    BY <1>2, <1>5, <2>1, <2>2
  <2>4. call = script(args)
    BY <2>3, ByLetter
  <2> QED
    BY <2>3, <2>4, ScriptIsFine, FineFits
<1> HIDE DEF call, args
<1> QED
  BY <1>8, <1>9, <1>10, <1>11, <1>12, <1>13, <1>14, <1>15, WhatIsOffered DEF call

LEMMA CompletionStep ==
    ASSUME CompletionIsACommand, [Next]_vars
    PROVE  CompletionIsACommand'
<1>1. ASSUME out' = out
      PROVE  CompletionIsACommand'
  BY <1>1 DEF CompletionIsACommand
<1>2. ASSUME ~out'.completed
      PROVE  CompletionIsACommand'
  BY <1>2 DEF CompletionIsACommand
<1>3. ASSUME NEW line, NEW completed, NEW initialised, NEW accepted,
             Entered(line, completed, initialised, accepted)
      PROVE  /\ out'.fn = parse_command(line, initialised).fn
             /\ out'.args = parse_command(line, initialised).args
             /\ out'.line = line /\ out'.completed = completed
  BY <1>3 DEF Entered, NoOutcome
<1>4. CASE core_update
  BY <1>2, <1>3, <1>4 DEF core_update
<1>5. CASE completion_callback
  <2>1. PICK prefix \in Unfinished, initialised \in BOOLEAN, accepted \in BOOLEAN :
           \E word \in completion_add(prefix, ScriptNames) :
              Entered([prefix EXCEPT !.tokens = Append(@, word)], TRUE, initialised, accepted)
    BY <1>5 DEF completion_callback
  <2>2. PICK word \in completion_add(prefix, ScriptNames) :
           Entered([prefix EXCEPT !.tokens = Append(@, word)], TRUE, initialised, accepted)
    BY <2>1
  <2> DEFINE line == [prefix EXCEPT !.tokens = Append(@, word)]
             call == parse_command(line, initialised)
  <2>3. prefix \in Line /\ line \in Line
    BY CompletedIsLine, TerminalAssumption
  <2>4. line.blanks <= 1 => CallFits(call, line)
    <3>1. line.blanks = prefix.blanks /\ line.tokens = Append(prefix.tokens, word)
      BY <2>3 DEF Line
    <3> HIDE DEF line
    <3> QED
      BY <2>3, <3>1, CompletedFits
  <2>5. out'.fn = call.fn /\ out'.args = call.args /\ out'.line = line
    BY <1>3, <2>2
  <2> HIDE DEF line, call
  <2> QED
    BY <2>4, <2>5 DEF CompletionIsACommand, CallFits
<1>6. CASE lua_nmt_send_command
  BY <1>2, <1>6 DEF lua_nmt_send_command, NoOutcome
<1>7. ~NoOutcome.completed
  BY DEF NoOutcome
<1>8. ASSUME NEW status, LoadReturns(status)
      PROVE  ~out'.completed
  BY <1>8 DEF LoadReturns, NoOutcome
<1>9. ASSUME NEW can_id, NEW frame, NEW filter, Decoded(can_id, frame, filter)
      PROVE  ~out'.completed
  <2>1. CASE out' = NoOutcome
    BY <1>7, <2>1
  <2>2. ASSUME NEW answer, out' = [NoOutcome EXCEPT !.fn = "dbc_decode", !.args = <<can_id>>,
                                                    !.text = <<filter>>, !.answer = answer]
        PROVE  ~out'.completed
    BY <2>2 DEF NoOutcome
  <2> QED
    BY <1>9, <2>1, <2>2, Zenon DEF Decoded
<1>10. CASE lua_dbc_load
  BY <1>2, <1>7, <1>8, <1>10 DEF lua_dbc_load
<1>11. CASE LoadGoesOn
  BY <1>1, <1>2, <1>8, <1>11 DEF LoadGoesOn
<1>12. CASE lua_dbc_find_id_by_name
  BY <1>2, <1>12 DEF lua_dbc_find_id_by_name, NoOutcome
<1>13. CASE lua_dbc_decode
  BY <1>2, <1>9, <1>13 DEF lua_dbc_decode
<1>14. CASE py_dbc_decode
  BY <1>2, <1>9, <1>14 DEF py_dbc_decode
<1>15. CASE lua_test_eds_file \/ NextTurn
  BY <1>2, <1>7, <1>15 DEF lua_test_eds_file, NextTurn
<1>16. CASE TestGoesOn \/ core_deinit \/ UNCHANGED vars
  BY <1>1, <1>16 DEF TestGoesOn, core_deinit, vars
<1> QED
  BY <1>4, <1>5, <1>6, <1>10, <1>11, <1>12, <1>13, <1>14, <1>15, <1>16 DEF Next

(* Whatever is offered to complete a line, and whatever scripts there are, *)
(* the completed line is a command.                                        *)
THEOREM CompletionCorrect == Spec => []CompletionIsACommand
<1>1. Init => CompletionIsACommand
  BY DEF Init, NoOutcome, CompletionIsACommand
<1>2. CompletionIsACommand /\ [Next]_vars => CompletionIsACommand'
  BY CompletionStep
<1> QED
  BY <1>1, <1>2, PTL DEF Spec

-----------------------------------------------------------------------------
(* The database of the lines read.                                         *)

(* more is lines and one line after them.                                  *)
OneLineMore(lines, more) ==
    /\ Len(lines) \in Nat /\ DOMAIN lines = 1 .. Len(lines)
    /\ DOMAIN more = 1 .. Len(lines) + 1
    /\ \A k \in 1 .. Len(lines) : more[k] = lines[k]

LEMMA MessageLinesAre ==
    ASSUME NEW lines, Len(lines) \in Nat, DOMAIN lines = 1 .. Len(lines)
    PROVE  /\ MessageLines(lines) \in SUBSET Nat /\ IsFiniteSet(MessageLines(lines))
           /\ \A k \in MessageLines(lines) : k < Len(lines) + 1
           /\ \A k : /\ SignalsAfter(lines, k) \in SUBSET Nat
                     /\ IsFiniteSet(SignalsAfter(lines, k))
                     /\ \A j \in SignalsAfter(lines, k) : j < Len(lines) + 1
<1>1. MessageLines(lines) \in SUBSET (1 .. Len(lines))
  BY DEF MessageLines
<1>2. \A k : SignalsAfter(lines, k) \in SUBSET (1 .. Len(lines))
  BY DEF SignalsAfter
<1>3. IsFiniteSet(1 .. Len(lines))
  BY FS_Interval
<1>4. ASSUME NEW S \in SUBSET (1 .. Len(lines))
      PROVE  S \in SUBSET Nat /\ IsFiniteSet(S) /\ \A k \in S : k < Len(lines) + 1
  <2>1. IsFiniteSet(S)
    BY <1>3, FS_Subset
  <2> QED
    BY <2>1
<1> QED
  BY <1>1, <1>2, <1>4

LEMMA MessageLinesOfMore ==
    ASSUME NEW lines, NEW more, OneLineMore(lines, more)
    PROVE  MessageLines(more) = IF more[Len(lines) + 1].kind = "BO_"
                                THEN MessageLines(lines) \cup {Len(lines) + 1}
                                ELSE MessageLines(lines)
  BY DEF OneLineMore, MessageLines

(* The line belongs to the last message before it, if it is of a signal.   *)
GetsSignal(lines, more, k) ==
    more[Len(lines) + 1].kind = "SG_" /\ \A i \in MessageLines(lines) : i <= k

LEMMA SignalsAfterOfMore ==
    ASSUME NEW lines, NEW more, OneLineMore(lines, more), NEW k \in MessageLines(lines)
    PROVE  SignalsAfter(more, k) = IF GetsSignal(lines, more, k)
                                   THEN SignalsAfter(lines, k) \cup {Len(lines) + 1}
                                   ELSE SignalsAfter(lines, k)
<1> DEFINE n == Len(lines)
<1>1. n \in Nat /\ k \in 1 .. n /\ DOMAIN lines = 1 .. n /\ DOMAIN more = 1 .. n + 1
  BY DEF OneLineMore, MessageLines
<1>2. \A i \in MessageLines(lines) : i \in 1 .. n
  BY <1>1 DEF MessageLines
<1>3. MessageLines(more) = IF more[n + 1].kind = "BO_" THEN MessageLines(lines) \cup {n + 1}
                           ELSE MessageLines(lines)
  BY MessageLinesOfMore
<1>4. \A j \in 1 .. n : more[j] = lines[j]
  BY DEF OneLineMore
<1> HIDE DEF n
<1>5. ASSUME NEW j \in 1 .. n
      PROVE  j \in SignalsAfter(more, k) <=> j \in SignalsAfter(lines, k)
  <2>1. (\A i \in MessageLines(more) : i <= k \/ i > j)
           <=> (\A i \in MessageLines(lines) : i <= k \/ i > j)
    BY <1>1, <1>3
  <2>2. j \in DOMAIN more /\ j \in DOMAIN lines /\ more[j] = lines[j]
    BY <1>1, <1>4
  <2> QED
    BY <2>1, <2>2 DEF SignalsAfter
<1>6. n + 1 \in SignalsAfter(more, k) <=> GetsSignal(lines, more, k)
  <2>1. ASSUME more[n + 1].kind = "SG_"
        PROVE  (\A i \in MessageLines(more) : i <= k \/ i > n + 1)
                  <=> (\A i \in MessageLines(lines) : i <= k)
    BY <1>1, <1>2, <1>3, <2>1
  <2>2. n + 1 \in DOMAIN more /\ n + 1 > k
    BY <1>1
  <2>3. GetsSignal(lines, more, k)
          <=> more[n + 1].kind = "SG_" /\ \A i \in MessageLines(lines) : i <= k
    BY DEF GetsSignal, n
  <2> QED
    BY <2>1, <2>2, <2>3 DEF SignalsAfter
<1>7. SignalsAfter(more, k) \subseteq 1 .. n + 1 /\ SignalsAfter(lines, k) \subseteq 1 .. n
  BY <1>1 DEF SignalsAfter
<1>8. SignalsAfter(more, k) = IF GetsSignal(lines, more, k)
                              THEN SignalsAfter(lines, k) \cup {n + 1} ELSE SignalsAfter(lines, k)
  BY <1>1, <1>5, <1>6, <1>7
<1> QED
  BY <1>8 DEF n

(* So a signal is appended to the last message, and to no other.           *)
LEMMA SignalsOfMore ==
    ASSUME NEW lines, NEW more, OneLineMore(lines, more), NEW k \in MessageLines(lines)
    PROVE  SignalsOf(more, k) = IF GetsSignal(lines, more, k)
                                THEN Append(SignalsOf(lines, k), more[Len(lines) + 1].signal)
                                ELSE SignalsOf(lines, k)
<1> DEFINE n  == Len(lines)
           S  == SignalsAfter(lines, k)
           of == InOrder(S)
           N  == Cardinality(S)
<1>1. /\ n \in Nat /\ S \in SUBSET Nat /\ IsFiniteSet(S) /\ \A j \in S : j < n + 1
      /\ \A j \in S : more[j] = lines[j]
  <2>1. \A j \in S : j \in 1 .. n
    BY DEF SignalsAfter, OneLineMore
  <2> QED
    BY <2>1, MessageLinesAre DEF OneLineMore
<1>2. /\ N \in Nat /\ of \in [1 .. N -> S]
  BY <1>1, InOrderIsInverse
<1>3. CASE ~GetsSignal(lines, more, k)
  <2>1. SignalsAfter(more, k) = S
    BY <1>3, SignalsAfterOfMore
  <2> HIDE DEF S, of, N
  <2>2. \A j \in DOMAIN of : more[of[j]] = lines[of[j]]
    BY <1>1, <1>2
  <2>3. [j \in DOMAIN of |-> more[of[j]].signal] = [j \in DOMAIN of |-> lines[of[j]].signal]
    BY <2>2
  <2> QED
    BY <1>3, <2>1, <2>3 DEF SignalsOf, S, of
<1>4. CASE GetsSignal(lines, more, k)
  <2> DEFINE after == InOrder(SignalsAfter(more, k))
             s == [j \in DOMAIN of |-> lines[of[j]].signal]
             t == [j \in DOMAIN after |-> more[after[j]].signal]
             x == more[n + 1].signal
  <2>1. after = Append(of, n + 1)
    <3>1. SignalsAfter(more, k) = S \cup {n + 1}
      BY <1>4, SignalsAfterOfMore
    <3>2. n + 1 \in Nat
      BY <1>1
    <3> HIDE DEF S, n
    <3> QED
      BY <1>1, <3>1, <3>2, OneMoreInOrder
  <2>2. of \in Seq(Nat) /\ Len(of) = N /\ n + 1 \in Nat
    <3> HIDE DEF S, N, of, n
    <3>1. N \in Nat /\ of \in [1 .. N -> Nat]
      BY <1>1, <1>2
    <3>2. of \in Seq(Nat) /\ Len(of) = N
      BY <3>1
    <3>3. n + 1 \in Nat
      BY <1>1
    <3> QED
      BY <3>2, <3>3
  <2>3. /\ Len(after) = N + 1 /\ DOMAIN after = 1 .. N + 1
        /\ \A j \in 1 .. N : after[j] = of[j]
        /\ after[N + 1] = n + 1
    <3> HIDE DEF S, N, of, n, after
    <3> QED
      BY <1>2, <2>1, <2>2, AppendProperties
  <2> DEFINE A == {lines[j].signal : j \in S} \cup {x}
  <2>4. s \in Seq(A) /\ t \in Seq(A) /\ x \in A /\ Len(s) = N /\ Len(t) = N + 1
    <3>1. \A j \in 1 .. N : of[j] \in S /\ lines[of[j]].signal \in A
                               /\ more[after[j]].signal = lines[of[j]].signal
      BY <1>1, <1>2, <2>3
    <3>2. more[after[N + 1]].signal = x
      BY <2>3
    <3>3. DOMAIN of = 1 .. N /\ N \in Nat
      BY <1>2
    <3>4. x \in A
      OBVIOUS
    <3> HIDE DEF S, N, of, n, after, A, x
    <3>5. \A j \in 1 .. N + 1 : more[after[j]].signal \in A
      BY <3>1, <3>2, <3>3, <3>4
    <3>6. s \in [1 .. N -> A] /\ t \in [1 .. N + 1 -> A]
      BY <2>3, <3>1, <3>3, <3>5
    <3> HIDE DEF s, t
    <3> QED
      BY <3>3, <3>4, <3>6
  <2>5. \A j \in 1 .. N : t[j] = s[j]
    BY <1>1, <1>2, <2>3
  <2>6. t[N + 1] = x
    BY <1>2, <2>3
  <2>7. t = Append(s, x)
    <3> HIDE DEF s, t, x, A, N
    <3> QED
      BY <2>4, <2>5, <2>6, IsAppended
  <2>8. SignalsOf(more, k) = t /\ SignalsOf(lines, k) = s
    BY DEF SignalsOf
  <2> QED
    BY <1>4, <2>7, <2>8
<1> QED
  BY <1>3, <1>4

LEMMA MessageAtOfMore ==
    ASSUME NEW lines, NEW more, OneLineMore(lines, more), NEW k \in MessageLines(lines)
    PROVE  MessageAt(more, k) =
              IF GetsSignal(lines, more, k)
              THEN [MessageAt(lines, k) EXCEPT !.signals = Append(@, more[Len(lines) + 1].signal)]
              ELSE MessageAt(lines, k)
<1>1. more[k] = lines[k]
  BY DEF OneLineMore, MessageLines
<1> QED
  BY <1>1, SignalsOfMore DEF MessageAt

(* What reading a line adds: AddLine, for any messages.                    *)
Added(messages, line) ==
    CASE line.kind = "BO_" -> Append(messages, Message(line))
      [] line.kind = "SG_" /\ messages # <<>> ->
            [messages EXCEPT ![Len(messages)].signals = Append(@, line.signal)]
      [] OTHER -> messages

LEMMA NewMessage ==
    ASSUME NEW lines, NEW more, OneLineMore(lines, more), more[Len(lines) + 1].kind = "BO_"
    PROVE  MessageAt(more, Len(lines) + 1) = Message(more[Len(lines) + 1])
<1>1. SignalsAfter(more, Len(lines) + 1) = {}
  BY DEF SignalsAfter, OneLineMore
<1>2. SignalsOf(more, Len(lines) + 1) = <<>>
  BY <1>1, NoneInOrder DEF SignalsOf
<1> QED
  BY <1>2 DEF MessageAt, Message

LEMMA MessagesOfMore ==
    ASSUME NEW lines, NEW more, OneLineMore(lines, more)
    PROVE  MessagesOf(more) = Added(MessagesOf(lines), more[Len(lines) + 1])
<1> DEFINE n    == Len(lines)
           S    == MessageLines(lines)
           N    == Cardinality(S)
           at   == InOrder(S)
           line == more[n + 1]
           s    == MessagesOf(lines)
           t    == MessagesOf(more)
<1>1. n \in Nat /\ S \in SUBSET Nat /\ IsFiniteSet(S) /\ \A k \in S : k < n + 1
  BY MessageLinesAre DEF OneLineMore
<1>2. N \in Nat /\ at \in [1 .. N -> S]
  BY <1>1, InOrderIsInverse
<1>3. s = [m \in 1 .. N |-> MessageAt(lines, at[m])]
  BY <1>2 DEF MessagesOf
<1>4. \A m \in 1 .. N : at[m] \in S
  BY <1>2
<1>5. CASE line.kind = "BO_"
  <2>1. MessageLines(more) = S \cup {n + 1}
    BY <1>5, MessageLinesOfMore
  <2> DEFINE after == InOrder(MessageLines(more))
             new   == MessageAt(more, n + 1)
             A     == {MessageAt(lines, k) : k \in S} \cup {new}
  <2>2. after = Append(at, n + 1)
    <3>1. n + 1 \in Nat
      BY <1>1
    <3> HIDE DEF S, n
    <3> QED
      BY <1>1, <2>1, <3>1, OneMoreInOrder
  <2>3. /\ Len(after) = N + 1 /\ DOMAIN after = 1 .. N + 1
        /\ \A j \in 1 .. N : after[j] = at[j]
        /\ after[N + 1] = n + 1
    <3>1. at \in Seq(Nat) /\ Len(at) = N /\ n + 1 \in Nat
      <4> HIDE DEF S, N, at, n
      <4>1. at \in [1 .. N -> Nat]
        BY <1>1, <1>2
      <4> QED
        BY <1>1, <1>2, <4>1
    <3> HIDE DEF S, N, at, n, after
    <3> QED
      BY <1>2, <2>2, <3>1, AppendProperties
  <2>4. \A k \in S : MessageAt(more, k) = MessageAt(lines, k)
    BY <1>5, MessageAtOfMore DEF GetsSignal
  <2>5. t = [m \in 1 .. N + 1 |-> MessageAt(more, after[m])]
    BY <2>3 DEF MessagesOf
  <2>6. /\ \A m \in 1 .. N : s[m] = MessageAt(lines, at[m]) /\ s[m] \in A
        /\ \A m \in 1 .. N : t[m] = s[m]
        /\ t[N + 1] = new /\ new \in A
    <3> HIDE DEF S, N, at, n, after, s, t
    <3> QED
      BY <1>2, <1>3, <1>4, <2>3, <2>4, <2>5
  <2>7. t = Append(s, new)
    <3> HIDE DEF A, new, S, N, at, n, after, s, t
    <3>1. \A m \in 1 .. N + 1 : t[m] \in A
      BY <1>2, <2>6
    <3>2. s \in Seq(A) /\ t \in Seq(A) /\ Len(s) = N /\ Len(t) = N + 1
      BY <1>2, <1>3, <2>5, <2>6, <3>1
    <3> QED
      BY <2>6, <3>2, IsAppended
  <2>8. new = Message(line)
    BY <1>5, NewMessage
  <2> QED
    BY <1>5, <2>7, <2>8 DEF Added
<1>6. CASE line.kind # "BO_"
  <2>1. MessageLines(more) = S
    BY <1>6, MessageLinesOfMore
  <2>2. t = [m \in 1 .. N |-> MessageAt(more, at[m])]
    BY <1>2, <2>1 DEF MessagesOf
  <2>3. ASSUME NEW m \in 1 .. N
        PROVE  (\A i \in S : i <= at[m]) <=> m = N
    BY <1>1, LastInOrder
  <2>4. CASE line.kind # "SG_"
    <3>1. \A k \in S : MessageAt(more, k) = MessageAt(lines, k)
      BY <2>4, MessageAtOfMore DEF GetsSignal
    <3>2. t = s
      <4> HIDE DEF S, N, at, s, t
      <4> QED
        BY <1>3, <1>4, <2>2, <3>1
    <3> QED
      BY <1>6, <2>4, <3>2 DEF Added
  <2>5. CASE line.kind = "SG_"
    <3>1. ASSUME NEW m \in 1 .. N
          PROVE  MessageAt(more, at[m]) =
                    IF m = N THEN [s[m] EXCEPT !.signals = Append(@, line.signal)] ELSE s[m]
      <4>1. GetsSignal(lines, more, at[m]) <=> m = N
        BY <2>3, <2>5 DEF GetsSignal
      <4>2. s[m] = MessageAt(lines, at[m])
        BY <1>3
      <4> QED
        BY <1>4, <4>1, <4>2, MessageAtOfMore
    <3>2. Len(s) = N /\ DOMAIN s = 1 .. N
      <4> HIDE DEF N, s, at
      <4> QED
        BY <1>2, <1>3
    <3>3. CASE N = 0
      <4>1. s = <<>> /\ t = <<>>
        <5> HIDE DEF N, s, at, t
        <5> QED
          BY <1>3, <2>2, <3>3
      <4> QED
        BY <1>6, <4>1 DEF Added
    <3>4. CASE N # 0
      <4>1. t = [s EXCEPT ![N].signals = Append(@, line.signal)]
        <5> HIDE DEF N, s, at, t, line
        <5>1. N \in 1 .. N /\ DOMAIN t = 1 .. N
          BY <1>2, <2>2, <3>4
        <5>2. \A m \in 1 .. N : t[m] = IF m = N THEN [s[m] EXCEPT !.signals = Append(@, line.signal)]
                                       ELSE s[m]
          BY <2>2, <3>1
        <5>3. s = [m \in 1 .. N |-> s[m]] /\ t = [m \in 1 .. N |-> t[m]]
          BY <1>3, <2>2
        <5> QED
          BY <5>1, <5>2, <5>3, <3>2
      <4>2. s # <<>>
        BY <3>2, <3>4
      <4> QED
        BY <1>6, <2>5, <3>2, <4>1, <4>2 DEF Added
    <3> QED
      BY <3>3, <3>4
  <2> QED
    BY <2>4, <2>5
<1> QED
  BY <1>5, <1>6

LEMMA MessagesOfNone ==
    ASSUME NEW lines, DOMAIN lines = {}
    PROVE  MessagesOf(lines) = <<>>
<1>1. MessageLines(lines) = {}
  BY DEF MessageLines
<1> QED
  BY <1>1, NoneInOrder DEF MessagesOf

LEMMA MessagesAre ==
    ASSUME NEW lines, Len(lines) \in Nat, DOMAIN lines = 1 .. Len(lines)
    PROVE  Len(MessagesOf(lines)) \in Nat
           /\ DOMAIN MessagesOf(lines) = 1 .. Len(MessagesOf(lines))
<1> DEFINE S == MessageLines(lines)
<1>1. Cardinality(S) \in Nat /\ InOrder(S) \in [1 .. Cardinality(S) -> S]
  BY MessageLinesAre, InOrderIsInverse
<1>2. MessagesOf(lines) = [m \in 1 .. Cardinality(S) |-> MessageAt(lines, InOrder(S)[m])]
  BY <1>1 DEF MessagesOf
<1> HIDE DEF S
<1> QED
  BY <1>1, <1>2

(* The database is that of the lines read, or there is none.               *)
ReadSoFar(db, lines) ==
    /\ db = [loaded |-> db.loaded, messages |-> db.messages, null |-> db.null]
    /\ db.loaded \in BOOLEAN
    /\ db.messages = IF db.loaded THEN MessagesOf(lines) ELSE <<>>

FileInv ==
    /\ dbcFile \in DOMAIN DbcFiles \cup {NoFile}
    /\ dbcLine \in 0 .. Len(LinesOf(dbcFile))
    /\ ReadSoFar(dbc, Read)

LEMMA LinesAre ==
    ASSUME NEW file \in DOMAIN DbcFiles \cup {NoFile}
    PROVE  LinesOf(file) \in Seq(Range(LinesOf(file))) /\ Len(LinesOf(file)) \in Nat
<1>1. LinesOf(file) \in Seq(Range(LinesOf(file)))
  <2>1. CASE file = NoFile
    <3>1. \A S : <<>> \in Seq(S)
      OBVIOUS
    <3> QED
      BY <2>1, <3>1 DEF LinesOf
  <2>2. CASE file # NoFile
    <3>1. file \in DOMAIN DbcFiles /\ LinesOf(file) = DbcFiles[file]
      BY <2>2 DEF LinesOf
    <3> QED
      BY <3>1, DbcAssumption, Zenon
  <2> QED
    BY <2>1, <2>2
<1> QED
  BY <1>1, LenProperties

LEMMA ReadIs ==
    ASSUME NEW lines, lines \in Seq(Range(lines)), NEW k \in 0 .. Len(lines)
    PROVE  LET part == SubSeq(lines, 1, k)
           IN  /\ Len(part) = k /\ Len(part) \in Nat /\ DOMAIN part = 1 .. Len(part)
               /\ \A j \in 1 .. k : part[j] = lines[j]
<1>1. Len(lines) \in Nat /\ k \in Nat /\ k <= Len(lines)
  BY LenProperties
<1> QED
  BY <1>1

(* A line read is one line more, and AddLine does with it what it should.  *)
LEMMA ReadLineStep == FileInv /\ ReadLine /\ dbc.loaded => FileInv'
<1> SUFFICES ASSUME FileInv, ReadLine, dbc.loaded
             PROVE  FileInv'
  OBVIOUS
<1> DEFINE lines == LinesOf(dbcFile)
           line  == lines[dbcLine + 1]
           more  == SubSeq(lines, 1, dbcLine + 1)
<1>1. /\ dbcLine < Len(lines) /\ dbcLine' = dbcLine + 1 /\ dbcFile' = dbcFile
      /\ \E null : dbc' = [dbc EXCEPT !.messages = AddLine(line), !.null = null]
  BY DEF ReadLine, AnotherLine, NextLine
<1>2. dbcFile \in DOMAIN DbcFiles \cup {NoFile} /\ dbcLine \in 0 .. Len(lines)
  BY DEF FileInv
<1>3. lines \in Seq(Range(lines)) /\ Len(lines) \in Nat
  BY <1>2, LinesAre
<1>4. dbcLine + 1 \in 0 .. Len(lines)
  BY <1>1, <1>2, <1>3
<1> HIDE DEF lines
<1>5. /\ Len(more) = dbcLine + 1 /\ DOMAIN more = 1 .. dbcLine + 1
      /\ \A j \in 1 .. dbcLine + 1 : more[j] = lines[j]
  BY <1>3, <1>4, ReadIs
<1>6. Read = SubSeq(lines, 1, dbcLine) /\ Read' = more
  BY <1>1 DEF Read, lines
<1>7. /\ Len(Read) = dbcLine /\ DOMAIN Read = 1 .. dbcLine
      /\ \A j \in 1 .. dbcLine : Read[j] = lines[j]
  BY <1>2, <1>3, <1>6, ReadIs
<1> HIDE DEF more
<1>8. OneLineMore(Read, more) /\ more[Len(Read) + 1] = line
  BY <1>2, <1>5, <1>7 DEF OneLineMore
<1>9. MessagesOf(more) = Added(MessagesOf(Read), line)
  BY <1>8, MessagesOfMore
<1>10. AddLine(line) = Added(dbc.messages, line)
  BY DEF AddLine, Added
<1>11. dbc.messages = MessagesOf(Read)
       /\ dbc = [loaded |-> dbc.loaded, messages |-> dbc.messages, null |-> dbc.null]
  BY DEF FileInv, ReadSoFar
<1>12. \E null : dbc' = [loaded |-> TRUE, messages |-> MessagesOf(more), null |-> null]
  <2> HIDE DEF line
  <2>1. dbc.loaded = TRUE
    BY DEF FileInv, ReadSoFar
  <2>2. AddLine(line) = MessagesOf(more)
    BY <1>9, <1>10, <1>11
  <2> QED
    BY <1>1, <1>11, <2>1, <2>2
<1>13. ReadSoFar(dbc', more)
  BY <1>12 DEF ReadSoFar
<1> QED
  BY <1>1, <1>2, <1>4, <1>6, <1>13 DEF FileInv, lines

LEMMA FileStep ==
    ASSUME FileInv, pc = "dbc" => dbc.loaded, [Next]_vars
    PROVE  FileInv'
<1>1. CASE UNCHANGED dbcVars
  BY <1>1 DEF dbcVars, FileInv, Read
<1>2. ASSUME NEW file \in DOMAIN DbcFiles \cup {NoFile}, dbcFile' = file, dbcLine' = 0,
             dbc' = NoDatabase \/ dbc' = EmptyDatabase
      PROVE  FileInv'
  <2>1. LinesOf(file) \in Seq(Range(LinesOf(file))) /\ 0 \in 0 .. Len(LinesOf(file))
    BY LinesAre
  <2>2. Read' = SubSeq(LinesOf(file), 1, 0)
    BY <1>2 DEF Read
  <2>3. MessagesOf(Read') = <<>>
    <3>1. DOMAIN Read' = {}
      BY <2>1, <2>2, ReadIs
    <3> QED
      BY <3>1, MessagesOfNone
  <2>4. ReadSoFar(dbc', Read')
    <3>1. CASE dbc' = NoDatabase
      BY <3>1 DEF ReadSoFar, NoDatabase
    <3>2. CASE dbc' = EmptyDatabase
      <4>1. dbc' = [loaded |-> TRUE, messages |-> <<>>, null |-> {}]
        BY <3>2 DEF EmptyDatabase
      <4>2. dbc'.loaded = TRUE /\ dbc'.messages = <<>>
        BY <4>1
      <4> QED
        BY <2>3, <4>1, <4>2 DEF ReadSoFar
    <3> QED
      BY <1>2, <3>1, <3>2
  <2> QED
    BY <1>2, <2>1, <2>4 DEF FileInv
<1>3. NothingLoaded => FileInv'
  BY <1>2 DEF NothingLoaded, dbc_unload
<1>4. CASE lua_dbc_load
  BY <1>2, <1>3, <1>4 DEF lua_dbc_load, dbc_load, StartEmpty
<1>5. CASE LoadGoesOn
  <2>1. CASE ReadLine
    BY <1>5, <2>1, ReadLineStep DEF LoadGoesOn
  <2>2. CASE NoMemoryForLine
    BY <1>3, <2>2 DEF NoMemoryForLine
  <2> QED
    BY <1>1, <1>5, <2>1, <2>2 DEF LoadGoesOn
<1>6. CASE core_deinit
  BY <1>3, <1>6 DEF core_deinit
<1>7. CASE core_update \/ completion_callback \/ lua_nmt_send_command
  BY <1>1, <1>7 DEF core_update, completion_callback, lua_nmt_send_command
<1>8. CASE lua_dbc_find_id_by_name \/ lua_dbc_decode \/ py_dbc_decode
  BY <1>1, <1>8 DEF lua_dbc_find_id_by_name, lua_dbc_decode, py_dbc_decode, Decoded
<1>9. CASE lua_test_eds_file \/ TestGoesOn \/ NextTurn \/ UNCHANGED vars
  BY <1>1, <1>9 DEF lua_test_eds_file, TestGoesOn, NextTurn, vars
<1> QED
  BY <1>4, <1>5, <1>6, <1>7, <1>8, <1>9 DEF Next

-----------------------------------------------------------------------------
(* What is answered from it.                                               *)

DbcCalls == {"dbc_find_id_by_name", "dbc_decode"}

LEMMA LinesDoNotAsk ==
    ASSUME NEW line, NEW initialised
    PROVE  parse_command(line, initialised).fn \notin DbcCalls
<1>1. \A fn, args : Call(fn, args).fn = fn
  BY DEF Call
<1>2. \A args : /\ set_channel(args).fn \notin DbcCalls /\ set_baud_rate(args).fn \notin DbcCalls
                /\ database(args).fn \notin DbcCalls /\ nmt(args).fn \notin DbcCalls
                /\ read(args).fn \notin DbcCalls
  BY <1>1 DEF set_channel, set_baud_rate, database, nmt, read, Usage, DbcCalls
<1>3. \A token : RunScript(token).fn = "run_script"
  BY DEF RunScript, Call
<1>4. \A args : script(args).fn \notin DbcCalls
  BY <1>1, <1>3 DEF script, DbcCalls
<1>5. \A args : pdo(args, initialised).fn \notin DbcCalls
  BY <1>1 DEF pdo, WithPdo, Usage, DbcCalls
<1>6. \A args : write(args).fn \notin DbcCalls
  <2>1. \A numbers, words :
           [Call("sdo_write_segmented", numbers) EXCEPT !.text = words].fn = "sdo_write_segmented"
    BY DEF Call
  <2> QED
    BY <1>1, <2>1 DEF write, Usage, DbcCalls
<1>7. FirstLetter(line, initialised).fn \notin DbcCalls
  BY <1>1, <1>2, <1>4, <1>5, <1>6 DEF FirstLetter, Usage, DbcCalls
<1> QED
  BY <1>1, <1>3, <1>7 DEF parse_command, DbcCalls

(* An answer is kept while the script looks at it.                         *)
AnswerInv ==
    /\ pc = "dbc" => dbc.loaded
    /\ out.fn \in DbcCalls => pc = "done"
    /\ AnswersFromTheLastFile

LEMMA ReadMessages ==
    ASSUME FileInv
    PROVE  Len(MessagesOf(Read)) \in Nat /\ DOMAIN MessagesOf(Read) = 1 .. Len(MessagesOf(Read))
<1>1. LinesOf(dbcFile) \in Seq(Range(LinesOf(dbcFile))) /\ dbcLine \in 0 .. Len(LinesOf(dbcFile))
  BY LinesAre DEF FileInv
<1>2. Len(Read) \in Nat /\ DOMAIN Read = 1 .. Len(Read)
  BY <1>1, ReadIs DEF Read
<1> QED
  BY <1>2, MessagesAre

(* The first message of a kind, or none.                                   *)
LEMMA FirstOf ==
    ASSUME FileInv, dbc.loaded, NEW I, I \in SUBSET (1 .. Len(dbc.messages)),
           NEW at, at = IF I # {} THEN Min(I) ELSE 0
    PROVE  /\ at = 0 <=> I = {}
           /\ at # 0 => at \in I /\ \A j \in I : at <= j
<1>1. I \in SUBSET Nat /\ 0 \notin I
  BY ReadMessages DEF FileInv, ReadSoFar
<1>2. I # {} => Min(I) \in I /\ \A j \in I : Min(I) <= j
  BY <1>1, HasLeast, Zenon DEF Min
<1> QED
  BY <1>1, <1>2

(* A message found by its name, or none.                                   *)
LEMMA FindAnswers ==
    ASSUME FileInv, NEW search, NEW answer \in dbc_find_id_by_name(search)
    PROVE  Found(search, answer)
<1> DEFINE M    == MessagesOf(Read)
           fits == {k \in DOMAIN M : M[k].name \in Like[search]}
           I    == {k \in 1 .. Len(dbc.messages) : dbc.messages[k].name \in Like[search]}
<1>1. FindByName(search) = IF I # {} THEN Min(I) ELSE 0
  BY DEF FindByName, FirstWhere, SelectInSeq
<1>2. CASE ~dbc.loaded
  <2>1. answer = Failed("OS_INVALID_ARGUMENT")
    BY <1>2 DEF dbc_find_id_by_name
  <2> QED
    BY <1>2, <2>1 DEF Found, Failed
<1>3. CASE dbc.loaded
  <2>1. dbc.messages = M /\ DOMAIN M = 1 .. Len(M) /\ I = fits
    BY <1>3, ReadMessages DEF FileInv, ReadSoFar
  <2>2. PICK at : at = FindByName(search)
    OBVIOUS
  <2>3. (at = 0 <=> fits = {}) /\ (at # 0 => at \in fits /\ \A j \in fits : at <= j)
    <3>1. I \in SUBSET (1 .. Len(dbc.messages))
      OBVIOUS
    <3> HIDE DEF I, fits
    <3> QED
      BY <1>1, <1>3, <2>1, <2>2, <3>1, FirstOf
  <2> HIDE DEF M, fits
  <2>4. \/ answer = Failed("OS_MEMORY_ALLOCATION_ERROR")
        \/ answer = Failed("ITEM_NOT_FOUND") /\ at = 0
        \/ answer = [status |-> "ALL_OK", id |-> M[at].id] /\ at # 0
    BY <1>3, <2>1, <2>2 DEF dbc_find_id_by_name
  <2>5. CASE answer = Failed("OS_MEMORY_ALLOCATION_ERROR")
    BY <1>3, <2>5 DEF Found, Failed
  <2>6. CASE answer = Failed("ITEM_NOT_FOUND") /\ at = 0
    BY <1>3, <2>3, <2>6 DEF Found, Failed, M, fits
  <2>7. CASE answer = [status |-> "ALL_OK", id |-> M[at].id] /\ at # 0
    <3>1. answer.status = "ALL_OK" /\ answer.id = M[at].id
      BY <2>7
    <3> QED
      BY <1>3, <2>3, <2>7, <3>1 DEF Found, M, fits
  <2> QED
    BY <2>4, <2>5, <2>6, <2>7
<1> QED
  BY <1>2, <1>3

(* The signals of a message, and those asked for, are numbered from 1.     *)
LEMMA SignalsAre ==
    ASSUME FileInv, NEW k \in DOMAIN MessagesOf(Read)
    PROVE  \E n \in Nat : DOMAIN MessagesOf(Read)[k].signals = 1 .. n
<1>1. PICK lines : lines = Read
  OBVIOUS
<1>2. Len(lines) \in Nat /\ DOMAIN lines = 1 .. Len(lines)
  <2>1. LinesOf(dbcFile) \in Seq(Range(LinesOf(dbcFile))) /\ dbcLine \in 0 .. Len(LinesOf(dbcFile))
    BY LinesAre DEF FileInv
  <2> QED
    BY <1>1, <2>1, ReadIs DEF Read
<1>3. PICK line : MessagesOf(lines)[k] = MessageAt(lines, line)
  BY <1>1 DEF MessagesOf
<1>4. PICK S : S = SignalsAfter(lines, line)
  OBVIOUS
<1>5. S \in SUBSET Nat /\ IsFiniteSet(S)
  <2>1. S \in SUBSET (1 .. Len(lines))
    BY <1>2, <1>4 DEF SignalsAfter
  <2>2. IsFiniteSet(1 .. Len(lines))
    BY <1>2, FS_Interval
  <2>3. IsFiniteSet(S)
    BY <2>1, <2>2, FS_Subset
  <2> QED
    BY <1>2, <2>1, <2>3
<1>6. Cardinality(S) \in Nat /\ DOMAIN InOrder(S) = 1 .. Cardinality(S)
  BY <1>5, InOrderIsInverse
<1>7. MessageAt(lines, line).signals = SignalsOf(lines, line)
  BY DEF MessageAt
<1>8. DOMAIN SignalsOf(lines, line) = DOMAIN InOrder(S)
  BY <1>4 DEF SignalsOf
<1> QED
  BY <1>1, <1>3, <1>6, <1>7, <1>8

LEMMA SelectedAre ==
    ASSUME NEW message, NEW n \in Nat, DOMAIN message.signals = 1 .. n, NEW filter
    PROVE  /\ Len(Selected(message, filter)) \in Nat
           /\ DOMAIN Selected(message, filter) = 1 .. Len(Selected(message, filter))
<1>1. PICK S : S = Places(message, filter)
  OBVIOUS
<1>2. S \in SUBSET Nat /\ IsFiniteSet(S)
  <2>1. S \in SUBSET (1 .. n)
    BY <1>1 DEF Places
  <2>2. IsFiniteSet(1 .. n)
    BY FS_Interval
  <2>3. IsFiniteSet(S)
    BY <2>1, <2>2, FS_Subset
  <2> QED
    BY <2>1, <2>3
<1>3. PICK at : at = InOrder(S)
  OBVIOUS
<1>4. Cardinality(S) \in Nat /\ DOMAIN at = 1 .. Cardinality(S)
  BY <1>2, <1>3, InOrderIsInverse
<1>5. Selected(message, filter) = [k \in 1 .. Cardinality(S) |-> message.signals[at[k]]]
  BY <1>1, <1>3, <1>4 DEF Selected
<1> QED
  BY <1>4, <1>5

(* What is shown of the signals asked for: all, or the first of them.      *)
LEMMA ShowsAll ==
    ASSUME NEW message, NEW shown, Len(shown) \in Nat, DOMAIN shown = 1 .. Len(shown), NEW answer,
           DOMAIN answer.signals = {k \in DOMAIN shown : FitsTo(message, shown, k)},
           \A k \in DOMAIN answer.signals : answer.signals[k].name = shown[k].name,
           ~answer.cut => FitsTo(message, shown, Len(shown))
    PROVE  Shows(answer, shown)
<1>1. ASSUME NEW j \in 1 .. Len(shown), FitsTo(message, shown, j), NEW i \in 1 .. j
      PROVE  FitsTo(message, shown, i)
  BY <1>1 DEF FitsTo
<1>2. \A j \in DOMAIN answer.signals : 1 .. j \subseteq DOMAIN answer.signals
  <2> SUFFICES ASSUME NEW j \in DOMAIN answer.signals, NEW i \in 1 .. j
               PROVE  i \in DOMAIN answer.signals
    OBVIOUS
  <2>1. j \in 1 .. Len(shown) /\ FitsTo(message, shown, j)
    OBVIOUS
  <2>2. i \in 1 .. Len(shown) /\ FitsTo(message, shown, i)
    BY <1>1, <2>1
  <2> QED
    BY <2>2
<1>3. ~answer.cut => DOMAIN answer.signals = DOMAIN shown
  <2> SUFFICES ASSUME ~answer.cut, NEW k \in 1 .. Len(shown) PROVE FitsTo(message, shown, k)
    OBVIOUS
  <2>1. FitsTo(message, shown, Len(shown)) /\ Len(shown) \in 1 .. Len(shown)
    OBVIOUS
  <2> QED
    BY <1>1, <2>1
<1> QED
  BY <1>2, <1>3 DEF Shows

(* A frame decoded by the first message of its CAN-ID.                     *)
LEMMA DecodeAnswers ==
    ASSUME FileInv, NEW can_id, NEW frame, NEW filter, NEW answer \in dbc_decode(can_id, frame, filter)
    PROVE  Decodes(can_id, filter, answer)
<1> DEFINE M == MessagesOf(Read)
           I == {k \in 1 .. Len(dbc.messages) : dbc.messages[k].id = can_id}
<1>1. PICK at : at = MessageOf(can_id)
  OBVIOUS
<1>2. at = IF I # {} THEN Min(I) ELSE 0
  BY <1>1 DEF MessageOf, FirstWhere, SelectInSeq
<1>3. CASE ~dbc.loaded
  <2>1. I = {}
    BY <1>3 DEF FileInv, ReadSoFar
  <2>2. answer = Nothing
    BY <1>1, <1>2, <2>1 DEF dbc_decode
  <2> QED
    BY <1>3, <2>2 DEF Decodes, Nothing
<1>4. CASE dbc.loaded
  <2>1. dbc.messages = M /\ Len(M) \in Nat /\ DOMAIN M = 1 .. Len(M)
    BY <1>4, ReadMessages DEF FileInv, ReadSoFar
  <2>2. (at = 0 <=> I = {}) /\ (at # 0 => at \in I /\ \A j \in I : at <= j)
    <3>1. I \in SUBSET (1 .. Len(dbc.messages))
      OBVIOUS
    <3> HIDE DEF I
    <3> QED
      BY <1>2, <1>4, <3>1, FirstOf
  <2>3. CASE at = 0
    <3>1. \A k \in DOMAIN M : M[k].id # can_id
      BY <2>1, <2>2, <2>3
    <3>2. answer = Nothing
      BY <1>1, <2>3 DEF dbc_decode
    <3> QED
      BY <3>1, <3>2 DEF Decodes, Nothing
  <2>4. CASE at # 0
    <3>1. at \in DOMAIN M /\ M[at].id = can_id /\ \A j \in 1 .. at - 1 : M[j].id # can_id
      BY <2>1, <2>2, <2>4
    <3> HIDE DEF M, I
    <3>2. PICK shown : shown = Selected(M[at], filter)
      OBVIOUS
    <3>3. PICK whole : whole = {k \in DOMAIN shown : FitsTo(M[at], shown, k)}
      OBVIOUS
    <3>4. PICK values : answer =
             [found |-> TRUE, cut |-> ~FitsTo(M[at], shown, Len(shown)),
              name |-> IF <<at, 0, "name">> \in dbc.null THEN NoName ELSE M[at].name,
              signals |-> [k \in whole |-> [name |-> shown[k].name, value |-> values[k]]]]
      BY <1>1, <2>1, <2>4, <3>2, <3>3 DEF dbc_decode
    <3>5. /\ answer.found /\ answer.cut = ~FitsTo(M[at], shown, Len(shown))
          /\ answer.name \in {M[at].name, NoName}
          /\ answer.signals = [k \in whole |-> [name |-> shown[k].name, value |-> values[k]]]
      BY <3>4
    <3>6. Len(shown) \in Nat /\ DOMAIN shown = 1 .. Len(shown)
      BY <3>1, <3>2, SignalsAre, SelectedAre DEF M
    <3>7. DOMAIN answer.signals = whole
          /\ \A k \in whole : answer.signals[k].name = shown[k].name
      BY <3>5
    <3>8. Shows(answer, shown)
      <4>1. ~answer.cut => FitsTo(M[at], shown, Len(shown))
        BY <3>5
      <4>2. DOMAIN answer.signals = {k \in DOMAIN shown : FitsTo(M[at], shown, k)}
        BY <3>3, <3>7
      <4>3. \A k \in DOMAIN answer.signals : answer.signals[k].name = shown[k].name
        BY <3>7
      <4> QED
        BY <3>6, <4>1, <4>2, <4>3, ShowsAll, Zenon
    <3> QED
      BY <3>1, <3>2, <3>5, <3>8 DEF Decodes, M
  <2> QED
    BY <2>3, <2>4
<1> QED
  BY <1>3, <1>4

LEMMA AnswerStep ==
    ASSUME FileInv, AnswerInv, FileInv', [Next]_vars
    PROVE  AnswerInv'
<1>1. (dbc.loaded => dbc.messages = MessagesOf(Read))'
  BY DEF FileInv, ReadSoFar
<1>2. ASSUME out'.fn \notin DbcCalls, pc' = "dbc" => dbc'.loaded
      PROVE  AnswerInv'
  BY <1>1, <1>2 DEF AnswerInv, AnswersFromTheLastFile, Answered, DbcCalls
<1>3. ASSUME UNCHANGED dbcVars, out'.fn \notin DbcCalls, pc' = "dbc" => pc = "dbc"
      PROVE  AnswerInv'
  BY <1>2, <1>3 DEF AnswerInv, dbcVars
<1>4. NoOutcome.fn = "nothing"
  BY DEF NoOutcome
<1>5. ASSUME NEW status, LoadReturns(status)
      PROVE  out'.fn = "dbc_load" /\ pc' = "done"
  BY <1>5 DEF LoadReturns, NoOutcome
<1>6. ASSUME NEW line, NEW completed, NEW initialised, NEW accepted,
             Entered(line, completed, initialised, accepted)
      PROVE  out'.fn \notin DbcCalls /\ pc' # "dbc"
  <2>1. out'.fn = parse_command(line, initialised).fn
    BY <1>6 DEF Entered, NoOutcome
  <2> QED
    BY <1>6, <2>1, LinesDoNotAsk DEF Entered, AfterCall
<1>7. CASE core_update
  BY <1>3, <1>6, <1>7 DEF core_update
<1>8. CASE completion_callback
  BY <1>3, <1>6, <1>8 DEF completion_callback
<1>9. CASE lua_nmt_send_command
  <2>1. out'.fn = "lua_nmt_send_command"
    BY <1>9 DEF lua_nmt_send_command, NoOutcome
  <2> QED
    BY <1>3, <1>9, <2>1 DEF lua_nmt_send_command, DbcCalls
<1>10. CASE lua_dbc_load
  <2>1. CASE pc' = "dbc" /\ out' = NoOutcome /\ dbc' = EmptyDatabase
    <3>1. dbc'.loaded
      BY <2>1 DEF EmptyDatabase
    <3> QED
      BY <1>2, <1>4, <2>1, <3>1 DEF DbcCalls
  <2>2. ASSUME NEW status, LoadReturns(status)
        PROVE  AnswerInv'
    BY <1>2, <1>5, <2>2 DEF DbcCalls
  <2> QED
    BY <1>10, <2>1, <2>2 DEF lua_dbc_load, dbc_load, StartEmpty
<1>11. CASE LoadGoesOn
  <2>1. CASE ReadLine /\ UNCHANGED <<pc, out>>
    <3>1. pc = "dbc" /\ dbc.loaded /\ out.fn \notin DbcCalls
      BY <1>11 DEF LoadGoesOn, AnswerInv
    <3>2. dbc'.loaded
      <4>1. PICK null : dbc' = [dbc EXCEPT !.messages = AddLine(NextLine), !.null = null]
        BY <2>1 DEF ReadLine
      <4>2. dbc = [loaded |-> dbc.loaded, messages |-> dbc.messages, null |-> dbc.null]
        BY DEF FileInv, ReadSoFar
      <4> QED
        BY <3>1, <4>1, <4>2
    <3> QED
      BY <1>2, <2>1, <3>1, <3>2
  <2>2. ASSUME NEW status, LoadReturns(status)
        PROVE  AnswerInv'
    BY <1>2, <1>5, <2>2 DEF DbcCalls
  <2> QED
    BY <1>11, <2>1, <2>2 DEF LoadGoesOn
<1>12. CASE lua_dbc_find_id_by_name
  <2>0. PICK search \in DOMAIN Like :
           /\ \E answer \in dbc_find_id_by_name(search) :
                 out' = [NoOutcome EXCEPT !.fn = "dbc_find_id_by_name", !.text = <<search>>,
                                          !.status = answer.status, !.id = answer.id]
           /\ pc' = "done" /\ UNCHANGED <<dbcVars, edsVars>>
    BY <1>12 DEF lua_dbc_find_id_by_name
  <2>1. PICK answer \in dbc_find_id_by_name(search) :
           /\ out' = [NoOutcome EXCEPT !.fn = "dbc_find_id_by_name", !.text = <<search>>,
                                       !.status = answer.status, !.id = answer.id]
           /\ pc' = "done" /\ UNCHANGED <<dbcVars, edsVars>>
    BY <2>0
  <2>2. /\ out'.fn = "dbc_find_id_by_name" /\ out'.text[1] = search
        /\ out'.status = answer.status /\ out'.id = answer.id
    BY <2>1 DEF NoOutcome
  <2>3. Read' = Read /\ dbc' = dbc
    BY <2>1 DEF dbcVars, Read
  <2>4. Found(search, answer)
    BY FindAnswers
  <2>5. Found(search, answer)'
    BY <2>3, <2>4 DEF Found
  <2>6. Answered'
    BY <2>2, <2>5 DEF Answered, Found
  <2> QED
    BY <1>1, <2>1, <2>6 DEF AnswerInv, AnswersFromTheLastFile
<1>13. ASSUME NEW can_id, NEW frame, NEW filter, Decoded(can_id, frame, filter), UNCHANGED dbcVars
       PROVE  AnswerInv'
  <2>1. CASE pc' = "undefined" /\ out' = NoOutcome
    BY <1>3, <1>4, <1>13, <2>1 DEF DbcCalls
  <2>2. ASSUME NEW answer \in dbc_decode(can_id, frame, filter), pc' = "done",
               out' = [NoOutcome EXCEPT !.fn = "dbc_decode", !.args = <<can_id>>,
                                        !.text = <<filter>>, !.answer = answer]
        PROVE  AnswerInv'
    <3>1. /\ out'.fn = "dbc_decode" /\ out'.args[1] = can_id /\ out'.text[1] = filter
          /\ out'.answer = answer
      BY <2>2 DEF NoOutcome
    <3>2. Read' = Read /\ dbc' = dbc
      BY <1>13 DEF dbcVars, Read
    <3>3. Decodes(can_id, filter, answer)
      BY DecodeAnswers
    <3>4. Answered'
      BY <3>1, <3>2, <3>3 DEF Answered, Decodes
    <3> QED
      BY <1>1, <2>2, <3>4 DEF AnswerInv, AnswersFromTheLastFile
  <2> QED
    BY <1>13, <2>1, <2>2 DEF Decoded
<1>14. CASE lua_dbc_decode
  BY <1>13, <1>14 DEF lua_dbc_decode
<1>15. CASE py_dbc_decode
  BY <1>13, <1>15 DEF py_dbc_decode
<1>16. CASE lua_test_eds_file \/ NextTurn
  BY <1>3, <1>4, <1>16 DEF lua_test_eds_file, NextTurn, DbcCalls
<1>17. CASE TestGoesOn
  <2>1. out.fn \notin DbcCalls
    BY <1>17 DEF TestGoesOn, AnswerInv
  <2> QED
    BY <1>3, <1>17, <2>1 DEF TestGoesOn
<1>18. CASE core_deinit
  <2>1. out.fn \notin DbcCalls
    BY <1>18 DEF core_deinit, AnswerInv
  <2> QED
    BY <1>2, <1>18, <2>1 DEF core_deinit
<1>19. CASE UNCHANGED vars
  <2>1. Read' = Read
    BY <1>19 DEF vars, dbcVars, Read
  <2> QED
    BY <1>19, <2>1 DEF vars, dbcVars, AnswerInv, AnswersFromTheLastFile, Answered, Found, Decodes
<1> QED
  BY <1>7, <1>8, <1>9, <1>10, <1>11, <1>12, <1>14, <1>15, <1>16, <1>17, <1>18, <1>19 DEF Next

(* Whatever DBC files there are, of any length, and wherever loads of them *)
(* failed, the database is that of the lines read last. What scripts are   *)
(* answered comes from it, in full, or cut, or memory is said to be short; *)
(* where decoding is undefined nothing is claimed.                         *)
THEOREM AnswersCorrect == Spec => []AnswersFromTheLastFile
<1>1. Init => FileInv /\ AnswerInv
  <2> SUFFICES ASSUME Init PROVE FileInv /\ AnswerInv
    OBVIOUS
  <2>1. dbc = NoDatabase /\ dbcFile = NoFile /\ dbcLine = 0 /\ pc = "prompt" /\ out = NoOutcome
    BY DEF Init, DbcInit
  <2>2. 0 \in 0 .. Len(LinesOf(NoFile))
    BY LinesAre
  <2>3. dbc = [loaded |-> FALSE, messages |-> <<>>, null |-> {}]
    BY <2>1 DEF NoDatabase
  <2>4. ReadSoFar(dbc, Read)
    BY <2>3 DEF ReadSoFar
  <2>5. FileInv
    BY <2>1, <2>2, <2>4 DEF FileInv
  <2>6. out.fn = "nothing" /\ ~dbc.loaded
    BY <2>1, <2>3 DEF NoOutcome
  <2>7. AnswerInv
    BY <2>1, <2>6 DEF AnswerInv, AnswersFromTheLastFile, Answered, DbcCalls
  <2> QED
    BY <2>5, <2>7
<1>2. FileInv /\ AnswerInv /\ [Next]_vars => FileInv' /\ AnswerInv'
  <2>1. FileInv /\ AnswerInv /\ [Next]_vars => FileInv'
    BY FileStep DEF AnswerInv
  <2> QED
    BY <2>1, AnswerStep
<1>3. AnswerInv => AnswersFromTheLastFile
  BY DEF AnswerInv
<1> QED
  BY <1>1, <1>2, <1>3, PTL DEF Spec
-----------------------------------------------------------------------------
(* The entries of the keys handled.                                        *)

Keys == KeysOf(test.file)
Entry == [section : DOMAIN Sections, access : AccessTypes]

(* The section of the last key of an entry before a key, and the keys      *)
(* where an entry starts.                                                  *)
SectionBefore(keys, k) ==
    LET earlier == {j \in EntryKeys(keys) : j < k} IN
    IF earlier = {} THEN test.before
    ELSE keys[CHOOSE j \in earlier : \A i \in earlier : i <= j].section
EntryStarts(keys) == {k \in EntryKeys(keys) : SectionBefore(keys, k) # keys[k].section}

(* The access types given for the entry that starts at a key.              *)
GivenTypes(keys, start) ==
    {k \in DOMAIN keys :
        /\ start <= k /\ \A next \in EntryStarts(keys) : next <= start \/ k < next
        /\ GivesType(keys[k])}

(* The entries are those, with the last access type given, if there is one.*)
EntriesOfTheFile(keys) ==
    LET starts == InOrder(EntryStarts(keys)) IN
    /\ Len(entries) = Len(starts)
    /\ \A n \in DOMAIN entries :
          /\ entries[n].section = keys[starts[n]].section
          /\ \A k \in GivenTypes(keys, starts[n]) :
                (\A j \in GivenTypes(keys, starts[n]) : j <= k) => entries[n].access = keys[k].value

(* The entries that start up to a key, and the access types given up to it.*)
StartsTo(m)       == {k \in EntryStarts(Keys) : k <= m}
GivenTo(start, m) == {k \in GivenTypes(Keys, start) : k <= m}

Fits(entry, start, m) ==
    /\ entry.section = Keys[start].section
    /\ \A k \in GivenTo(start, m) :
          (\A j \in GivenTo(start, m) : j <= k) => entry.access = Keys[k].value

EntriesAre(list, S, m) ==
    /\ list \in Seq(Entry) /\ Len(list) = Cardinality(S)
    /\ \A n \in 1 .. Len(list) : Fits(list[n], InOrder(S)[n], m)

KeysAre == Keys \in Seq(Range(Keys)) /\ Len(Keys) \in Nat /\ DOMAIN Keys = 1 .. Len(Keys)

LEMMA KeysOfFile ==
    ASSUME NEW file \in DOMAIN EdsFiles \cup {MissingFile}
    PROVE  /\ KeysOf(file) \in Seq(Range(KeysOf(file))) /\ Len(KeysOf(file)) \in Nat
           /\ DOMAIN KeysOf(file) = 1 .. Len(KeysOf(file))
<1>1. KeysOf(file) \in Seq(Range(KeysOf(file)))
  <2>1. CASE file = MissingFile
    <3>1. \A S : <<>> \in Seq(S)
      OBVIOUS
    <3> QED
      BY <2>1, <3>1 DEF KeysOf
  <2>2. CASE file # MissingFile
    <3>1. file \in DOMAIN EdsFiles /\ KeysOf(file) = EdsFiles[file]
      BY <2>2 DEF KeysOf
    <3> QED
      BY <3>1, EdsAssumption, Zenon
  <2> QED
    BY <2>1, <2>2
<1> QED
  BY <1>1, LenProperties

LEMMA KeysAreKeys ==
    ASSUME test.file \in DOMAIN EdsFiles \cup {MissingFile}
    PROVE  KeysAre
  BY KeysOfFile DEF KeysAre, Keys

LEMMA StartsAre ==
    ASSUME KeysAre, NEW m
    PROVE  /\ StartsTo(m) \in SUBSET Nat /\ IsFiniteSet(StartsTo(m))
           /\ EntryStarts(Keys) \in SUBSET (1 .. Len(Keys))
<1>1. EntryStarts(Keys) \in SUBSET (1 .. Len(Keys))
  BY DEF KeysAre, EntryStarts, EntryKeys
<1>2. StartsTo(m) \in SUBSET (1 .. Len(Keys))
  BY <1>1 DEF StartsTo
<1>3. IsFiniteSet(1 .. Len(Keys))
  BY FS_Interval DEF KeysAre
<1>4. IsFiniteSet(StartsTo(m))
  BY <1>2, <1>3, FS_Subset
<1> QED
  BY <1>1, <1>2, <1>4

(* The section before a key is that of the last key of an entry.           *)
LEMMA NextSectionBefore ==
    ASSUME KeysAre, NEW m \in 0 .. Len(Keys), m < Len(Keys)
    PROVE  SectionBefore(Keys, (m + 1) + 1) =
              IF Keys[m + 1].section \in DOMAIN Sections THEN Keys[m + 1].section
              ELSE SectionBefore(Keys, m + 1)
<1> DEFINE E == {j \in EntryKeys(Keys) : j < m + 1}
           F == {j \in EntryKeys(Keys) : j < (m + 1) + 1}
<1>1. EntryKeys(Keys) \in SUBSET Nat
  BY DEF EntryKeys, KeysAre
<1>2. m + 1 \in DOMAIN Keys /\ m \in Nat
  BY DEF KeysAre
<1>3. CASE Keys[m + 1].section \in DOMAIN Sections
  <2>1. m + 1 \in F /\ \A j \in F : j <= m + 1 /\ j \in Nat
    BY <1>1, <1>2, <1>3 DEF EntryKeys
  <2> DEFINE last == CHOOSE j \in F : \A i \in F : i <= j
  <2>2. last \in F /\ \A i \in F : i <= last
    <3> HIDE DEF F
    <3>1. \E j \in F : \A i \in F : i <= j
      BY <2>1
    <3> QED
      BY <3>1
  <2>3. last = m + 1
    <3> HIDE DEF last, F
    <3> QED
      BY <1>2, <2>1, <2>2
  <2>4. SectionBefore(Keys, (m + 1) + 1) = Keys[last].section
    BY <2>1 DEF SectionBefore
  <2> QED
    BY <1>3, <2>3, <2>4
<1>4. CASE Keys[m + 1].section \notin DOMAIN Sections
  <2>1. m + 1 \notin EntryKeys(Keys)
    BY <1>4 DEF EntryKeys
  <2>2. E = F
    BY <1>1, <1>2, <2>1
  <2>3. SectionBefore(Keys, (m + 1) + 1) = SectionBefore(Keys, m + 1)
    <3> DEFINE Of(S) == IF S = {} THEN test.before
                        ELSE Keys[CHOOSE j \in S : \A i \in S : i <= j].section
    <3>1. SectionBefore(Keys, m + 1) = Of(E) /\ SectionBefore(Keys, (m + 1) + 1) = Of(F)
      BY DEF SectionBefore
    <3> HIDE DEF Of, E, F
    <3> QED
      BY <2>2, <3>1, Zenon
  <2> QED
    BY <1>4, <2>3
<1> QED
  BY <1>3, <1>4

(* A key starts an entry if the section before it is another one.          *)
LEMMA NextStarts ==
    ASSUME KeysAre, NEW m \in 0 .. Len(Keys), m < Len(Keys)
    PROVE  /\ m + 1 \in EntryStarts(Keys)
                <=> /\ Keys[m + 1].section \in DOMAIN Sections
                    /\ Keys[m + 1].section # SectionBefore(Keys, m + 1)
           /\ StartsTo(m + 1) = IF m + 1 \in EntryStarts(Keys) THEN StartsTo(m) \cup {m + 1}
                                ELSE StartsTo(m)
<1>1. m + 1 \in DOMAIN Keys /\ m \in Nat
  BY DEF KeysAre
<1>2. EntryStarts(Keys) \in SUBSET Nat
  BY StartsAre DEF KeysAre
<1>3. m + 1 \in EntryStarts(Keys)
                <=> /\ Keys[m + 1].section \in DOMAIN Sections
                    /\ Keys[m + 1].section # SectionBefore(Keys, m + 1)
  BY <1>1 DEF EntryStarts, EntryKeys
<1>4. \A k \in EntryStarts(Keys) : k <= m + 1 <=> k <= m \/ k = m + 1
  BY <1>1, <1>2
<1>5. StartsTo(m + 1) = IF m + 1 \in EntryStarts(Keys) THEN StartsTo(m) \cup {m + 1}
                        ELSE StartsTo(m)
  BY <1>1, <1>4 DEF StartsTo
<1> QED
  BY <1>3, <1>5

(* A key describes the last entry started, and no other.                   *)
LEMMA NextGiven ==
    ASSUME KeysAre, NEW m \in 0 .. Len(Keys), m < Len(Keys), NEW start \in StartsTo(m + 1)
    PROVE  GivenTo(start, m + 1) =
              IF GivesType(Keys[m + 1]) /\ \A i \in StartsTo(m + 1) : i <= start
              THEN GivenTo(start, m) \cup {m + 1} ELSE GivenTo(start, m)
<1>1. m + 1 \in DOMAIN Keys /\ m \in Nat /\ DOMAIN Keys \in SUBSET Nat
  BY DEF KeysAre
<1>2. /\ EntryStarts(Keys) \in SUBSET Nat /\ start \in EntryStarts(Keys)
      /\ start \in Nat /\ start <= m + 1
  <2>1. EntryStarts(Keys) \in SUBSET Nat
    BY StartsAre DEF KeysAre
  <2>2. start \in EntryStarts(Keys) /\ start <= m + 1
    BY DEF StartsTo
  <2> QED
    BY <2>1, <2>2
<1>3. GivenTypes(Keys, start) \in SUBSET Nat
  BY <1>1 DEF GivenTypes
<1>4. (\A next \in EntryStarts(Keys) : next <= start \/ m + 1 < next)
         <=> \A i \in StartsTo(m + 1) : i <= start
  <2>1. \A next \in EntryStarts(Keys) : next \in Nat
    BY <1>2
  <2> QED
    BY <1>1, <2>1 DEF StartsTo
<1>5. m + 1 \in GivenTypes(Keys, start)
         <=> GivesType(Keys[m + 1]) /\ \A i \in StartsTo(m + 1) : i <= start
  BY <1>1, <1>2, <1>4 DEF GivenTypes
<1>6. \A k \in GivenTypes(Keys, start) : k <= m + 1 <=> k <= m \/ k = m + 1
  BY <1>1, <1>3
<1> QED
  BY <1>1, <1>5, <1>6 DEF GivenTo

LEMMA StillFits ==
    ASSUME KeysAre, NEW m \in 0 .. Len(Keys), m < Len(Keys), NEW start \in StartsTo(m + 1),
           NEW entry, Fits(entry, start, m),
           NEW after, after.section = entry.section,
           after.access = IF GivesType(Keys[m + 1]) /\ \A i \in StartsTo(m + 1) : i <= start
                          THEN Keys[m + 1].value ELSE entry.access
    PROVE  Fits(after, start, m + 1)
<1>1. /\ m \in Nat /\ \A k \in GivenTo(start, m) : k \in Nat /\ k <= m
  BY DEF GivenTo, GivenTypes, KeysAre
<1>2. CASE GivesType(Keys[m + 1]) /\ \A i \in StartsTo(m + 1) : i <= start
  <2>1. GivenTo(start, m + 1) = GivenTo(start, m) \cup {m + 1}
    BY <1>2, NextGiven
  <2>2. ASSUME NEW k \in GivenTo(start, m + 1), \A j \in GivenTo(start, m + 1) : j <= k
        PROVE  k = m + 1
    <3>1. m + 1 <= k
      BY <2>1, <2>2
    <3>2. k \in GivenTo(start, m) \/ k = m + 1
      BY <2>1
    <3> QED
      BY <1>1, <3>1, <3>2
  <2> QED
    BY <1>2, <2>2 DEF Fits
<1>3. CASE ~(GivesType(Keys[m + 1]) /\ \A i \in StartsTo(m + 1) : i <= start)
  <2>1. GivenTo(start, m + 1) = GivenTo(start, m) /\ after.access = entry.access
    BY <1>3, NextGiven
  <2> QED
    BY <2>1 DEF Fits
<1> QED
  BY <1>2, <1>3

(* So with the key handled the entries are those up to it: Described sets  *)
(* the access type of the last entry.                                      *)
LEMMA DescribedFits ==
    ASSUME KeysAre, NEW m \in 0 .. Len(Keys), m < Len(Keys),
           NEW list, EntriesAre(list, StartsTo(m + 1), m)
    PROVE  EntriesAre(Described(list, Keys[m + 1]), StartsTo(m + 1), m + 1)
<1> DEFINE S     == StartsTo(m + 1)
           at    == InOrder(S)
           N     == Cardinality(S)
           key   == Keys[m + 1]
           after == Described(list, key)
           sets  == list # <<>> /\ GivesType(key)
<1>1. S \in SUBSET Nat /\ IsFiniteSet(S)
  BY StartsAre
<1>2. N \in Nat /\ at \in [1 .. N -> S]
  BY <1>1, InOrderIsInverse
<1>3. /\ list \in Seq(Entry) /\ Len(list) = N
      /\ \A n \in 1 .. N : Fits(list[n], at[n], m)
  BY DEF EntriesAre
<1>4. /\ list \in [1 .. N -> Entry] /\ (list # <<>> <=> N # 0)
  BY <1>2, <1>3
<1>5. after = IF sets THEN [list EXCEPT ![N].access = key.value] ELSE list
  BY <1>3 DEF Described
<1>6. \A n \in 1 .. N : (\A i \in S : i <= at[n]) <=> n = N
  BY <1>1, LastInOrder
<1> HIDE DEF S, at, N, key, after
<1>7. ASSUME NEW n \in 1 .. N
      PROVE  /\ after[n] \in Entry /\ after[n].section = list[n].section
             /\ after[n].access = IF GivesType(key) /\ n = N THEN key.value ELSE list[n].access
  <2>1. list[n] \in Entry /\ list # <<>>
    BY <1>4
  <2>2. CASE GivesType(key) /\ n = N
    <3>1. after[n] = [list[n] EXCEPT !.access = key.value]
      BY <1>4, <1>5, <2>1, <2>2
    <3>2. key.value \in AccessTypes
      BY <2>2 DEF GivesType
    <3> QED
      BY <2>1, <2>2, <3>1, <3>2 DEF Entry
  <2>3. CASE ~(GivesType(key) /\ n = N)
    <3>1. after[n] = list[n]
      BY <1>2, <1>4, <1>5, <2>3
    <3> QED
      BY <2>1, <2>3, <3>1
  <2> QED
    BY <2>2, <2>3
<1>8. after \in Seq(Entry) /\ Len(after) = N
  <2>1. after = [n \in 1 .. N |-> after[n]]
    BY <1>2, <1>4, <1>5
  <2>2. after \in [1 .. N -> Entry]
    BY <1>7, <2>1
  <2> QED
    BY <1>2, <2>2
<1>9. ASSUME NEW n \in 1 .. N
      PROVE  Fits(after[n], at[n], m + 1)
  <2>1. at[n] \in S
    BY <1>2
  <2>2. after[n].access = IF GivesType(key) /\ \A i \in S : i <= at[n]
                          THEN key.value ELSE list[n].access
    BY <1>6, <1>7
  <2> QED
    BY <1>3, <1>7, <2>1, <2>2, StillFits DEF S, key
<1>10. EntriesAre(after, S, m + 1)
  BY <1>8, <1>9 DEF EntriesAre, N, at
<1> QED
  BY <1>10 DEF S, after, key

(* A new entry starts at the key.                                          *)
LEMMA AddedFits ==
    ASSUME KeysAre, NEW m \in 0 .. Len(Keys), m < Len(Keys), m + 1 \in EntryStarts(Keys),
           NEW list, EntriesAre(list, StartsTo(m), m),
           NEW new \in Entry, new.section = Keys[m + 1].section
    PROVE  EntriesAre(Append(list, new), StartsTo(m + 1), m)
<1> DEFINE S     == StartsTo(m)
           at    == InOrder(S)
           N     == Cardinality(S)
           T     == StartsTo(m + 1)
           after == Append(list, new)
<1>1. S \in SUBSET Nat /\ IsFiniteSet(S) /\ m + 1 \in Nat /\ \A k \in S : k < m + 1
  <2>1. S \in SUBSET Nat /\ IsFiniteSet(S) /\ m \in Nat
    BY StartsAre DEF KeysAre
  <2>2. \A k \in S : k <= m
    BY DEF StartsTo
  <2> QED
    BY <2>1, <2>2
<1>2. N \in Nat /\ at \in [1 .. N -> S]
  BY <1>1, InOrderIsInverse
<1>3. /\ list \in Seq(Entry) /\ Len(list) = N
      /\ \A n \in 1 .. N : Fits(list[n], at[n], m)
  BY DEF EntriesAre
<1>4. T = S \cup {m + 1}
  BY NextStarts
<1> HIDE DEF S, at, N, T
<1>5. InOrder(T) = Append(at, m + 1) /\ Cardinality(T) = N + 1
  BY <1>1, <1>4, OneMoreInOrder DEF N, at
<1>6. at \in Seq(Nat) /\ Len(at) = N
  <2>1. at \in [1 .. N -> Nat]
    BY <1>1, <1>2
  <2> QED
    BY <1>2, <2>1
<1>7. /\ \A n \in 1 .. N : InOrder(T)[n] = at[n]
      /\ InOrder(T)[N + 1] = m + 1
  BY <1>1, <1>2, <1>5, <1>6, AppendProperties
<1>8. /\ after \in Seq(Entry) /\ Len(after) = N + 1
      /\ \A n \in 1 .. N : after[n] = list[n]
      /\ after[N + 1] = new
  BY <1>2, <1>3, AppendProperties
<1>9. Fits(new, m + 1, m)
  <2>1. GivenTo(m + 1, m) = {}
    <3>1. \A k \in GivenTypes(Keys, m + 1) : k \in Nat /\ m + 1 <= k
      BY DEF GivenTypes, KeysAre
    <3> QED
      BY <1>1, <3>1 DEF GivenTo, KeysAre
  <2> QED
    BY <2>1 DEF Fits
<1> HIDE DEF after
<1>10. ASSUME NEW n \in 1 .. N + 1
       PROVE  Fits(after[n], InOrder(T)[n], m)
  <2>1. CASE n \in 1 .. N
    BY <1>3, <1>7, <1>8, <2>1
  <2>2. CASE n = N + 1
    BY <1>7, <1>8, <1>9, <2>2
  <2> QED
    BY <1>2, <2>1, <2>2
<1>11. EntriesAre(after, T, m)
  BY <1>5, <1>8, <1>10 DEF EntriesAre
<1> QED
  BY <1>11 DEF after, T

(* These depend on the file and the section before it only.                *)
LEMMA FileKept ==
    ASSUME test'.file = test.file, test'.before = test.before
    PROVE  /\ Keys' = Keys
           /\ \A k : SectionBefore(Keys, k)' = SectionBefore(Keys, k)
           /\ EntryStarts(Keys)' = EntryStarts(Keys)
           /\ \A m : StartsTo(m)' = StartsTo(m)
           /\ \A list, S, m : EntriesAre(list, S, m)' <=> EntriesAre(list, S, m)
<1>1. Keys' = Keys
  BY DEF Keys
<1>2. \A k : SectionBefore(Keys, k)' = SectionBefore(Keys, k)
  BY <1>1 DEF SectionBefore
<1>3. EntryStarts(Keys)' = EntryStarts(Keys)
  BY <1>1, <1>2 DEF EntryStarts
<1>4. \A m : StartsTo(m)' = StartsTo(m)
  BY <1>3 DEF StartsTo
<1>5. \A start : GivenTypes(Keys, start)' = GivenTypes(Keys, start)
  BY <1>1, <1>3 DEF GivenTypes
<1>6. \A list, S, m : EntriesAre(list, S, m)' <=> EntriesAre(list, S, m)
  BY <1>1, <1>5 DEF EntriesAre, Fits, GivenTo
<1> QED
  BY <1>1, <1>2, <1>3, <1>4, <1>6

-----------------------------------------------------------------------------
(* The objects asked for.                                                  *)

Result == [section : DOMAIN Sections, has_passed : BOOLEAN]
Span   == [index : Nat, first : Nat, last : Nat, printed : BOOLEAN]

(* The entries that were asked for and gave that result.  The ranges with  *)
(* an object, printed or not.                                              *)
Gave(section, available) ==
    {n \in 1 .. test.asked : /\ n \in Readable /\ entries[n].section = section
                             /\ (n \notin test.absent <=> available)}
Collecteds(object) ==
    {k \in DOMAIN LastRange : /\ LastRange[k].index = object.index
                              /\ object.sub \in LastRange[k].first .. LastRange[k].last}

InResultsOnce ==
    /\ test.results \in Seq(Result)
    /\ \A section \in DOMAIN Sections, available \in BOOLEAN :
          Cardinality(InResults(section, available)) = Cardinality(Gave(section, available))

(* The range that is being collected.                                      *)
RangeOK ==
    /\ test.ranges \in Seq(Span)
    /\ \/ test.first = NoSub
       \/ /\ test.index \in Nat /\ test.first \in Nat /\ test.last \in Nat
          /\ test.first <= test.last

InRangesOnce ==
    /\ RangeOK
    /\ \A section \in DOMAIN Sections :
          Cardinality(Collecteds(Sections[section])) = Cardinality(Missing(Sections[section]))
    /\ \A k \in DOMAIN LastRange : \A sub \in LastRange[k].first .. LastRange[k].last :
          \E n \in test.absent : ObjectOf(n) = [index |-> LastRange[k].index, sub |-> sub]

AskInv ==
    /\ test.asked \in 0 .. Len(entries)
    /\ test.absent \in SUBSET (1 .. test.asked) /\ test.absent \subseteq Readable
    /\ test.status = "EDS_OBJECT_NOT_AVAILABLE" <=> test.absent # {}
    /\ test.mode = "SCRIPT_MODE" => InResultsOnce
    /\ test.mode = "TERM_MODE" => InRangesOnce

Fields == {"mode", "file", "keys", "asked", "results", "index", "first", "last", "length",
           "ranges", "status", "before", "absent", "short"}
IsRun(t) == t = [f \in Fields |-> t[f]]

ParseInv ==
    /\ prev_section = SectionBefore(Keys, test.keys + 1)
    /\ EntriesAre(entries, StartsTo(test.keys), test.keys)
    /\ test.keys < Len(Keys) => test.asked = 0

RunInv == ~entriesLost /\ ParseInv /\ AskInv

EdsInv ==
    /\ IsRun(test) /\ test.file \in DOMAIN EdsFiles \cup {MissingFile}
    /\ test.keys \in 0 .. Len(Keys)
    /\ pc \notin {"eds", "crashed"} => entries = <<>> /\ ~entriesLost
    /\ pc \in {"eds", "crashed"} => test.mode \in {"SCRIPT_MODE", "TERM_MODE"}
    /\ test.mode # "none" /\ ~test.short => RunInv

LEMMA OneMoreEach ==
    ASSUME NEW A, NEW B, IsFiniteSet(A), IsFiniteSet(B), Cardinality(A) = Cardinality(B),
           NEW a, a \notin A, NEW b, b \notin B
    PROVE  Cardinality(A \cup {a}) = Cardinality(B \cup {b})
  BY FS_AddElement

(* While keys are handled nothing was asked for.                           *)
LEMMA NothingAsked ==
    ASSUME AskInv, test.asked = 0, entries' \in Seq(Entry),
           \A f \in Fields \ {"keys"} : test'[f] = test[f]
    PROVE  AskInv'
<1>1. /\ test'.asked = 0 /\ test'.absent = test.absent /\ test'.status = test.status
      /\ test'.mode = test.mode /\ test'.results = test.results
      /\ test'.ranges = test.ranges /\ test'.length = test.length
      /\ test'.first = test.first /\ test'.last = test.last /\ test'.index = test.index
  BY DEF Fields
<1>2. test.absent = {}
  BY DEF AskInv
<1>3. Len(entries') \in Nat
  BY LenProperties
<1>4. LastRange' = LastRange
  BY <1>1 DEF LastRange, Collected, RangeSize, Figures
<1>5. \A section, available : /\ InResults(section, available)' = InResults(section, available)
                              /\ Gave(section, available)' = {} /\ Gave(section, available) = {}
  BY <1>1 DEF InResults, Gave
<1>6. \A object : /\ Collecteds(object)' = Collecteds(object)
                  /\ Missing(object)' = {} /\ Missing(object) = {}
  BY <1>1, <1>2, <1>4 DEF Collecteds, Missing
<1>7. InResultsOnce => InResultsOnce'
  BY <1>1, <1>5 DEF InResultsOnce
<1>8. InRangesOnce => InRangesOnce'
  BY <1>1, <1>2, <1>4, <1>6 DEF InRangesOnce, RangeOK
<1> QED
  BY <1>1, <1>2, <1>3, <1>7, <1>8 DEF AskInv

(* A key handled, with memory for its entry if it starts one.              *)
LEMMA ParseStep ==
    ASSUME EdsInv, RunInv, parse_eds, ~test'.short
    PROVE  /\ IsRun(test') /\ test'.file = test.file /\ test'.mode = test.mode
           /\ (test.keys \in 0 .. Len(Keys))' /\ RunInv'
<1> DEFINE m   == test.keys
           key == Keys[m + 1]
<1>1. /\ m < Len(Keys) /\ ~entriesLost /\ m \in 0 .. Len(Keys)
      /\ prev_section = SectionBefore(Keys, m + 1) /\ EntriesAre(entries, StartsTo(m), m)
      /\ test.asked = 0 /\ AskInv
  BY DEF parse_eds, MoreKeys, Keys, EdsInv, RunInv, ParseInv
<1>2. KeysAre /\ key = Key
  BY KeysAreKeys DEF EdsInv, Key, Keys
<1>3. test' = [test EXCEPT !.keys = @ + 1] /\ (AddEntry \/ DescribeEntry)
  <2>1. ASSUME test' = [test EXCEPT !.keys = @ + 1, !.short = TRUE]
        PROVE  FALSE
    BY <2>1 DEF EdsInv, IsRun, Fields
  <2> QED
    BY <2>1 DEF parse_eds
<1>4. /\ IsRun(test') /\ test'.keys = m + 1 /\ \A f \in Fields \ {"keys"} : test'[f] = test[f]
      /\ test'.file = test.file /\ test'.before = test.before /\ test'.mode = test.mode
      /\ test'.asked = 0
  BY <1>1, <1>3 DEF EdsInv, IsRun, Fields
<1>5. Keys' = Keys /\ (test.keys \in 0 .. Len(Keys))'
  <2>1. Keys' = Keys
    BY <1>4, FileKept
  <2> QED
    BY <1>1, <1>2, <1>4, <2>1 DEF KeysAre
<1>6. /\ StartsEntry <=> m + 1 \in EntryStarts(Keys)
      /\ prev_section' = SectionBefore(Keys, (m + 1) + 1) /\ ~entriesLost'
  <2>1. StartsEntry <=> m + 1 \in EntryStarts(Keys)
    BY <1>1, <1>2, NextStarts DEF StartsEntry
  <2>2. SectionBefore(Keys, (m + 1) + 1) =
          IF key.section \in DOMAIN Sections THEN key.section ELSE SectionBefore(Keys, m + 1)
    BY <1>1, <1>2, NextSectionBefore
  <2> HIDE DEF m, key
  <2>3. CASE AddEntry
    BY <1>2, <2>1, <2>2, <2>3 DEF AddEntry, StartsEntry
  <2>4. CASE DescribeEntry
    BY <1>1, <1>2, <2>1, <2>2, <2>4 DEF DescribeEntry, StartsEntry
  <2> QED
    BY <1>3, <2>1, <2>3, <2>4 DEF m
<1>7. EntriesAre(entries', StartsTo(m + 1), m + 1)
  <2>1. CASE AddEntry
    <3>1. PICK old \in Kept, access \in AccessTypes :
             entries' = Described(Append(old, NewEntry(access)), Key)
      BY <2>1 DEF AddEntry
    <3>2. old = entries
      BY <1>1 DEF Kept
    <3>3. NewEntry(access) \in Entry /\ NewEntry(access).section = key.section
      BY <1>2, <2>1 DEF NewEntry, Entry, AddEntry, StartsEntry
    <3>4. m + 1 \in EntryStarts(Keys)
      BY <1>6, <2>1 DEF AddEntry
    <3>5. EntriesAre(Append(entries, NewEntry(access)), StartsTo(m + 1), m)
      BY <1>1, <1>2, <3>3, <3>4, AddedFits
    <3> QED
      BY <1>1, <1>2, <3>1, <3>2, <3>5, DescribedFits
  <2>2. CASE DescribeEntry
    <3>1. StartsTo(m + 1) = StartsTo(m)
      BY <1>1, <1>2, <1>6, <2>2, NextStarts DEF DescribeEntry
    <3>2. entries' = Described(entries, key)
      BY <1>2, <2>2 DEF DescribeEntry
    <3> QED
      BY <1>1, <1>2, <3>1, <3>2, DescribedFits
  <2> QED
    BY <1>3, <2>1, <2>2
<1>8. AskInv'
  <2>1. entries' \in Seq(Entry)
    BY <1>7 DEF EntriesAre
  <2> QED
    BY <1>1, <1>4, <2>1, NothingAsked
<1>9. ParseInv'
  BY <1>4, <1>6, <1>7, FileKept DEF ParseInv
<1> QED
  BY <1>4, <1>5, <1>6, <1>8, <1>9 DEF RunInv

(* A result of the entry asked for.                                        *)
LEMMA ReadInResults ==
    ASSUME EdsInv, RunInv, NEW available \in BOOLEAN, ReadObject(available),
           test.mode = "SCRIPT_MODE", InResultsOnce,
           test'.results = Append(test.results, [section |-> Asked.section, has_passed |-> available]),
           test'.asked = test.asked + 1,
           test'.absent = IF available THEN test.absent ELSE test.absent \cup {test.asked + 1}
    PROVE  InResultsOnce'
<1> DEFINE a == test.asked + 1
           x == entries[a].section
           r == [section |-> x, has_passed |-> available]
           L == Len(test.results)
<1>1. /\ entries \in Seq(Entry) /\ test.asked \in Nat /\ Len(entries) \in Nat
      /\ test.asked < Len(entries) /\ entries' = entries /\ entries[a].access # "wo"
      /\ test.absent \in SUBSET (1 .. test.asked)
  <2>1. entries \in Seq(Entry) /\ test.asked \in 0 .. Len(entries)
    BY DEF RunInv, ParseInv, AskInv, EntriesAre
  <2>2. Len(entries) \in Nat
    BY <2>1, LenProperties
  <2> QED
    BY <2>1, <2>2 DEF ReadObject, MoreObjects, Asked, RunInv, AskInv
<1>2. x \in DOMAIN Sections /\ a \in Readable /\ a \in Nat /\ Readable' = Readable
  <2>1. entries[a] \in Entry /\ a \in DOMAIN entries
    BY <1>1
  <2> QED
    BY <1>1, <2>1 DEF Entry, Readable
<1>3. r \in Result /\ r.section = x /\ r.has_passed = available
  BY <1>2 DEF Result
<1>4. test.results \in Seq(Result)
  BY DEF InResultsOnce
<1>5. test'.results = Append(test.results, r)
  BY DEF Asked
<1> HIDE DEF r, x
<1>6. /\ L \in Nat /\ DOMAIN test.results = 1 .. L
      /\ test'.results \in Seq(Result) /\ DOMAIN test'.results = 1 .. L + 1
      /\ \A k \in 1 .. L : test'.results[k] = test.results[k]
      /\ test'.results[L + 1] = r
  BY <1>3, <1>4, <1>5, AppendProperties
<1> HIDE DEF L
<1>7. ASSUME NEW section \in DOMAIN Sections, NEW given \in BOOLEAN
      PROVE  (Cardinality(InResults(section, given)) = Cardinality(Gave(section, given)))'
  <2> DEFINE A == InResults(section, given)
             B == Gave(section, given)
  <2>1. Cardinality(A) = Cardinality(B)
    BY DEF InResultsOnce
  <2>2. /\ A \in SUBSET (1 .. L) /\ IsFiniteSet(A) /\ B \in SUBSET (1 .. test.asked) /\ IsFiniteSet(B)
    <3>1. IsFiniteSet(1 .. L)
      BY <1>6, FS_Interval
    <3>3. IsFiniteSet(1 .. test.asked)
      <4>1. test.asked \in Int
        BY <1>1
      <4> QED
        BY <4>1, FS_Interval
    <3>2. A \in SUBSET (1 .. L) /\ B \in SUBSET (1 .. test.asked)
      BY <1>6 DEF InResults, Gave
    <3> QED
      BY <3>1, <3>2, <3>3, FS_Subset
  <2>3. L + 1 \notin A /\ a \notin B
    BY <1>1, <1>6, <2>2
  <2>4. A' = IF section = x /\ given = available THEN A \cup {L + 1} ELSE A
    BY <1>3, <1>6 DEF InResults
  <2>5. B' = IF section = x /\ given = available THEN B \cup {a} ELSE B
    <3>1. ASSUME NEW n \in 1 .. test.asked
          PROVE  n \in B' <=> n \in B
      BY <1>1, <1>2 DEF Gave
    <3>2. a \in B' <=> section = x /\ given = available
      <4>1. a \in test'.absent <=> ~available
        BY <1>1
      <4>2. a \in B' <=> entries[a].section = section /\ (a \notin test'.absent <=> given)
        BY <1>1, <1>2 DEF Gave
      <4> QED
        BY <4>1, <4>2 DEF x
    <3>3. B' \in SUBSET ((1 .. test.asked) \cup {a})
      <4>1. 1 .. test.asked + 1 = (1 .. test.asked) \cup {a}
        BY <1>1
      <4> QED
        BY <4>1 DEF Gave
    <3>4. \A n \in 1 .. test.asked : n \in B' <=> n \in B
      BY <3>1
    <3>5. B \in SUBSET (1 .. test.asked)
      BY <2>2
    <3> HIDE DEF B, a
    <3>6. a \in B' => B' = B \cup {a}
      BY <3>3, <3>4, <3>5
    <3>7. a \notin B' => B' = B
      <4>1. \A n \in B' : a \notin B' => n \in 1 .. test.asked
        BY <3>3
      <4> QED
        BY <3>4, <3>5, <4>1
    <3> QED
      BY <3>2, <3>6, <3>7
  <2> HIDE DEF A, B, a
  <2>6. Cardinality(A') = Cardinality(B')
    <3>1. CASE section = x /\ given = available
      BY <2>1, <2>2, <2>3, <2>4, <2>5, <3>1, OneMoreEach
    <3>2. CASE ~(section = x /\ given = available)
      BY <2>1, <2>4, <2>5, <3>2
    <3> QED
      BY <3>1, <3>2
  <2> QED
    BY <2>6 DEF A, B
<1> QED
  BY <1>6, <1>7 DEF InResultsOnce

(* The ranges printed, with that of an object that was not available.      *)
ObjectId == [index : Nat, sub : Nat]
Covers(spans, k, object) ==
    /\ k \in DOMAIN spans /\ spans[k].index = object.index
    /\ object.sub \in spans[k].first .. spans[k].last
ShowsMore(spans, more, object) ==
    \E l \in Nat :
       /\ ~Covers(spans, l, object)
       /\ \A k, o : o \in ObjectId =>
             (Covers(more, k, o) <=> Covers(spans, k, o) \/ (k = l /\ o = object))

LEMMA SameObject ==
    ASSUME NEW o \in ObjectId, NEW p \in ObjectId
    PROVE  o = p <=> o.index = p.index /\ o.sub = p.sub
<1>1. o = [index |-> o.index, sub |-> o.sub] /\ p = [index |-> p.index, sub |-> p.sub]
  BY DEF ObjectId
<1> QED
  BY <1>1, Zenon

LEMMA AppendedSpan ==
    ASSUME NEW spans \in Seq(Span), NEW object \in ObjectId, NEW one \in Span,
           one.index = object.index, one.first = object.sub, one.last = object.sub
    PROVE  ShowsMore(spans, Append(spans, one), object)
<1> DEFINE L    == Len(spans)
           more == Append(spans, one)
<1>1. /\ L \in Nat /\ DOMAIN spans = 1 .. L /\ DOMAIN more = 1 .. L + 1
      /\ \A k \in 1 .. L : more[k] = spans[k]
      /\ more[L + 1] = one
  BY AppendProperties
<1> HIDE DEF L, more
<1>2. ~Covers(spans, L + 1, object)
  BY <1>1 DEF Covers
<1>3. ASSUME NEW k, NEW o \in ObjectId
      PROVE  Covers(more, k, o) <=> Covers(spans, k, o) \/ (k = L + 1 /\ o = object)
  <2>1. CASE k \in 1 .. L
    <3>1. Covers(more, k, o) <=> Covers(spans, k, o)
      BY <1>1, <2>1 DEF Covers
    <3> QED
      BY <1>1, <2>1, <3>1
  <2>2. CASE k = L + 1
    <3>1. Covers(more, k, o) <=> one.index = o.index /\ o.sub \in one.first .. one.last
      <4>1. k \in DOMAIN more /\ more[k] = one
        BY <1>1, <2>2
      <4> QED
        BY <4>1, Zenon DEF Covers
    <3>2. o.sub \in Nat /\ object.sub \in Nat
      BY DEF ObjectId
    <3>3. Covers(more, k, o) <=> o = object
      BY <3>1, <3>2, SameObject
    <3>4. ~Covers(spans, k, o)
      BY <1>1, <2>2 DEF Covers
    <3> QED
      BY <2>2, <3>3, <3>4
  <2>3. CASE k \notin 1 .. L /\ k # L + 1
    BY <1>1, <2>3 DEF Covers
  <2> QED
    BY <2>1, <2>2, <2>3
<1>4. L + 1 \in Nat
  BY <1>1
<1> QED
  BY <1>2, <1>3, <1>4 DEF ShowsMore, more

LEMMA LongerSpan ==
    ASSUME NEW spans \in Seq(Span), NEW object \in ObjectId, NEW old \in Span, NEW new \in Span,
           old.index = object.index, new.index = object.index, old.first <= old.last,
           object.sub = old.last + 1, new.first = old.first, new.last = object.sub
    PROVE  ShowsMore(Append(spans, old), Append(spans, new), object)
<1> DEFINE L == Len(spans)
           A == Append(spans, old)
           B == Append(spans, new)
<1>1. /\ L \in Nat /\ DOMAIN A = 1 .. L + 1 /\ DOMAIN B = 1 .. L + 1
      /\ \A k \in 1 .. L : A[k] = B[k]
      /\ A[L + 1] = old /\ B[L + 1] = new
  BY AppendProperties
<1> HIDE DEF L, A, B
<1>2. old.first \in Nat /\ old.last \in Nat /\ object.sub \in Nat
  BY DEF Span, ObjectId
<1>3. ~Covers(A, L + 1, object)
  BY <1>1, <1>2 DEF Covers
<1>4. ASSUME NEW k, NEW o \in ObjectId
      PROVE  Covers(B, k, o) <=> Covers(A, k, o) \/ (k = L + 1 /\ o = object)
  <2>1. CASE k \in 1 .. L
    <3>1. Covers(A, k, o) <=> Covers(B, k, o)
      BY <1>1, <2>1 DEF Covers
    <3> QED
      BY <1>1, <2>1, <3>1
  <2>2. CASE k = L + 1
    <3>1. /\ Covers(B, k, o) <=> o.index = object.index /\ o.sub \in old.first .. object.sub
          /\ Covers(A, k, o) <=> o.index = object.index /\ o.sub \in old.first .. old.last
      BY <1>1, <2>2 DEF Covers
    <3>2. o.sub \in Nat
      BY DEF ObjectId
    <3>3. o.sub \in old.first .. object.sub <=> o.sub \in old.first .. old.last \/ o.sub = object.sub
      BY <1>2, <3>2
    <3> QED
      BY <2>2, <3>1, <3>3, SameObject
  <2>3. CASE k \notin 1 .. L /\ k # L + 1
    BY <1>1, <2>3 DEF Covers
  <2> QED
    BY <2>1, <2>2, <2>3
<1>5. L + 1 \in Nat
  BY <1>1
<1> QED
  BY <1>3, <1>4, <1>5 DEF ShowsMore, A, B

LEMMA LastRangeIs ==
    ASSUME RangeOK
    PROVE  LastRange \in Seq(Span)
<1>1. test.first # NoSub => Collected(test) \in Span
  BY DEF RangeOK, Span, Collected
<1> QED
  BY <1>1, AppendProperties DEF RangeOK, LastRange

LEMMA CollectedOnce ==
    ASSUME RangeOK, NEW object \in ObjectId,
           test'.ranges = IF EndsRange(object) THEN Append(test.ranges, Collected(test))
                           ELSE test.ranges,
           test'.first = IF EndsRange(object) \/ test.first = NoSub THEN object.sub ELSE test.first,
           test'.last = object.sub, test'.index = object.index
    PROVE  RangeOK' /\ LastRange' \in Seq(Span) /\ ShowsMore(LastRange, LastRange', object)
<1>1. object.index \in Nat /\ object.sub \in Nat /\ object.sub # NoSub
  BY DEF ObjectId, NoSub
<1> DEFINE C == Collected(test)
<1>2. test.first # NoSub =>
         /\ C \in Span /\ C.index = test.index /\ C.first = test.first /\ C.last = test.last
         /\ test.first \in Nat /\ test.last \in Nat /\ test.first <= test.last
  <2>1. C.printed \in BOOLEAN
    BY DEF Collected
  <2> QED
    BY <2>1 DEF RangeOK, Span, Collected
<1>3. test'.first # NoSub => /\ C'.index = test'.index /\ C'.first = test'.first
                             /\ C'.last = test'.last
                             /\ (test'.index \in Nat /\ test'.first \in Nat /\ test'.last \in Nat
                                 => C' \in Span)
  BY DEF Span, Collected
<1> HIDE DEF C
<1>4. CASE test.first # NoSub /\ ~EndsRange(object)
  <2>1. test.index = object.index /\ object.sub = test.last + 1
    BY <1>4 DEF EndsRange
  <2>2. /\ test'.ranges = test.ranges /\ test'.first = test.first
        /\ LastRange = Append(test.ranges, C) /\ LastRange' = Append(test.ranges, C')
    BY <1>4 DEF LastRange, C
  <2>3. RangeOK'
    BY <1>1, <1>2, <1>4, <2>1, <2>2 DEF RangeOK
  <2>4. C' \in Span
    BY <1>1, <1>2, <1>3, <1>4, <2>2
  <2>5. ShowsMore(Append(test.ranges, C), Append(test.ranges, C'), object)
    BY <1>1, <1>2, <1>3, <1>4, <2>1, <2>2, <2>4, LongerSpan DEF RangeOK
  <2> QED
    BY <2>2, <2>3, <2>4, <2>5, AppendProperties DEF RangeOK
<1>5. CASE ~(test.first # NoSub /\ ~EndsRange(object))
  <2>1. test'.first = object.sub /\ test'.ranges = LastRange
    BY <1>5 DEF LastRange, EndsRange
  <2>2. LastRange \in Seq(Span)
    BY LastRangeIs
  <2>3. LastRange' = Append(LastRange, C')
    BY <1>1, <2>1 DEF LastRange, C
  <2>4. C' \in Span /\ C'.index = object.index /\ C'.first = object.sub /\ C'.last = object.sub
    BY <1>1, <1>3, <2>1
  <2>5. ShowsMore(LastRange, Append(LastRange, C'), object)
    BY <2>2, <2>4, AppendedSpan
  <2>6. RangeOK'
    <3>1. test'.ranges \in Seq(Span)
      BY <2>1, <2>2
    <3>2. /\ test'.index \in Nat /\ test'.first \in Nat /\ test'.last \in Nat
          /\ test'.first <= test'.last
      BY <1>1, <2>1
    <3> QED
      BY <3>1, <3>2 DEF RangeOK
  <2> QED
    BY <2>2, <2>3, <2>4, <2>5, <2>6, AppendProperties
<1> QED
  BY <1>4, <1>5

LEMMA AskedIs ==
    ASSUME RunInv, MoreObjects
    PROVE  /\ entries \in Seq(Entry) /\ Len(entries) \in Nat
           /\ test.asked \in Nat /\ test.asked < Len(entries)
           /\ test.asked + 1 \in DOMAIN entries /\ Asked \in Entry
           /\ Sections[Asked.section] \in ObjectId
           /\ test.absent \in SUBSET (1 .. test.asked)
<1>1. entries \in Seq(Entry) /\ test.asked \in 0 .. Len(entries) /\ test.absent \in SUBSET (1 .. test.asked)
  BY DEF RunInv, ParseInv, AskInv, EntriesAre
<1>2. Len(entries) \in Nat
  BY <1>1, LenProperties
<1>3. test.asked < Len(entries) /\ test.asked \in Nat /\ test.asked + 1 \in DOMAIN entries
  BY <1>1, <1>2 DEF MoreObjects
<1>4. Asked \in Entry
  BY <1>1, <1>3 DEF Asked
<1>5. Sections[Asked.section] \in ObjectId
  BY <1>4, EdsAssumption DEF Entry, ObjectId
<1> QED
  BY <1>1, <1>2, <1>3, <1>4, <1>5

(* The object asked for, if it is not available.                           *)
LEMMA ReadInRanges ==
    ASSUME EdsInv, RunInv, MoreObjects, entries' = entries, InRangesOnce,
           Asked.access # "wo", LastRange' \in Seq(Span), RangeOK',
           ShowsMore(LastRange, LastRange', Sections[Asked.section]),
           test'.absent = test.absent \cup {test.asked + 1}
    PROVE  InRangesOnce'
<1> DEFINE a == test.asked + 1
           x == Sections[Asked.section]
           R == LastRange
<1>1. a \in Nat /\ a \notin test.absent /\ x \in ObjectId /\ a \in DOMAIN entries
  BY AskedIs
<1>2. test'.absent = test.absent \cup {a} /\ IsFiniteSet(test.absent)
  <2>1. test.asked \in Int /\ test.absent \in SUBSET (1 .. test.asked)
    BY AskedIs
  <2>2. IsFiniteSet(1 .. test.asked)
    BY <2>1, FS_Interval
  <2> QED
    BY <2>1, <2>2, FS_Subset
<1>3. ObjectOf(a) = x /\ \A n : ObjectOf(n)' = ObjectOf(n)
  BY DEF ObjectOf, Asked
<1>4. PICK l \in Nat :
         /\ ~Covers(R, l, x)
         /\ \A k, o : o \in ObjectId => (Covers(R', k, o) <=> Covers(R, k, o) \/ (k = l /\ o = x))
  BY DEF ShowsMore
<1>5. \A o : Collecteds(o) = {k \in DOMAIN R : Covers(R, k, o)}
  BY DEF Collecteds, Covers
<1>6. \A o : Collecteds(o)' = {k \in DOMAIN R' : Covers(R', k, o)}
  BY DEF Collecteds, Covers
<1>7. \A o, k : /\ Covers(R, k, o) => k \in DOMAIN R
                /\ Covers(R', k, o) => k \in DOMAIN R'
  BY DEF Covers
<1> HIDE DEF a, x, R
<1>8. ASSUME NEW section \in DOMAIN Sections
      PROVE  Cardinality(Collecteds(Sections[section]))' = Cardinality(Missing(Sections[section]))'
  <2> DEFINE o == Sections[section]
             A == Collecteds(o)
             B == Missing(o)
  <2>1. o \in ObjectId
    BY EdsAssumption DEF ObjectId
  <2>2. Cardinality(A) = Cardinality(B)
    BY DEF InRangesOnce
  <2>3. IsFiniteSet(A) /\ IsFiniteSet(B)
    <3>1. A \in SUBSET (1 .. Len(R)) /\ Len(R) \in Int
      <4>1. R \in Seq(Span)
        BY LastRangeIs DEF R, InRangesOnce
      <4> QED
        BY <1>5, <4>1, LenProperties
    <3>2. IsFiniteSet(1 .. Len(R))
      BY <3>1, FS_Interval
    <3>3. B \in SUBSET test.absent
      BY DEF Missing
    <3> QED
      BY <1>2, <3>1, <3>2, <3>3, FS_Subset
  <2>4. l \notin {k \in A : o = x} /\ a \notin B
    BY <1>1, <1>4, <1>5 DEF Missing
  <2>5. A' = IF o = x THEN A \cup {l} ELSE A
    <3>1. A = {k \in DOMAIN R : Covers(R, k, o)} /\ A' = {k \in DOMAIN R' : Covers(R', k, o)}
      BY <1>5, <1>6
    <3> HIDE DEF A, o
    <3>2. \A k : k \in A' <=> k \in A \/ (k = l /\ o = x)
      BY <1>4, <1>7, <2>1, <3>1
    <3>3. CASE o = x
      BY <3>2, <3>3
    <3>4. CASE o # x
      BY <3>2, <3>4
    <3> QED
      BY <3>3, <3>4
  <2>6. B' = IF o = x THEN B \cup {a} ELSE B
    BY <1>2, <1>3 DEF Missing
  <2> HIDE DEF A, B, o
  <2>7. Cardinality(A') = Cardinality(B')
    <3>1. CASE o = x
      <4>1. l \notin A
        BY <2>4, <3>1
      <4> QED
        BY <2>2, <2>3, <2>4, <2>5, <2>6, <3>1, <4>1, OneMoreEach
    <3>2. CASE o # x
      BY <2>2, <2>5, <2>6, <3>2
    <3> QED
      BY <3>1, <3>2
  <2> QED
    BY <2>7 DEF A, B, o
<1>9. ASSUME NEW k \in DOMAIN R', NEW sub \in R'[k].first .. R'[k].last
      PROVE  \E n \in test'.absent : ObjectOf(n)' = [index |-> R'[k].index, sub |-> sub]
  <2> DEFINE o == [index |-> R'[k].index, sub |-> sub]
  <2>1. o \in ObjectId /\ o.index = R'[k].index /\ o.sub = sub
    <3>1. R'[k] \in Span
      BY DEF R
    <3> QED
      BY <3>1 DEF Span, ObjectId
  <2> HIDE DEF o
  <2>2. Covers(R', k, o)
    BY <2>1 DEF Covers
  <2>3. CASE Covers(R, k, o)
    <3>1. k \in DOMAIN R /\ R[k].index = o.index /\ o.sub \in R[k].first .. R[k].last
      BY <2>3 DEF Covers
    <3>2. PICK n \in test.absent : ObjectOf(n) = [index |-> R[k].index, sub |-> o.sub]
      BY <3>1 DEF InRangesOnce, R
    <3>3. ObjectOf(n) = o
      BY <2>1, <3>1, <3>2, Zenon DEF o
    <3> QED
      BY <1>2, <1>3, <3>3 DEF o
  <2>4. CASE o = x
    BY <1>2, <1>3, <2>4 DEF o
  <2> QED
    BY <1>4, <2>1, <2>2, <2>3, <2>4
<1> QED
  BY <1>8, <1>9 DEF InRangesOnce, R

(* An object asked for changes its results, and nothing of the file.       *)
FileHandled ==
    /\ ~MoreKeys /\ ~entriesLost'
    /\ entries' = entries /\ prev_section' = prev_section
    /\ IsRun(test') /\ test'.file = test.file /\ test'.before = test.before
    /\ test'.mode = test.mode /\ test'.keys = test.keys /\ test'.short = test.short

LEMMA StillParsed ==
    ASSUME EdsInv, RunInv, FileHandled
    PROVE  (test.keys \in 0 .. Len(Keys))' /\ ParseInv'
<1>1. /\ Keys' = Keys /\ \A k : SectionBefore(Keys, k)' = SectionBefore(Keys, k)
      /\ \A m : StartsTo(m)' = StartsTo(m)
      /\ \A list, S, m : EntriesAre(list, S, m)' <=> EntriesAre(list, S, m)
  BY FileKept DEF FileHandled
<1>2. test'.keys = test.keys /\ entries' = entries /\ prev_section' = prev_section
  BY DEF FileHandled
<1>3. test.keys \in 0 .. Len(Keys) /\ ~(test.keys < Len(Keys))
  BY DEF EdsInv, FileHandled, MoreKeys, Keys
<1>4. /\ prev_section = SectionBefore(Keys, test.keys + 1)
      /\ EntriesAre(entries, StartsTo(test.keys), test.keys)
  BY DEF RunInv, ParseInv
<1>5. (prev_section = SectionBefore(Keys, test.keys + 1))'
  BY <1>1, <1>2, <1>4
<1>6. EntriesAre(entries, StartsTo(test.keys), test.keys)'
  BY <1>1, <1>2, <1>4
<1>7. (test.keys < Len(Keys) => test.asked = 0)'
  BY <1>1, <1>2, <1>3
<1> QED
  BY <1>1, <1>2, <1>3, <1>5, <1>6, <1>7 DEF ParseInv

LEMMA ReadStep ==
    ASSUME EdsInv, RunInv, NEW available \in BOOLEAN, ReadObject(available),
           test.mode \in {"SCRIPT_MODE", "TERM_MODE"}
    PROVE  FileHandled /\ RunInv'
<1> DEFINE t == After(available)
           a == test.asked + 1
           x == Sections[Asked.section]
<1>1. /\ MoreObjects /\ Asked.access # "wo" /\ entries' = entries /\ prev_section' = prev_section
      /\ ~entriesLost' /\ IsRun(test)
  BY DEF ReadObject, RunInv, EdsInv
<1>2. /\ IsRun(t) /\ \A f \in Fields \ {"results", "index", "first", "last", "length", "ranges"} : t[f] = test[f]
      /\ test.mode = "SCRIPT_MODE" =>
            t.results = Append(test.results, [section |-> Asked.section, has_passed |-> available])
      /\ test.mode = "TERM_MODE" /\ available => t = test
      /\ test.mode = "TERM_MODE" /\ ~available =>
            /\ t.ranges = IF EndsRange(x) THEN Append(test.ranges, Collected(test)) ELSE test.ranges
            /\ t.first = IF EndsRange(x) \/ test.first = NoSub THEN x.sub ELSE test.first
            /\ t.last = x.sub /\ t.index = x.index
  <2>1. CASE test.mode = "SCRIPT_MODE"
    <3>1. t = AddResult(available)
      BY <2>1 DEF After
    <3> QED
      BY <1>1, <2>1, <3>1 DEF AddResult, IsRun, Fields
  <2>2. CASE test.mode = "TERM_MODE" /\ available
    <3>1. t = test
      BY <2>2 DEF After
    <3> QED
      BY <1>1, <2>2, <3>1
  <2>3. CASE test.mode = "TERM_MODE" /\ ~available
    <3>1. t = Collect(x)
      BY <2>3 DEF After
    <3> HIDE DEF x
    <3> QED
      BY <1>1, <2>3, <3>1 DEF Collect, IsRun, Fields
  <2> QED
    BY <2>1, <2>2, <2>3
<1>3. test' = [t EXCEPT !.asked = @ + 1,
                        !.absent = IF available THEN @ ELSE @ \cup {a},
                        !.status = IF available THEN @ ELSE "EDS_OBJECT_NOT_AVAILABLE"]
  BY DEF ReadObject
<1> HIDE DEF t, a, x
<1>4. /\ IsRun(test') /\ \A f \in Fields \ {"asked", "absent", "status"} : test'[f] = t[f]
      /\ test'.asked = t.asked + 1
      /\ test'.absent = IF available THEN t.absent ELSE t.absent \cup {a}
      /\ test'.status = IF available THEN t.status ELSE "EDS_OBJECT_NOT_AVAILABLE"
  BY <1>2, <1>3 DEF IsRun, Fields
<1>5. /\ test'.file = test.file /\ test'.before = test.before /\ test'.mode = test.mode
      /\ test'.keys = test.keys /\ test'.short = test.short
      /\ test'.asked = a
      /\ test'.absent = IF available THEN test.absent ELSE test.absent \cup {a}
      /\ test'.status = IF available THEN test.status ELSE "EDS_OBJECT_NOT_AVAILABLE"
      /\ test'.results = t.results /\ test'.ranges = t.ranges /\ test'.index = t.index
      /\ test'.length = t.length
      /\ test'.first = t.first /\ test'.last = t.last
  BY <1>2, <1>4 DEF Fields, a
<1>6. FileHandled
  BY <1>1, <1>4, <1>5 DEF FileHandled, MoreObjects
<1>7. test.mode = "SCRIPT_MODE" => InResultsOnce'
  <2> HAVE test.mode = "SCRIPT_MODE"
  <2>1. InResultsOnce
    BY DEF RunInv, AskInv
  <2> QED
    BY <1>2, <1>5, <2>1, ReadInResults DEF a
<1>8. test.mode = "TERM_MODE" => InRangesOnce'
  <2> HAVE test.mode = "TERM_MODE"
  <2>1. InRangesOnce
    BY DEF RunInv, AskInv
  <2>2. CASE available
    <3>1. LastRange' = LastRange
      BY <1>2, <1>5, <2>2 DEF LastRange, Collected, RangeSize, Figures
    <3>2. \A n : ObjectOf(n)' = ObjectOf(n)
      BY <1>1 DEF ObjectOf
    <3>3. \A o : Collecteds(o)' = Collecteds(o) /\ Missing(o)' = Missing(o)
      BY <1>5, <2>2, <3>1, <3>2 DEF Collecteds, Missing
    <3>4. RangeOK'
      BY <1>2, <1>5, <2>1, <2>2 DEF InRangesOnce, RangeOK
    <3> QED
      BY <1>5, <2>1, <2>2, <3>1, <3>2, <3>3, <3>4 DEF InRangesOnce
  <2>3. CASE ~available
    <3>1. x \in ObjectId
      BY <1>1, AskedIs DEF x
    <3>2. RangeOK
      BY <2>1 DEF InRangesOnce
    <3>3. RangeOK' /\ LastRange' \in Seq(Span) /\ ShowsMore(LastRange, LastRange', x)
      BY <1>2, <1>5, <2>3, <3>1, <3>2, CollectedOnce
    <3> QED
      BY <1>1, <1>5, <2>1, <2>3, <3>3, ReadInRanges DEF x, a
  <2> QED
    BY <2>2, <2>3
<1>9. /\ (test.asked \in 0 .. Len(entries))' /\ test'.absent \in SUBSET (1 .. test'.asked)
      /\ (test.absent \subseteq Readable)'
      /\ (test.status = "EDS_OBJECT_NOT_AVAILABLE" <=> test.absent # {})'
  <2>1. /\ test.asked \in Nat /\ test.asked < Len(entries) /\ a \in DOMAIN entries
        /\ test.absent \in SUBSET (1 .. test.asked) /\ Len(entries) \in Nat
    BY <1>1, AskedIs DEF a
  <2>2. a \in Readable /\ Readable' = Readable /\ test.absent \subseteq Readable
    BY <1>1, <2>1 DEF Readable, Asked, a, RunInv, AskInv
  <2>3. test.status = "EDS_OBJECT_NOT_AVAILABLE" <=> test.absent # {}
    BY DEF RunInv, AskInv
  <2>4. a \in 1 .. a /\ 1 .. test.asked \subseteq 1 .. a /\ a \in 0 .. Len(entries)
    BY <2>1 DEF a
  <2> QED
    BY <1>1, <1>5, <2>1, <2>2, <2>3, <2>4
<1>10. AskInv'
  BY <1>5, <1>7, <1>8, <1>9 DEF AskInv
<1> QED
  BY <1>1, <1>6, <1>10, StillParsed DEF RunInv

(* An object that cannot be read has no result.                            *)
LEMMA SkipStep ==
    ASSUME EdsInv, RunInv, SkipObject
    PROVE  FileHandled /\ RunInv'
<1> DEFINE a == test.asked + 1
<1>1. /\ MoreObjects /\ entries[a].access = "wo" /\ entries' = entries /\ prev_section' = prev_section
      /\ ~entriesLost' /\ IsRun(test) /\ test' = [test EXCEPT !.asked = @ + 1]
  BY DEF SkipObject, RunInv, EdsInv, Asked
<1>2. IsRun(test') /\ test'.asked = a /\ \A f \in Fields \ {"asked"} : test'[f] = test[f]
  BY <1>1 DEF IsRun, Fields
<1>3. /\ test'.file = test.file /\ test'.before = test.before /\ test'.mode = test.mode
      /\ test'.keys = test.keys /\ test'.short = test.short
      /\ test'.absent = test.absent /\ test'.status = test.status
      /\ test'.results = test.results /\ test'.ranges = test.ranges /\ test'.index = test.index
      /\ test'.length = test.length
      /\ test'.first = test.first /\ test'.last = test.last
  BY <1>2 DEF Fields
<1>4. FileHandled
  BY <1>1, <1>2, <1>3 DEF FileHandled, MoreObjects
<1>5. /\ test.asked \in Nat /\ test.asked < Len(entries) /\ Len(entries) \in Nat
      /\ test.absent \in SUBSET (1 .. test.asked)
      /\ a \notin Readable /\ Readable' = Readable /\ \A n : ObjectOf(n)' = ObjectOf(n)
  BY <1>1, AskedIs DEF Readable, ObjectOf
<1>6. test.mode = "SCRIPT_MODE" => InResultsOnce'
  <2> HAVE test.mode = "SCRIPT_MODE"
  <2>1. InResultsOnce
    BY DEF RunInv, AskInv
  <2>2. \A n \in Readable : n \in 1 .. test.asked <=> n \in 1 .. a
    <3>1. Readable \in SUBSET Nat
      <4>1. entries \in Seq(Entry)
        BY <1>1, AskedIs
      <4> QED
        BY <4>1 DEF Readable
    <3> QED
      BY <1>5, <3>1
  <2>3. \A s, g : Gave(s, g)' = Gave(s, g) /\ InResults(s, g)' = InResults(s, g)
    BY <1>1, <1>2, <1>3, <1>5, <2>2 DEF Gave, InResults
  <2> QED
    BY <1>3, <2>1, <2>3 DEF InResultsOnce
<1>7. test.mode = "TERM_MODE" => InRangesOnce'
  <2> HAVE test.mode = "TERM_MODE"
  <2>1. InRangesOnce
    BY DEF RunInv, AskInv
  <2>2. LastRange' = LastRange
    BY <1>3 DEF LastRange, Collected, RangeSize, Figures
  <2>3. \A o : Collecteds(o)' = Collecteds(o) /\ Missing(o)' = Missing(o)
    BY <1>3, <1>5, <2>2 DEF Collecteds, Missing
  <2>4. RangeOK'
    BY <1>3, <2>1 DEF InRangesOnce, RangeOK
  <2> QED
    BY <1>3, <1>5, <2>1, <2>2, <2>3, <2>4 DEF InRangesOnce
<1>8. /\ (test.asked \in 0 .. Len(entries))' /\ test'.absent \in SUBSET (1 .. test'.asked)
      /\ (test.absent \subseteq Readable)'
      /\ (test.status = "EDS_OBJECT_NOT_AVAILABLE" <=> test.absent # {})'
  <2>1. test.absent \subseteq Readable /\ (test.status = "EDS_OBJECT_NOT_AVAILABLE" <=> test.absent # {})
    BY DEF RunInv, AskInv
  <2>2. 1 .. test.asked \subseteq 1 .. a /\ a \in 0 .. Len(entries)
    BY <1>5
  <2> QED
    BY <1>1, <1>2, <1>3, <1>5, <2>1, <2>2
<1>9. AskInv'
  BY <1>3, <1>6, <1>7, <1>8 DEF AskInv
<1> QED
  BY <1>1, <1>4, <1>9, StillParsed DEF RunInv

-----------------------------------------------------------------------------
(* The steps of a run, whether memory was short or not.                    *)

LEMMA RunGoesOn ==
    ASSUME EdsInv,
           parse_eds \/ (\E available \in BOOLEAN : ReadObject(available)) \/ SkipObject
    PROVE  /\ IsRun(test') /\ test'.file = test.file /\ test'.mode = test.mode
           /\ (test.keys \in 0 .. Len(Keys))' /\ (~test'.short => ~test.short)
<1>1. IsRun(test) /\ KeysAre /\ test.keys \in 0 .. Len(Keys)
  BY KeysAreKeys DEF EdsInv
<1>2. /\ IsRun(test') /\ test'.file = test.file /\ test'.mode = test.mode
      /\ test'.short = test.short \/ test'.short
      /\ test'.keys = test.keys \/ (test'.keys = test.keys + 1 /\ MoreKeys)
  <2>1. CASE parse_eds
    <3>1. \/ test' = [test EXCEPT !.keys = @ + 1]
          \/ test' = [test EXCEPT !.keys = @ + 1, !.short = TRUE]
      BY <2>1 DEF parse_eds
    <3>2. MoreKeys
      BY <2>1 DEF parse_eds
    <3> QED
      BY <1>1, <3>1, <3>2 DEF IsRun, Fields
  <2>2. ASSUME NEW available \in BOOLEAN, ReadObject(available)
        PROVE  /\ IsRun(test') /\ test'.file = test.file /\ test'.mode = test.mode
               /\ test'.short = test.short /\ test'.keys = test.keys
    <3> DEFINE t == After(available)
    <3>1. /\ IsRun(t) /\ t.file = test.file /\ t.mode = test.mode
          /\ t.short = test.short /\ t.keys = test.keys
      <4>1. t \in {test, AddResult(available), Collect(Sections[Asked.section])}
        BY DEF After
      <4> HIDE DEF t
      <4>2. CASE t = test
        BY <1>1, <4>2
      <4>3. CASE t = AddResult(available)
        BY <1>1, <4>3 DEF AddResult, IsRun, Fields
      <4>4. CASE t = Collect(Sections[Asked.section])
        BY <1>1, <4>4 DEF Collect, IsRun, Fields
      <4> QED
        BY <4>1, <4>2, <4>3, <4>4
    <3>2. test' = [t EXCEPT !.asked = @ + 1,
                            !.absent = IF available THEN @ ELSE @ \cup {test.asked + 1},
                            !.status = IF available THEN @ ELSE "EDS_OBJECT_NOT_AVAILABLE"]
      BY <2>2 DEF ReadObject
    <3> HIDE DEF t
    <3> QED
      BY <3>1, <3>2 DEF IsRun, Fields
  <2>3. CASE SkipObject
    <3>1. test' = [test EXCEPT !.asked = @ + 1]
      BY <2>3 DEF SkipObject
    <3> QED
      BY <1>1, <3>1 DEF IsRun, Fields
  <2> QED
    BY <2>1, <2>2, <2>3
<1>3. Keys' = Keys
  BY <1>2 DEF Keys
<1>4. MoreKeys => test.keys < Len(Keys)
  BY DEF MoreKeys, Keys
<1>5. (test.keys \in 0 .. Len(Keys))'
  BY <1>1, <1>2, <1>3, <1>4 DEF KeysAre
<1> QED
  BY <1>2, <1>5

(* A run starts with nothing of its file handled.                          *)
LEMMA NothingOfIt ==
    ASSUME KeysAre, test.keys = 0
    PROVE  SectionBefore(Keys, test.keys + 1) = test.before /\ StartsTo(test.keys) = {}
<1>1. {j \in EntryKeys(Keys) : j < test.keys + 1} = {}
  BY DEF EntryKeys, KeysAre
<1>2. SectionBefore(Keys, test.keys + 1) = test.before
  BY <1>1 DEF SectionBefore
<1>3. StartsTo(test.keys) = {}
  BY DEF StartsTo, EntryStarts, EntryKeys, KeysAre
<1> QED
  BY <1>2, <1>3

IsNew ==
    /\ test.asked = 0 /\ test.results = <<>> /\ test.ranges = <<>> /\ test.first = NoSub
    /\ test.absent = {} /\ test.status # "EDS_OBJECT_NOT_AVAILABLE"

LEMMA NewRun ==
    KeysAre /\ IsNew /\ test.keys = 0 /\ entries = <<>> /\ ~entriesLost /\ prev_section = test.before
        => RunInv
<1> SUFFICES ASSUME KeysAre, IsNew, test.keys = 0, entries = <<>>, ~entriesLost,
                    prev_section = test.before
             PROVE  RunInv
  OBVIOUS
<1>1. /\ prev_section = SectionBefore(Keys, test.keys + 1) /\ StartsTo(test.keys) = {}
      /\ test.asked = 0
  BY NothingOfIt DEF IsNew
<1>2. EntriesAre(entries, StartsTo(test.keys), test.keys)
  BY <1>1, FS_EmptySet DEF EntriesAre
<1>3. LastRange = <<>>
  BY DEF LastRange, IsNew
<1>4. \A s, g : InResults(s, g) = {} /\ Gave(s, g) = {}
  BY DEF InResults, Gave, IsNew
<1>5. \A o : Collecteds(o) = {} /\ Missing(o) = {}
  BY <1>3 DEF Collecteds, Missing, IsNew
<1>6. InResultsOnce
  <2>1. test.results \in Seq(Result)
    BY DEF IsNew
  <2>2. \A s, g : Cardinality(InResults(s, g)) = Cardinality(Gave(s, g))
    BY <1>4, Zenon
  <2> QED
    BY <2>1, <2>2 DEF InResultsOnce
<1>7. InRangesOnce
  <2>1. RangeOK
    BY DEF RangeOK, IsNew
  <2>2. \A o : Cardinality(Collecteds(o)) = Cardinality(Missing(o))
    BY <1>5, Zenon
  <2>3. DOMAIN LastRange = {}
    BY <1>3
  <2> QED
    BY <2>1, <2>2, <2>3 DEF InRangesOnce
<1>8. AskInv
  BY <1>6, <1>7 DEF AskInv, IsNew
<1> QED
  BY <1>1, <1>2, <1>8 DEF RunInv, ParseInv

LEMMA StartStep ==
    ASSUME EdsInv, lua_test_eds_file
    PROVE  EdsInv'
<1>1. PICK file \in DOMAIN EdsFiles \cup {MissingFile}, mode \in {"SCRIPT_MODE", "TERM_MODE"} :
         run_conformance_test(mode, file)
  BY DEF lua_test_eds_file
<1>2. pc' = "eds" /\ entries' = <<>> /\ ~entriesLost' /\ prev_section' = prev_section
  BY <1>1 DEF lua_test_eds_file, run_conformance_test, EdsInv
<1> DEFINE t == NoTest
<1>3. /\ IsRun(t) /\ t.keys = 0 /\ t.asked = 0 /\ t.results = <<>> /\ t.ranges = <<>>
      /\ t.first = NoSub /\ t.absent = {} /\ t.status = "ALL_OK"
  BY DEF NoTest, IsRun, Fields
<1>4. test' = [t EXCEPT !.mode = mode, !.file = file, !.before = prev_section,
                        !.status = IF file = MissingFile THEN "EDS_PARSE_ERROR" ELSE @]
  BY <1>1 DEF run_conformance_test
<1> HIDE DEF t
<1>5. /\ IsRun(test') /\ test'.file = file /\ test'.mode = mode /\ test'.before = prev_section
      /\ test'.keys = 0 /\ test'.asked = 0 /\ test'.results = <<>> /\ test'.ranges = <<>>
      /\ test'.first = NoSub /\ test'.absent = {} /\ test'.status # "EDS_OBJECT_NOT_AVAILABLE"
  BY <1>3, <1>4 DEF IsRun, Fields
<1>6. KeysAre'
  BY <1>5, KeysOfFile DEF KeysAre, Keys
<1>7. IsNew'
  BY <1>5 DEF IsNew
<1>8. (KeysAre /\ IsNew /\ test.keys = 0 /\ entries = <<>> /\ ~entriesLost
          /\ prev_section = test.before => RunInv)'
  BY NewRun, PTL
<1>9. RunInv'
  BY <1>2, <1>5, <1>6, <1>7, <1>8
<1>10. (test.keys \in 0 .. Len(Keys))'
  BY <1>5, <1>6 DEF KeysAre
<1> QED
  BY <1>2, <1>5, <1>9, <1>10 DEF EdsInv

LEMMA EdsStart == Init => EdsInv
<1> SUFFICES ASSUME Init
             PROVE  EdsInv
  OBVIOUS
<1>1. test = NoTest /\ entries = <<>> /\ ~entriesLost /\ pc = "prompt"
  BY DEF Init, EdsInit
<1>2. IsRun(test) /\ test.file = MissingFile /\ test.keys = 0 /\ test.mode = "none"
  BY <1>1 DEF NoTest, IsRun, Fields
<1>3. Len(Keys) \in Nat
  BY <1>2, KeysAreKeys DEF KeysAre
<1> QED
  BY <1>1, <1>2, <1>3 DEF EdsInv

LEMMA EndStep ==
    ASSUME EdsInv, TestEnds, pc' = "prompt"
    PROVE  EdsInv'
<1>1. test' = NoTest /\ entries' = <<>> /\ ~entriesLost'
  BY DEF TestEnds, TestEnded
<1>2. IsRun(test') /\ test'.file = MissingFile /\ test'.keys = 0 /\ test'.mode = "none"
  BY <1>1 DEF NoTest, IsRun, Fields
<1>3. Len(Keys') \in Nat
  BY <1>2, KeysOfFile DEF Keys
<1> QED
  BY <1>1, <1>2, <1>3 DEF EdsInv

(* Where the test stays as it is.                                          *)
LEMMA TestKept ==
    ASSUME EdsInv, UNCHANGED edsVars, pc' \in {"eds", "crashed"} <=> pc \in {"eds", "crashed"}
    PROVE  EdsInv'
<1>1. /\ test' = test /\ entries' = entries /\ entriesLost' = entriesLost
      /\ prev_section' = prev_section
  BY DEF edsVars
<1>2. /\ Keys' = Keys /\ \A k : SectionBefore(Keys, k)' = SectionBefore(Keys, k)
      /\ \A m : StartsTo(m)' = StartsTo(m)
      /\ \A list, S, m : EntriesAre(list, S, m)' <=> EntriesAre(list, S, m)
  BY <1>1, FileKept
<1>3. ParseInv => ParseInv'
  <2>1. EntriesAre(entries, StartsTo(test.keys), test.keys) =>
           EntriesAre(entries, StartsTo(test.keys), test.keys)'
    BY <1>1, <1>2
  <2>2. SectionBefore(Keys, test.keys + 1)' = SectionBefore(Keys, test.keys + 1)
    BY <1>1, <1>2
  <2> QED
    BY <1>1, <1>2, <2>1, <2>2 DEF ParseInv
<1>4. Readable' = Readable /\ LastRange' = LastRange /\ \A n : ObjectOf(n)' = ObjectOf(n)
  BY <1>1 DEF Readable, LastRange, Collected, ObjectOf
<1>5. \A s, g : InResults(s, g)' = InResults(s, g) /\ Gave(s, g)' = Gave(s, g)
  BY <1>1, <1>4 DEF InResults, Gave
<1>6. \A o : Collecteds(o)' = Collecteds(o) /\ Missing(o)' = Missing(o)
  BY <1>1, <1>4 DEF Collecteds, Missing
<1>7. InResultsOnce => InResultsOnce'
  BY <1>1, <1>5 DEF InResultsOnce
<1>8. RangeOK => RangeOK'
  BY <1>1 DEF RangeOK
<1>9. InRangesOnce => InRangesOnce'
  BY <1>1, <1>4, <1>6, <1>8 DEF InRangesOnce
<1>10. AskInv => AskInv'
  BY <1>1, <1>4, <1>7, <1>9 DEF AskInv
<1>11. RunInv => RunInv'
  BY <1>1, <1>3, <1>10 DEF RunInv
<1>12. IsRun(test') <=> IsRun(test)
  BY <1>1
<1> QED
  BY <1>1, <1>2, <1>11, <1>12 DEF EdsInv

LEMMA EdsStep == EdsInv /\ [Next]_vars => EdsInv'
<1> SUFFICES ASSUME EdsInv, [Next]_vars
             PROVE  EdsInv'
  OBVIOUS
<1>1. CASE lua_test_eds_file
  BY <1>1, StartStep
<1>2. CASE TestGoesOn
  <2>1. CASE /\ parse_eds \/ (\E available \in BOOLEAN : ReadObject(available)) \/ SkipObject
             /\ UNCHANGED <<pc, out>>
    <3>1. /\ IsRun(test') /\ test'.file = test.file /\ test'.mode = test.mode
          /\ (test.keys \in 0 .. Len(Keys))' /\ (~test'.short => ~test.short)
      BY <2>1, RunGoesOn
    <3>2. pc = "eds" /\ pc' = "eds" /\ test.mode \in {"SCRIPT_MODE", "TERM_MODE"}
      BY <1>2, <2>1 DEF TestGoesOn, EdsInv
    <3>3. test'.mode # "none" /\ ~test'.short => RunInv'
      <4> SUFFICES ASSUME ~test'.short
                   PROVE  RunInv'
        OBVIOUS
      <4>1. RunInv
        BY <3>1, <3>2 DEF EdsInv
      <4> QED
        BY <2>1, <3>2, <4>1, ParseStep, ReadStep, SkipStep
    <3> QED
      BY <3>1, <3>2, <3>3 DEF EdsInv
  <2>2. CASE TestEnds /\ pc' = "prompt"
    BY <2>2, EndStep
  <2>3. CASE LostEntryUsed /\ pc' = "crashed"
    <3>1. UNCHANGED edsVars /\ pc = "eds"
      BY <1>2, <2>3 DEF TestGoesOn, LostEntryUsed
    <3> QED
      BY <2>3, <3>1, TestKept
  <2> QED
    BY <1>2, <2>1, <2>2, <2>3 DEF TestGoesOn
<1>3. CASE /\ UNCHANGED edsVars
           /\ pc' \in {"eds", "crashed"} <=> pc \in {"eds", "crashed"}
  BY <1>3, TestKept
<1>4. CASE core_update
  <2>1. pc' \in {"ended", "done"}
    BY <1>4 DEF core_update, Entered, AfterCall
  <2> QED
    BY <1>3, <1>4, <2>1 DEF core_update
<1>5. CASE completion_callback
  <2>1. pc' \in {"ended", "done"}
    BY <1>5 DEF completion_callback, Entered, AfterCall
  <2> QED
    BY <1>3, <1>5, <2>1 DEF completion_callback
<1>6. CASE lua_nmt_send_command \/ lua_dbc_find_id_by_name \/ NextTurn \/ core_deinit
  BY <1>3, <1>6 DEF lua_nmt_send_command, lua_dbc_find_id_by_name, NextTurn, core_deinit
<1>7. CASE lua_dbc_decode \/ py_dbc_decode
  <2>1. pc = "prompt" /\ UNCHANGED edsVars
    BY <1>7 DEF lua_dbc_decode, py_dbc_decode
  <2>2. pc' \in {"done", "undefined"}
    BY <1>7, Zenon DEF lua_dbc_decode, py_dbc_decode, Decoded
  <2> QED
    BY <1>3, <2>1, <2>2
<1>8. CASE lua_dbc_load
  BY <1>3, <1>8 DEF lua_dbc_load, LoadReturns
<1>9. CASE LoadGoesOn
  BY <1>3, <1>9 DEF LoadGoesOn, LoadReturns
<1>10. CASE UNCHANGED vars
  BY <1>3, <1>10 DEF vars
<1> QED
  BY <1>1, <1>2, <1>4, <1>5, <1>6, <1>7, <1>8, <1>9, <1>10 DEF Next

(* At the end all of the file was handled and asked for.                   *)
LEMMA AllOfTheFile ==
    ASSUME EdsInv, TestEnded, ~test.short
    PROVE  /\ KeysAre /\ RunInv /\ test.keys = Len(Keys) /\ test.asked = Len(entries)
           /\ StartsTo(test.keys) = EntryStarts(Keys)
           /\ \A start : GivenTo(start, test.keys) = GivenTypes(Keys, start)
           /\ entries \in Seq(Entry) /\ Len(entries) \in Nat
<1>1. KeysAre /\ RunInv
  BY KeysAreKeys DEF EdsInv, TestEnded
<1>2. test.keys = Len(Keys) /\ test.asked = Len(entries)
  BY <1>1 DEF EdsInv, TestEnded, MoreKeys, Keys, KeysAre
<1>3. EntryStarts(Keys) \in SUBSET (1 .. Len(Keys))
  BY <1>1, StartsAre
<1>4. \A start : GivenTypes(Keys, start) \in SUBSET (1 .. Len(Keys))
  BY <1>1 DEF GivenTypes, KeysAre
<1>5. StartsTo(test.keys) = EntryStarts(Keys)
  BY <1>1, <1>2, <1>3 DEF StartsTo, KeysAre
<1>6. \A start : GivenTo(start, test.keys) = GivenTypes(Keys, start)
  BY <1>1, <1>2, <1>4 DEF GivenTo, KeysAre
<1>7. entries \in Seq(Entry)
  BY <1>1 DEF RunInv, ParseInv, EntriesAre
<1> QED
  BY <1>1, <1>2, <1>5, <1>6, <1>7, LenProperties

LEMMA FileIsRead ==
    ASSUME EdsInv, TestEnded, ~test.short
    PROVE  EntriesOfTheFile(KeysOf(test.file))
<1> DEFINE S      == EntryStarts(Keys)
           starts == InOrder(S)
<1>1. /\ KeysAre /\ RunInv /\ StartsTo(test.keys) = S
      /\ \A start : GivenTo(start, test.keys) = GivenTypes(Keys, start)
      /\ entries \in Seq(Entry)
  BY AllOfTheFile
<1>2. S \in SUBSET Nat /\ IsFiniteSet(S)
  BY <1>1, StartsAre
<1>3. Cardinality(S) \in Nat /\ starts \in [1 .. Cardinality(S) -> S]
  BY <1>2, InOrderIsInverse
<1>4. EntriesAre(entries, S, test.keys)
  BY <1>1 DEF RunInv, ParseInv
<1>5. Len(entries) = Cardinality(S) /\ \A n \in 1 .. Len(entries) : Fits(entries[n], starts[n], test.keys)
  BY <1>4 DEF EntriesAre
<1>6. Len(starts) = Cardinality(S) /\ DOMAIN entries = 1 .. Len(entries)
  BY <1>1, <1>3
<1>7. ASSUME NEW n \in DOMAIN entries
      PROVE  /\ entries[n].section = Keys[starts[n]].section
             /\ \A k \in GivenTypes(Keys, starts[n]) :
                   (\A j \in GivenTypes(Keys, starts[n]) : j <= k) => entries[n].access = Keys[k].value
  <2>1. Fits(entries[n], starts[n], test.keys)
    BY <1>5, <1>6
  <2> HIDE DEF starts
  <2> QED
    BY <1>1, <2>1 DEF Fits
<1>8. EntriesOfTheFile(Keys)
  BY <1>5, <1>6, <1>7 DEF EntriesOfTheFile
<1> QED
  BY <1>8 DEF Keys

-----------------------------------------------------------------------------
(* The keys of an undisturbed section start one entry, at the first of     *)
(* them, and what the section says of its access is said of that entry.    *)

LEMMA LastEntryBefore ==
    ASSUME KeysAre, NEW k \in DOMAIN Keys, NEW j \in EntryKeys(Keys), j < k
    PROVE  \E last \in EntryKeys(Keys) :
              /\ j <= last /\ last < k /\ SectionBefore(Keys, k) = Keys[last].section
              /\ \A i \in EntryKeys(Keys) : i < k => i <= last
<1> DEFINE E    == {i \in EntryKeys(Keys) : i < k}
           last == CHOOSE i \in E : \A h \in E : h <= i
<1>1. E \in SUBSET (0 .. k) /\ j \in E /\ k \in Nat
  BY DEF EntryKeys, KeysAre
<1>2. \E i \in E : \A h \in E : h <= i
  <2> HIDE DEF E
  <2> QED
    BY <1>1, HasGreatest
<1>3. SectionBefore(Keys, k) = Keys[last].section
  BY <1>1 DEF SectionBefore
<1>4. last \in E /\ \A h \in E : h <= last
  <2> HIDE DEF E
  <2> QED
    BY <1>2
<1> HIDE DEF last
<1> QED
  BY <1>1, <1>3, <1>4

(* Between two entry keys of different sections another entry starts.      *)
LEMMA StartsBetween ==
    ASSUME KeysAre, NEW j \in EntryKeys(Keys), NEW k \in EntryKeys(Keys), j < k,
           Keys[j].section # Keys[k].section
    PROVE  \E i \in EntryStarts(Keys) : j < i /\ i <= k
<1> DEFINE D == {i \in EntryKeys(Keys) : j < i /\ Keys[i].section # Keys[j].section}
<1>1. D \in SUBSET Nat /\ k \in D /\ EntryKeys(Keys) \in SUBSET Nat
  BY DEF EntryKeys, KeysAre
<1>2. PICK i \in D : \A h \in D : i <= h
  <2> HIDE DEF D
  <2> QED
    BY <1>1, HasLeast
<1>3. i \in DOMAIN Keys /\ i \in EntryKeys(Keys) /\ j < i /\ i <= k
  BY <1>1, <1>2 DEF EntryKeys
<1>4. PICK last \in EntryKeys(Keys) : j <= last /\ last < i /\ SectionBefore(Keys, i) = Keys[last].section
  BY <1>3, LastEntryBefore
<1>5. Keys[last].section = Keys[j].section
  BY <1>1, <1>2, <1>4
<1>6. Keys[i].section # Keys[j].section
  BY <1>2
<1>7. i \in EntryStarts(Keys)
  BY <1>3, <1>4, <1>5, <1>6 DEF EntryStarts
<1> QED
  BY <1>3, <1>7

LEMMA OneStart ==
    ASSUME KeysAre, NEW section \in DOMAIN Sections, KeysIn(Keys, section) # {},
           Undisturbed(Keys, section)
    PROVE  \E start \in EntryStarts(Keys) \cap KeysIn(Keys, section) :
              /\ \A k \in KeysIn(Keys, section) : start <= k
              /\ \A k \in EntryStarts(Keys) : k \in KeysIn(Keys, section) => k = start
<1> DEFINE K == KeysIn(Keys, section)
<1>1. /\ K \in SUBSET Nat /\ K # {} /\ K \subseteq EntryKeys(Keys)
      /\ EntryStarts(Keys) \subseteq EntryKeys(Keys) /\ EntryKeys(Keys) \subseteq DOMAIN Keys
      /\ EntryKeys(Keys) \in SUBSET Nat
      /\ \A k \in EntryKeys(Keys) : Keys[k].section = section <=> k \in K
  BY DEF KeysIn, EntryKeys, EntryStarts, KeysAre
<1>2. PICK start \in K : \A k \in K : start <= k
  <2> HIDE DEF K
  <2> QED
    BY <1>1, HasLeast
<1> HIDE DEF K
<1>3. start \in EntryStarts(Keys)
  <2>1. CASE \E j \in EntryKeys(Keys) : j < start
    <3>1. PICK last \in EntryKeys(Keys) :
             last < start /\ SectionBefore(Keys, start) = Keys[last].section
      BY <1>1, <1>2, <2>1, LastEntryBefore
    <3>2. last \notin K
      BY <1>1, <1>2, <3>1
    <3> QED
      BY <1>1, <3>1, <3>2 DEF EntryStarts
  <2>2. CASE ~\E j \in EntryKeys(Keys) : j < start
    <3>1. SectionBefore(Keys, start) = test.before
      BY <2>2 DEF SectionBefore
    <3>2. test.before # section
      BY <1>2, <2>2 DEF Undisturbed, K
    <3> QED
      BY <1>1, <3>1, <3>2 DEF EntryStarts
  <2> QED
    BY <2>1, <2>2
<1>4. ASSUME NEW k \in EntryStarts(Keys), k \in K, k # start
      PROVE  FALSE
  <2>1. start < k /\ start .. k \subseteq K
    BY <1>1, <1>2, <1>4 DEF Undisturbed, K
  <2>2. PICK last \in EntryKeys(Keys) :
           start <= last /\ last < k /\ SectionBefore(Keys, k) = Keys[last].section
    BY <1>1, <1>2, <1>4, <2>1, LastEntryBefore
  <2>3. last \in K
    BY <1>1, <1>2, <1>4, <2>1, <2>2
  <2> QED
    BY <1>1, <1>4, <2>2, <2>3 DEF EntryStarts
<1> QED
  BY <1>2, <1>3, <1>4 DEF K

LEMMA TypesGiven ==
    ASSUME KeysAre, NEW section \in DOMAIN Sections, Undisturbed(Keys, section),
           NEW start \in EntryStarts(Keys), start \in KeysIn(Keys, section),
           \A k \in KeysIn(Keys, section) : start <= k,
           \A k \in EntryStarts(Keys) : k \in KeysIn(Keys, section) => k = start
    PROVE  GivenTypes(Keys, start) = TypesIn(Keys, section)
<1> DEFINE K == KeysIn(Keys, section)
<1>1. /\ K \in SUBSET Nat /\ EntryKeys(Keys) \in SUBSET Nat /\ DOMAIN Keys \in SUBSET Nat
      /\ K \subseteq EntryKeys(Keys) /\ EntryStarts(Keys) \subseteq EntryKeys(Keys)
      /\ EntryKeys(Keys) \subseteq DOMAIN Keys
      /\ \A k \in DOMAIN Keys : Keys[k].section = section <=> k \in K
  BY DEF KeysIn, EntryKeys, EntryStarts, KeysAre
<1>2. start \in K /\ \A k \in K : start <= k
  OBVIOUS
<1>3. \A j, k \in K : j .. k \subseteq K
  BY DEF Undisturbed
<1> HIDE DEF K
<1>4. ASSUME NEW k \in TypesIn(Keys, section)
      PROVE  k \in GivenTypes(Keys, start)
  <2>1. k \in K /\ GivesType(Keys[k]) /\ start <= k
    BY <1>2 DEF TypesIn, K
  <2>2. ASSUME NEW next \in EntryStarts(Keys), start < next, ~(k < next)
        PROVE  FALSE
    <3>3. start \in Nat /\ k \in Nat /\ next \in Nat
      BY <1>1, <1>2, <2>1
    <3>1. next \in start .. k
      BY <2>2, <3>3
    <3>2. next \in K
      BY <1>2, <1>3, <2>1, <3>1
    <3> QED
      BY <1>1, <2>2, <3>2 DEF K
  <2>3. \A next \in EntryStarts(Keys) : next <= start \/ k < next
    BY <1>1, <1>2, <2>1, <2>2
  <2> QED
    BY <1>1, <2>1, <2>3 DEF GivenTypes
<1>5. ASSUME NEW k \in GivenTypes(Keys, start), k \notin K
      PROVE  FALSE
  <2>1. /\ k \in DOMAIN Keys /\ GivesType(Keys[k]) /\ start <= k
        /\ \A next \in EntryStarts(Keys) : next <= start \/ k < next
    BY DEF GivenTypes
  <2>2. ASSUME NEW j \in EntryKeys(Keys), start < j, j <= k, j \notin K
        PROVE  FALSE
    <3>1. Keys[start].section # Keys[j].section /\ start \in EntryKeys(Keys)
      BY <1>1, <1>2, <2>2
    <3>2. PICK i \in EntryStarts(Keys) : start < i /\ i <= j
      BY <2>2, <3>1, StartsBetween
    <3> QED
      BY <1>1, <1>2, <2>1, <2>2, <3>2
  <2>3. k \notin EntryKeys(Keys)
    BY <1>1, <1>2, <1>5, <2>1, <2>2
  <2>4. k \in KeysAfter(Keys, section)
    <3>1. ASSUME NEW j \in K, ~(j < k)
          PROVE  FALSE
      <4>1. k \in start .. j
        BY <1>1, <1>2, <2>1, <3>1
      <4> QED
        BY <1>2, <1>3, <1>5, <3>1, <4>1
    <3> QED
      BY <2>1, <3>1 DEF KeysAfter, K
  <2>5. PICK j \in KeysAfter(Keys, section) \cap EntryKeys(Keys) : j < k
    BY <2>1, <2>3, <2>4 DEF Undisturbed
  <2>6. start < j /\ j \notin K
    <3>1. \A i \in K : i < j
      BY <2>5 DEF KeysAfter, K
    <3> QED
      BY <1>1, <1>2, <3>1
  <2> QED
    BY <1>1, <2>1, <2>2, <2>5, <2>6
<1>6. \A k \in GivenTypes(Keys, start) : k \in K /\ GivesType(Keys[k])
  BY <1>5 DEF GivenTypes
<1> QED
  BY <1>4, <1>6 DEF TypesIn, K

LEMMA OneEach ==
    ASSUME KeysAre, EntriesOfTheFile(Keys), entries \in Seq(Entry)
    PROVE  OneEntryEach(Keys)
<1> DEFINE S      == EntryStarts(Keys)
           starts == InOrder(S)
           N      == Cardinality(S)
<1>1. S \in SUBSET Nat /\ IsFiniteSet(S) /\ S \subseteq DOMAIN Keys
  <2>1. IsFiniteSet(1 .. Len(Keys))
    BY FS_Interval DEF KeysAre
  <2>2. S \in SUBSET (1 .. Len(Keys))
    BY StartsAre
  <2>3. IsFiniteSet(S)
    BY <2>1, <2>2, FS_Subset
  <2> QED
    BY <2>2, <2>3 DEF KeysAre
<1>2. /\ N \in Nat /\ starts \in [1 .. N -> S]
      /\ \A k \in S : \E n \in 1 .. N : starts[n] = k
      /\ \A m, n \in 1 .. N : starts[m] = starts[n] => m = n
  BY <1>1, InOrderIsInverse, Zenon
<1>3. /\ DOMAIN entries = 1 .. N
      /\ \A n \in 1 .. N :
            /\ entries[n].section = Keys[starts[n]].section
            /\ \A k \in GivenTypes(Keys, starts[n]) :
                  (\A j \in GivenTypes(Keys, starts[n]) : j <= k) => entries[n].access = Keys[k].value
  <2>1. Len(starts) = N
    BY <1>2
  <2>2. Len(entries) = N /\ DOMAIN entries = 1 .. Len(entries)
    BY <2>1 DEF EntriesOfTheFile
  <2> QED
    BY <2>2 DEF EntriesOfTheFile
<1> HIDE DEF S, starts, N
<1>4. \A n \in DOMAIN entries : KeysIn(Keys, entries[n].section) # {}
  <2>1. \A n \in 1 .. N : starts[n] \in DOMAIN Keys
    BY <1>1, <1>2
  <2> QED
    BY <1>3, <2>1 DEF KeysIn
<1>5. ASSUME NEW section \in DOMAIN Sections, KeysIn(Keys, section) # {}, Undisturbed(Keys, section)
      PROVE  \E n \in DOMAIN entries :
                /\ \A m \in DOMAIN entries : entries[m].section = section <=> m = n
                /\ \A k \in TypesIn(Keys, section) :
                      (\A j \in TypesIn(Keys, section) : j <= k) => entries[n].access = Keys[k].value
  <2>1. PICK start \in S \cap KeysIn(Keys, section) :
           /\ \A k \in KeysIn(Keys, section) : start <= k
           /\ \A k \in S : k \in KeysIn(Keys, section) => k = start
    BY <1>5, OneStart DEF S
  <2>2. PICK n \in 1 .. N : starts[n] = start
    BY <1>2, <2>1
  <2>3. GivenTypes(Keys, start) = TypesIn(Keys, section)
    BY <1>5, <2>1, TypesGiven DEF S
  <2>4. \A m \in 1 .. N : Keys[starts[m]].section = section <=> m = n
    <3>1. \A k \in S : Keys[k].section = section <=> k = start
      BY <1>1, <2>1 DEF KeysIn
    <3> QED
      BY <1>2, <2>2, <3>1
  <2> QED
    BY <1>3, <2>2, <2>3, <2>4
<1> QED
  BY <1>4, <1>5 DEF OneEntryEach

LEMMA AllJudged == EdsInv => EveryObjectJudgedOnce
<1> SUFFICES ASSUME EdsInv, TestEnded, ~test.short
             PROVE  EveryObjectJudgedOnce
  BY DEF EveryObjectJudgedOnce
<1>1. /\ KeysAre /\ RunInv /\ test.asked = Len(entries)
      /\ entries \in Seq(Entry) /\ Len(entries) \in Nat
  BY AllOfTheFile
<1>2. AskInv
  BY <1>1 DEF RunInv
<1>3. \A s, g : Gave(s, g) = Given(s, g)
  <2>1. Readable \subseteq 1 .. test.asked
    BY <1>1 DEF Readable
  <2> QED
    BY <2>1 DEF Gave, Given
<1>4. test.mode = "SCRIPT_MODE" => Reported
  BY <1>2, <1>3 DEF AskInv, InResultsOnce, Reported
<1>5. test.mode = "TERM_MODE" => Shown
  <2> SUFFICES ASSUME InRangesOnce
               PROVE  Shown
    BY <1>2 DEF AskInv
  <2>1. ASSUME ~NoRoom, NEW section \in DOMAIN Sections, Sections[section].index # NoIndex
        PROVE  Cardinality(InRanges(Sections[section])) = Cardinality(Missing(Sections[section]))
    <3>1. InRanges(Sections[section]) = Collecteds(Sections[section])
      BY <2>1 DEF NoRoom, InRanges, Collecteds
    <3> QED
      BY <3>1 DEF InRangesOnce
  <2>2. ASSUME NEW k \in DOMAIN LastRange, NEW sub \in LastRange[k].first .. LastRange[k].last
        PROVE  Missing([index |-> LastRange[k].index, sub |-> sub]) # {}
    BY DEF InRangesOnce, Missing
  <2> QED
    BY <2>1, <2>2 DEF Shown
<1>6. OneEntryEach(KeysOf(test.file))
  BY <1>1, FileIsRead, OneEach DEF Keys
<1> QED
  BY <1>2, <1>4, <1>5, <1>6 DEF EveryObjectJudgedOnce, AskInv

(* Whatever electronic data sheets there are and whichever objects the     *)
(* node gives: an undisturbed section is one entry with the access type it *)
(* gives, each entry that can be read is asked for, reported as often as   *)
(* it was given or not, and shown if its ranges have room.                 *)
THEOREM ObjectsCorrect == Spec => []EveryObjectJudgedOnce
<1>1. Init => EdsInv
  BY EdsStart
<1>2. EdsInv /\ [Next]_vars => EdsInv'
  BY EdsStep
<1>3. EdsInv => EveryObjectJudgedOnce
  BY AllJudged
<1> QED
  BY <1>1, <1>2, <1>3, PTL DEF Spec
=============================================================================
