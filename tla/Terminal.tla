------------------------------ MODULE Terminal ------------------------------
(***************************************************************************)
(* The main thread at the prompt (src/src/core/core.c, core_update): it    *)
(* reads a line, completes it, and carries it out.  Scripts send NMT       *)
(* commands, load, search and decode with a DBC file, and test a node      *)
(* against an electronic data sheet.  Commands whose effect is described   *)
(* in other modules end at their call here.                                *)
(***************************************************************************)
EXTENDS Nmt, Dbc, Eds

CONSTANTS
    InputLines,   \* the lines entered
    Unfinished,   \* the lines for which a completion is asked
    ScriptNames,  \* the scripts there are
    ScriptNmt,    \* the nodes and commands scripts pass
    Ids, Frames   \* the CAN-IDs and frames they decode

ASSUME TerminalAssumption ==
    /\ InputLines \cup Unfinished \subseteq Line
    /\ ScriptNames \subseteq Words
    /\ ScriptNmt \subseteq [node : Int, command : Int]

VARIABLES
    pc,           \* what the main thread does
    out           \* what the last call did: see NoOutcome

vars == <<dbcVars, edsVars, pc, out>>

(* The call with its result; the line it was entered as, and the line it   *)
(* was completed from.                                                     *)
NoLine    == [blanks |-> 0, tokens |-> <<>>]
NoOutcome == [fn |-> "nothing", args |-> <<>>, text |-> <<>>, line |-> NoLine,
              completed |-> FALSE, status |-> "ALL_OK", frame |-> NoFrame,
              answer |-> Nothing, id |-> NoId]

Init == DbcInit /\ EdsInit /\ pc = "prompt" /\ out = NoOutcome

-----------------------------------------------------------------------------
(* Lines.                                                                  *)

AfterCall(call) == IF call.fn = "quit" THEN "ended" ELSE "done"

Entered(line, completed, initialised, accepted) ==
    LET call == parse_command(line, initialised)
        sent == IF call.fn = "nmt_send_command"
                THEN nmt_send_command(call.args[1], call.args[2], accepted)
                ELSE [status |-> "ALL_OK", frame |-> NoFrame]
    IN /\ out' = [NoOutcome EXCEPT !.fn = call.fn, !.args = call.args, !.text = call.text,
                                   !.line = line, !.completed = completed,
                                   !.status = sent.status, !.frame = sent.frame]
       /\ pc' = AfterCall(call)

core_update ==
    /\ pc = "prompt"
    /\ \E line \in InputLines, initialised, accepted \in BOOLEAN :
          Entered(line, FALSE, initialised, accepted)
    /\ UNCHANGED <<dbcVars, edsVars>>

(* A word of those offered is taken, and the line entered.                 *)
completion_callback ==
    /\ pc = "prompt"
    /\ \E prefix \in Unfinished, initialised, accepted \in BOOLEAN :
          \E word \in completion_add(prefix, ScriptNames) :
             Entered([prefix EXCEPT !.tokens = Append(@, word)], TRUE, initialised, accepted)
    /\ UNCHANGED <<dbcVars, edsVars>>

-----------------------------------------------------------------------------
(* Scripts.                                                                *)

lua_nmt_send_command ==
    /\ pc = "prompt" /\ pc' = "done"
    /\ \E call \in ScriptNmt, accepted \in BOOLEAN :
          LET sent == script_nmt_send_command(call.node, call.command, accepted) IN
          out' = [NoOutcome EXCEPT !.fn = "lua_nmt_send_command",
                                   !.args = <<call.node, call.command>>,
                                   !.status = sent.status, !.frame = sent.frame]
    /\ UNCHANGED <<dbcVars, edsVars>>

LoadReturns(status) ==
    pc' = "done" /\ out' = [NoOutcome EXCEPT !.fn = "dbc_load", !.status = status]

lua_dbc_load ==
    /\ pc = "prompt"
    /\ \/ \E file \in DOMAIN DbcFiles : dbc_load(file) /\ pc' = "dbc" /\ out' = NoOutcome
       \/ dbc_load(NoFile) /\ LoadReturns("OS_FILE_NOT_FOUND")
       \/ NothingLoaded /\ LoadReturns("OS_MEMORY_ALLOCATION_ERROR")
    /\ UNCHANGED edsVars

LoadGoesOn ==
    /\ pc = "dbc"
    /\ \/ ReadLine /\ UNCHANGED <<pc, out>>
       \/ NoMemoryForLine /\ LoadReturns("OS_MEMORY_ALLOCATION_ERROR")
       \/ ~AnotherLine /\ LoadReturns("ALL_OK") /\ UNCHANGED dbcVars
    /\ UNCHANGED edsVars

lua_dbc_find_id_by_name ==
    /\ pc = "prompt" /\ pc' = "done"
    /\ \E search \in DOMAIN Like : \E answer \in dbc_find_id_by_name(search) :
          out' = [NoOutcome EXCEPT !.fn = "dbc_find_id_by_name", !.text = <<search>>,
                                   !.status = answer.status, !.id = answer.id]
    /\ UNCHANGED <<dbcVars, edsVars>>

(* Where the behaviour is undefined the program may end here.              *)
Decoded(can_id, frame, filter) ==
    \/ /\ ~DecodeFails(can_id, filter) /\ pc' = "done"
       /\ \E answer \in dbc_decode(can_id, frame, filter) :
             out' = [NoOutcome EXCEPT !.fn = "dbc_decode", !.args = <<can_id>>,
                                      !.text = <<filter>>, !.answer = answer]
    \/ DecodeUndefined(can_id, filter) /\ pc' = "undefined" /\ out' = NoOutcome

lua_dbc_decode ==
    /\ pc = "prompt"
    /\ \E can_id \in Ids, frame \in Frames, filter \in DOMAIN HasText \cup {AnyName} :
          Decoded(can_id, frame, filter)
    /\ UNCHANGED <<dbcVars, edsVars>>

(* The Python function has two arguments and takes the filter from behind  *)
(* them, where any text may be.                                            *)
py_dbc_decode ==
    /\ pc = "prompt"
    /\ \E can_id \in Ids, frame \in Frames : \E filter \in DOMAIN HasText : Decoded(can_id, frame, filter)
    /\ UNCHANGED <<dbcVars, edsVars>>

(* A script tests in SCRIPT_MODE; validate_eds, which has no caller yet,   *)
(* in TERM_MODE.                                                           *)
lua_test_eds_file ==
    /\ pc = "prompt" /\ pc' = "eds" /\ out' = NoOutcome
    /\ \E file \in DOMAIN EdsFiles \cup {MissingFile}, mode \in {"SCRIPT_MODE", "TERM_MODE"} :
          run_conformance_test(mode, file)
    /\ UNCHANGED dbcVars

TestGoesOn ==
    /\ pc = "eds"
    /\ \/ (parse_eds \/ (\E available \in BOOLEAN : ReadObject(available)) \/ SkipObject)
          /\ UNCHANGED <<pc, out>>
       \/ TestEnds /\ pc' = "prompt" /\ UNCHANGED out
       \/ LostEntryUsed /\ pc' = "crashed" /\ UNCHANGED out
    /\ UNCHANGED dbcVars

(* The next turn of the main loop, or the next statement of a script.      *)
NextTurn ==
    /\ pc = "done" /\ pc' = "prompt" /\ out' = NoOutcome
    /\ UNCHANGED <<dbcVars, edsVars>>

(* core_deinit, as far as it goes here.                                    *)
core_deinit ==
    /\ pc = "ended" /\ pc' = "gone"
    /\ NothingLoaded
    /\ UNCHANGED <<edsVars, out>>

Next ==
    \/ core_update \/ completion_callback
    \/ lua_nmt_send_command
    \/ lua_dbc_load \/ LoadGoesOn \/ lua_dbc_find_id_by_name
    \/ lua_dbc_decode \/ py_dbc_decode
    \/ lua_test_eds_file \/ TestGoesOn
    \/ NextTurn \/ core_deinit

Spec == Init /\ [][Next]_vars

-----------------------------------------------------------------------------
(* Properties.                                                             *)

(* Type invariant of the prompt and what it works on.                      *)
TypeOK ==
    /\ DbcTypeOK /\ EdsTypeOK
    /\ pc \in {"prompt", "done", "dbc", "eds", "ended", "gone", "crashed", "undefined"}
    /\ pc = "dbc" => dbc.loaded
    /\ (pc \in {"eds", "crashed"}) = (test.mode # "none")

(* Whatever loads failed before, and whichever texts there was no memory   *)
(* for, the database is that of the lines read of the file named last, and *)
(* every answer comes from it: the identifier found is that of the first   *)
(* message with such a name, and none is missed but for want of memory; a  *)
(* frame is decoded by the first message of its CAN-ID, with the signals   *)
(* asked for or, where the text is cut, the first of them.                 *)
Read == SubSeq(LinesOf(dbcFile), 1, dbcLine)

Found(search, answer) ==
    LET messages == MessagesOf(Read)
        fits     == {k \in DOMAIN messages : messages[k].name \in Like[search]}
    IN /\ answer.status \in {"ALL_OK", "ITEM_NOT_FOUND", "OS_INVALID_ARGUMENT",
                             "OS_MEMORY_ALLOCATION_ERROR"}
       /\ answer.status = "OS_INVALID_ARGUMENT" <=> ~dbc.loaded
       /\ answer.status = "ITEM_NOT_FOUND" => fits = {}
       /\ answer.status = "ALL_OK" =>
             \E k \in fits : answer.id = messages[k].id /\ \A j \in fits : k <= j
       /\ answer.status # "ALL_OK" => answer.id = NoId

Shows(answer, signals) ==
    /\ DOMAIN answer.signals \subseteq DOMAIN signals
    /\ \A j \in DOMAIN answer.signals :
          answer.signals[j].name = signals[j].name /\ 1 .. j \subseteq DOMAIN answer.signals
    /\ ~answer.cut => DOMAIN answer.signals = DOMAIN signals

Decodes(can_id, filter, answer) ==
    LET messages == MessagesOf(Read) IN
    IF answer.found
    THEN \E k \in DOMAIN messages :
            /\ messages[k].id = can_id /\ answer.name \in {messages[k].name, NoName}
            /\ \A j \in 1 .. k - 1 : messages[j].id # can_id
            /\ Shows(answer, Selected(messages[k], filter))
    ELSE dbc.loaded => \A k \in DOMAIN messages : messages[k].id # can_id

Answered ==
    /\ out.fn = "dbc_find_id_by_name" => Found(out.text[1], out)
    /\ out.fn = "dbc_decode" => Decodes(out.args[1], out.text[1], out.answer)

AnswersFromTheLastFile ==
    /\ dbc.loaded => dbc.messages = MessagesOf(Read)
    /\ pc # "dbc" => Answered

(* Every NMT frame has one of the five commands and a node up to 127.  A   *)
(* node and a command that are given as such are the ones sent, by a line  *)
(* as by a script; anything else than a command sends nothing.             *)
TypedNode == convert_token_to_uint(out.line.tokens[2])
AsGiven(node, command) ==
    IF command \in NmtCommands
    THEN node \in 0 .. 127 => \/ out.frame = <<command, node>>
                              \/ out.status = "CAN_WRITE_ERROR" /\ out.frame = NoFrame
    ELSE out.frame = NoFrame /\ out.status = "NMT_UNKNOWN_COMMAND"

FrameIsTheCommandGiven ==
    /\ out.frame # NoFrame => out.frame[1] \in NmtCommands /\ out.frame[2] \in 0 .. 127
    /\ out.fn = "nmt_send_command" => AsGiven(TypedNode, UINT8(CommandOf(out.line.tokens[3])))
    /\ out.fn = "lua_nmt_send_command" => AsGiven(out.args[1], out.args[2])

(* A line completed with a word that was offered is a command, not a       *)
(* mistake; only a write still needs a sub-index and data.  It never goes  *)
(* to a node that was not given as a number, and if the word offered is    *)
(* the baud rate or the NMT command, it is one there is.  (After two       *)
(* blanks scripts are offered, though a letter is expected.)               *)
CompletionIsACommand ==
    out.completed /\ out.line.blanks <= 1 =>
        /\ out.fn = "print_usage_information" =>
              Len(out.line.tokens) = 1 \/ out.line.tokens[1].word = "w"
        /\ out.fn \in {"nmt_send_command", "sdo_read"} => out.line.tokens[2].form # "word"
        /\ out.fn = "can_set_baud_rate" /\ Len(out.line.tokens) = 2 => out.args[1] \in 1 .. 14
        /\ out.fn = "nmt_send_command" /\ Len(out.line.tokens) = 3 => out.args[2] \in NmtCommands
=============================================================================
