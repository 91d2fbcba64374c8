------------------------------ MODULE Scripts ------------------------------
(***************************************************************************)
(* run_script (src/src/core/scripts.c): a script given by a path that      *)
(* opens is run from there; any other is looked for in the search paths    *)
(* and then in the user's directory, with ".lua" or ".py" appended if it   *)
(* has no extension.  What the script does is up to the module that        *)
(* extends this one.                                                       *)
(***************************************************************************)
EXTENDS Integers, Sequences

CONSTANTS
    max_script_search_paths,
    Shelf       \* name -> [opens, at]: whether the name opens as it is, and
                \* the places where run_script_ex finds a file to run

ASSUME ScriptsAssumption ==
    /\ max_script_search_paths \in Nat \ {0}
    /\ \A s \in DOMAIN Shelf : Shelf[s].at \subseteq 0 .. max_script_search_paths + 1

Direct        == 0
SearchPaths   == 1 .. max_script_search_paths
UserDirectory == max_script_search_paths + 1

VARIABLES
    spc,                \* where run_script is
    script,             \* its argument
    place,              \* where it looks
    status,             \* what run_script_ex returned last
    is_script_running,
    is_abort,           \* the widget window was closed
    executed,           \* history: how the scripts of this search ended
    said                \* the message logged

scriptVars == <<spc, script, place, status, is_script_running, is_abort, executed, said>>

NoScript == "none"

ScriptsInit ==
    /\ spc = "idle" /\ script = NoScript /\ place = Direct /\ status = "ok"
    /\ is_script_running = FALSE /\ is_abort = FALSE /\ executed = <<>> /\ said = "nothing"

run_script(s) ==
    /\ spc = "idle" /\ ~is_script_running
    /\ is_script_running' = TRUE
    /\ script' = s /\ executed' = <<>> /\ said' = "nothing" /\ status' = "ok"
    /\ spc' = "search"
    /\ place' = IF Shelf[s].opens THEN Direct ELSE 1
    /\ UNCHANGED is_abort

(* Is there a file run_script_ex runs.  One that opens as it is but has no *)
(* extension is not one: run_script_ex appends it.                         *)
Found == place \in Shelf[script].at

(* mutant: the search goes on after a script that ended well.              *)
GoesOn(result) ==
    /\ status' = result
    /\ \/ place \in {Direct, UserDirectory} /\ spc' = "finish" /\ UNCHANGED place
       \/ place \in SearchPaths /\ spc' = "search" /\ place' = place + 1

(* mutant: the search goes on after the user's directory.                  *)
PastTheEnd(result) ==
    /\ status' = result
    /\ \/ (place = Direct \/ result = "ok") /\ spc' = "finish" /\ UNCHANGED place
       \/ place # Direct /\ result # "ok" /\ spc' = "search" /\ place' = place + 1

(* After a try in a place: the next place, or the end.                     *)
Returned(result) ==
    /\ status' = result
    /\ \/ place = Direct /\ spc' = "finish" /\ UNCHANGED place
       \/ place \in SearchPaths /\ result = "ok" /\ spc' = "finish" /\ UNCHANGED place
       \/ place \in SearchPaths /\ result # "ok" /\ spc' = "search" /\ place' = place + 1
       \/ place = UserDirectory /\ spc' = "finish" /\ UNCHANGED place

run_script_ex ==
    /\ spc = "search"
    /\ \/ ~Found /\ Returned("not found")
       \/ Found /\ spc' = "running" /\ UNCHANGED <<place, status>>
    /\ UNCHANGED <<script, is_script_running, is_abort, executed, said>>

(* The script ends, with or without an error, after it took note that its  *)
(* window was closed or not.                                               *)
ScriptEnds ==
    /\ spc = "running"
    /\ \E result \in {"ok", "error"} :
          /\ Returned(result)
          /\ executed' = Append(executed, result)
    /\ UNCHANGED <<script, is_script_running, is_abort, said>>

window_update_quit ==
    /\ spc = "running" /\ is_abort' = TRUE
    /\ UNCHANGED <<spc, script, place, status, is_script_running, executed, said>>

NotFound == status = "not found"

(* With run_script its variables are gone, and the history of its search.  *)
Finish ==
    /\ spc = "finish"
    /\ spc' = "idle" /\ is_script_running' = FALSE
    /\ said' = IF NotFound /\ ~is_abort THEN "not found" ELSE "nothing"
    /\ is_abort' = (is_abort /\ ~NotFound)
    /\ script' = NoScript /\ place' = Direct /\ status' = "ok" /\ executed' = <<>>

-----------------------------------------------------------------------------
(* Properties.                                                             *)

(* A script that ended well is the last one executed of those found under  *)
(* its name: the search ends with it. Nothing is executed outside          *)
(* run_script.                                                             *)
SuccessEndsSearch ==
    /\ \A k \in DOMAIN executed : executed[k] = "ok" =>
          k = Len(executed) /\ spc = "finish"
    /\ is_script_running <=> spc # "idle"
=============================================================================
