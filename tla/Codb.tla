-------------------------------- MODULE Codb --------------------------------
(***************************************************************************)
(* The object databases (src/src/core/codb.c).  A thread loads the CiA 301 *)
(* profile at the start, while the main thread already loads and unloads   *)
(* device profiles by their number in the directory; codb_deinit cancels   *)
(* the thread, waits for it and releases both.                             *)
(*                                                                         *)
(* Files is the directory: the JSON files are numbered from 1 in its order,*)
(* the schema is not counted.  A profile that is loaded is the number of   *)
(* its file, and trees counts the parsed files that are allocated.         *)
(***************************************************************************)
EXTENDS Integers, Sequences, SequencesExt

CONSTANTS
    Files,      \* sequence of [kind, parses]
    Trouble     \* what may fail: "thread", "read", "dir", "memory"

ASSUME CodbAssumption ==
    /\ \A k \in DOMAIN Files : Files[k].kind \in {"ds301", "profile", "schema", "other"}
    /\ Trouble \subseteq {"thread", "read", "dir", "memory"}

NotLoaded == 0

VARIABLES
    ds301,                \* is the CiA 301 profile loaded
    codb,                 \* the device profile that is loaded
    active_no,            \* the number shown as active
    file_no,              \* the profile load_codb is asked for
    init_th,              \* is there a thread to wait for
    is_init_cancelled,
    dbpc,                 \* where codb_init_ex is
    trees                 \* number of parsed files allocated

profileVars == <<codb, active_no, file_no>>
initVars    == <<init_th, is_init_cancelled, dbpc>>
codbVars    == <<ds301, profileVars, initVars, trees>>

CodbInit ==
    /\ ds301 = FALSE /\ codb = NotLoaded /\ active_no = 0 /\ file_no = NotLoaded
    /\ trees = 0
    /\ init_th = FALSE /\ is_init_cancelled = FALSE /\ dbpc = "none"

(* The JSON files are counted from 1.                                      *)
Jsons       == SelectSeq(Files, LAMBDA f : f.kind \in {"ds301", "profile"})
FileNumbers == 1 .. Len(Jsons)
BaseParses  == \E k \in FileNumbers : Jsons[k].kind = "ds301" /\ Jsons[k].parses

-----------------------------------------------------------------------------
(* codb_init and the thread.  Without a thread the caller runs             *)
(* codb_init_ex itself.  The pointer to a thread is stored when the thread *)
(* may be running already.                                                 *)

codb_init ==
    /\ ~init_th
    /\ is_init_cancelled' = FALSE /\ dbpc' = "start"
    /\ UNCHANGED <<ds301, profileVars, init_th, trees>>

StoreThread ==
    /\ init_th' = TRUE
    /\ UNCHANGED <<ds301, profileVars, is_init_cancelled, dbpc, trees>>

ThreadEnded == dbpc \in {"none", "ended"}

(* An interrupt ends the call of codb_init_ex, perhaps with the profile    *)
(* parsed and not stored.                                                  *)
BreakOff ==
    /\ dbpc' = "none"
    /\ \/ trees' = trees
       \/ dbpc = "parse" /\ BaseParses /\ trees' = trees + 1
    /\ UNCHANGED <<ds301, profileVars, init_th, is_init_cancelled>>

DbTo(here, next) == dbpc = here /\ dbpc' = next
                       /\ UNCHANGED <<init_th, is_init_cancelled, profileVars>>

DbStart == DbTo("start", IF is_init_cancelled THEN "ended" ELSE "read")
              /\ UNCHANGED <<ds301, trees>>

DbRead ==
    /\ \/ DbTo("read", "check")
       \/ "read" \in Trouble /\ DbTo("read", "ended")
    /\ UNCHANGED <<ds301, trees>>

(* mutant: the file is read again instead of given up.                     *)
ReadAgain == DbTo("check", IF is_init_cancelled THEN "read" ELSE "parse")
                /\ UNCHANGED <<ds301, trees>>
DbCheck == DbTo("check", IF is_init_cancelled THEN "ended" ELSE "parse")
              /\ UNCHANGED <<ds301, trees>>

DbParse ==
    /\ DbTo("parse", "ended")
    /\ ds301' = BaseParses
    /\ trees' = IF BaseParses THEN trees + 1 ELSE trees

codb_init_ex == DbStart \/ DbRead \/ DbCheck \/ DbParse

-----------------------------------------------------------------------------
(* codb_deinit.  What it frees it frees first, and then stores that it is  *)
(* gone: each is a step of its own, and dangling says that it was freed    *)
(* already, by a codb_deinit or unload_codb interrupted between the two.   *)

CancelInit == is_init_cancelled' = TRUE
                 /\ UNCHANGED <<ds301, profileVars, init_th, dbpc, trees>>

NotAwaited   == TRUE      \* mutant: the thread is not waited for
ThreadJoined == ThreadEnded

ForgetThread ==
    /\ init_th' = FALSE
    /\ UNCHANGED <<ds301, profileVars, is_init_cancelled, dbpc, trees>>

Count(b) == IF b THEN 1 ELSE 0

FreeTree(dangling) ==
    /\ trees' = trees - Count(~dangling)
    /\ UNCHANGED <<ds301, profileVars, initVars>>

ForgetBase == ds301' = FALSE /\ UNCHANGED <<profileVars, initVars, trees>>

ResetCancel == is_init_cancelled' = FALSE
                  /\ UNCHANGED <<ds301, profileVars, init_th, dbpc, trees>>

-----------------------------------------------------------------------------
(* load_codb and unload_codb.                                              *)

KeepNumber == active_no   \* mutant: unload_codb leaves the number

NumberUnloaded == 0

ForgetProfile ==
    /\ codb' = NotLoaded /\ active_no' = NumberUnloaded
    /\ UNCHANGED <<ds301, file_no, initVars, trees>>

(* What load_codb goes on to with a number: nothing if it is not in the    *)
(* list, unload_codb alone if it is that of the CiA 301 profile.           *)
ToUnload(n) == n \in FileNumbers /\ Jsons[n].kind = "ds301"
ToLoad(n)   == n \in FileNumbers /\ Jsons[n].kind = "profile"

load_codb(n) ==
    /\ file_no' = IF ToLoad(n) THEN n ELSE NotLoaded
    /\ UNCHANGED <<ds301, codb, active_no, initVars, trees>>

KeepOld      == FALSE    \* mutant: the old profile is not unloaded
UnloadsFirst == codb # NotLoaded

(* load_codb_ex: the file may be gone or not parse.                        *)
LoadFails ==
    /\ ~Jsons[file_no].parses \/ "read" \in Trouble
    /\ file_no' = NotLoaded /\ UNCHANGED <<ds301, codb, active_no, initVars, trees>>

ParseProfile ==
    /\ Jsons[file_no].parses /\ trees' = trees + 1
    /\ UNCHANGED <<ds301, profileVars, initVars>>

StoreProfile ==
    /\ codb' = file_no /\ active_no' = file_no /\ file_no' = NotLoaded
    /\ UNCHANGED <<ds301, initVars, trees>>
=============================================================================
