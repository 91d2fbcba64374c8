------------------------------ MODULE Console ------------------------------
(***************************************************************************)
(* The main thread from core_init to core_deinit (src/src/main.c,          *)
(* src/src/core/core.c): it loads device profiles and runs scripts, which  *)
(* add test results and write reports, while the database thread may still *)
(* be loading the CiA 301 profile.  An interrupt (src/src/core/core_linux.c)*)
(* may stop it anywhere, also between freeing something and storing that   *)
(* it is gone, and run core_deinit.                                        *)
(***************************************************************************)
EXTENDS Dictionary, TestReport, Scripts

VARIABLES
    pc,             \* where the main thread is
    interrupted     \* where handle_sigint found it: "no", "between", or
                    \* halfway through a change

vars == <<codbVars, reportVars, scriptVars, pc, interrupted>>

Init == CodbInit /\ ReportInit /\ ScriptsInit /\ pc = "start" /\ interrupted = "no"

Main(here, next) == pc = here /\ pc' = next /\ UNCHANGED interrupted

-----------------------------------------------------------------------------
(* core_init.  A script named on the command line is run once, without a   *)
(* prompt.                                                                 *)

core_init ==
    /\ \/ Main("start", "created") /\ codb_init
       \/ Main("created", "init") /\ StoreThread
       \/ "thread" \in Trouble /\ Main("start", "calling") /\ codb_init
       \/ Main("calling", "init") /\ ThreadEnded /\ UNCHANGED codbVars
    /\ UNCHANGED <<reportVars, scriptVars>>

Prompt == Main("init", "prompt") /\ UNCHANGED <<codbVars, reportVars, scriptVars>>

ScriptArgument(s) ==
    /\ Main("init", "once") /\ run_script(s)
    /\ UNCHANGED <<codbVars, reportVars>>

-----------------------------------------------------------------------------
(* The main loop: one command at a time.                                   *)

AtPrompt == Main("prompt", "prompt") /\ spc = "idle"

(* load_codb in its steps: unload_codb frees the old profile and then      *)
(* stores that it is gone, load_codb_ex parses the new one and then stores *)
(* it.                                                                     *)
LoadCommand(n) ==
    /\ spc = "idle"
    /\ \/ (ToUnload(n) \/ ToLoad(n)) /\ Main("prompt", "unload") /\ load_codb(n)
       \/ /\ "dir" \in Trouble \/ ~(ToUnload(n) \/ ToLoad(n))
          /\ AtPrompt /\ UNCHANGED codbVars
    /\ UNCHANGED <<reportVars, scriptVars>>

Unloaded == IF file_no = NotLoaded THEN "prompt" ELSE "load"
LoadStep ==
    /\ \/ Main("unload", "unloading") /\ UnloadsFirst /\ FreeTree(FALSE)
       \/ Main("unload", Unloaded) /\ ~UnloadsFirst /\ UNCHANGED codbVars
       \/ Main("unloading", Unloaded) /\ ForgetProfile
       \/ Main("load", "prompt") /\ LoadFails
       \/ Main("load", "parsed") /\ ParseProfile
       \/ Main("parsed", "prompt") /\ StoreProfile
    /\ UNCHANGED <<reportVars, scriptVars>>

RunCommand(s) == AtPrompt /\ run_script(s) /\ UNCHANGED <<codbVars, reportVars>>

Quit ==
    /\ Main("prompt", "clear") \/ Main("once", "clear")
    /\ spc = "idle"
    /\ UNCHANGED <<codbVars, reportVars, scriptVars>>

RunScript ==
    /\ pc \in {"prompt", "once"}
    /\ run_script_ex \/ ScriptEnds \/ window_update_quit \/ Finish
    /\ UNCHANGED <<codbVars, reportVars, pc, interrupted>>

(* What a script does of the test report.  Without memory for a result     *)
(* test_add_result clears the results, and reads through a null pointer.   *)
ScriptReports ==
    /\ pc \in {"prompt", "once"} /\ spc = "running"
    /\ \/ \E suite \in Suites \cup {NoSuite} : test_add_result(suite) /\ UNCHANGED pc
       \/ "memory" \in Trouble /\ pc' = "crashed" /\ UNCHANGED reportVars
       \/ test_clear_results /\ UNCHANGED pc
       \/ test_generate_report /\ UNCHANGED pc
    /\ UNCHANGED <<codbVars, scriptVars, interrupted>>

-----------------------------------------------------------------------------
(* core_deinit.  Of can_quit see CanChannel.                               *)

(* Where main is when it has done one half of a change that an interrupt   *)
(* separates from the other.  What is done again after that is undefined:  *)
(* the second join of a thread, which does not wait, and another join or a *)
(* free of what was freed.                                                 *)
Halfway == {"created", "calling", "unloading", "parsed", "joining", "joined",
            "baseFreed", "codbFreed"}
JoinedBefore == interrupted \in {"joining", "joined"}
BaseFreed    == interrupted = "baseFreed"
CodbFreed    == interrupted \in {"unloading", "codbFreed"}

codb_deinit ==
    \/ Main("cancel", "wait") /\ CancelInit
    \/ Main("wait", IF init_th THEN "joining" ELSE "base") /\ UNCHANGED codbVars
    \/ Main("joining", "joined") /\ (JoinedBefore \/ ThreadJoined) /\ UNCHANGED codbVars
    \/ Main("joined", "base") /\ ForgetThread
    \/ Main("base", "baseFreed") /\ ds301 /\ FreeTree(BaseFreed)
    \/ Main("base", "codb") /\ ~ds301 /\ UNCHANGED codbVars
    \/ Main("baseFreed", "codb") /\ ForgetBase
    \/ Main("codb", "codbFreed") /\ codb # NotLoaded /\ FreeTree(CodbFreed)
    \/ Main("codb", "reset") /\ codb = NotLoaded /\ UNCHANGED codbVars
    \/ Main("codbFreed", "reset") /\ ForgetProfile
    \/ Main("reset", "gone") /\ ResetCancel

UndefinedUse ==
    /\ \/ Main("joining", "crashed") /\ JoinedBefore
       \/ Main("base", "crashed") /\ ds301 /\ BaseFreed
       \/ Main("codb", "crashed") /\ codb # NotLoaded /\ CodbFreed
    /\ UNCHANGED codbVars

core_deinit ==
    \/ Main("clear", "cancel") /\ test_clear_results /\ UNCHANGED <<codbVars, scriptVars>>
    \/ (codb_deinit \/ UndefinedUse) /\ UNCHANGED <<reportVars, scriptVars>>

Ended == pc \in {"gone", "crashed"}

(* handle_sigint ends with exit, so main never goes on, and no second      *)
(* interrupt gets through to it.  Before core_init there is nothing to     *)
(* release; after core_deinit, core still points to what was freed.  In a  *)
(* call of the heap, whose lock is then held, core_deinit aborts or hangs: *)
(* that is crashed, too.                                                   *)
handle_sigint ==
    /\ interrupted = "no"
    /\ interrupted' = IF pc \in Halfway THEN pc ELSE "between"
    /\ \/ pc = "start" /\ pc' = "gone"
       \/ ~Ended /\ pc' \in {"clear", "crashed"}
       \/ pc = "gone" /\ pc' \in {"gone", "crashed"}
    /\ IF pc = "calling" THEN BreakOff ELSE UNCHANGED codbVars
    /\ UNCHANGED <<reportVars, scriptVars>>

(* The database thread, or its function called by codb_init.               *)
DbThread ==
    /\ ~Ended /\ codb_init_ex
    /\ UNCHANGED <<reportVars, scriptVars, pc, interrupted>>

Next ==
    \/ core_init \/ Prompt \/ Quit \/ RunScript \/ ScriptReports
    \/ \E s \in DOMAIN Shelf : ScriptArgument(s) \/ RunCommand(s)
    \/ \E n \in 0 .. Len(Files) : LoadCommand(n)
    \/ LoadStep
    \/ core_deinit
    \/ handle_sigint
    \/ DbThread
    \/ Ended /\ UNCHANGED vars

(* Both threads are scheduled; nothing is assumed of scripts or commands.  *)
Spec == Init /\ [][Next]_vars /\ WF_vars(core_deinit) /\ WF_vars(DbThread)

-----------------------------------------------------------------------------
(* Properties.                                                             *)

PcTypes == {"start", "init", "prompt", "once", "unload", "load", "clear", "cancel", "wait",
              "base", "codb", "reset", "gone", "crashed"} \cup Halfway

TypeOK ==
    /\ ds301 \in BOOLEAN /\ codb \in 0 .. Len(Jsons) /\ active_no \in 0 .. Len(Jsons)
    /\ file_no \in 0 .. Len(Jsons)
    /\ init_th \in BOOLEAN /\ is_init_cancelled \in BOOLEAN /\ trees \in Nat
    /\ dbpc \in {"none", "start", "read", "check", "parse", "ended"}
    /\ results \in BoundedSeq([test : 1 .. MaxResults, suite : Suites \cup {NoSuite}], MaxResults)
    /\ place \in Direct .. UserDirectory /\ is_script_running \in BOOLEAN /\ is_abort \in BOOLEAN
    /\ spc \in {"idle", "search", "running", "finish"} /\ status \in {"ok", "error", "not found"}
    /\ pc \in PcTypes
    /\ interrupted \in {"no", "between"} \cup Halfway

(* The number shown as active is that of the profile that is loaded.       *)
LoadedIsActive == active_no = codb

(* Every parsed file that is allocated is still in use, in both threads,   *)
(* but for the one main has parsed and is about to store.  An interrupt    *)
(* halfway loses one, or frees it twice.                                   *)
BaseInUse == ds301 /\ pc # "baseFreed"
CodbInUse == codb # NotLoaded /\ pc \notin {"unloading", "codbFreed"}
InUse     == Count(BaseInUse) + Count(CodbInUse) + Count(pc = "parsed")
NoTreeLeaked == interrupted \notin Halfway => trees = InUse

(* core_deinit leaves no profile, no result and no running thread behind,  *)
(* however early in its work it found the database thread, and wherever an *)
(* interrupt started it again, but halfway through a change.               *)
DeinitReleasesAll ==
    pc = "gone" /\ interrupted \notin Halfway =>
       /\ ~ds301 /\ codb = NotLoaded /\ trees = 0 /\ ~init_th
       /\ results = <<>>
       /\ ThreadEnded

(* Frames of the predefined connection set are named for their function by *)
(* dict_lookup_raw, whose masks overlap; one state is enough.              *)
PredefinedSetIsNamed == pc = "start" => NamesPredefinedSet

(* core_deinit returns, whatever became of the file the thread reads, and  *)
(* of the thread.  What keeps it from that is only an interrupt.           *)
DeinitReturns == pc = "clear" ~> (pc = "gone" \/ (pc = "crashed" /\ interrupted # "no"))
=============================================================================
