----------------------------- MODULE CanChannel -----------------------------
(***************************************************************************)
(* The CAN channel (src/src/core/can.c): the main thread switches it with  *)
(* can_set_channel and gives it up with can_quit, while the monitor thread *)
(* opens the first interface it can and watches that it stays plugged in.  *)
(* The fields of core_t they share have no lock.                           *)
(*                                                                         *)
(* The interfaces are those of the CANvenient library.  Opening one that   *)
(* is there succeeds; can_update fails exactly when it is not there.       *)
(***************************************************************************)
EXTENDS Integers, FiniteSets

CONSTANTS
    CAN_MAX_INTERFACES,
    Scheduling,     \* TRUE is in it: the threads may interleave at any point; FALSE: the
                    \* main thread may run only during the monitor's os_delay
    MaxRequests,    \* bound on the calls of can_set_channel
    MaxPlugs        \* bound on the changes of the hardware

ASSUME ChannelAssumption ==
    /\ CAN_MAX_INTERFACES \in Nat \ {0} /\ Scheduling \subseteq BOOLEAN
    /\ MaxRequests \in Nat /\ MaxPlugs \in Nat

Interfaces == 0 .. CAN_MAX_INTERFACES - 1
NoChannel  == -1

VARIABLES
    interleave, \* how this behaviour is scheduled
    can_channel, is_can_initialised, set_can_channel, is_running,   \* of core_t
    open,       \* the interfaces this process holds open
    present,    \* the interfaces plugged in
    mpc, back,  \* where the monitor is, and where find_can_channel returns to
    i, ch,      \* locals of find_can_channel
    pc, target, \* where the main thread is, and can_set_channel's argument
    asked,      \* the channel last switched to, until a failure is logged
    requests, plugs

core    == <<can_channel, is_can_initialised, set_can_channel, is_running>>
monitor == <<mpc, back, i, ch>>
main    == <<pc, target, requests>>
bus     == <<interleave, present, plugs>>   \* what neither thread decides
vars    == <<core, open, bus, monitor, main, asked>>

(* core_init: the hardware may or may not be there.                        *)
Init ==
    /\ interleave \in Scheduling
    /\ can_channel = 0 /\ is_can_initialised = FALSE
    /\ set_can_channel = FALSE /\ is_running = TRUE
    /\ open = {} /\ present \in SUBSET Interfaces
    /\ mpc = "find" /\ back = "loop" /\ i = 0 /\ ch = NoChannel
    /\ pc = "idle" /\ target = NoChannel /\ asked = NoChannel
    /\ requests = 0 /\ plugs = 0

-----------------------------------------------------------------------------
(* The monitor thread.                                                     *)

MonitorAt(here) == mpc = here /\ pc # "gone" /\ (interleave \/ pc = "idle")
MonitorTo(next) == mpc' = next

(* mutant: the index does not wrap around.                                 *)
ChooseNext ==
    /\ MonitorAt("find") /\ MonitorTo("open")
    /\ ch' = can_channel + i
    /\ UNCHANGED <<core, open, bus, main, asked, back, i>>

ChooseChannel ==
    /\ MonitorAt("find") /\ MonitorTo("open")
    /\ ch' = (can_channel + i) % CAN_MAX_INTERFACES
    /\ UNCHANGED <<core, open, bus, main, asked, back, i>>

can_open ==
    /\ MonitorAt("open")
    /\ \/ ch \in present /\ open' = open \cup {ch} /\ MonitorTo("flag")
       \/ ch \notin present /\ MonitorTo("fail") /\ UNCHANGED open
    /\ UNCHANGED <<core, bus, main, asked, back, i, ch>>

SetInitialised ==
    /\ MonitorAt("flag") /\ MonitorTo("store")
    /\ is_can_initialised' = TRUE
    /\ UNCHANGED <<can_channel, set_can_channel, is_running, open, bus, main, asked,
                   back, i, ch>>

FoundChannel ==
    /\ MonitorAt("store") /\ MonitorTo(back)
    /\ can_channel' = ch /\ i' = 0 /\ ch' = NoChannel
    /\ UNCHANGED <<is_can_initialised, set_can_channel, is_running, open, bus, main, asked,
                   back>>

(* The first failure after a switch is logged.                             *)
OpenFailed ==
    /\ MonitorAt("fail")
    /\ asked' = IF set_can_channel THEN NoChannel ELSE asked
    /\ set_can_channel' = FALSE
    /\ \/ i + 1 < CAN_MAX_INTERFACES /\ i' = i + 1 /\ MonitorTo("find")
       \/ i + 1 = CAN_MAX_INTERFACES /\ i' = 0 /\ MonitorTo(back)
    /\ ch' = NoChannel
    /\ UNCHANGED <<can_channel, is_can_initialised, is_running, open, bus, main, back>>

TestRunning ==
    /\ MonitorAt("loop") /\ MonitorTo(IF is_running THEN "wait" ELSE "done")
    /\ UNCHANGED <<core, open, bus, main, asked, back, i, ch>>

(* mutant: CAN is looked for once, at the start.                           *)
TestNothing ==
    /\ MonitorAt("wait") /\ MonitorTo("update")
    /\ UNCHANGED <<core, open, bus, main, asked, back, i, ch>>

(* The inner loop of can_monitor: it ends only when CAN is initialised.    *)
TestInitialised ==
    /\ MonitorAt("wait")
    /\ IF is_can_initialised
       THEN MonitorTo("update") /\ UNCHANGED back
       ELSE MonitorTo("find") /\ back' = "delayFind"
    /\ UNCHANGED <<core, open, bus, main, asked, i, ch>>

(* mutant: the result of can_update is ignored.                            *)
UpdateIgnored ==
    /\ MonitorAt("update") /\ MonitorTo("delay")
    /\ UNCHANGED <<core, open, bus, main, asked, back, i, ch>>

can_update ==
    /\ MonitorAt("update")
    /\ MonitorTo(IF can_channel \in present THEN "delay" ELSE "deinit")
    /\ UNCHANGED <<core, open, bus, main, asked, back, i, ch>>

(* mutant: the flag stays.                                                 *)
KeepInitialised ==
    /\ MonitorAt("deinit") /\ MonitorTo("close")
    /\ UNCHANGED <<core, open, bus, main, asked, back, i, ch>>

(* can_deinit, by the monitor: the flag first, then the interface.         *)
MonitorDeinit ==
    /\ MonitorAt("deinit") /\ MonitorTo("close")
    /\ is_can_initialised' = FALSE
    /\ UNCHANGED <<can_channel, set_can_channel, is_running, open, bus, main, asked,
                   back, i, ch>>

(* mutant: the interface is not closed.                                    *)
MonitorForgetsClose ==
    /\ MonitorAt("close") /\ MonitorTo("delay")
    /\ UNCHANGED <<core, open, bus, main, asked, back, i, ch>>

MonitorClose ==
    /\ MonitorAt("close") /\ MonitorTo("delay")
    /\ open' = open \ {can_channel}
    /\ UNCHANGED <<core, bus, main, asked, back, i, ch>>

os_delay ==
    /\ \/ MonitorAt("delay") /\ MonitorTo("loop")
       \/ MonitorAt("delayFind") /\ MonitorTo("wait")
    /\ UNCHANGED <<core, open, bus, main, asked, back, i, ch>>

Monitor == ChooseChannel \/ can_open \/ SetInitialised \/ FoundChannel \/ OpenFailed
              \/ TestRunning \/ TestInitialised \/ can_update \/ MonitorDeinit
              \/ MonitorClose \/ os_delay

-----------------------------------------------------------------------------
(* The main thread.                                                        *)

MainMayStart == pc = "idle" /\ is_running
                   /\ (interleave \/ mpc \in {"delay", "delayFind", "done"})

(* can_update(channel) must succeed: only an interface that is there.      *)
can_set_channel(c) ==
    /\ MainMayStart /\ requests < MaxRequests /\ c \in present
    /\ target' = c /\ requests' = requests + 1
    /\ pc' = IF is_can_initialised THEN "deinit" ELSE "set"
    /\ UNCHANGED <<core, open, bus, monitor, asked>>

(* The end of the main loop and can_quit.                                  *)
can_quit ==
    /\ MainMayStart
    /\ is_running' = FALSE
    /\ pc' = IF is_can_initialised THEN "deinit" ELSE "gone"
    /\ UNCHANGED <<can_channel, is_can_initialised, set_can_channel, open, bus, monitor,
                   target, requests, asked>>

MainDeinit ==
    /\ pc = "deinit" /\ pc' = "close"
    /\ is_can_initialised' = FALSE
    /\ UNCHANGED <<can_channel, set_can_channel, is_running, open, bus, monitor, target,
                   requests, asked>>

MainClose ==
    /\ pc = "close" /\ pc' = IF is_running THEN "set" ELSE "gone"
    /\ open' = open \ {can_channel}
    /\ UNCHANGED <<core, bus, monitor, target, requests, asked>>

(* mutant: the new channel is not stored.                                  *)
KeepChannel ==
    /\ pc = "set" /\ pc' = "request"
    /\ UNCHANGED <<core, open, bus, monitor, target, requests, asked>>

StoreChannel ==
    /\ pc = "set" /\ pc' = "request"
    /\ can_channel' = target
    /\ UNCHANGED <<is_can_initialised, set_can_channel, is_running, open, bus, monitor,
                   target, requests, asked>>

RequestChannel ==
    /\ pc = "request" /\ pc' = "idle"
    /\ set_can_channel' = TRUE /\ asked' = target /\ target' = NoChannel
    /\ UNCHANGED <<can_channel, is_can_initialised, is_running, open, bus, monitor, requests>>

MainStep == MainDeinit \/ MainClose \/ StoreChannel \/ RequestChannel
Main     == (\E c \in Interfaces : can_set_channel(c)) \/ can_quit \/ MainStep

-----------------------------------------------------------------------------
(* The hardware.                                                           *)

Hardware ==
    /\ plugs < MaxPlugs /\ plugs' = plugs + 1 /\ pc # "gone"
    /\ \E c \in Interfaces :
          present' = IF c \in present THEN present \ {c} ELSE present \cup {c}
    /\ UNCHANGED <<interleave, core, open, monitor, main, asked>>

Next == Monitor \/ Main \/ Hardware

Spec == Init /\ [][Next]_vars

(* Both threads are scheduled; a call of the main thread goes on.          *)
FairSpec == Spec /\ WF_vars(Monitor) /\ WF_vars(MainStep)

-----------------------------------------------------------------------------
(* Properties.                                                             *)

(* Type invariant.                                                         *)
TypeOK ==
    /\ interleave \in Scheduling /\ can_channel \in Interfaces
    /\ {is_can_initialised, set_can_channel, is_running} \subseteq BOOLEAN
    /\ open \subseteq Interfaces /\ present \subseteq Interfaces
    /\ mpc \in {"find", "open", "flag", "store", "fail", "loop", "wait", "update", "deinit",
                "close", "delay", "delayFind", "done"}
    /\ back \in {"loop", "delayFind"}
    /\ i \in Interfaces /\ ch \in Interfaces \cup {NoChannel}
    /\ pc \in {"idle", "deinit", "close", "set", "request", "gone"}
    /\ target \in Interfaces \cup {NoChannel} /\ asked \in Interfaces \cup {NoChannel}
    /\ requests \in 0 .. MaxRequests /\ plugs \in 0 .. MaxPlugs

(* Neither thread is in the middle of a change of the channel.             *)
Settled == pc = "idle" /\ mpc \in {"loop", "wait", "update", "delay", "delayFind", "done"}

(* Without interleaving: while CAN counts as initialised, the current      *)
(* channel is one that find_can_channel opened and nobody closed.          *)
InitialisedChannelIsOpen == ~interleave /\ Settled /\ is_can_initialised => can_channel \in open

(* Nor does an interface other than the current one stay open: every switch*)
(* and every removal closes the interface it leaves.                       *)
NoInterfaceLeaked == ~interleave /\ Settled => open \subseteq {can_channel}

(* An interface that is there is taken into use sooner or later, however   *)
(* often the hardware changed and the channel was switched.                *)
Reconnects == present # {} ~> (is_can_initialised \/ present = {} \/ ~is_running)

(* A removed interface does not stay the one in use.                       *)
RemovalIsNoticed ==
    (is_can_initialised /\ can_channel \notin present)
       ~> (~is_can_initialised \/ can_channel \in present \/ ~is_running)

Honoured(c) == \/ asked # c \/ ~is_running \/ pc # "idle" \/ c \notin present
               \/ is_can_initialised /\ can_channel = c /\ c \in open

(* A channel asked for while it is there becomes the open channel, or the  *)
(* failure is logged, or another one is asked for.                         *)
SwitchIsHonoured ==
    \A c \in Interfaces : (asked = c /\ is_running) ~> Honoured(c)

(* That holds of every switch that does not overlap the monitor's work.    *)
SwitchInTurnIsHonoured ==
    \A c \in Interfaces : (~interleave /\ asked = c /\ is_running) ~> Honoured(c)
=============================================================================
