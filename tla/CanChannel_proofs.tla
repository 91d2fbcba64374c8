------------------------- MODULE CanChannel_proofs -------------------------
(***************************************************************************)
(* Proofs about CanChannel for every number of interfaces, switches and    *)
(* changes of the hardware: while the main thread works only during the    *)
(* delays of the monitor, the current channel is the one that is open.     *)
(***************************************************************************)
EXTENDS CanChannel, TLAPS

(* Without interleaving one of the threads is always at rest.              *)
OneWorks == interleave \/ pc = "idle" \/ mpc \in {"delay", "delayFind", "done"}

(* CAN is not initialised from the time find_can_channel is entered until  *)
(* an interface is open, nor between the two halves of can_deinit; the     *)
(* interface is looked after only while it is.                             *)
FlagFits ==
    /\ mpc \in {"find", "open", "fail", "flag", "close"} => ~is_can_initialised
    /\ mpc \in {"store", "update", "deinit"} => is_can_initialised
    /\ pc \in {"close", "set", "request"} => ~is_can_initialised
    /\ pc = "deinit" => is_can_initialised

(* The interfaces that are open: the one find_can_channel opened and did   *)
(* not store yet, the one can_deinit closes next, or that of the flag.     *)
OpenFits ==
    open = CASE mpc \in {"flag", "store"} -> {ch}
             [] mpc = "close" \/ pc = "close" -> {can_channel}
             [] OTHER -> IF is_can_initialised THEN {can_channel} ELSE {}

InTurn == ~interleave => FlagFits /\ OpenFits

(* The locals are set while they are needed.                               *)
LocalsSet ==
    /\ mpc \in {"open", "flag", "store", "fail"} => ch \in Interfaces
    /\ pc \in {"set", "request"} => target \in Interfaces
    /\ pc \in {"deinit", "close"} /\ is_running => target \in Interfaces

Typed == TypeOK /\ LocalsSet
IInv  == Typed /\ OneWorks /\ InTurn

-----------------------------------------------------------------------------
(* The search wraps around: every index is an interface.                   *)
LEMMA RemainderIsSmaller ==
    ASSUME NEW n \in Nat, NEW m \in Nat \ {0}
    PROVE  n % m \in 0 .. m - 1
  OBVIOUS

LEMMA WrapsAround ==
    ASSUME can_channel \in Interfaces, i \in Interfaces
    PROVE  (can_channel + i) % CAN_MAX_INTERFACES \in Interfaces
<1>1. can_channel + i \in Nat /\ CAN_MAX_INTERFACES \in Nat \ {0}
  BY ChannelAssumption DEF Interfaces
<1> QED
  BY <1>1, RemainderIsSmaller DEF Interfaces

LEMMA InitEstablishes == Init => IInv
<1> SUFFICES ASSUME Init PROVE IInv
  OBVIOUS
<1> USE ChannelAssumption DEF Init
<1>1. Typed
  <2>1. {is_can_initialised, set_can_channel, is_running} \subseteq BOOLEAN
    OBVIOUS
  <2>2. can_channel \in Interfaces /\ i \in Interfaces
    BY DEF Interfaces
  <2>3. requests \in 0 .. MaxRequests /\ plugs \in 0 .. MaxPlugs
    OBVIOUS
  <2> QED
    BY <2>1, <2>2, <2>3 DEF Typed, TypeOK, LocalsSet
<1>2. OneWorks
  BY DEF OneWorks
<1>3. FlagFits /\ OpenFits
  BY DEF FlagFits, OpenFits
<1> QED
  BY <1>1, <1>2, <1>3 DEF IInv, InTurn

-----------------------------------------------------------------------------
(* Types are kept, whatever is interleaved.                                 *)
LEMMA TypeStep == Typed /\ [Next]_vars => Typed'
<1> SUFFICES ASSUME Typed, [Next]_vars PROVE Typed'
  OBVIOUS
<1> USE DEF Typed, TypeOK, LocalsSet, core, monitor, main, bus
<1>1. CASE Monitor
  <2> USE DEF MonitorAt, MonitorTo
  <2>1. CASE ChooseChannel
    BY <2>1, WrapsAround DEF ChooseChannel
  <2>2. CASE can_open
    BY <2>2 DEF can_open
  <2>3. CASE SetInitialised
    BY <2>3 DEF SetInitialised
  <2>4. CASE FoundChannel
    <3>1. can_channel' \in Interfaces /\ i' \in Interfaces
      BY <2>4, ChannelAssumption DEF FoundChannel, Interfaces
    <3> QED
      BY <3>1, <2>4 DEF FoundChannel
  <2>5. CASE OpenFailed
    <3>1. i' \in Interfaces
      BY <2>5, ChannelAssumption DEF OpenFailed, Interfaces
    <3> QED
      BY <3>1, <2>5 DEF OpenFailed
  <2>6. CASE TestRunning
    BY <2>6 DEF TestRunning
  <2>7. CASE TestInitialised
    BY <2>7 DEF TestInitialised
  <2>8. CASE can_update
    BY <2>8 DEF can_update
  <2>9. CASE MonitorDeinit
    BY <2>9 DEF MonitorDeinit
  <2>10. CASE MonitorClose
    BY <2>10 DEF MonitorClose
  <2>11. CASE os_delay
    BY <2>11 DEF os_delay
  <2> QED
    BY <1>1, <2>1, <2>2, <2>3, <2>4, <2>5, <2>6, <2>7, <2>8, <2>9, <2>10, <2>11 DEF Monitor
<1>2. CASE Main
  <2>1. ASSUME NEW c \in Interfaces, can_set_channel(c) PROVE Typed'
    <3>1. requests' \in 0 .. MaxRequests
      BY <2>1, ChannelAssumption DEF can_set_channel
    <3> QED
      BY <3>1, <2>1 DEF can_set_channel
  <2>2. CASE can_quit
    BY <2>2 DEF can_quit
  <2>3. CASE MainDeinit
    BY <2>3 DEF MainDeinit
  <2>4. CASE MainClose
    BY <2>4 DEF MainClose
  <2>5. CASE StoreChannel
    BY <2>5 DEF StoreChannel
  <2>6. CASE RequestChannel
    BY <2>6 DEF RequestChannel
  <2> QED
    BY <1>2, <2>1, <2>2, <2>3, <2>4, <2>5, <2>6 DEF Main, MainStep
<1>3. CASE Hardware
  <2>1. plugs' \in 0 .. MaxPlugs
    BY <1>3, ChannelAssumption DEF Hardware
  <2> QED
    BY <2>1, <1>3 DEF Hardware
<1>4. CASE UNCHANGED vars
  BY <1>4 DEF vars
<1> QED
  BY <1>1, <1>2, <1>3, <1>4 DEF Next

(* Every reachable state of both threads has the declared types: the index *)
(* of find_can_channel never leaves the interfaces there are.              *)
THEOREM TypeCorrect == Spec => []TypeOK
<1>1. Init => Typed
  BY InitEstablishes DEF IInv
<1>2. Typed => TypeOK
  BY DEF Typed
<1> QED
  BY <1>1, <1>2, TypeStep, PTL DEF Spec

-----------------------------------------------------------------------------
(* The threads take turns: the main thread starts while the monitor is at  *)
(* rest, and the monitor goes on when it has ended.                        *)
LEMMA OneWorksStep == IInv /\ [Next]_vars => OneWorks'
<1> SUFFICES ASSUME IInv, [Next]_vars PROVE OneWorks'
  OBVIOUS
<1> USE DEF IInv, OneWorks, core, monitor, main, bus
<1>1. CASE Monitor
  BY <1>1 DEF Monitor, MonitorAt, MonitorTo, ChooseChannel, can_open, SetInitialised,
              FoundChannel, OpenFailed, TestRunning, TestInitialised, can_update,
              MonitorDeinit, MonitorClose, os_delay
<1>2. CASE Main
  BY <1>2 DEF Main, MainStep, MainMayStart, can_set_channel, can_quit, MainDeinit, MainClose,
              StoreChannel, RequestChannel
<1>3. CASE Hardware
  BY <1>3 DEF Hardware
<1>4. CASE UNCHANGED vars
  BY <1>4 DEF vars
<1> QED
  BY <1>1, <1>2, <1>3, <1>4 DEF Next

(* Each step keeps the flag and the open interface with the place of the   *)
(* thread that works.                                                      *)
LEMMA InTurnStep == IInv /\ [Next]_vars => InTurn'
<1> SUFFICES ASSUME IInv, [Next]_vars, ~interleave' PROVE FlagFits' /\ OpenFits'
  BY DEF InTurn
<1> USE DEF core, monitor, main, bus
<1>1. ~interleave
  BY DEF Next, Monitor, ChooseChannel, can_open, SetInitialised, FoundChannel, OpenFailed,
         TestRunning, TestInitialised, can_update, MonitorDeinit, MonitorClose, os_delay,
         Main, MainStep, can_set_channel, can_quit, MainDeinit, MainClose, StoreChannel,
         RequestChannel, Hardware, vars
<1>2. OneWorks /\ FlagFits /\ OpenFits /\ is_can_initialised \in BOOLEAN
  BY <1>1 DEF IInv, InTurn, Typed, TypeOK
<1> USE <1>1, <1>2 DEF OneWorks, FlagFits, OpenFits
<1>3. CASE Monitor
  <2> USE DEF MonitorAt, MonitorTo
  <2>1. CASE ChooseChannel
    BY <2>1 DEF ChooseChannel
  <2>2. CASE can_open
    BY <2>2 DEF can_open
  <2>3. CASE SetInitialised
    BY <2>3 DEF SetInitialised
  <2>4. CASE FoundChannel
    <3>1. back \in {"loop", "delayFind"}
      BY DEF IInv, Typed, TypeOK
    <3> QED
      BY <2>4, <3>1 DEF FoundChannel
  <2>5. CASE OpenFailed
    <3>1. back \in {"loop", "delayFind"}
      BY DEF IInv, Typed, TypeOK
    <3> QED
      BY <2>5, <3>1 DEF OpenFailed
  <2>6. CASE TestRunning
    BY <2>6 DEF TestRunning
  <2>7. CASE TestInitialised
    BY <2>7 DEF TestInitialised
  <2>8. CASE can_update
    BY <2>8 DEF can_update
  <2>9. CASE MonitorDeinit
    BY <2>9 DEF MonitorDeinit
  <2>10. CASE MonitorClose
    BY <2>10 DEF MonitorClose
  <2>11. CASE os_delay
    BY <2>11 DEF os_delay
  <2> QED
    BY <1>3, <2>1, <2>2, <2>3, <2>4, <2>5, <2>6, <2>7, <2>8, <2>9, <2>10, <2>11 DEF Monitor
<1>4. CASE Main
  <2>1. ASSUME NEW c \in Interfaces, can_set_channel(c) PROVE FlagFits' /\ OpenFits'
    BY <2>1 DEF can_set_channel, MainMayStart
  <2>2. CASE can_quit
    BY <2>2 DEF can_quit, MainMayStart
  <2>3. CASE MainDeinit
    BY <2>3 DEF MainDeinit
  <2>4. CASE MainClose
    BY <2>4 DEF MainClose
  <2>5. CASE StoreChannel
    BY <2>5 DEF StoreChannel
  <2>6. CASE RequestChannel
    BY <2>6 DEF RequestChannel
  <2> QED
    BY <1>4, <2>1, <2>2, <2>3, <2>4, <2>5, <2>6 DEF Main, MainStep
<1>5. CASE Hardware
  BY <1>5 DEF Hardware
<1>6. CASE UNCHANGED vars
  BY <1>6 DEF vars
<1> QED
  BY <1>3, <1>4, <1>5, <1>6 DEF Next

LEMMA IInvAlways == Spec => []IInv
<1>1. IInv /\ [Next]_vars => IInv'
  BY TypeStep, OneWorksStep, InTurnStep DEF IInv
<1> QED
  BY <1>1, InitEstablishes, PTL DEF Spec

-----------------------------------------------------------------------------
(* For every number of interfaces, switches and changes of the hardware,   *)
(* the channel of core_t is open while CAN counts as initialised, if the   *)
(* main thread runs only during the delays of can_monitor.                 *)
THEOREM ChannelIsOpen == Spec => []InitialisedChannelIsOpen
<1>1. IInv => InitialisedChannelIsOpen
  BY DEF IInv, InTurn, FlagFits, OpenFits, InitialisedChannelIsOpen, Settled
<1> QED
  BY <1>1, IInvAlways, PTL

(* And no other interface is: can_deinit closes the one it leaves before   *)
(* can_channel changes.                                                    *)
THEOREM NoneLeaked == Spec => []NoInterfaceLeaked
<1>1. IInv => NoInterfaceLeaked
  BY DEF IInv, InTurn, FlagFits, OpenFits, NoInterfaceLeaked, Settled
<1> QED
  BY <1>1, IInvAlways, PTL
=============================================================================
