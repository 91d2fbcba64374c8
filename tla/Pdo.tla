-------------------------------- MODULE Pdo --------------------------------
(***************************************************************************)
(* The scheduler of cyclic process data objects (src/src/core/pdo.c).      *)
(*                                                                         *)
(* A script or the command line calls pdo_add and pdo_del in the main      *)
(* thread.  They keep a table of PDO_MAX slots and one timer of the        *)
(* operating system layer per slot.  A single timer thread runs            *)
(* pdo_send_callback for one expired timer at a time; the callback reads   *)
(* the slot with no lock and hands a frame to can_write.                   *)
(*                                                                         *)
(* The fields of a slot are plain memory shared by both threads, so a      *)
(* build may perform the stores between two calls in any order, and the    *)
(* loads of the callback in any order: the models of both pick any field   *)
(* not yet written (read) as the next one.                                 *)
(***************************************************************************)
EXTENDS Integers, FiniteSets, PdoIds

CONSTANTS
    PDO_MAX,      \* number of slots (0x1f8 in pdo.h)
    MAX_LENGTH,   \* data bytes of a frame (8)
    Bytes,        \* the values of a data byte
    AddCalls,     \* the arguments callers pass to pdo_add
    DelCalls,     \* the CAN-IDs callers pass to pdo_del
    TimerIds,     \* the identifiers the timer service gives out
    NoTimer       \* what os_add_timer returns when it fails (0)

Slots    == 0 .. PDO_MAX - 1
Payloads == [0 .. MAX_LENGTH - 1 -> Bytes]     \* byte k is (data >> 8k) & 0xFF
Zeros    == [k \in 0 .. MAX_LENGTH - 1 |-> 0]

ASSUME PdoAssumption ==
    /\ PDO_MAX \in Nat \ {0}
    /\ MAX_LENGTH \in Nat \ {0} /\ MAX_LENGTH < 256
    /\ 0 \in Bytes
    /\ NoTimer \notin TimerIds
    /\ DelCalls \subseteq Nat
    /\ AddCalls \subseteq [can_id : Nat, event_time_ms : Nat,
                           length : Nat, data : Payloads]

VARIABLES
    pdo,      \* the table: one record per slot
    pc,       \* where the main thread is in pdo_add / pdo_del
    call,     \* the arguments of the call in progress
    slot,     \* i, the slot that call works on
    todo,     \* the fields of pdo[slot] it has still to store
    ret,      \* what the last call returned
    timers,   \* the live timers: the slot and interval of each
    cb        \* the callback the timer thread runs

vars == <<pdo, pc, call, slot, todo, ret, timers, cb>>

-----------------------------------------------------------------------------
UINT16 == {n \in Nat : n < 65536}

SlotFields == {"can_id", "length", "data"}

FreeSlot == [can_id |-> 0, length |-> 0, data |-> Zeros, id |-> NoTimer]

NoCall == [op |-> "none", can_id |-> 0, event_time_ms |-> 0,
           length |-> 0, data |-> Zeros]

(* What the callback has to load: length twice, as the length of the frame *)
(* and as the bound of the packing loop, and data once per byte.           *)
Loads     == {"can_id", "length", "count"}
ByteLoads == 0 .. MAX_LENGTH - 1

NothingLoaded == [can_id |-> 0, length |-> 0, count |-> 0, data |-> Zeros]

NoCallback == [timer |-> NoTimer, slot |-> 0, interval |-> 0,
               fields |-> {}, bytes |-> {}, seen |-> NothingLoaded, clean |-> TRUE]

(* The frame pdo_send_callback builds: big-endian, zero beyond count.      *)
Frame(seen) ==
    [can_id |-> seen.can_id,
     length |-> seen.length,
     data   |-> [i \in 0 .. MAX_LENGTH - 1 |->
                   IF i < seen.count THEN seen.data[seen.count - 1 - i] ELSE 0]]

Used(can_id) == {i \in Slots : pdo[i].can_id = can_id}
FirstOf(S)   == {i \in S : \A j \in S : i <= j}

Init ==
    /\ pdo = [i \in Slots |-> FreeSlot]
    /\ pc = "idle" /\ call = NoCall /\ slot = 0 /\ todo = {} /\ ret = TRUE
    /\ timers = [t \in {} |-> [slot |-> 0, interval |-> 0]]
    /\ cb = NoCallback

-----------------------------------------------------------------------------
(* The main thread.  A call converts its arguments to uint16 and uint8,    *)
(* checks the CAN-ID and clamps the length; pdo_add then deletes the PDO   *)
(* of that CAN-ID.                                                         *)

Return(value) ==
    /\ pc' = "idle" /\ call' = NoCall /\ slot' = 0 /\ todo' = {} /\ ret' = value

Begin(op, can_id, event_time_ms, length, data) ==
    IF pdo_is_id_valid(can_id)
    THEN /\ pc' = "find"
         /\ call' = [op |-> op, can_id |-> can_id, event_time_ms |-> event_time_ms,
                     length |-> length, data |-> data]
         /\ UNCHANGED <<slot, todo, ret>>
    ELSE Return(FALSE)

LengthAsGiven(c) == c.length % 256   \* mutant: the length is not clamped
ClampedLength(c) ==
    IF c.length % 256 > MAX_LENGTH THEN MAX_LENGTH ELSE c.length % 256

pdo_add ==
    /\ pc = "idle"
    /\ \E c \in AddCalls :
          Begin("add", c.can_id % 65536, c.event_time_ms, ClampedLength(c), c.data)
    /\ UNCHANGED <<pdo, timers, cb>>

pdo_del ==
    /\ pc = "idle"
    /\ \E can_id \in DelCalls : Begin("del", can_id % 65536, 0, 0, Zeros)
    /\ UNCHANGED <<pdo, timers, cb>>

(* mutant: pdo_add does not delete the PDO it replaces.                    *)
FindToDelete ==
    /\ pc = "find"
    /\ \/ /\ call.op = "del" /\ slot' \in FirstOf(Used(call.can_id))
          /\ pc' = "clear" /\ todo' = SlotFields
          /\ UNCHANGED <<call, ret>>
       \/ /\ call.op = "add"
          /\ pc' = "claim"
          /\ UNCHANGED <<call, slot, todo, ret>>
       \/ /\ Used(call.can_id) = {} /\ call.op = "del"
          /\ Return(TRUE)
    /\ UNCHANGED <<pdo, timers, cb>>

(* The first slot that holds the CAN-ID.  Only the main thread stores to   *)
(* the table, so its search is one step.  pdo_del reports success even     *)
(* when there is none; pdo_add ignores what it reports.                    *)
Find ==
    /\ pc = "find"
    /\ \/ /\ slot' \in FirstOf(Used(call.can_id))
          /\ pc' = "clear" /\ todo' = SlotFields
          /\ UNCHANGED <<call, ret>>
       \/ /\ Used(call.can_id) = {} /\ call.op = "add"
          /\ pc' = "claim"
          /\ UNCHANGED <<call, slot, todo, ret>>
       \/ /\ Used(call.can_id) = {} /\ call.op = "del"
          /\ Return(TRUE)
    /\ UNCHANGED <<pdo, timers, cb>>

(* A store to a field of a slot that a running callback is reading.        *)
Taint == cb' = [cb EXCEPT !.clean = @ /\ ~(cb.timer # NoTimer /\ cb.slot = slot)]

(* mutant: the CAN-ID is not cleared.                                      *)
ClearContents ==
    /\ pc = "clear"
    /\ \E f \in todo :
          /\ pdo' = IF f = "can_id" THEN pdo
                    ELSE [pdo EXCEPT ![slot] = [@ EXCEPT ![f] = FreeSlot[f]]]
          /\ todo' = todo \ {f}
    /\ Taint
    /\ UNCHANGED <<pc, call, slot, ret, timers>>

Clear ==
    /\ pc = "clear"
    /\ \E f \in todo :
          /\ pdo' = [pdo EXCEPT ![slot] = [@ EXCEPT ![f] = FreeSlot[f]]]
          /\ todo' = todo \ {f}
    /\ Taint
    /\ UNCHANGED <<pc, call, slot, ret, timers>>

(* mutant: the timer goes on.                                              *)
LeaveTimer ==
    /\ pc = "clear" /\ todo = {}
    /\ \/ call.op = "add" /\ pc' = "claim" /\ UNCHANGED <<call, slot, todo, ret>>
       \/ call.op = "del" /\ Return(TRUE)
    /\ pdo' = [pdo EXCEPT ![slot] = [@ EXCEPT !.id = NoTimer]]
    /\ UNCHANGED <<timers, cb>>

(* os_remove_timer: a callback of that timer that is already running is    *)
(* not stopped, but its timer does not start again.  Nothing reads the     *)
(* identifier a free slot keeps, so it is forgotten here.                  *)
RemoveTimer ==
    /\ pc = "clear" /\ todo = {}
    /\ timers' = [t \in DOMAIN timers \ {pdo[slot].id} |-> timers[t]]
    /\ \/ call.op = "add" /\ pc' = "claim" /\ UNCHANGED <<call, slot, todo, ret>>
       \/ call.op = "del" /\ Return(TRUE)
    /\ pdo' = [pdo EXCEPT ![slot] = [@ EXCEPT !.id = NoTimer]]
    /\ UNCHANGED cb

(* mutant: the search stops one slot early.                                *)
ClaimButLast ==
    LET free == Used(0) \ {PDO_MAX - 1} IN
    /\ pc = "claim"
    /\ \/ /\ slot' \in FirstOf(free)
          /\ pc' = "fill" /\ todo' = SlotFields
          /\ UNCHANGED <<call, ret>>
       \/ /\ free = {}
          /\ Return(FALSE)
    /\ UNCHANGED <<pdo, timers, cb>>

Claim ==
    /\ pc = "claim"
    /\ \/ /\ slot' \in FirstOf(Used(0))
          /\ pc' = "fill" /\ todo' = SlotFields
          /\ UNCHANGED <<call, ret>>
       \/ /\ Used(0) = {}
          /\ Return(FALSE)
    /\ UNCHANGED <<pdo, timers, cb>>

(* mutant: the data is not stored.                                         *)
FillHeader ==
    /\ pc = "fill"
    /\ \E f \in todo :
          /\ pdo' = IF f = "data" THEN pdo
                    ELSE [pdo EXCEPT ![slot] = [@ EXCEPT ![f] = call[f]]]
          /\ todo' = todo \ {f}
    /\ Taint
    /\ UNCHANGED <<pc, call, slot, ret, timers>>

Fill ==
    /\ pc = "fill"
    /\ \E f \in todo :
          /\ pdo' = [pdo EXCEPT ![slot] = [@ EXCEPT ![f] = call[f]]]
          /\ todo' = todo \ {f}
    /\ Taint
    /\ UNCHANGED <<pc, call, slot, ret, timers>>

(* os_add_timer gives an identifier no timer, slot or callback still uses  *)
(* (which one does not matter), or fails; pdo_add does not look at the     *)
(* difference.                                                             *)
FreshTimers == TimerIds \ (DOMAIN timers \cup {pdo[i].id : i \in Slots} \cup {cb.timer})

AddTimer ==
    /\ pc = "fill" /\ todo = {}
    /\ \/ /\ pdo' = [pdo EXCEPT ![slot] = [@ EXCEPT !.id = NoTimer]]
          /\ UNCHANGED timers
       \/ \E t \in {CHOOSE u \in FreshTimers : TRUE} \cap FreshTimers :
             /\ pdo' = [pdo EXCEPT ![slot] = [@ EXCEPT !.id = t]]
             /\ timers' = [u \in DOMAIN timers \cup {t} |->
                             IF u = t THEN [slot |-> slot, interval |-> call.event_time_ms]
                                      ELSE timers[u]]
    /\ Return(TRUE)
    /\ UNCHANGED cb

-----------------------------------------------------------------------------
(* The timer thread.  "clean" is a history variable: the slot was not      *)
(* being changed when the callback started and was not stored to since.    *)

TimerExpires(t) ==
    /\ cb.timer = NoTimer /\ t \in DOMAIN timers
    /\ cb' = [timer |-> t, slot |-> timers[t].slot, interval |-> timers[t].interval,
              fields |-> Loads, bytes |-> ByteLoads, seen |-> NothingLoaded,
              clean |-> ~(pc = "clear" /\ slot = timers[t].slot)]
    /\ UNCHANGED <<pdo, pc, call, slot, todo, ret, timers>>

LoadField ==
    /\ \E f \in cb.fields :
          cb' = [cb EXCEPT !.fields = @ \ {f},
                           !.seen[f] = pdo[cb.slot][IF f = "count" THEN "length" ELSE f]]
    /\ UNCHANGED <<pdo, pc, call, slot, todo, ret, timers>>

LoadByte ==
    /\ \E k \in cb.bytes :
          cb' = [cb EXCEPT !.bytes = @ \ {k}, !.seen.data[k] = pdo[cb.slot].data[k]]
    /\ UNCHANGED <<pdo, pc, call, slot, todo, ret, timers>>

(* mutant: the callback returns 0.                                         *)
SendOnce ==
    /\ cb.timer # NoTimer /\ cb.fields = {} /\ cb.bytes = {}
    /\ timers' = [t \in DOMAIN timers \ {cb.timer} |-> timers[t]]
    /\ cb' = NoCallback
    /\ UNCHANGED <<pdo, pc, call, slot, todo, ret>>

(* Frame(cb.seen) goes to can_write, whose result is ignored; the callback *)
(* returns its interval and the timer service drops the timer if that is 0.*)
SendFrame ==
    /\ cb.timer # NoTimer /\ cb.fields = {} /\ cb.bytes = {}
    /\ timers' = IF cb.interval = 0
                 THEN [t \in DOMAIN timers \ {cb.timer} |-> timers[t]]
                 ELSE timers
    /\ cb' = NoCallback
    /\ UNCHANGED <<pdo, pc, call, slot, todo, ret>>

MainReturns == Find \/ Clear \/ RemoveTimer \/ Claim \/ Fill \/ AddTimer
Callback    == LoadField \/ LoadByte \/ SendFrame

Next ==
    \/ pdo_add \/ pdo_del \/ Find \/ Clear \/ RemoveTimer \/ Claim \/ Fill \/ AddTimer
    \/ \E t \in TimerIds : TimerExpires(t)
    \/ LoadField \/ LoadByte \/ SendFrame

Spec == Init /\ [][Next]_vars

(* A call that has begun is run to its end, a callback too.  The timer     *)
(* service serves expired timers in the order of their deadlines, so no    *)
(* live timer waits for ever behind the others.                            *)
Fairness ==
    /\ WF_vars(MainReturns)
    /\ WF_vars(Callback)
    /\ \A t \in TimerIds : SF_vars(TimerExpires(t))

FairSpec == Spec /\ Fairness

-----------------------------------------------------------------------------
(* Properties.                                                             *)

(* Type invariant of the table, the call in progress and the timer thread. *)
SlotRecords == [can_id : UINT16, length : 0 .. MAX_LENGTH, data : Payloads,
                id : TimerIds \cup {NoTimer}]
Calls == [op : {"none", "add", "del"}, can_id : UINT16, event_time_ms : Nat,
          length : 0 .. MAX_LENGTH, data : Payloads]
Seen  == [can_id : UINT16, length : 0 .. MAX_LENGTH, count : 0 .. MAX_LENGTH,
          data : Payloads]
Callbacks == [timer : TimerIds \cup {NoTimer}, slot : Slots, interval : Nat,
              fields : SUBSET Loads, bytes : SUBSET ByteLoads,
              seen : Seen, clean : BOOLEAN]

TypeOK ==
    /\ pdo \in [Slots -> SlotRecords]
    /\ pc \in {"idle", "find", "clear", "claim", "fill"}
    /\ call \in Calls /\ slot \in Slots
    /\ todo \in SUBSET SlotFields /\ ret \in BOOLEAN
    /\ DOMAIN timers \subseteq TimerIds
    /\ \A t \in DOMAIN timers : timers[t] \in [slot : Slots, interval : Nat]
    /\ cb \in Callbacks

(* The slots the main thread is not changing.                              *)
Settled(i) == ~(pc \in {"clear", "fill"} /\ slot = i)

(* No CAN-ID is held by two slots: pdo_del clears the first match only, so *)
(* a second slot would go on sending after the PDO was deleted.            *)
OneSlotPerId ==
    \A i, j \in Slots : i # j /\ pdo[i].can_id # 0 => pdo[i].can_id # pdo[j].can_id

(* Every live timer is the timer of the slot it reads, and that slot is a  *)
(* PDO, or is the one pdo_del is about to take the timer from: no timer    *)
(* outlives its PDO and none is armed before its slot is complete.         *)
TimersBelongToSlots ==
    \A t \in DOMAIN timers :
        LET i == timers[t].slot IN
        /\ pdo[i].id = t
        /\ \/ Settled(i) /\ pdo[i].can_id # 0
           \/ pc = "clear" /\ slot = i

(* A callback no store overlapped hands on exactly the frame its slot      *)
(* describes, under the CAN-ID of a PDO.                                   *)
CleanFrameIsScheduled ==
    cb.timer # NoTimer /\ cb.fields = {} /\ cb.bytes = {} /\ cb.clean =>
        /\ pdo_is_id_valid(cb.seen.can_id)
        /\ Frame(cb.seen) =
              Frame([can_id |-> pdo[cb.slot].can_id, length |-> pdo[cb.slot].length,
                     count |-> pdo[cb.slot].length, data |-> pdo[cb.slot].data])

(* When pdo_del reports success no slot holds the CAN-ID, and no live      *)
(* timer can start a callback that would send it again.                    *)
DeletedPdoIsGone ==
    [][call.op = "del" /\ pc' = "idle" =>
          /\ \A i \in Slots : pdo'[i].can_id # call.can_id
          /\ \A t \in DOMAIN timers' : pdo'[timers'[t].slot].can_id # call.can_id]_vars

(* pdo_add succeeds by installing exactly the PDO it was given, and is     *)
(* refused only while PDO_MAX other CAN-IDs are scheduled: changing a PDO  *)
(* that exists never fails for want of a slot.                             *)
AddInstallsOrTableFull ==
    [][call.op = "add" /\ pc' = "idle" =>
          IF ret'
          THEN \E i \in Slots : \A f \in SlotFields : pdo'[i][f] = call[f]
          ELSE Cardinality({pdo[i].can_id : i \in Slots} \ {0, call.can_id}) = PDO_MAX]_vars

(* Seen from outside, the table is the map from CAN-IDs to PDOs of PdoMap: *)
(* the slots that hold a PDO and that no call is changing.                 *)
Complete == {i \in Slots : pdo[i].can_id # 0 /\ Settled(i)}
SlotOf(id) == CHOOSE i \in Complete : pdo[i].can_id = id
Scheduled == [id \in {pdo[i].can_id : i \in Complete} |->
                [length |-> pdo[SlotOf(id)].length, data |-> pdo[SlotOf(id)].data]]

AskedIds      == {id \in {c.can_id % 65536 : c \in AddCalls} : pdo_is_id_valid(id)}
AskedContents == {[length |-> ClampedLength(c), data |-> c.data] : c \in AddCalls}

Map == INSTANCE PdoMap WITH Ids <- AskedIds, Capacity <- PDO_MAX,
                            Contents <- AskedContents, sched <- Scheduled

(* The table implements the map: every step of a call adds one PDO, drops  *)
(* one, or is not seen at all, and no other PDO is touched.                *)
ImplementsMap == Map!Spec

(* A PDO that stays in the table with the timer it was given is sent again *)
(* and again, whatever the main thread does to the others.                 *)
Cyclic(id) == \E i \in Slots : pdo[i].can_id = id /\ pdo[i].id # NoTimer
Sends(id)  == SendFrame /\ cb.seen.can_id = id

CyclicPdoKeepsBeingSent ==
    \A id \in AskedIds :
        <>[]Cyclic(id) => []<><<Sends(id)>>_vars

(* What test_pdo.c says of CAN-ID 0: it is not the CAN-ID of a PDO.  Every *)
(* frame the callback sends has the CAN-ID of a PDO.                       *)
FramesHaveValidIds == [][SendFrame => pdo_is_id_valid(cb.seen.can_id)]_vars
=============================================================================
