----------------------------- MODULE Pdo_proofs -----------------------------
(***************************************************************************)
(* Proofs about Pdo for every number of slots, frame length, set of        *)
(* callers' arguments and set of timer identifiers.                        *)
(*                                                                         *)
(* The inductive invariant IInv adds to the properties what the main       *)
(* thread knows at each point of a call (CallInv) and how far a callback   *)
(* that no store overlapped has copied its slot (CallbackInv).  From it    *)
(* also that the table implements the map of PdoMap, and that an add is    *)
(* refused only for want of room.                                          *)
(***************************************************************************)
EXTENDS Pdo, FiniteSetTheorems, TLAPS

(* A slot holds 0 or the CAN-ID of a PDO.                                  *)
SlotIdsValid == \A i \in Slots : pdo[i].can_id = 0 \/ pdo_is_id_valid(pdo[i].can_id)

(* Once its slot is found, no other slot holds the CAN-ID of the call.     *)
CallInv ==
    /\ pc = "idle" => call = NoCall
    /\ pc # "idle" => pdo_is_id_valid(call.can_id) /\ call.op \in {"add", "del"}
    /\ pc \in {"claim", "fill"} => call.op = "add"
    /\ pc = "claim" => \A j \in Slots : pdo[j].can_id # call.can_id
    /\ pc \in {"clear", "fill"} =>
          \A j \in Slots \ {slot} : pdo[j].can_id # call.can_id
    /\ pc = "clear" =>
          pdo[slot].can_id = IF "can_id" \in todo THEN call.can_id ELSE 0
    /\ pc = "fill" =>
          /\ pdo[slot].can_id = IF "can_id" \in todo THEN 0 ELSE call.can_id
          /\ \A f \in SlotFields \ todo : pdo[slot][f] = call[f]

(* What a clean callback has loaded is what its slot, still a PDO, holds.  *)
CallbackInv ==
    cb.timer # NoTimer /\ cb.clean =>
        LET s == pdo[cb.slot] IN
        /\ s.can_id # 0
        /\ pc = "fill" => slot # cb.slot
        /\ "can_id" \notin cb.fields => cb.seen.can_id = s.can_id
        /\ "length" \notin cb.fields => cb.seen.length = s.length
        /\ "count"  \notin cb.fields => cb.seen.count  = s.length
        /\ \A k \in ByteLoads \ cb.bytes : cb.seen.data[k] = s.data[k]

IInv ==
    /\ TypeOK
    /\ SlotIdsValid
    /\ OneSlotPerId
    /\ TimersBelongToSlots
    /\ CallInv
    /\ CallbackInv

-----------------------------------------------------------------------------
(* A conversion to uint16.                                                 *)
LEMMA UINT16Conversion == 0 \in UINT16 /\ \A n \in Nat : n % 65536 \in UINT16
<1>1. ASSUME NEW n \in Nat PROVE n % 65536 \in Nat /\ n % 65536 < 65536
  OBVIOUS
<1> QED
  BY <1>1 DEF UINT16

(* The records of the idle state are well typed.                           *)
LEMMA IdleTypes ==
    /\ Zeros \in Payloads
    /\ FreeSlot \in SlotRecords
    /\ NoCall \in Calls
    /\ 0 \in Slots
    /\ NothingLoaded \in Seen
    /\ NoCallback \in Callbacks
<1>1. 0 \in 0 .. MAX_LENGTH /\ 0 \in Slots /\ 0 \in UINT16
  BY PdoAssumption, UINT16Conversion DEF Slots
<1>2. Zeros \in Payloads
  BY PdoAssumption DEF Zeros, Payloads
<1>3. FreeSlot \in SlotRecords /\ NoCall \in Calls /\ NothingLoaded \in Seen
  BY <1>1, <1>2 DEF FreeSlot, SlotRecords, NoCall, Calls, NothingLoaded, Seen
<1>4. NoCallback \in Callbacks
  BY <1>1, <1>3 DEF NoCallback, Callbacks
<1> QED
  BY <1>1, <1>2, <1>3, <1>4

(* A call converts the arguments it is given to the types of the table.    *)
LEMMA ArgumentTypes ==
    ASSUME NEW c \in AddCalls
    PROVE  /\ c.can_id % 65536 \in UINT16
           /\ c.event_time_ms \in Nat
           /\ ClampedLength(c) \in 0 .. MAX_LENGTH
           /\ c.data \in Payloads
  <1>1. c.can_id \in Nat /\ c.length \in Nat
    BY PdoAssumption
  <1>2. ClampedLength(c) \in 0 .. MAX_LENGTH
    BY <1>1, PdoAssumption DEF ClampedLength
  <1>3. c.event_time_ms \in Nat /\ c.data \in Payloads
    BY PdoAssumption
  <1>4. c.can_id % 65536 \in UINT16
    BY <1>1, UINT16Conversion
  <1> QED
    BY <1>2, <1>3, <1>4

(* The step that begins a call, whatever its arguments.                    *)
LEMMA BeginType ==
    ASSUME TypeOK, NEW op \in {"add", "del"}, NEW id \in UINT16, NEW time \in Nat,
           NEW length \in 0 .. MAX_LENGTH, NEW data \in Payloads,
           Begin(op, id, time, length, data), UNCHANGED <<pdo, timers, cb>>
    PROVE  TypeOK'
<1> USE DEF TypeOK
<1>1. CASE pdo_is_id_valid(id)
  <2>1. [op |-> op, can_id |-> id, event_time_ms |-> time,
         length |-> length, data |-> data] \in Calls
    BY DEF Calls
  <2> QED
    BY <1>1, <2>1 DEF Begin
<1>2. CASE ~pdo_is_id_valid(id)
  BY <1>2, IdleTypes DEF Begin, Return
<1> QED
  BY <1>1, <1>2

(* The initial state is well typed.                                        *)
LEMMA TypeInit == Init => TypeOK
  BY IdleTypes DEF Init, TypeOK

(* Every step keeps the types.                                             *)
LEMMA TypeStep == TypeOK /\ [Next]_vars => TypeOK'
<1> SUFFICES ASSUME TypeOK, [Next]_vars PROVE TypeOK'
  OBVIOUS
<1> USE DEF TypeOK
<1>1. ASSUME pdo_add PROVE TypeOK'
  <2>1. PICK c \in AddCalls :
           Begin("add", c.can_id % 65536, c.event_time_ms, ClampedLength(c), c.data)
    BY <1>1 DEF pdo_add
  <2> QED
    BY <1>1, <2>1, ArgumentTypes, BeginType DEF pdo_add
<1>2. ASSUME pdo_del PROVE TypeOK'
  <2>1. PICK can_id \in DelCalls : Begin("del", can_id % 65536, 0, 0, Zeros)
    BY <1>2 DEF pdo_del
  <2>2. can_id % 65536 \in UINT16 /\ 0 \in 0 .. MAX_LENGTH
    BY PdoAssumption, UINT16Conversion
  <2> QED
    BY <1>2, <2>1, <2>2, IdleTypes, BeginType DEF pdo_del
<1>3. ASSUME Find PROVE TypeOK'
  BY <1>3, IdleTypes DEF Find, Return, FirstOf, Used
<1>4. ASSUME Clear PROVE TypeOK'
  <2>1. PICK f \in todo : pdo' = [pdo EXCEPT ![slot] = [@ EXCEPT ![f] = FreeSlot[f]]]
    BY <1>4 DEF Clear
  <2>2. [pdo[slot] EXCEPT ![f] = FreeSlot[f]] \in SlotRecords
    BY <2>1, IdleTypes DEF SlotRecords, SlotFields, FreeSlot
  <2>3. cb' \in Callbacks
    BY <1>4 DEF Clear, Taint, Callbacks
  <2> QED
    BY <1>4, <2>1, <2>2, <2>3 DEF Clear
<1>5. ASSUME RemoveTimer PROVE TypeOK'
  <2>1. [pdo[slot] EXCEPT !.id = NoTimer] \in SlotRecords
    BY DEF SlotRecords
  <2> QED
    BY <1>5, <2>1, IdleTypes DEF RemoveTimer, Return
<1>6. ASSUME Claim PROVE TypeOK'
  BY <1>6, IdleTypes DEF Claim, Return, FirstOf, Used
<1>7. ASSUME Fill PROVE TypeOK'
  <2>1. PICK f \in todo : pdo' = [pdo EXCEPT ![slot] = [@ EXCEPT ![f] = call[f]]]
    BY <1>7 DEF Fill
  <2>2. [pdo[slot] EXCEPT ![f] = call[f]] \in SlotRecords
    BY <2>1 DEF SlotRecords, SlotFields, Calls
  <2>3. cb' \in Callbacks
    BY <1>7 DEF Fill, Taint, Callbacks
  <2> QED
    BY <1>7, <2>1, <2>2, <2>3 DEF Fill
<1>8. ASSUME AddTimer PROVE TypeOK'
  <2>1. ASSUME NEW t \in TimerIds \cup {NoTimer}
        PROVE  [pdo[slot] EXCEPT !.id = t] \in SlotRecords
    BY DEF SlotRecords
  <2>2. CASE UNCHANGED timers /\ pdo' = [pdo EXCEPT ![slot] = [@ EXCEPT !.id = NoTimer]]
    BY <1>8, <2>1, <2>2, IdleTypes DEF AddTimer, Return
  <2>3. ASSUME NEW t \in FreshTimers,
               pdo' = [pdo EXCEPT ![slot] = [@ EXCEPT !.id = t]],
               timers' = [u \in DOMAIN timers \cup {t} |->
                            IF u = t THEN [slot |-> slot, interval |-> call.event_time_ms]
                                     ELSE timers[u]]
        PROVE  TypeOK'
    <3>1. t \in TimerIds
      BY DEF FreshTimers
    <3>2. call.event_time_ms \in Nat
      BY DEF Calls
    <3> QED
      BY <1>8, <2>1, <2>3, <3>1, <3>2, IdleTypes DEF AddTimer, Return
  <2> QED
    BY <1>8, <2>2, <2>3 DEF AddTimer
<1>9. ASSUME NEW t \in TimerIds, TimerExpires(t) PROVE TypeOK'
  <2>1. cb' \in Callbacks
    BY <1>9, IdleTypes DEF TimerExpires, Callbacks
  <2> QED
    BY <1>9, <2>1 DEF TimerExpires
<1>10. ASSUME LoadField PROVE TypeOK'
  <2>1. PICK f \in cb.fields :
          cb' = [cb EXCEPT !.fields = @ \ {f},
                           !.seen[f] = pdo[cb.slot][IF f = "count" THEN "length" ELSE f]]
    BY <1>10 DEF LoadField
  <2>2. pdo[cb.slot] \in SlotRecords /\ f \in Loads
    BY <2>1 DEF Callbacks
  <2>3. [cb.seen EXCEPT ![f] = pdo[cb.slot][IF f = "count" THEN "length" ELSE f]] \in Seen
    BY <2>2 DEF Callbacks, Seen, SlotRecords, Loads
  <2>4. cb' \in Callbacks
    BY <2>1, <2>3 DEF Callbacks
  <2> QED
    BY <1>10, <2>4 DEF LoadField
<1>11. ASSUME LoadByte PROVE TypeOK'
  <2>1. PICK k \in cb.bytes :
          cb' = [cb EXCEPT !.bytes = @ \ {k}, !.seen.data[k] = pdo[cb.slot].data[k]]
    BY <1>11 DEF LoadByte
  <2>2. pdo[cb.slot] \in SlotRecords /\ k \in ByteLoads
    BY <2>1 DEF Callbacks
  <2>3. [cb.seen.data EXCEPT ![k] = pdo[cb.slot].data[k]] \in Payloads
    BY <2>2 DEF Callbacks, Seen, SlotRecords, Payloads, ByteLoads
  <2>4. [cb.seen EXCEPT !.data = [@ EXCEPT ![k] = pdo[cb.slot].data[k]]] \in Seen
    BY <2>3 DEF Callbacks, Seen
  <2>5. cb' \in Callbacks
    BY <2>1, <2>4 DEF Callbacks
  <2> QED
    BY <1>11, <2>5 DEF LoadByte
<1>12. ASSUME SendFrame PROVE TypeOK'
  BY <1>12, IdleTypes DEF SendFrame
<1>13. CASE UNCHANGED vars
  BY <1>13 DEF vars
<1> QED
  BY <1>1, <1>2, <1>3, <1>4, <1>5, <1>6, <1>7, <1>8, <1>9, <1>10, <1>11, <1>12, <1>13
     DEF Next

(* The types hold of every reachable state.                                *)
THEOREM TypeCorrect == Spec => []TypeOK
  BY TypeInit, TypeStep, PTL DEF Spec

-----------------------------------------------------------------------------
(* What the steps that store to the table change.                          *)

(* A store replaces one field the call has still to write.                 *)
StoreEffect(value) ==
    \E f \in todo :
        /\ f \in SlotFields
        /\ todo' = todo \ {f}
        /\ \A i \in Slots \ {slot} : pdo'[i] = pdo[i]
        /\ pdo'[slot].id = pdo[slot].id
        /\ pdo'[slot][f] = value[f]
        /\ \A g \in SlotFields \ {f} : pdo'[slot][g] = pdo[slot][g]

(* Storing one field of pdo[slot] leaves all the other fields alone.       *)
LEMMA StoreOne ==
    ASSUME TypeOK, NEW f \in SlotFields, NEW v, NEW i \in Slots,
           pdo' = [pdo EXCEPT ![slot] = [@ EXCEPT ![f] = v]]
    PROVE  /\ i # slot => pdo'[i] = pdo[i]
           /\ pdo'[slot].id = pdo[slot].id
           /\ pdo'[slot][f] = v
           /\ \A g \in SlotFields \ {f} : pdo'[slot][g] = pdo[slot][g]
<1>1. pdo'[slot] = [pdo[slot] EXCEPT ![f] = v] /\ (i # slot => pdo'[i] = pdo[i])
  BY DEF TypeOK
<1>2. pdo[slot] \in SlotRecords
  BY DEF TypeOK
<1> QED
  BY <1>1, <1>2 DEF SlotRecords, SlotFields

(* A step of Clear stores one field of a free slot.                        *)
LEMMA ClearEffect == TypeOK /\ Clear => StoreEffect(FreeSlot)
<1> SUFFICES ASSUME TypeOK, Clear PROVE StoreEffect(FreeSlot)
  OBVIOUS
<1>1. PICK f \in todo : /\ pdo' = [pdo EXCEPT ![slot] = [@ EXCEPT ![f] = FreeSlot[f]]]
                        /\ todo' = todo \ {f}
  BY DEF Clear
<1>2. f \in SlotFields /\ slot \in Slots
  BY DEF TypeOK
<1>3. \A i \in Slots : i # slot => pdo'[i] = pdo[i]
  BY <1>1, <1>2, StoreOne
<1> QED
  BY <1>1, <1>2, <1>3, StoreOne DEF StoreEffect

(* A step of Fill stores one field of the call.                            *)
LEMMA FillEffect == TypeOK /\ Fill => StoreEffect(call)
<1> SUFFICES ASSUME TypeOK, Fill PROVE StoreEffect(call)
  OBVIOUS
<1>1. PICK f \in todo : /\ pdo' = [pdo EXCEPT ![slot] = [@ EXCEPT ![f] = call[f]]]
                        /\ todo' = todo \ {f}
  BY DEF Fill
<1>2. f \in SlotFields /\ slot \in Slots
  BY DEF TypeOK
<1>3. \A i \in Slots : i # slot => pdo'[i] = pdo[i]
  BY <1>1, <1>2, StoreOne
<1> QED
  BY <1>1, <1>2, <1>3, StoreOne DEF StoreEffect

(* Giving a slot a timer, or taking it away, leaves its PDO as it was.     *)
IdEffect(t) ==
    /\ \A i \in Slots \ {slot} : pdo'[i] = pdo[i]
    /\ pdo'[slot].id = t
    /\ \A g \in SlotFields : pdo'[slot][g] = pdo[slot][g]

(* Storing the timer of pdo[slot] leaves what is sent alone.               *)
LEMMA StoreId ==
    ASSUME TypeOK, NEW t, pdo' = [pdo EXCEPT ![slot] = [@ EXCEPT !.id = t]]
    PROVE  IdEffect(t)
<1>1. pdo'[slot] = [pdo[slot] EXCEPT !.id = t] /\ \A i \in Slots \ {slot} : pdo'[i] = pdo[i]
  BY DEF TypeOK
<1>2. pdo[slot] \in SlotRecords
  BY DEF TypeOK
<1> QED
  BY <1>1, <1>2 DEF SlotRecords, SlotFields, IdEffect

(* No other step stores to the table.                                      *)
LEMMA TableUnchanged ==
    [Next]_vars => \/ UNCHANGED pdo \/ Clear \/ Fill \/ RemoveTimer \/ AddTimer
<1>1. pdo_add => UNCHANGED pdo
  BY DEF pdo_add
<1>2. pdo_del => UNCHANGED pdo
  BY DEF pdo_del
<1>3. Find => UNCHANGED pdo
  BY DEF Find
<1>4. Claim => UNCHANGED pdo
  BY DEF Claim
<1>5. (\E t \in TimerIds : TimerExpires(t)) \/ LoadField \/ LoadByte \/ SendFrame => UNCHANGED pdo
  BY DEF TimerExpires, LoadField, LoadByte, SendFrame
<1>6. UNCHANGED vars => UNCHANGED pdo
  BY DEF vars
<1> QED
  BY <1>1, <1>2, <1>3, <1>4, <1>5, <1>6 DEF Next

(* 0, the CAN-ID of a free slot, is not the CAN-ID of a PDO.               *)
LEMMA ZeroIsNoPdo == ~pdo_is_id_valid(0)
  BY DEF pdo_is_id_valid

-----------------------------------------------------------------------------
(* The empty table satisfies the invariant.                                *)
LEMMA IInvInit == Init => IInv
<1> SUFFICES ASSUME Init PROVE IInv
  OBVIOUS
<1>1. TypeOK
  BY TypeInit
<1>2. SlotIdsValid /\ OneSlotPerId
  BY DEF Init, FreeSlot, SlotIdsValid, OneSlotPerId
<1>3. TimersBelongToSlots
  BY DEF Init, TimersBelongToSlots
<1>4. CallInv /\ CallbackInv
  BY DEF Init, CallInv, CallbackInv, NoCallback
<1> QED
  BY <1>1, <1>2, <1>3, <1>4 DEF IInv

(* Only CAN-IDs of PDOs are stored.                                        *)
LEMMA SlotIdsStep == IInv /\ [Next]_vars => SlotIdsValid'
<1> SUFFICES ASSUME IInv, [Next]_vars PROVE SlotIdsValid'
  OBVIOUS
<1> USE DEF IInv, SlotIdsValid
<1>1. CASE UNCHANGED pdo
  BY <1>1
<1>2. CASE Clear
  <2>1. StoreEffect(FreeSlot)
    BY <1>2, ClearEffect
  <2>2. FreeSlot.can_id = 0 /\ "can_id" \in SlotFields
    BY DEF FreeSlot, SlotFields
  <2> QED
    BY <2>1, <2>2 DEF StoreEffect
<1>3. CASE Fill
  <2>1. StoreEffect(call)
    BY <1>3, FillEffect
  <2>2. pdo_is_id_valid(call.can_id) /\ "can_id" \in SlotFields
    BY <1>3 DEF Fill, CallInv, SlotFields
  <2> QED
    BY <2>1, <2>2 DEF StoreEffect
<1>4. CASE RemoveTimer \/ AddTimer
  <2>1. \E t : IdEffect(t)
    BY <1>4, StoreId DEF RemoveTimer, AddTimer
  <2>2. "can_id" \in SlotFields
    BY DEF SlotFields
  <2> QED
    BY <2>1, <2>2 DEF IdEffect
<1> QED
  BY <1>1, <1>2, <1>3, <1>4, TableUnchanged

(* pdo_add fills a slot only after no other holds its CAN-ID.              *)
LEMMA OneSlotStep == IInv /\ [Next]_vars => OneSlotPerId'
<1> SUFFICES ASSUME IInv, [Next]_vars,
                    NEW i \in Slots, NEW j \in Slots, i # j, pdo'[i].can_id # 0
             PROVE  pdo'[i].can_id # pdo'[j].can_id
  BY DEF OneSlotPerId
<1> USE DEF IInv, OneSlotPerId
<1>1. CASE UNCHANGED pdo
  BY <1>1
<1>2. CASE Clear
  <2>1. StoreEffect(FreeSlot)
    BY <1>2, ClearEffect
  <2>2. FreeSlot.can_id = 0 /\ "can_id" \in SlotFields
    BY DEF FreeSlot, SlotFields
  <2> QED
    BY <2>1, <2>2 DEF StoreEffect
<1>3. CASE Fill
  <2>1. StoreEffect(call)
    BY <1>3, FillEffect
  <2>2. "can_id" \in SlotFields /\ \A k \in Slots \ {slot} : pdo[k].can_id # call.can_id
    BY <1>3 DEF Fill, CallInv, SlotFields
  <2> QED
    BY <2>1, <2>2 DEF StoreEffect
<1>4. CASE RemoveTimer \/ AddTimer
  <2>1. \E t : IdEffect(t)
    BY <1>4, StoreId DEF RemoveTimer, AddTimer
  <2>2. "can_id" \in SlotFields
    BY DEF SlotFields
  <2> QED
    BY <2>1, <2>2 DEF IdEffect
<1> QED
  BY <1>1, <1>2, <1>3, <1>4, TableUnchanged

(* No timer is left behind by pdo_del and none is armed early by pdo_add.  *)
LEMMA TimersStep == IInv /\ [Next]_vars => TimersBelongToSlots'
<1> SUFFICES ASSUME IInv, [Next]_vars PROVE TimersBelongToSlots'
  OBVIOUS
<1> USE DEF IInv, TimersBelongToSlots, Settled
<1>0. \A t \in DOMAIN timers : timers[t].slot \in Slots /\ t # NoTimer
  BY PdoAssumption DEF TypeOK
<1>1. CASE UNCHANGED <<pdo, timers, pc, slot>>
  BY <1>1
<1>2. ASSUME pc = "idle", pc' \in {"idle", "find"}, UNCHANGED <<pdo, timers>>
      PROVE  TimersBelongToSlots'
  BY <1>2
<1>3. CASE Find
  <2>1. CASE pc' = "clear"
    BY <1>3, <2>1 DEF Find
  <2>2. CASE pc' # "clear"
    BY <1>3, <2>2 DEF Find, Return
  <2> QED
    BY <2>1, <2>2
<1>4. CASE Clear
  <2>1. StoreEffect(FreeSlot) /\ UNCHANGED <<timers, pc, slot>> /\ pc = "clear"
    BY <1>4, ClearEffect DEF Clear
  <2> QED
    BY <1>0, <2>1 DEF StoreEffect
<1>5. CASE RemoveTimer
  <2>1. /\ IdEffect(NoTimer) /\ pc = "clear" /\ pc' \in {"claim", "idle"}
        /\ timers' = [t \in DOMAIN timers \ {pdo[slot].id} |-> timers[t]]
    BY <1>5, StoreId DEF RemoveTimer, Return
  <2>2. ASSUME NEW t \in DOMAIN timers'
        PROVE  /\ timers[t].slot \in Slots \ {slot} /\ timers'[t] = timers[t]
               /\ t \in DOMAIN timers
    BY <1>0, <2>1
  <2>3. ASSUME NEW i \in Slots \ {slot} PROVE pdo'[i] = pdo[i]
    BY <2>1 DEF IdEffect
  <2> QED
    BY <2>1, <2>2, <2>3
<1>6. CASE Claim
  <2>1. CASE pc' = "fill"
    <3>1. slot' \in Slots /\ pdo[slot'].can_id = 0 /\ UNCHANGED <<pdo, timers>> /\ pc = "claim"
      BY <1>6, <2>1 DEF Claim, FirstOf, Used, Return
    <3> QED
      BY <2>1, <3>1
  <2>2. CASE pc' # "fill"
    BY <1>6, <2>2 DEF Claim, Return
  <2> QED
    BY <2>1, <2>2
<1>7. CASE Fill
  <2>1. StoreEffect(call) /\ UNCHANGED <<timers, pc, slot>> /\ pc = "fill"
    BY <1>7, FillEffect DEF Fill
  <2> QED
    BY <1>0, <2>1 DEF StoreEffect
<1>8. CASE AddTimer
  <2>1. /\ pc = "fill" /\ pc' = "idle"
        /\ pdo[slot].can_id = call.can_id /\ pdo_is_id_valid(call.can_id)
    BY <1>8 DEF AddTimer, Return, CallInv
  <2>2. \A t \in DOMAIN timers : timers[t].slot # slot
    BY <2>1
  <2>3. CASE UNCHANGED timers /\ IdEffect(NoTimer)
    BY <1>0, <2>1, <2>2, <2>3 DEF IdEffect
  <2>4. ASSUME NEW t \in FreshTimers, IdEffect(t),
               timers' = [u \in DOMAIN timers \cup {t} |->
                            IF u = t THEN [slot |-> slot, interval |-> call.event_time_ms]
                                     ELSE timers[u]]
        PROVE  TimersBelongToSlots'
    <3>1. pdo'[slot].id = t /\ pdo'[slot].can_id # 0
      BY <2>1, <2>4, ZeroIsNoPdo DEF IdEffect, SlotFields
    <3>2. ASSUME NEW u \in DOMAIN timers, u # t
          PROVE  /\ timers'[u] = timers[u]
                 /\ pdo'[timers[u].slot] = pdo[timers[u].slot]
      BY <1>0, <2>2, <2>4, <3>2 DEF IdEffect
    <3>3. DOMAIN timers' = DOMAIN timers \cup {t} /\ timers'[t].slot = slot
      BY <2>4
    <3> QED
      BY <2>1, <3>1, <3>2, <3>3
  <2> QED
    BY <1>8, <2>3, <2>4, StoreId DEF AddTimer
<1>9. CASE SendFrame
  <2>1. \A t \in DOMAIN timers' : t \in DOMAIN timers /\ timers'[t] = timers[t]
    BY <1>9 DEF SendFrame
  <2> QED
    BY <1>9, <2>1 DEF SendFrame
<1>10. CASE pdo_add \/ pdo_del
  BY <1>2, <1>10 DEF pdo_add, pdo_del, Begin, Return
<1>11. CASE LoadField \/ LoadByte \/ \E t \in TimerIds : TimerExpires(t)
  BY <1>1, <1>11, Zenon DEF LoadField, LoadByte, TimerExpires
<1>12. CASE UNCHANGED vars
  BY <1>1, <1>12 DEF vars
<1> QED
  BY <1>3, <1>4, <1>5, <1>6, <1>7, <1>8, <1>9, <1>10, <1>11, <1>12 DEF Next

(* What the main thread knows of the table stays true, as no other thread  *)
(* stores to it.                                                           *)
LEMMA CallStep == IInv /\ [Next]_vars => CallInv'
<1> SUFFICES ASSUME IInv, [Next]_vars PROVE CallInv'
  OBVIOUS
<1> USE DEF IInv, CallInv
<1>0. "can_id" \in SlotFields
  BY DEF SlotFields
<1>1. ASSUME NEW op \in {"add", "del"}, NEW id, NEW time, NEW length, NEW data,
             Begin(op, id, time, length, data)
      PROVE  CallInv'
  BY <1>1 DEF Begin, Return
<1>2. CASE pdo_add
  BY <1>1, <1>2 DEF pdo_add
<1>3. CASE pdo_del
  BY <1>1, <1>3 DEF pdo_del
<1>4. CASE Find
  <2>1. pc = "find" /\ UNCHANGED pdo /\ call.can_id # 0
    BY <1>4, ZeroIsNoPdo DEF Find
  <2>2. CASE pc' = "clear"
    <3>1. slot' \in Slots /\ pdo[slot'].can_id = call.can_id /\ todo' = SlotFields /\ call' = call
      BY <1>4, <2>2 DEF Find, FirstOf, Used, Return
    <3>2. \A j \in Slots \ {slot'} : pdo[j].can_id # call.can_id
      BY <2>1, <3>1 DEF OneSlotPerId
    <3> QED
      BY <1>0, <2>1, <2>2, <3>1, <3>2
  <2>3. CASE pc' = "claim"
    BY <1>4, <2>1, <2>3 DEF Find, Used, Return
  <2>4. CASE pc' = "idle"
    BY <1>4, <2>4 DEF Find, Return
  <2> QED
    BY <1>4, <2>2, <2>3, <2>4 DEF Find, Return
<1>5. CASE Clear
  <2>1. StoreEffect(FreeSlot) /\ UNCHANGED <<pc, call, slot>> /\ pc = "clear"
    BY <1>5, ClearEffect DEF Clear
  <2>2. FreeSlot.can_id = 0
    BY DEF FreeSlot
  <2> QED
    BY <1>0, <2>1, <2>2 DEF StoreEffect
<1>6. CASE RemoveTimer
  <2>1. IdEffect(NoTimer) /\ pc = "clear" /\ todo = {} /\ slot \in Slots
    BY <1>6, StoreId DEF RemoveTimer, TypeOK
  <2>2. CASE pc' = "claim" /\ call' = call /\ call.op = "add"
    <3>1. \A j \in Slots : pdo'[j].can_id # call.can_id
      BY <1>0, <2>1, ZeroIsNoPdo DEF IdEffect
    <3> QED
      BY <2>1, <2>2, <3>1
  <2>3. CASE Return(TRUE)
    BY <2>3 DEF Return
  <2> QED
    BY <1>6, <2>2, <2>3 DEF RemoveTimer
<1>7. CASE Claim
  <2>1. pc = "claim" /\ UNCHANGED pdo
    BY <1>7 DEF Claim
  <2>2. CASE pc' = "fill"
    <3>1. slot' \in Slots /\ pdo[slot'].can_id = 0 /\ todo' = SlotFields /\ call' = call
      BY <1>7, <2>2 DEF Claim, FirstOf, Used, Return
    <3> QED
      BY <1>0, <2>1, <2>2, <3>1
  <2>3. CASE Return(FALSE)
    BY <2>3 DEF Return
  <2> QED
    BY <1>7, <2>2, <2>3 DEF Claim
<1>8. CASE Fill
  <2>1. StoreEffect(call) /\ UNCHANGED <<pc, call, slot>> /\ pc = "fill"
    BY <1>8, FillEffect DEF Fill
  <2> QED
    BY <1>0, <2>1 DEF StoreEffect
<1>9. CASE AddTimer
  BY <1>9 DEF AddTimer, Return
<1>10. CASE LoadField \/ LoadByte \/ SendFrame \/ (\E t \in TimerIds : TimerExpires(t))
  <2>1. UNCHANGED <<pdo, pc, call, slot, todo>>
    BY <1>10 DEF LoadField, LoadByte, SendFrame, TimerExpires
  <2> QED
    BY <2>1
<1>11. CASE UNCHANGED vars
  BY <1>11 DEF vars
<1> QED
  BY <1>2, <1>3, <1>4, <1>5, <1>6, <1>7, <1>8, <1>9, <1>10, <1>11 DEF Next

(* A clean callback sees its slot as it was when the timer expired.        *)
LEMMA CallbackStep == IInv /\ [Next]_vars => CallbackInv'
<1> SUFFICES ASSUME IInv, [Next]_vars PROVE CallbackInv'
  OBVIOUS
<1> USE DEF IInv, CallbackInv
<1>0. cb.slot \in Slots /\ {"can_id", "length", "data"} \subseteq SlotFields
  BY DEF TypeOK, Callbacks, SlotFields
<1>1. CASE UNCHANGED <<pdo, cb, pc, slot>>
  BY <1>1
<1>2. CASE UNCHANGED <<pdo, cb>> /\ pc' # "fill"
  BY <1>2
<1>3. CASE Claim
  <2>1. CASE pc' = "fill"
    <3>1. slot' \in Slots /\ pdo[slot'].can_id = 0 /\ UNCHANGED <<pdo, cb>>
      BY <1>3, <2>1 DEF Claim, FirstOf, Used, Return
    <3> QED
      BY <3>1
  <2>2. CASE pc' # "fill"
    BY <1>2, <1>3, <2>2 DEF Claim
  <2> QED
    BY <2>1, <2>2
<1>4. CASE Clear \/ Fill
  <2>1. (\E v : StoreEffect(v)) /\ Taint /\ UNCHANGED <<pc, slot>>
    BY <1>4, ClearEffect, FillEffect DEF Clear, Fill
  <2>2. SUFFICES ASSUME cb'.timer # NoTimer, cb'.clean PROVE CallbackInv'
    OBVIOUS
  <2>3. /\ cb.timer # NoTimer /\ cb.clean /\ cb.slot # slot
        /\ cb'.slot = cb.slot /\ cb'.fields = cb.fields /\ cb'.bytes = cb.bytes
        /\ cb'.seen = cb.seen
    BY <2>1, <2>2 DEF Taint, TypeOK, Callbacks
  <2>4. pdo'[cb.slot] = pdo[cb.slot]
    BY <1>0, <2>1, <2>3 DEF StoreEffect
  <2> QED
    BY <2>1, <2>3, <2>4
<1>5. CASE RemoveTimer \/ AddTimer
  <2>1. (\E t : IdEffect(t)) /\ UNCHANGED cb /\ pc' # "fill"
    BY <1>5, StoreId DEF RemoveTimer, AddTimer, Return
  <2>2. \A f \in {"can_id", "length", "data"} : pdo'[cb.slot][f] = pdo[cb.slot][f]
    BY <1>0, <2>1 DEF IdEffect
  <2> QED
    BY <2>1, <2>2
<1>6. ASSUME NEW t \in TimerIds, TimerExpires(t) PROVE CallbackInv'
  <2>1. /\ UNCHANGED <<pdo, pc, slot>> /\ t \in DOMAIN timers
        /\ cb'.slot = timers[t].slot /\ cb'.fields = Loads /\ cb'.bytes = ByteLoads
        /\ cb'.clean = ~(pc = "clear" /\ slot = timers[t].slot)
    BY <1>6 DEF TimerExpires
  <2>2. cb'.clean => pdo[cb'.slot].can_id # 0 /\ (pc = "fill" => slot # cb'.slot)
    BY <2>1 DEF TimersBelongToSlots, Settled
  <2> QED
    BY <2>1, <2>2 DEF Loads
<1>7. CASE LoadField
  <2>1. PICK f \in cb.fields :
          cb' = [cb EXCEPT !.fields = @ \ {f},
                           !.seen[f] = pdo[cb.slot][IF f = "count" THEN "length" ELSE f]]
    BY <1>7 DEF LoadField
  <2>2. /\ cb'.timer = cb.timer /\ cb'.clean = cb.clean /\ cb'.slot = cb.slot
        /\ cb'.bytes = cb.bytes /\ cb'.fields = cb.fields \ {f}
        /\ cb'.seen = [cb.seen EXCEPT ![f] = pdo[cb.slot][IF f = "count" THEN "length" ELSE f]]
    BY <2>1 DEF TypeOK, Callbacks
  <2>3. f \in {"can_id", "length", "count"} /\ cb.seen \in Seen
    BY DEF TypeOK, Callbacks, Loads
  <2>4. /\ cb'.seen.data = cb.seen.data
        /\ cb'.seen.can_id = IF f = "can_id" THEN pdo[cb.slot].can_id ELSE cb.seen.can_id
        /\ cb'.seen.length = IF f = "length" THEN pdo[cb.slot].length ELSE cb.seen.length
        /\ cb'.seen.count = IF f = "count" THEN pdo[cb.slot].length ELSE cb.seen.count
    BY <2>2, <2>3 DEF Seen
  <2>5. UNCHANGED <<pdo, pc, slot>>
    BY <1>7 DEF LoadField
  <2> QED
    BY <2>2, <2>3, <2>4, <2>5
<1>8. CASE LoadByte
  <2>1. PICK k \in cb.bytes :
          cb' = [cb EXCEPT !.bytes = @ \ {k}, !.seen.data[k] = pdo[cb.slot].data[k]]
    BY <1>8 DEF LoadByte
  <2>2. /\ cb'.timer = cb.timer /\ cb'.clean = cb.clean /\ cb'.slot = cb.slot
        /\ cb'.bytes = cb.bytes \ {k} /\ cb'.fields = cb.fields
        /\ cb'.seen = [cb.seen EXCEPT !.data = [@ EXCEPT ![k] = pdo[cb.slot].data[k]]]
    BY <2>1 DEF TypeOK, Callbacks
  <2>3. cb.seen \in Seen /\ k \in ByteLoads
    BY DEF TypeOK, Callbacks
  <2>4. /\ cb'.seen.can_id = cb.seen.can_id /\ cb'.seen.length = cb.seen.length
        /\ cb'.seen.count = cb.seen.count
        /\ cb'.seen.data = [cb.seen.data EXCEPT ![k] = pdo[cb.slot].data[k]]
    BY <2>2, <2>3 DEF Seen
  <2>5. \A m \in ByteLoads : cb'.seen.data[m] = IF m = k THEN pdo[cb.slot].data[k]
                                                       ELSE cb.seen.data[m]
    BY <2>3, <2>4 DEF Seen, Payloads, ByteLoads
  <2>6. UNCHANGED <<pdo, pc, slot>>
    BY <1>8 DEF LoadByte
  <2> QED
    BY <2>2, <2>4, <2>5, <2>6
<1>9. CASE SendFrame
  BY <1>9 DEF SendFrame, NoCallback
<1>10. CASE pdo_add \/ pdo_del
  BY <1>2, <1>10 DEF pdo_add, pdo_del, Begin, Return
<1>11. CASE Find
  BY <1>2, <1>11 DEF Find, Return
<1>12. CASE UNCHANGED vars
  BY <1>1, <1>12 DEF vars
<1> QED
  BY <1>3, <1>4, <1>5, <1>6, <1>7, <1>8, <1>9, <1>10, <1>11, <1>12 DEF Next

(* Every step keeps the invariant.                                         *)
LEMMA IInvStep == IInv /\ [Next]_vars => IInv'
  BY TypeStep, SlotIdsStep, OneSlotStep, TimersStep, CallStep, CallbackStep DEF IInv

(* The invariant holds of every reachable state.                           *)
LEMMA IInvCorrect == Spec => []IInv
  BY IInvInit, IInvStep, PTL DEF Spec

-----------------------------------------------------------------------------
(* No two slots ever hold the same CAN-ID.                                 *)
THEOREM OneSlotPerIdCorrect == Spec => []OneSlotPerId
<1>1. IInv => OneSlotPerId
  BY DEF IInv
<1> QED
  BY <1>1, IInvCorrect, PTL

(* No timer outlives its PDO, however many PDOs are added and deleted.     *)
THEOREM TimersCorrect == Spec => []TimersBelongToSlots
<1>1. IInv => TimersBelongToSlots
  BY DEF IInv
<1> QED
  BY <1>1, IInvCorrect, PTL

(* A callback that no store overlaps sends its slot's frame.               *)
THEOREM CleanFrameCorrect == Spec => []CleanFrameIsScheduled
<1>1. ASSUME IInv PROVE CleanFrameIsScheduled
  <2> SUFFICES ASSUME cb.timer # NoTimer, cb.fields = {}, cb.bytes = {}, cb.clean
               PROVE  /\ pdo_is_id_valid(cb.seen.can_id)
                      /\ Frame(cb.seen) =
                            Frame([can_id |-> pdo[cb.slot].can_id,
                                   length |-> pdo[cb.slot].length,
                                   count |-> pdo[cb.slot].length,
                                   data |-> pdo[cb.slot].data])
    BY DEF CleanFrameIsScheduled
  <2>1. cb.slot \in Slots /\ cb.seen \in Seen /\ pdo[cb.slot] \in SlotRecords
    BY <1>1 DEF IInv, TypeOK, Callbacks
  <2>2. /\ cb.seen.can_id = pdo[cb.slot].can_id /\ pdo[cb.slot].can_id # 0
        /\ cb.seen.length = pdo[cb.slot].length
        /\ cb.seen.count = pdo[cb.slot].length
        /\ \A k \in ByteLoads : cb.seen.data[k] = pdo[cb.slot].data[k]
    BY <1>1 DEF IInv, CallbackInv
  <2>3. cb.seen.data = pdo[cb.slot].data
    <3>1. /\ cb.seen.data \in [ByteLoads -> Bytes]
          /\ pdo[cb.slot].data \in [ByteLoads -> Bytes]
      BY <2>1 DEF Seen, SlotRecords, Payloads, ByteLoads
    <3> QED
      BY <2>2, <3>1
  <2>4. pdo_is_id_valid(cb.seen.can_id)
    BY <1>1, <2>1, <2>2 DEF IInv, SlotIdsValid
  <2> QED
    BY <2>2, <2>3, <2>4 DEF Frame
<1> QED
  BY <1>1, IInvCorrect, PTL

(* When pdo_del returns, its CAN-ID is gone from the table and the timers. *)
THEOREM DeletedPdoCorrect == Spec => DeletedPdoIsGone
<1> DEFINE Gone ==
      call.op = "del" /\ pc' = "idle" =>
          /\ \A i \in Slots : pdo'[i].can_id # call.can_id
          /\ \A t \in DOMAIN timers' : pdo'[timers'[t].slot].can_id # call.can_id
<1>1. ASSUME IInv, [Next]_vars PROVE [Gone]_vars
  <2> SUFFICES ASSUME Next, call.op = "del", pc' = "idle"
               PROVE  /\ \A i \in Slots : pdo'[i].can_id # call.can_id
                      /\ \A t \in DOMAIN timers' : pdo'[timers'[t].slot].can_id # call.can_id
    BY <1>1
  <2>1. \A t \in DOMAIN timers' : timers'[t].slot \in Slots
    BY <1>1, TypeStep DEF IInv, TypeOK
  <2>2. pc # "idle" /\ pdo_is_id_valid(call.can_id)
    BY <1>1 DEF IInv, CallInv, NoCall
  <2>3. CASE Find
    BY <2>1, <2>3 DEF Find, Used
  <2>4. CASE RemoveTimer
    <3>1. IdEffect(NoTimer) /\ "can_id" \in SlotFields /\ pc = "clear" /\ todo = {} /\ slot \in Slots
      BY <1>1, <2>4, StoreId DEF RemoveTimer, IInv, TypeOK, SlotFields
    <3>2. \A i \in Slots : pdo'[i].can_id # call.can_id
      BY <1>1, <2>2, <3>1, ZeroIsNoPdo DEF IdEffect, IInv, CallInv
    <3> QED
      BY <2>1, <3>2
  <2>5. CASE Claim \/ AddTimer
    BY <1>1, <2>5 DEF IInv, CallInv, Claim, AddTimer
  <2>6. CASE pdo_add \/ pdo_del
    BY <2>2, <2>6 DEF pdo_add, pdo_del
  <2>7. CASE Clear \/ Fill \/ LoadField \/ LoadByte \/ SendFrame
    BY <2>2, <2>7 DEF Clear, Fill, LoadField, LoadByte, SendFrame
  <2>8. ASSUME NEW t \in TimerIds, TimerExpires(t) PROVE FALSE
    BY <2>2, <2>8 DEF TimerExpires
  <2> QED
    BY <2>3, <2>4, <2>5, <2>6, <2>7, <2>8 DEF Next
<1> QED
  BY <1>1, IInvCorrect, PTL DEF Spec, DeletedPdoIsGone

-----------------------------------------------------------------------------
(* The table implements the map from CAN-IDs to PDOs.                      *)

(* What a call adds, and what the table holds, was asked for.              *)
Asked ==
    /\ pc # "idle" /\ call.op = "add" =>
          /\ call.can_id \in AskedIds
          /\ [length |-> call.length, data |-> call.data] \in AskedContents
    /\ \A i \in Slots : pdo[i].can_id # 0 => pdo[i].can_id \in AskedIds

LEMMA AskedStep == IInv /\ Asked /\ [Next]_vars => Asked'
<1> SUFFICES ASSUME IInv, Asked, [Next]_vars PROVE Asked'
  OBVIOUS
<1> USE DEF Asked
<1>0. "can_id" \in SlotFields
  BY DEF SlotFields
<1>1. CASE pdo_add
  <2>1. PICK c \in AddCalls :
           Begin("add", c.can_id % 65536, c.event_time_ms, ClampedLength(c), c.data)
    BY <1>1 DEF pdo_add
  <2>2. CASE pdo_is_id_valid(c.can_id % 65536)
    <3>1. /\ call'.can_id = c.can_id % 65536
          /\ call'.length = ClampedLength(c) /\ call'.data = c.data
      BY <2>1, <2>2 DEF Begin
    <3>2. call'.can_id \in AskedIds
      BY <3>1, <2>2 DEF AskedIds
    <3>3. [length |-> call'.length, data |-> call'.data] \in AskedContents
      BY <3>1 DEF AskedContents
    <3> QED
      BY <1>1, <3>2, <3>3 DEF pdo_add
  <2>3. CASE ~pdo_is_id_valid(c.can_id % 65536)
    BY <1>1, <2>1, <2>3 DEF pdo_add, Begin, Return
  <2> QED
    BY <2>2, <2>3
<1>2. CASE pdo_del
  <2>1. UNCHANGED pdo /\ (pc' = "idle" \/ call'.op = "del")
    BY <1>2 DEF pdo_del, Begin, Return
  <2> QED
    BY <2>1
<1>3. CASE Clear
  <2>1. StoreEffect(FreeSlot) /\ UNCHANGED <<pc, call>>
    BY <1>3, ClearEffect DEF Clear, IInv
  <2>2. FreeSlot.can_id = 0
    BY DEF FreeSlot
  <2> QED
    BY <1>0, <2>1, <2>2 DEF StoreEffect
<1>4. CASE Fill
  <2>1. StoreEffect(call) /\ UNCHANGED <<pc, call>> /\ pc = "fill"
    BY <1>4, FillEffect DEF Fill, IInv
  <2>2. call.op = "add"
    BY <2>1 DEF IInv, CallInv
  <2> QED
    BY <1>0, <2>1, <2>2 DEF StoreEffect
<1>5. CASE RemoveTimer \/ AddTimer
  <2>1. PICK t : IdEffect(t)
    BY <1>5, StoreId DEF RemoveTimer, AddTimer, IInv
  <2>2. pc # "idle" /\ (pc' = "idle" \/ UNCHANGED call)
    BY <1>5 DEF RemoveTimer, AddTimer, Return
  <2>3. \A i \in Slots : pdo'[i].can_id = pdo[i].can_id
    BY <1>0, <2>1 DEF IdEffect
  <2> QED
    BY <2>2, <2>3
<1>6. CASE Find \/ Claim
  BY <1>6 DEF Find, Claim, Return
<1>7. CASE LoadField \/ LoadByte \/ SendFrame \/ (\E t \in TimerIds : TimerExpires(t))
  BY <1>7 DEF LoadField, LoadByte, SendFrame, TimerExpires
<1>8. CASE UNCHANGED vars
  BY <1>8 DEF vars
<1> QED
  BY <1>1, <1>2, <1>3, <1>4, <1>5, <1>6, <1>7, <1>8 DEF Next

LEMMA AskedInit == Init => Asked
  BY DEF Init, Asked, FreeSlot

-----------------------------------------------------------------------------
(* The map a table T is, of which the slots C are complete.                *)
LEMMA MapOfTable ==
    ASSUME NEW T, NEW C, \A i, j \in C : i # j => T[i].can_id # T[j].can_id,
           NEW F, F = [id \in {T[i].can_id : i \in C} |->
                         [length |-> T[CHOOSE i \in C : T[i].can_id = id].length,
                          data   |-> T[CHOOSE i \in C : T[i].can_id = id].data]]
    PROVE  /\ DOMAIN F = {T[i].can_id : i \in C}
           /\ \A i \in C : F[T[i].can_id] = [length |-> T[i].length, data |-> T[i].data]
           /\ F = [id \in DOMAIN F |-> F[id]]
<1>1. ASSUME NEW i \in C PROVE (CHOOSE k \in C : T[k].can_id = T[i].can_id) = i
  OBVIOUS
<1> QED
  BY <1>1

(* What the table shows: the CAN-IDs of its complete slots, and their PDOs.*)
Content(i) == [length |-> pdo[i].length, data |-> pdo[i].data]
Shown ==
    /\ DOMAIN Scheduled = {pdo[i].can_id : i \in Complete}
    /\ \A i \in Complete : Scheduled[pdo[i].can_id] = Content(i)
    /\ Scheduled = [id \in DOMAIN Scheduled |-> Scheduled[id]]

LEMMA ShownNow == OneSlotPerId => Shown
<1> SUFFICES ASSUME OneSlotPerId PROVE Shown
  OBVIOUS
<1>1. \A i, j \in Complete : i # j => pdo[i].can_id # pdo[j].can_id
  BY DEF OneSlotPerId, Complete
<1>2. Scheduled = [id \in {pdo[i].can_id : i \in Complete} |->
                     [length |-> pdo[CHOOSE i \in Complete : pdo[i].can_id = id].length,
                      data   |-> pdo[CHOOSE i \in Complete : pdo[i].can_id = id].data]]
  BY DEF Scheduled, SlotOf
<1> QED
  BY <1>1, <1>2, MapOfTable DEF Shown, Content

LEMMA ShownNext == OneSlotPerId' => Shown'
  BY ShownNow, PTL

(* A step that leaves the complete slots alone is not seen.                *)
LEMMA NotSeen ==
    ASSUME Shown, Shown', Complete' = Complete,
           \A i \in Complete : \A f \in SlotFields : pdo'[i][f] = pdo[i][f]
    PROVE  Scheduled' = Scheduled
<1>1. \A i \in Complete : pdo'[i].can_id = pdo[i].can_id /\ Content(i)' = Content(i)
  BY DEF SlotFields, Content
<1>2. DOMAIN Scheduled' = DOMAIN Scheduled
  BY <1>1 DEF Shown
<1>3. \A id \in DOMAIN Scheduled : Scheduled'[id] = Scheduled[id]
  BY <1>1 DEF Shown
<1> QED
  BY <1>2, <1>3 DEF Shown

(* pdo_del, or pdo_add before it adds, has found a slot: Cancel.           *)
LEMMA Cancelled ==
    ASSUME Shown, Shown', OneSlotPerId, NEW i \in Complete, Complete' = Complete \ {i},
           UNCHANGED pdo
    PROVE  Map!Cancel(pdo[i].can_id)
<1>1. \A j \in Complete \ {i} : pdo[j].can_id # pdo[i].can_id
  BY DEF OneSlotPerId, Complete
<1>2. DOMAIN Scheduled' = DOMAIN Scheduled \ {pdo[i].can_id}
  BY <1>1 DEF Shown
<1>3. \A j \in Complete' : Content(j)' = Content(j)
  BY DEF Content
<1>4. \A id \in DOMAIN Scheduled' : Scheduled'[id] = Scheduled[id]
  BY <1>3 DEF Shown
<1>5. Scheduled' = [id \in DOMAIN Scheduled \ {pdo[i].can_id} |-> Scheduled[id]]
  BY <1>2, <1>4 DEF Shown
<1>6. pdo[i].can_id \in DOMAIN Scheduled
  BY DEF Shown
<1> QED
  BY <1>5, <1>6 DEF Map!Cancel

(* The complete slots are fewer than PDO_MAX if one is not complete.       *)
LEMMA RoomForOne ==
    ASSUME Shown, NEW i \in Slots \ Complete
    PROVE  Cardinality(DOMAIN Scheduled) < PDO_MAX
<1> DEFINE f == [k \in Complete |-> pdo[k].can_id]
<1>1. PDO_MAX \in Nat \ {0}
  BY PdoAssumption
<1>2. IsFiniteSet(Slots) /\ Cardinality(Slots) = PDO_MAX
  BY <1>1, FS_Interval DEF Slots
<1>3. IsFiniteSet(Slots \ {i}) /\ Cardinality(Slots \ {i}) = PDO_MAX - 1
  BY <1>2, FS_RemoveElement
<1>4. Complete \in SUBSET (Slots \ {i})
  BY DEF Complete
<1>5. IsFiniteSet(Complete) /\ Cardinality(Complete) <= PDO_MAX - 1
  BY <1>3, <1>4, FS_Subset
<1>6. f \in Surjection(Complete, DOMAIN Scheduled)
  BY DEF Shown, Surjection
<1>7. IsFiniteSet(DOMAIN Scheduled) /\ Cardinality(DOMAIN Scheduled) <= Cardinality(Complete)
  <2> HIDE DEF f
  <2> QED
    BY <1>5, <1>6, FS_Surjection
<1>8. Cardinality(DOMAIN Scheduled) \in Nat /\ Cardinality(Complete) \in Nat
  BY <1>5, <1>7, FS_CardinalityType
<1> QED
  BY <1>1, <1>5, <1>7, <1>8

(* pdo_add arms the timer of the slot it filled: Schedule.                 *)
LEMMA Added ==
    ASSUME Shown, Shown', NEW i \in Slots \ Complete, Complete' = Complete \cup {i},
           \A j \in Complete \cup {i} : \A f \in SlotFields : pdo'[j][f] = pdo[j][f],
           \A j \in Complete : pdo[j].can_id # pdo[i].can_id
    PROVE  Map!Schedule(pdo[i].can_id, Content(i))
<1>1. \A j \in Complete \cup {i} : pdo'[j].can_id = pdo[j].can_id /\ Content(j)' = Content(j)
  BY DEF SlotFields, Content
<1>2. pdo[i].can_id \notin DOMAIN Scheduled
  BY DEF Shown
<1>3. DOMAIN Scheduled' = DOMAIN Scheduled \cup {pdo[i].can_id}
  BY <1>1 DEF Shown
<1>4. Scheduled'[pdo[i].can_id] = Content(i)
  BY <1>1 DEF Shown
<1>5. \A id \in DOMAIN Scheduled : Scheduled'[id] = Scheduled[id]
  BY <1>1 DEF Shown
<1>6. Scheduled' = [id \in DOMAIN Scheduled \cup {pdo[i].can_id} |->
                      IF id = pdo[i].can_id THEN Content(i) ELSE Scheduled[id]]
  BY <1>2, <1>3, <1>4, <1>5 DEF Shown
<1>7. Cardinality(DOMAIN Scheduled) < PDO_MAX
  BY RoomForOne
<1>8. Map!Cardinality(DOMAIN Scheduled) = Cardinality(DOMAIN Scheduled)
  BY DEF Map!Cardinality, Cardinality
<1> QED
  BY <1>2, <1>6, <1>7, <1>8 DEF Map!Schedule

-----------------------------------------------------------------------------
(* Every step is one of the map, or is not seen.                           *)
LEMMA MapStep == IInv /\ Asked /\ [Next]_vars => [Map!Next]_Scheduled
<1> SUFFICES ASSUME IInv, Asked, [Next]_vars PROVE [Map!Next]_Scheduled
  OBVIOUS
<1>0. Shown /\ Shown'
  BY ShownNow, ShownNext, OneSlotStep DEF IInv
<1> USE DEF Settled, Complete
<1>1. ASSUME UNCHANGED pdo, Complete' = Complete PROVE Scheduled' = Scheduled
  BY <1>0, <1>1, NotSeen
<1>2. CASE pdo_add \/ pdo_del
  <2>1. UNCHANGED pdo /\ pc = "idle" /\ pc' \in {"idle", "find"}
    BY <1>2 DEF pdo_add, pdo_del, Begin, Return
  <2> QED
    BY <1>1, <2>1
<1>3. CASE Find
  <2>1. pc = "find" /\ UNCHANGED pdo
    BY <1>3 DEF Find
  <2>2. CASE pc' = "clear"
    <3>1. slot' \in Slots /\ pdo[slot'].can_id = call.can_id /\ call.can_id # 0
      BY <1>3, <2>1, <2>2, ZeroIsNoPdo DEF Find, FirstOf, Used, Return, IInv, CallInv
    <3>2. slot' \in Complete /\ Complete' = Complete \ {slot'}
      BY <2>1, <2>2, <3>1
    <3>3. Map!Cancel(pdo[slot'].can_id)
      BY <1>0, <2>1, <3>2, Cancelled DEF IInv
    <3>4. pdo[slot'].can_id \in AskedIds
      BY <3>1 DEF Asked
    <3> QED
      BY <3>3, <3>4 DEF Map!Next
  <2>3. CASE pc' \in {"claim", "idle"}
    BY <1>1, <2>1, <2>3
  <2> QED
    BY <1>3, <2>2, <2>3 DEF Find, Return
<1>4. CASE Clear \/ Fill
  <2>1. /\ pc \in {"clear", "fill"} /\ UNCHANGED <<pc, slot>>
        /\ \A i \in Slots \ {slot} : pdo'[i] = pdo[i]
    BY <1>4, ClearEffect, FillEffect DEF Clear, Fill, StoreEffect, IInv
  <2>2. Complete' = Complete /\ slot \notin Complete
    BY <2>1
  <2> QED
    BY <1>0, <2>1, <2>2, NotSeen
<1>5. CASE RemoveTimer
  <2>1. IdEffect(NoTimer) /\ pc = "clear" /\ todo = {} /\ "can_id" \in SlotFields
    BY <1>5, StoreId DEF RemoveTimer, IInv, SlotFields
  <2>2. pc' \in {"claim", "idle"}
    BY <1>5 DEF RemoveTimer, Return
  <2>3. pdo[slot].can_id = 0 /\ pdo'[slot].can_id = 0
    BY <2>1 DEF IInv, CallInv, IdEffect
  <2>4. Complete' = Complete /\ slot \notin Complete
    BY <2>1, <2>2, <2>3 DEF IdEffect
  <2> QED
    BY <1>0, <2>1, <2>4, NotSeen DEF IdEffect
<1>6. CASE Claim
  <2>1. pc = "claim" /\ UNCHANGED pdo
    BY <1>6 DEF Claim
  <2>2. CASE pc' = "fill"
    <3>1. pdo[slot'].can_id = 0
      BY <1>6, <2>2 DEF Claim, FirstOf, Used, Return
    <3> QED
      BY <1>1, <2>1, <2>2, <3>1
  <2>3. CASE pc' = "idle"
    BY <1>1, <2>1, <2>3
  <2> QED
    BY <1>6, <2>2, <2>3 DEF Claim, Return
<1>7. CASE AddTimer
  <2>1. PICK t : IdEffect(t)
    BY <1>7, StoreId DEF AddTimer, IInv
  <2>2. pc = "fill" /\ todo = {} /\ pc' = "idle" /\ slot \in Slots
    BY <1>7 DEF AddTimer, Return, IInv, TypeOK
  <2>3. /\ pdo[slot].can_id = call.can_id /\ Content(slot) = [length |-> call.length, data |-> call.data]
        /\ call.can_id # 0 /\ call.op = "add"
        /\ \A j \in Slots \ {slot} : pdo[j].can_id # call.can_id
    BY <2>2, ZeroIsNoPdo DEF IInv, CallInv, SlotFields, Content
  <2>4. \A j \in Slots : \A f \in SlotFields : pdo'[j][f] = pdo[j][f]
    BY <2>1 DEF IdEffect
  <2>5. \A j \in Slots : pdo'[j].can_id = pdo[j].can_id
    BY <2>4 DEF SlotFields
  <2>6. slot \notin Complete /\ Complete' = Complete \cup {slot}
    BY <2>2, <2>3, <2>5
  <2>7. Map!Schedule(pdo[slot].can_id, Content(slot))
    BY <1>0, <2>2, <2>3, <2>4, <2>6, Added
  <2>8. call.can_id \in AskedIds /\ Content(slot) \in AskedContents
    BY <2>2, <2>3 DEF Asked
  <2> QED
    BY <2>3, <2>7, <2>8 DEF Map!Next
<1>8. CASE LoadField \/ LoadByte \/ SendFrame \/ (\E t \in TimerIds : TimerExpires(t))
  <2>1. UNCHANGED <<pdo, pc, slot>>
    BY <1>8 DEF LoadField, LoadByte, SendFrame, TimerExpires
  <2> QED
    BY <1>1, <2>1
<1>9. CASE UNCHANGED vars
  BY <1>1, <1>9 DEF vars
<1> QED
  BY <1>2, <1>3, <1>4, <1>5, <1>6, <1>7, <1>8, <1>9 DEF Next

(* The table, whatever its size and whoever reads it, is the map from      *)
(* CAN-IDs to PDOs its callers are promised: a step of pdo_add or pdo_del  *)
(* adds one PDO, drops one, or is not seen.                                *)
THEOREM TableImplementsMap == Spec => ImplementsMap
<1>1. Init => Map!Init
  <2> SUFFICES ASSUME Init PROVE Map!Init
    OBVIOUS
  <2>1. Complete = {}
    BY DEF Init, Complete, FreeSlot
  <2> QED
    BY <2>1 DEF Scheduled, Map!Init
<1> QED
  BY <1>1, IInvInit, AskedInit, IInvStep, AskedStep, MapStep, PTL DEF Spec, ImplementsMap, Map!Spec

(* pdo_add installs the PDO it was given or, if the table holds PDO_MAX    *)
(* other CAN-IDs, is refused; never for another reason.                    *)
THEOREM AddCorrect == Spec => AddInstallsOrTableFull
<1> DEFINE Right ==
      call.op = "add" /\ pc' = "idle" =>
          IF ret'
          THEN \E i \in Slots : \A f \in SlotFields : pdo'[i][f] = call[f]
          ELSE Cardinality({pdo[i].can_id : i \in Slots} \ {0, call.can_id}) = PDO_MAX
<1>1. ASSUME IInv, [Next]_vars PROVE [Right]_vars
  <2> SUFFICES ASSUME Next, call.op = "add", pc' = "idle" PROVE Right
    BY <1>1
  <2>1. pc # "idle"
    BY <1>1 DEF IInv, CallInv, NoCall
  <2>2. CASE AddTimer
    <3>1. PICK t : IdEffect(t)
      BY <1>1, <2>2, StoreId DEF AddTimer, IInv
    <3>2. ret' = TRUE /\ slot \in Slots /\ pc = "fill" /\ todo = {}
      BY <1>1, <2>2 DEF AddTimer, Return, IInv, TypeOK
    <3>3. \A f \in SlotFields : pdo'[slot][f] = call[f]
      BY <1>1, <3>1, <3>2 DEF IInv, CallInv, IdEffect
    <3> QED
      BY <3>2, <3>3
  <2>3. CASE Claim
    <3>1. ret' = FALSE /\ Used(0) = {} /\ pc = "claim"
      BY <2>3 DEF Claim, Return
    <3> DEFINE ids == {pdo[i].can_id : i \in Slots}
               f   == [i \in Slots |-> pdo[i].can_id]
    <3>2. ids \ {0, call.can_id} = ids
      BY <1>1, <3>1 DEF Used, IInv, CallInv
    <3>3. f \in Surjection(Slots, ids)
      BY DEF Surjection
    <3>4. f \in Injection(Slots, ids)
      BY <1>1, <3>1 DEF Injection, IsInjective, IInv, OneSlotPerId, Used
    <3>5. IsFiniteSet(Slots) /\ Cardinality(Slots) = PDO_MAX
      BY PdoAssumption, FS_Interval DEF Slots
    <3>6. Cardinality(ids) = PDO_MAX
      <4> HIDE DEF f, ids
      <4> QED
        BY <3>3, <3>4, <3>5, FS_Surjection
    <3> QED
      BY <3>1, <3>2, <3>6
  <2>4. CASE Find \/ RemoveTimer
    BY <2>4 DEF Find, RemoveTimer
  <2>5. CASE pdo_add \/ pdo_del
    BY <2>1, <2>5 DEF pdo_add, pdo_del
  <2>6. CASE Clear \/ Fill \/ LoadField \/ LoadByte \/ SendFrame
    BY <2>1, <2>6 DEF Clear, Fill, LoadField, LoadByte, SendFrame
  <2>7. ASSUME NEW t \in TimerIds, TimerExpires(t) PROVE FALSE
    BY <2>1, <2>7 DEF TimerExpires
  <2> QED
    BY <2>2, <2>3, <2>4, <2>5, <2>6, <2>7 DEF Next
<1> QED
  BY <1>1, IInvCorrect, PTL DEF Spec, AddInstallsOrTableFull
=============================================================================
