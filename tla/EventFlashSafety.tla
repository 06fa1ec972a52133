-------------------------- MODULE EventFlashSafety --------------------------
(***************************************************************************)
(* Theorems about EventFlash, for rings of any size, any number of         *)
(* stations and any bounds: first the types, then the safety properties    *)
(* with their inductive invariants, and last the steps of EventJournal,    *)
(* which it implements.                                                    *)
(***************************************************************************)
EXTENDS EventFlashJournal, FiniteSetTheorems, TLAPS

LEMMA ConstantTypes ==
  /\ DF_MAXEVENTS \in Nat /\ IndexTop \in Nat /\ DF_MAXEVENTS < IndexTop /\ DF_MAXEVENTS >= 2
  /\ TXEVENTBUFFERLEN \in Nat /\ Window \in Nat /\ Window >= 1 /\ Pace \in Nat
  /\ MaxLogged \in Nat /\ MaxBadWrites \in Nat /\ MaxCrashes \in Nat /\ MaxFormats \in Nat
<1>1. Window \in Nat /\ Window >= 1 /\ TXEVENTBUFFERLEN \in Nat /\ TXEVENTBUFFERLEN >= 1
      /\ Pace \in Nat /\ DF_MAXEVENTS \in Nat /\ TXEVENTBUFFERLEN + Window + 2 * Pace <= DF_MAXEVENTS
  BY ConstantsAssumption DEF ConstantsAssumption
<1>2. DF_MAXEVENTS >= 2 BY <1>1
<1> QED BY <1>1, <1>2, ConstantsAssumption DEF ConstantsAssumption

-----------------------------------------------------------------------------
(* The helpers keep to their types.                                        *)

LEMMA RingArithmetic ==
  /\ \A w \in Slots : SlotInc(w) \in Slots
  /\ \A w \in Slots, k \in Slots : Back(w, k) = IF k + 1 <= w THEN w - 1 - k
                                                ELSE w - 1 - k + DF_MAXEVENTS
  /\ \A w \in Slots, k \in Slots : Back(w, k) \in Slots
  /\ \A i \in 0..(IndexTop - 1) : IndexInc(i) \in 0..(IndexTop - 1)
<1> USE ConstantTypes DEF Slots
<1>1. \A w \in Slots : SlotInc(w) \in Slots BY DEF SlotInc
<1>2. \A w \in Slots, k \in Slots :
        Back(w, k) = IF k + 1 <= w THEN w - 1 - k ELSE w - 1 - k + DF_MAXEVENTS
  BY DEF Back
<1>3. \A w \in Slots, k \in Slots : Back(w, k) \in Slots BY <1>2
<1>4. \A i \in 0..(IndexTop - 1) : IndexInc(i) \in 0..(IndexTop - 1) BY DEF IndexInc
<1> QED BY <1>1, <1>2, <1>3, <1>4

LEMMA RecordTypes == Blank \in Record /\ Garbage \in Record
  BY ConstantTypes DEF Blank, Garbage, Record, Index

LEMMA TxPutType ==
  ASSUME NEW t \in Seq(TxEntry), NEW i \in Index, NEW e \in 0..MaxLogged
  PROVE  TxPut(t, i, e) \in Seq(TxEntry)
<1>1. ASSUME NEW k \in 1..(Len(t) + 1), (Len(t) + 1 - k) % TXEVENTBUFFERLEN # 0
      PROVE  k \in 1..Len(t)
  <2>1. 0 % TXEVENTBUFFERLEN = 0 BY ConstantsAssumption DEF ConstantsAssumption
  <2>2. k # Len(t) + 1 BY <1>1, <2>1
  <2> QED BY <2>2
<1>2. [index |-> i, ev |-> e] \in TxEntry BY DEF TxEntry
<1>3. TxPut(t, i, e) \in [1..(Len(t) + 1) -> TxEntry] BY <1>1, <1>2 DEF TxPut
<1> QED BY <1>3

LEMMA TxAfterType ==
  ASSUME tx \in [Monitors -> Seq(TxEntry)], NEW S, NEW i \in Index, NEW e \in 0..MaxLogged
  PROVE  TxAfter(S, i, e) \in [Monitors -> Seq(TxEntry)]
  BY TxPutType DEF TxAfter

LEMMA FindType ==
  ASSUME NEW i, wrptr \in Slots
  PROVE  find_event_by_index(i) \subseteq Slots
  BY RingArithmetic DEF find_event_by_index, Matches

LEMMA TagForType ==
  ASSUME flash \in [Slots -> Record], NEW m \in Monitors, NEW i
  PROVE  TagFor(m, i) \in [Slots -> Record]
  BY DEF TagFor, Record

-----------------------------------------------------------------------------
(***************************************************************************)
(* Type correctness.  Beyond the types: whoever is at work on a station    *)
(* works on one in use, and LogT_Task has the head of the queue in hand    *)
(* until it takes it off.                                                  *)
(***************************************************************************)
Working ==
  /\ rabbit.pc # "idle" => rabbit.mon \in Monitors
  /\ rabbit.pc = "reload" => rabbit.left >= 1
  /\ logT.pc = "hold" => MacroMon \in Monitors
  /\ logT.pc \in {"verify", "reverify", "index", "deliver"} => queue # <<>>

TypeInv == TypeOK /\ Working

LEMMA InitTypeInv == Init => TypeInv
<1> SUFFICES ASSUME Init PROVE TypeInv OBVIOUS
<1> USE ConstantTypes DEF Init
<1>1. flash \in [Slots -> Record] BY RecordTypes
<1>2. /\ savedWrptr \in Slots /\ savedIndex \in 0..(IndexTop - 1)
      /\ wrptr \in Slots /\ eventIndex \in 0..(IndexTop - 1)
  BY DEF Slots
<1>3. queue \in Seq(Events) /\ tx \in [Monitors -> Seq(TxEntry)] OBVIOUS
<1>4. logT \in [pc : {"poll", "verify", "reverify", "index", "deliver", "hold", "fanout"},
                slot : Slots, index : Index, ev : 0..MaxLogged]
  BY DEF Polling, Slots, Index
<1>5. rabbit \in [pc : {"idle", "tag", "reload"}, mon : Monitors \cup {MacroMon},
                  slot : Slots, left : 0..Window, pace : 0..Pace, rec : Record]
  BY RecordTypes DEF Idle, Slots
<1>6. logged \in 0..MaxLogged /\ acked \in [Monitors -> SUBSET (0..MaxLogged)] OBVIOUS
<1>7. format \in [pc : {"idle", "erase", "save"}, done : 0..(DF_MAXEVENTS - 1)]
  BY DEF NoFormat
<1>8. spent \in [Inputs -> Nat] /\ faults \subseteq FaultKinds OBVIOUS
<1>9. Working BY DEF Working, Idle, Polling
<1> QED BY <1>1, <1>2, <1>3, <1>4, <1>5, <1>6, <1>7, <1>8, <1>9 DEF TypeInv, TypeOK

LogTType   == [pc : {"poll", "verify", "reverify", "index", "deliver", "hold", "fanout"},
               slot : Slots, index : Index, ev : 0..MaxLogged]
RabbitType == [pc : {"idle", "tag", "reload"}, mon : Monitors \cup {MacroMon},
               slot : Slots, left : 0..Window, pace : 0..Pace, rec : Record]
FormatType == [pc : {"idle", "erase", "save"}, done : 0..(DF_MAXEVENTS - 1)]

LEMMA IdleTypes == Idle \in RabbitType /\ Polling \in LogTType /\ NoFormat \in FormatType
  BY ConstantTypes, RecordTypes
  DEF Idle, Polling, NoFormat, RabbitType, LogTType, FormatType, Slots, Index

\* What a write to the flash leaves behind, whether it takes or not.
LEMMA WriteSlotType ==
  ASSUME TypeOK, NEW s \in Slots, NEW rec \in Record, WriteSlot(s, rec)
  PROVE  flash' \in [Slots -> Record] /\ spent' \in [Inputs -> Nat] /\ faults' \subseteq FaultKinds
<1>1. flash \in [Slots -> Record] /\ spent \in [Inputs -> Nat] /\ faults \subseteq FaultKinds
  BY DEF TypeOK
<1>2. CASE flash' = [flash EXCEPT ![s] = rec] /\ UNCHANGED <<spent, faults>> BY <1>1, <1>2
<1>3. ASSUME NEW r \in {flash[s], Garbage}, flash' = [flash EXCEPT ![s] = r],
             Spend("badWrite"), faults' = faults \cup {"badWrite"}
      PROVE  flash' \in [Slots -> Record] /\ spent' \in [Inputs -> Nat] /\ faults' \subseteq FaultKinds
  <2>1. r \in Record BY <1>1, RecordTypes
  <2>2. flash' \in [Slots -> Record] BY <1>1, <1>3, <2>1
  <2>3. spent' \in [Inputs -> Nat] BY <1>1, <1>3 DEF Spend, Inputs
  <2> QED BY <1>1, <1>3, <2>2, <2>3 DEF FaultKinds, Inputs
<1> QED BY <1>2, <1>3 DEF WriteSlot

\* What the loop over the stations leaves behind.
LEMMA FanOutType ==
  ASSUME TypeOK, NEW S, NEW i \in Index, NEW e \in 0..MaxLogged, FanOut(S, i, e)
  PROVE  /\ tx' \in [Monitors -> Seq(TxEntry)] /\ logT' = Polling /\ faults' \subseteq FaultKinds
<1>1. tx' \in [Monitors -> Seq(TxEntry)] BY TxAfterType DEF TypeOK, FanOut
<1>2. faults' \subseteq FaultKinds BY DEF TypeOK, FanOut, FaultKinds
<1> QED BY <1>1, <1>2 DEF FanOut

LEMMA ToStationsType ==
  ASSUME TypeOK, NEW i \in Index, NEW e \in 0..MaxLogged, ToStations(i, e)
  PROVE  /\ tx' \in [Monitors -> Seq(TxEntry)] /\ logT' \in LogTType /\ faults' \subseteq FaultKinds
         /\ logT'.pc \in {"poll", "hold"}
         /\ logT'.pc = "hold" => MacroMon \in Monitors
<1>1. CASE MacroMon \in Monitors /\ e \in Held
  <2>1. logT' = [logT EXCEPT !.pc = "hold", !.index = i] /\ UNCHANGED <<tx, faults>>
    BY <1>1 DEF ToStations
  <2>2. logT \in LogTType BY DEF TypeOK, LogTType
  <2>3. logT' \in LogTType /\ logT'.pc = "hold" BY <2>1, <2>2 DEF LogTType
  <2> QED BY <1>1, <2>1, <2>3 DEF TypeOK
<1>2. CASE ~(MacroMon \in Monitors /\ e \in Held)
  <2>1. FanOut(Monitors, i, e) BY <1>2 DEF ToStations
  <2>2. tx' \in [Monitors -> Seq(TxEntry)] /\ logT' = Polling /\ faults' \subseteq FaultKinds
    BY <2>1, FanOutType
  <2> QED BY <2>2, IdleTypes DEF Polling
<1> QED BY <1>1, <1>2

LEMMA QueuedIndexType == TypeOK => QueuedIndex \in Index
  BY ConstantTypes DEF TypeOK, QueuedIndex, Index

LEMMA NextTypeInv == TypeInv /\ [Next]_vars => TypeInv'
<1> SUFFICES ASSUME TypeInv, [Next]_vars PROVE TypeInv' OBVIOUS
<1> DEFINE Types ==
      /\ flash \in [Slots -> Record]
      /\ savedWrptr \in Slots /\ savedIndex \in 0..(IndexTop - 1)
      /\ wrptr \in Slots /\ eventIndex \in 0..(IndexTop - 1)
      /\ queue \in Seq(Events) /\ tx \in [Monitors -> Seq(TxEntry)]
      /\ logT \in LogTType /\ rabbit \in RabbitType
      /\ logged \in 0..MaxLogged /\ acked \in [Monitors -> SUBSET (0..MaxLogged)]
      /\ format \in FormatType /\ spent \in [Inputs -> Nat] /\ faults \subseteq FaultKinds
<1>a. TypeOK /\ Types /\ Working BY DEF TypeInv, TypeOK, LogTType, RabbitType, FormatType
<1>b. Types' /\ Working' => TypeInv' BY DEF TypeInv, TypeOK, LogTType, RabbitType, FormatType
<1> SUFFICES Types' /\ Working' BY <1>b
<1>c. /\ logT.slot \in Slots /\ logT.index \in Index /\ logT.ev \in 0..MaxLogged
      /\ rabbit.slot \in Slots /\ rabbit.rec \in Record /\ rabbit.left \in 0..Window
      /\ rabbit.pace \in 0..Pace
  BY <1>a DEF LogTType, RabbitType
<1>1. CASE logCidEvent
  <2>1. queue' \in Seq(Events) /\ logged' \in 0..MaxLogged
    BY <1>1, <1>a, ConstantTypes DEF logCidEvent, Events
  <2>2. Working' BY <1>1, <1>a DEF logCidEvent, Working
  <2> QED BY <1>1, <1>a, <2>1, <2>2 DEF logCidEvent, saved, pointers
<1>2. CASE StoreRecord
  <2>0. queue \in Seq(Events) /\ queue # <<>> BY <1>2, <1>a DEF StoreRecord
  <2>9. Head(queue) \in Events BY <2>0
  <2>1. Head(queue) \in 0..MaxLogged BY <2>9, ConstantTypes DEF Events
  <2>2. eventIndex \in Index BY <1>a, ConstantTypes DEF Index
  <2>3. logT' \in LogTType
    BY <1>2, <1>a, <2>1, <2>2 DEF StoreRecord, LogTType
  <2>4. [st |-> "ok", index |-> eventIndex, ev |-> Head(queue), ack |-> {}] \in Record
    BY <2>1, <2>2 DEF Record
  <2>5. flash' \in [Slots -> Record] /\ spent' \in [Inputs -> Nat] /\ faults' \subseteq FaultKinds
    BY <1>2, <1>a, <2>4, WriteSlotType DEF StoreRecord
  <2>6. rabbit' \in RabbitType
    <3>1. CASE rabbit.pc = "idle" BY <3>1, <1>2, <1>a DEF StoreRecord
    <3>2. CASE rabbit.pc # "idle"
      <4>1. rabbit.pace + 1 \in 0..Pace BY <3>2, <1>2, <1>c, ConstantTypes DEF StoreRecord
      <4>2. rabbit' = [rabbit EXCEPT !.pace = rabbit.pace + 1] BY <3>2, <1>2 DEF StoreRecord
      <4> QED BY <4>1, <4>2, <1>a DEF RabbitType
    <3> QED BY <3>1, <3>2
  <2>7. /\ rabbit'.pc = rabbit.pc /\ rabbit'.mon = rabbit.mon /\ rabbit'.left = rabbit.left
    BY <1>2, <1>a DEF StoreRecord, RabbitType
  <2>8. Working' BY <1>2, <1>a, <2>7 DEF StoreRecord, Working
  <2> QED BY <1>2, <1>a, <2>3, <2>5, <2>6, <2>8 DEF StoreRecord, saved, pointers, history
<1>3. CASE RewriteRecord
  <2>1. Written \in Record BY <1>c DEF Written, Record
  <2>2. flash' \in [Slots -> Record] /\ spent' \in [Inputs -> Nat] /\ faults' \subseteq FaultKinds
    BY <1>3, <1>a, <1>c, <2>1, WriteSlotType DEF RewriteRecord
  <2>3. logT' \in LogTType /\ logT'.pc = "reverify" BY <1>3, <1>a DEF RewriteRecord, LogTType
  <2>4. Working' BY <1>3, <1>a, <2>3 DEF RewriteRecord, Working
  <2> QED BY <1>3, <1>a, <2>2, <2>3, <2>4 DEF RewriteRecord, saved, pointers, history
<1>4. CASE AdvancePointers
  <2>1. logT' \in LogTType /\ logT'.pc = "index" BY <1>4, <1>a DEF AdvancePointers, LogTType
  <2>2. eventIndex' \in 0..(IndexTop - 1) /\ wrptr' \in Slots /\ savedWrptr' \in Slots
    BY <1>4, <1>a, RingArithmetic DEF AdvancePointers
  <2>3. faults' \subseteq FaultKinds BY <1>4, <1>a DEF AdvancePointers, FaultKinds
  <2>4. Working' BY <1>4, <1>a, <2>1 DEF AdvancePointers, Working
  <2> QED BY <1>4, <1>a, <2>1, <2>2, <2>3, <2>4 DEF AdvancePointers, history
<1>5. CASE SaveIndex
  <2>1. logT' \in LogTType /\ logT'.pc = "deliver" BY <1>5, <1>a DEF SaveIndex, LogTType
  <2>2. Working' BY <1>5, <1>a, <2>1 DEF SaveIndex, Working
  <2> QED BY <1>5, <1>a, <2>1, <2>2 DEF SaveIndex, pointers, history
<1>6. CASE Deliver
  <2>1. /\ tx' \in [Monitors -> Seq(TxEntry)] /\ logT' \in LogTType /\ faults' \subseteq FaultKinds
        /\ logT'.pc \in {"poll", "hold"} /\ (logT'.pc = "hold" => MacroMon \in Monitors)
    BY <1>6, <1>a, <1>c, QueuedIndexType, ToStationsType DEF Deliver
  <2>2. queue' \in Seq(Events) BY <1>6, <1>a DEF Deliver, Working
  <2>3. Working' BY <1>6, <1>a, <2>1 DEF Deliver, Working
  <2> QED BY <1>6, <1>a, <2>1, <2>2, <2>3 DEF Deliver, saved, pointers, history
<1>7. CASE DeliverUnstored
  <2>1. /\ tx' \in [Monitors -> Seq(TxEntry)] /\ logT' \in LogTType /\ faults' \subseteq FaultKinds
        /\ logT'.pc \in {"poll", "hold"} /\ (logT'.pc = "hold" => MacroMon \in Monitors)
    BY <1>7, <1>a, <1>c, QueuedIndexType, ToStationsType DEF DeliverUnstored
  <2>2. Working' BY <1>7, <1>a, <2>1 DEF DeliverUnstored, Working
  <2> QED BY <1>7, <1>a, <2>1, <2>2 DEF DeliverUnstored, saved, pointers, history
<1>8. CASE HoldEvent
  <2>1. flash' \in [Slots -> Record] BY <1>8, <1>a, TagForType DEF HoldEvent, Working
  <2>2. logT' \in LogTType /\ logT'.pc = "fanout" BY <1>8, <1>a DEF HoldEvent, LogTType
  <2>3. Working' BY <1>8, <1>a, <2>2 DEF HoldEvent, Working
  <2> QED BY <1>8, <1>a, <2>1, <2>2, <2>3 DEF HoldEvent, saved, pointers, history
<1>9. CASE DeliverRest
  <2>1. /\ tx' \in [Monitors -> Seq(TxEntry)] /\ logT' = Polling /\ faults' \subseteq FaultKinds
    BY <1>9, <1>a, <1>c, FanOutType DEF DeliverRest
  <2>2. Working' BY <1>9, <1>a, <2>1 DEF DeliverRest, Working, Polling
  <2> QED BY <1>9, <1>a, <2>1, <2>2, IdleTypes DEF DeliverRest, saved, pointers, history
<1>10. ASSUME NEW m \in Monitors, ReadOutEvent(m) PROVE Types' /\ Working'
  <2> DEFINE entry == Head(tx[m])
             found == find_event_by_index(entry.index)
  <2>1. tx[m] \in Seq(TxEntry) /\ tx[m] # <<>> BY <1>10, <1>a DEF ReadOutEvent
  <2>2. entry \in TxEntry /\ Tail(tx[m]) \in Seq(TxEntry) BY <2>1
  <2>3. entry.ev \in 0..MaxLogged BY <2>2 DEF TxEntry
  <2>4. tx' \in [Monitors -> Seq(TxEntry)] BY <1>10, <1>a, <2>2 DEF ReadOutEvent
  <2>5. acked' \in [Monitors -> SUBSET (0..MaxLogged)]
    BY <1>10, <1>a, <2>3 DEF ReadOutEvent
  <2>6. rabbit' \in RabbitType /\ (rabbit'.pc # "idle" => rabbit'.mon \in Monitors)
        /\ rabbit'.pc # "reload"
    <3>1. CASE UNCHANGED rabbit BY <3>1, <1>10, <1>a DEF ReadOutEvent
    <3>2. ASSUME NEW s \in found, rabbit' = [pc |-> "tag", mon |-> m, slot |-> s, left |-> 0,
                                            pace |-> 0, rec |-> flash[s]]
          PROVE  rabbit' \in RabbitType /\ rabbit'.mon = m /\ rabbit'.pc = "tag"
      <4>1. s \in Slots BY <3>2, <1>a, FindType
      <4> QED BY <3>2, <4>1, <1>a, ConstantTypes DEF RabbitType
    <3> QED BY <3>1, <3>2, <1>10 DEF ReadOutEvent
  <2>7. Working' BY <1>10, <1>a, <2>6 DEF ReadOutEvent, Working
  <2> QED BY <1>10, <1>a, <2>4, <2>5, <2>6, <2>7 DEF ReadOutEvent, saved, pointers
<1>11. ASSUME NEW m \in Monitors, ReloadUnAckEvents25(m) PROVE Types' /\ Working'
  <2>1. ReloadFrom \in Slots BY <1>a, ConstantTypes DEF ReloadFrom, Slots
  <2>2. rabbit' = [pc |-> "reload", mon |-> m, slot |-> ReloadFrom, left |-> Window,
                   pace |-> 0, rec |-> Blank]
    BY <1>11 DEF ReloadUnAckEvents25
  <2>3. rabbit' \in RabbitType BY <2>1, <2>2, ConstantTypes, RecordTypes DEF RabbitType
  <2>4. Working' BY <1>11, <1>a, <2>2, ConstantTypes DEF ReloadUnAckEvents25, Working
  <2> QED BY <1>11, <1>a, <2>3, <2>4 DEF ReloadUnAckEvents25, saved, pointers, history
<1>12. CASE TagEvent
  <2>1. rabbit.mon \in Monitors BY <1>12, <1>a DEF TagEvent, Working
  <2>2. [rabbit.rec EXCEPT !.ack = @ \cup {rabbit.mon}] \in Record BY <2>1, <1>c DEF Record
  <2>3. flash' \in [Slots -> Record] /\ spent' \in [Inputs -> Nat] /\ faults' \subseteq FaultKinds
    BY <1>12, <1>a, <1>c, <2>2, WriteSlotType DEF TagEvent
  <2>4. rabbit' \in RabbitType /\ rabbit'.pc = "idle" BY <1>12, IdleTypes DEF TagEvent, Idle
  <2>5. Working' BY <1>12, <1>a, <2>4 DEF TagEvent, Working
  <2> QED BY <1>12, <1>a, <2>3, <2>4, <2>5 DEF TagEvent, saved, pointers, history
<1>13. CASE ReloadSlot
  <2>1. rabbit.mon \in Monitors /\ rabbit.left >= 1 BY <1>13, <1>a DEF ReloadSlot, Working
  <2>2. /\ rabbit' \in RabbitType /\ (rabbit'.pc # "idle" => rabbit'.mon \in Monitors)
        /\ rabbit'.pc = "reload" => rabbit'.left >= 1
    <3>1. CASE rabbit.left = 1 BY <3>1, <1>13, IdleTypes DEF ReloadSlot, Idle
    <3>2. CASE rabbit.left # 1
      <4>1. rabbit' = [rabbit EXCEPT !.slot = SlotInc(rabbit.slot), !.left = rabbit.left - 1]
        BY <3>2, <1>13 DEF ReloadSlot
      <4>2. rabbit.left - 1 \in 0..Window /\ rabbit.left - 1 >= 1 BY <3>2, <2>1, <1>c, ConstantTypes
      <4>3. SlotInc(rabbit.slot) \in Slots BY <1>c, RingArithmetic
      <4> QED BY <4>1, <4>2, <4>3, <1>a, <2>1 DEF RabbitType
    <3> QED BY <3>1, <3>2
  <2>3. flash[rabbit.slot] \in Record BY <1>a, <1>c
  <2>4. flash[rabbit.slot].index \in Index /\ flash[rabbit.slot].ev \in 0..MaxLogged
    BY <2>3 DEF Record
  <2>5. tx' \in [Monitors -> Seq(TxEntry)]
    <3>1. CASE UNCHANGED tx BY <3>1, <1>a
    <3>2. CASE tx' = TxAfter({rabbit.mon}, flash[rabbit.slot].index, flash[rabbit.slot].ev)
      BY <3>2, <1>a, <2>4, TxAfterType
    <3> QED BY <3>1, <3>2, <1>13 DEF ReloadSlot
  <2>6. flash' \in [Slots -> Record]
    BY <1>13, <1>a, <2>1, TagForType DEF ReloadSlot
  <2>7. faults' \subseteq FaultKinds BY <1>13, <1>a DEF ReloadSlot, FaultKinds
  <2>8. Working' BY <1>13, <1>a, <2>2 DEF ReloadSlot, Working
  <2> QED BY <1>13, <1>a, <2>2, <2>5, <2>6, <2>7, <2>8 DEF ReloadSlot, saved, pointers, history
<1>14. CASE FormatEventFlash
  <2>1. format' \in FormatType BY <1>14, ConstantTypes DEF FormatEventFlash, FormatType
  <2>2. spent' \in [Inputs -> Nat] BY <1>14, <1>a DEF FormatEventFlash, Spend, Inputs
  <2>3. faults' \subseteq FaultKinds BY <1>14, <1>a DEF FormatEventFlash, MetWork, FaultKinds, Inputs
  <2>4. Working' BY <1>14, <1>a DEF FormatEventFlash, Working
  <2> QED BY <1>14, <1>a, <2>1, <2>2, <2>3, <2>4 DEF FormatEventFlash, saved, pointers, history
<1>15. CASE EraseSlots
  <2>1. flash' \in [Slots -> Record]
    BY <1>15, <1>a, RecordTypes DEF EraseSlots, EraseTo
  <2>2. PICK k \in (format.done + 1)..(DF_MAXEVENTS - 1) : format' = [format EXCEPT !.done = k]
    BY <1>15 DEF EraseSlots
  <2>3. format.done \in 0..(DF_MAXEVENTS - 1) BY <1>a DEF FormatType
  <2>4. k \in 0..(DF_MAXEVENTS - 1) BY <2>3, ConstantTypes
  <2>5. format' \in FormatType BY <2>2, <2>4, <1>a DEF FormatType
  <2>6. Working' BY <1>15, <1>a DEF EraseSlots, Working
  <2> QED BY <1>15, <1>a, <2>1, <2>5, <2>6 DEF EraseSlots, saved, pointers, history
<1>16. CASE EraseRest
  <2>1. flash' \in [Slots -> Record] BY <1>16, <1>a, RecordTypes DEF EraseRest, EraseTo
  <2>2. format' \in FormatType BY <1>16, ConstantTypes DEF EraseRest, FormatType
  <2>3. wrptr' \in Slots /\ savedWrptr' \in Slots /\ eventIndex' \in 0..(IndexTop - 1)
    BY <1>16, ConstantTypes DEF EraseRest, Slots
  <2>4. faults' \subseteq FaultKinds BY <1>16, <1>a DEF EraseRest, MetWork, FaultKinds, Inputs
  <2>5. Working' BY <1>16, <1>a DEF EraseRest, Working
  <2> QED BY <1>16, <1>a, <2>1, <2>2, <2>3, <2>4, <2>5 DEF EraseRest, history
<1>17. CASE FormatSaveIndex
  <2>1. Working' BY <1>17, <1>a DEF FormatSaveIndex, Working
  <2> QED BY <1>17, <1>a, <2>1, IdleTypes DEF FormatSaveIndex, pointers, history
<1>18. CASE Crash
  <2>1. logT' \in LogTType /\ rabbit' \in RabbitType /\ format' \in FormatType
    BY <1>18, IdleTypes DEF Crash
  <2>2. queue' \in Seq(Events) /\ tx' \in [Monitors -> Seq(TxEntry)] BY <1>18 DEF Crash
  <2>3. wrptr' \in Slots /\ eventIndex' \in 0..(IndexTop - 1) BY <1>18, <1>a DEF Crash, Get_evwrptr
  <2>4. spent' \in [Inputs -> Nat] BY <1>18, <1>a DEF Crash, Spend, Inputs
  <2>5. faults' \subseteq FaultKinds BY <1>18, <1>a DEF Crash, FaultKinds, Inputs
  <2>6. Working' BY <1>18 DEF Crash, Working, Idle, Polling
  <2> QED BY <1>18, <1>a, <2>1, <2>2, <2>3, <2>4, <2>5, <2>6 DEF Crash, saved, history
<1>19. CASE UNCHANGED vars
  BY <1>19, <1>a DEF vars, saved, pointers, history, Working
<1> QED
  BY <1>1, <1>2, <1>3, <1>4, <1>5, <1>6, <1>7, <1>8, <1>9, <1>10, <1>11, <1>12, <1>13, <1>14,
     <1>15, <1>16, <1>17, <1>18, <1>19
  DEF Next, LogTStep, FormatStep

(***************************************************************************)
(* Whatever the sizes of the rings, LogT_Task, RabbitTask, a format and a  *)
(* restart keep every position inside its table and every record, ring     *)
(* entry and index inside its type.                                        *)
(***************************************************************************)
THEOREM TypeCorrect == Spec => []TypeOK
<1>1. TypeInv => TypeOK BY DEF TypeInv
<1> QED BY <1>1, InitTypeInv, NextTypeInv, PTL DEF Spec

-----------------------------------------------------------------------------
(***************************************************************************)
(* InitMonitoreoStruct reloads before Get_evwrptr has run, with            *)
(* evflash_wrptr = 0: whatever the flash holds, ReloadUnAckEvents then     *)
(* queues nothing, which is why Crash leaves the transmit rings empty.     *)
(***************************************************************************)
LEMMA BootReloadIsEmpty ==
  ASSUME NEW m \in Monitors
  PROVE  RequeuedAtBoot(m, 0) = {}
  BY DEF RequeuedAtBoot, Slots

-----------------------------------------------------------------------------
(***************************************************************************)
(* The ring is long enough: a record that waits in a transmit ring, or     *)
(* whose mark is being written, is not overwritten meanwhile.  Held events *)
(* move on without taking a place in the ring of their station, so that    *)
(* they count as well.  The panel: 25 + 25 + 2 * 2 + |Held| <= 4224.       *)
(***************************************************************************)
HeldFit == TXEVENTBUFFERLEN + Window + 2 * Pace + Cardinality(Held) <= DF_MAXEVENTS

-----------------------------------------------------------------------------
(* Distances on the ring and on the circle of the indices.                 *)

\* How many records back from the write position w slot s lies.
Age(w, s) == IF s < w THEN w - s ELSE w - s + DF_MAXEVENTS

\* The index given a records before index i.
Minus(i, a) == IF a <= i THEN i - a ELSE i - a + IndexTop

\* How far n is past the last full turn of a transmit ring.
Lap(n) == n % TXEVENTBUFFERLEN

\* Events up to n that went by without a place in the ring of station m.
HeldUpTo(m, n) == IF m = MacroMon THEN Cardinality({h \in Held : h <= n}) ELSE 0

LEMMA AgeFacts ==
  ASSUME NEW w \in Slots
  PROVE  /\ \A s \in Slots : Age(w, s) \in Nat /\ 1 <= Age(w, s) /\ Age(w, s) <= DF_MAXEVENTS
         /\ \A s \in Slots : Age(w, s) = DF_MAXEVENTS <=> s = w
         /\ \A s, t \in Slots : Age(w, s) = Age(w, t) => s = t
         /\ \A k \in Slots : Age(w, Back(w, k)) = k + 1
         /\ \A s \in Slots : Age(w, s) - 1 \in Slots /\ Back(w, Age(w, s) - 1) = s
<1>1. /\ \A s \in Slots : Age(w, s) \in Nat /\ 1 <= Age(w, s) /\ Age(w, s) <= DF_MAXEVENTS
      /\ \A s \in Slots : Age(w, s) = DF_MAXEVENTS <=> s = w
      /\ \A s, t \in Slots : Age(w, s) = Age(w, t) => s = t
  BY ConstantTypes DEF Age, Slots
<1>2. ASSUME NEW k \in Slots PROVE Age(w, Back(w, k)) = k + 1
  <2>1. Back(w, k) = IF k + 1 <= w THEN w - 1 - k ELSE w - 1 - k + DF_MAXEVENTS
    BY RingArithmetic
  <2> QED BY <2>1, ConstantTypes DEF Age, Slots
<1>3. ASSUME NEW s \in Slots
      PROVE  Age(w, s) - 1 \in Slots /\ Back(w, Age(w, s) - 1) = s
  <2>1. Age(w, s) - 1 \in Slots BY <1>1, ConstantTypes DEF Slots
  <2>2. Age(w, Back(w, Age(w, s) - 1)) = Age(w, s) BY <1>1, <1>2, <2>1
  <2>3. Back(w, Age(w, s) - 1) \in Slots BY <2>1, RingArithmetic
  <2> QED BY <1>1, <2>1, <2>2, <2>3
<1> QED BY <1>1, <1>2, <1>3

\* The write position moves on: every record is one older.
LEMMA AgeAdvances ==
  ASSUME NEW w \in Slots, NEW s \in Slots
  PROVE  Age(SlotInc(w), s) = IF s = w THEN 1 ELSE Age(w, s) + 1
  BY ConstantTypes DEF Age, Slots, SlotInc

\* The next slot is one record younger.
LEMMA AgeOfNext ==
  ASSUME NEW w \in Slots, NEW s \in Slots, Age(w, s) >= 2
  PROVE  Age(w, SlotInc(s)) = Age(w, s) - 1
  BY ConstantTypes DEF Age, Slots, SlotInc

LEMMA AgeOfReloadFrom ==
  ASSUME NEW w \in Slots
  PROVE  Age(w, (w - Window) % DF_MAXEVENTS) = Window
<1>1. Window <= DF_MAXEVENTS /\ Window >= 1 /\ Window \in Nat /\ DF_MAXEVENTS \in Nat
  BY ConstantsAssumption DEF ConstantsAssumption
<1>2. CASE Window <= w
  <2>1. (w - Window) % DF_MAXEVENTS = w - Window BY <1>1, <1>2 DEF Slots
  <2> QED BY <1>1, <1>2, <2>1 DEF Age, Slots
<1>3. CASE Window > w
  <2>1. (w - Window) % DF_MAXEVENTS = w - Window + DF_MAXEVENTS BY <1>1, <1>3 DEF Slots
  <2> QED BY <1>1, <1>3, <2>1 DEF Age, Slots
<1> QED BY <1>1, <1>2, <1>3 DEF Slots

LEMMA MinusFacts ==
  ASSUME NEW i \in 0..(IndexTop - 1)
  PROVE  /\ \A a \in 1..DF_MAXEVENTS : Minus(i, a) \in 0..(IndexTop - 1) /\ Minus(i, a) # i
         /\ \A a, b \in 1..DF_MAXEVENTS : Minus(i, a) = Minus(i, b) => a = b
         /\ \A a \in 1..(DF_MAXEVENTS - 1) : Minus(IndexInc(i), a + 1) = Minus(i, a)
         /\ Minus(IndexInc(i), 1) = i
         /\ IndexInc(Minus(i, 1)) = i
  BY ConstantTypes DEF Minus, IndexInc

LEMMA QueuedIndexFacts ==
  ASSUME TypeInv
  PROVE  QueuedIndex = IF eventIndex = 0 THEN IndexTop ELSE eventIndex - 1
<1>1. eventIndex \in 0..(IndexTop - 1) BY DEF TypeInv, TypeOK
<1>2. CASE eventIndex = 0
  <2>1. (0 - 1) % (IndexTop + 1) = IndexTop BY ConstantTypes
  <2> QED BY <1>2, <2>1 DEF QueuedIndex
<1>3. CASE eventIndex # 0
  <2>1. (eventIndex - 1) % (IndexTop + 1) = eventIndex - 1 BY <1>1, <1>3, ConstantTypes
  <2> QED BY <1>3, <2>1 DEF QueuedIndex
<1> QED BY <1>2, <1>3

LEMMA Remainder ==
  ASSUME NEW d \in Nat, NEW q \in Nat, NEW r \in Nat, r < d
  PROVE  (d * q + r) % d = r
<1> DEFINE n == d * q + r
           p == n \div d
           k == n % d
<1>1. n \in Nat /\ p \in Nat /\ k \in Nat /\ k < d /\ n = d * p + k OBVIOUS
<1>2. d * (q - p) = k - r BY <1>1
<1>3. CASE q > p
  <2>1. d * (q - p) >= d BY <1>1, <1>3
  <2> QED BY <1>1, <1>2, <2>1
<1>4. CASE q < p
  <2>1. d * (p - q) >= d BY <1>1, <1>4
  <2>2. d * (q - p) = -(d * (p - q)) BY <1>1
  <2> QED BY <1>1, <1>2, <2>1, <2>2
<1>5. CASE q = p BY <1>1, <1>5
<1> QED BY <1>1, <1>3, <1>4, <1>5

LEMMA LapFacts ==
  /\ \A n \in Nat : Lap(n) \in Nat /\ Lap(n) <= TXEVENTBUFFERLEN - 1
  /\ \A n \in Nat : n < TXEVENTBUFFERLEN => Lap(n) = n
  /\ \A n \in Nat : Lap(n + 1) = 0 \/ Lap(n + 1) = Lap(n) + 1
<1> DEFINE T == TXEVENTBUFFERLEN
<1>0. T \in Nat /\ T >= 1 BY ConstantsAssumption DEF ConstantsAssumption
<1> HIDE DEF T
<1>1. \A n \in Nat : n % T \in 0..(T - 1) BY <1>0
<1>2. \A n \in Nat : n < T => n % T = n BY <1>0
<1>3. ASSUME NEW n \in Nat PROVE (n + 1) % T = 0 \/ (n + 1) % T = (n % T) + 1
  <2> DEFINE q == n \div T
             r == n % T
  <2>1. q \in Nat /\ r \in 0..(T - 1) /\ n = T * q + r BY <1>0
  <2>2. CASE r + 1 < T
    <3>1. n + 1 = T * q + (r + 1) BY <1>0, <2>1
    <3>2. (n + 1) % T = r + 1 BY <1>0, <2>1, <2>2, <3>1, Remainder
    <3> QED BY <3>2
  <2>3. CASE r + 1 = T
    <3>1. n + 1 = T * (q + 1) + 0 BY <1>0, <2>1, <2>3
    <3>2. q + 1 \in Nat /\ 0 \in Nat /\ 0 < T BY <1>0, <2>1
    <3> HIDE DEF q
    <3>3. (T * (q + 1) + 0) % T = 0 BY <1>0, <3>2, Remainder
    <3>4. (n + 1) % T = 0 BY <3>1, <3>3
    <3> QED BY <3>4
  <2> QED BY <1>0, <2>1, <2>2, <2>3
<1>4. \A n : Lap(n) = n % T BY DEF Lap, T
<1>5. \A n \in Nat : Lap(n) \in Nat /\ Lap(n) <= T - 1
  <2>1. SUFFICES ASSUME NEW n \in Nat PROVE Lap(n) \in Nat /\ Lap(n) <= T - 1 OBVIOUS
  <2>2. n % T \in 0..(T - 1) BY <1>1
  <2> QED BY <1>0, <1>4, <2>2
<1> QED BY <1>2, <1>3, <1>4, <1>5 DEF T

LEMMA HeldFacts ==
  /\ Cardinality(Held) \in Nat
  /\ \A m, n : HeldUpTo(m, n) \in Nat /\ HeldUpTo(m, n) <= Cardinality(Held)
  /\ \A m : \A n \in Nat, k \in Nat : n <= k => HeldUpTo(m, n) <= HeldUpTo(m, k)
  /\ \A n \in Nat : n + 1 \in Held => HeldUpTo(MacroMon, n + 1) = HeldUpTo(MacroMon, n) + 1
<1>1. Held \in SUBSET (1..MaxLogged) /\ MaxLogged \in Nat
  BY ConstantsAssumption DEF ConstantsAssumption
<1>2. IsFiniteSet(Held)
  <2>1. IsFiniteSet(1..MaxLogged) BY <1>1, FS_Interval
  <2> QED BY <1>1, <2>1, FS_Subset
<1>3. Cardinality(Held) \in Nat BY <1>2, FS_CardinalityType
<1> DEFINE Up(n) == {h \in Held : h <= n}
<1>4. \A n : Up(n) \in SUBSET Held OBVIOUS
<1>0. \A h \in Held : h \in Nat BY <1>1
<1>5. ASSUME NEW n \in Nat, NEW k \in Nat, n <= k PROVE Up(n) \in SUBSET Up(k)
  BY <1>0, <1>5
<1>6. ASSUME NEW n \in Nat, n + 1 \in Held
      PROVE  Up(n + 1) = Up(n) \cup {n + 1} /\ n + 1 \notin Up(n)
  BY <1>0, <1>6
<1>7. \A m, n : HeldUpTo(m, n) = IF m = MacroMon THEN Cardinality(Up(n)) ELSE 0 BY DEF HeldUpTo
<1> HIDE DEF Up
<1>8. \A n : IsFiniteSet(Up(n)) BY <1>2, <1>4, FS_Subset
<1>9. \A n : Cardinality(Up(n)) \in Nat BY <1>8, FS_CardinalityType
<1>10. \A n : Cardinality(Up(n)) <= Cardinality(Held) BY <1>2, <1>4, FS_Subset
<1>11. \A n, k \in Nat : n <= k => Cardinality(Up(n)) <= Cardinality(Up(k))
  BY <1>5, <1>8, FS_Subset
<1>12. \A n \in Nat : n + 1 \in Held => Cardinality(Up(n + 1)) = Cardinality(Up(n)) + 1
  <2>1. SUFFICES ASSUME NEW n \in Nat, n + 1 \in Held
                 PROVE  Cardinality(Up(n + 1)) = Cardinality(Up(n)) + 1
    OBVIOUS
  <2>2. Cardinality(Up(n) \cup {n + 1}) = Cardinality(Up(n)) + 1
    BY <1>6, <1>8, <2>1, FS_AddElement
  <2> QED BY <1>6, <2>1, <2>2
<1> QED BY <1>3, <1>7, <1>9, <1>10, <1>11, <1>12

-----------------------------------------------------------------------------
(* find_event_by_index finds the newest record with the index.             *)

LEMMA FoundFacts ==
  ASSUME NEW i, wrptr \in Slots, NEW s \in find_event_by_index(i)
  PROVE  /\ s \in Slots /\ flash[s].index = i /\ flash[s].st # "erased"
         /\ \A t \in Slots : flash[t].index = i => Age(wrptr, s) <= Age(wrptr, t)
<1>1. PICK k \in Matches(i) : s = Back(wrptr, k) /\ \A j \in Matches(i) : k <= j
  BY DEF find_event_by_index
<1>2. /\ k \in Slots /\ flash[Back(wrptr, k)].index = i
      /\ \A j \in 0..k : flash[Back(wrptr, j)].st # "erased"
  BY DEF Matches
<1>3. s \in Slots /\ Age(wrptr, s) = k + 1 BY <1>1, <1>2, RingArithmetic, AgeFacts
<1>4. k \in 0..k BY <1>2 DEF Slots
<1>5. ASSUME NEW t \in Slots, flash[t].index = i, Age(wrptr, t) < Age(wrptr, s) PROVE FALSE
  <2> DEFINE j == Age(wrptr, t) - 1
  <2>1. j \in Slots /\ Back(wrptr, j) = t BY AgeFacts
  <2>4. Age(wrptr, t) \in Nat /\ Age(wrptr, s) \in Nat BY <1>3, AgeFacts
  <2>5. j \in Nat /\ k \in Nat BY <1>2, <2>1, ConstantTypes DEF Slots
  <2>2. j < k /\ 0..j \subseteq 0..k BY <1>3, <1>5, <2>4, <2>5
  <2>3. j \in Matches(i) BY <1>2, <1>5, <2>1, <2>2 DEF Matches
  <2> QED BY <1>1, <1>2, <2>1, <2>2, <2>3, ConstantTypes DEF Slots
<1>6. \A t \in Slots : Age(wrptr, t) \in Nat BY AgeFacts
<1> QED BY <1>1, <1>2, <1>3, <1>4, <1>5, <1>6

LEMMA FoundOnce ==
  ASSUME NEW i, wrptr \in Slots, NEW s \in find_event_by_index(i), NEW t \in find_event_by_index(i)
  PROVE  s = t
<1>1. /\ s \in Slots /\ flash[s].index = i /\ t \in Slots /\ flash[t].index = i
      /\ Age(wrptr, s) <= Age(wrptr, t) /\ Age(wrptr, t) <= Age(wrptr, s)
  BY FoundFacts
<1>2. Age(wrptr, s) \in Nat /\ Age(wrptr, t) \in Nat BY <1>1, AgeFacts
<1>3. Age(wrptr, s) = Age(wrptr, t) BY <1>1, <1>2
<1> QED BY <1>1, <1>3, AgeFacts

\* The newest record of all is found at once.
LEMMA FoundNewest ==
  ASSUME wrptr \in Slots, NEW s \in Slots, Age(wrptr, s) = 1, flash[s].st # "erased"
  PROVE  find_event_by_index(flash[s].index) = {s}
<1> DEFINE i == flash[s].index
<1>1. 0 \in Slots /\ Back(wrptr, 0) = s /\ 0..0 = {0}
  BY AgeFacts
<1>2. 0 \in Matches(i) BY <1>1 DEF Matches
<1>3. \A j \in Matches(i) : 0 <= j BY DEF Matches, Slots
<1>4. s \in find_event_by_index(i) BY <1>1, <1>2, <1>3 DEF find_event_by_index
<1> QED BY <1>4, FoundOnce

\* A record is found if no other has its index and no slot after it is erased.
LEMMA FoundAlone ==
  ASSUME wrptr \in Slots, NEW s \in Slots,
         \A t \in Slots : Age(wrptr, t) <= Age(wrptr, s) => flash[t].st # "erased",
         \A t \in Slots : flash[t].st # "erased" /\ flash[t].index = flash[s].index => t = s
  PROVE  find_event_by_index(flash[s].index) = {s}
<1> DEFINE i == flash[s].index
           k == Age(wrptr, s) - 1
<1>1. k \in Slots /\ Back(wrptr, k) = s BY AgeFacts
<1>2. ASSUME NEW j \in 0..k PROVE flash[Back(wrptr, j)].st # "erased"
  <2>1. j \in Slots BY <1>1, ConstantTypes DEF Slots
  <2>2. Back(wrptr, j) \in Slots /\ Age(wrptr, Back(wrptr, j)) = j + 1
    BY <2>1, RingArithmetic, AgeFacts
  <2>3. Age(wrptr, s) \in Nat BY AgeFacts
  <2> QED BY <2>2, <2>3
<1>3. k \in Matches(i) BY <1>1, <1>2 DEF Matches
<1>4. ASSUME NEW j \in Matches(i) PROVE j = k
  <2>1. j \in Slots /\ flash[Back(wrptr, j)].index = i BY DEF Matches
  <2>2. j \in 0..j BY <2>1 DEF Slots
  <2>3. flash[Back(wrptr, j)].st # "erased" BY <2>2 DEF Matches
  <2>4. Back(wrptr, j) = s BY <2>1, <2>3, RingArithmetic
  <2>5. Age(wrptr, s) = j + 1 BY <2>1, <2>4, AgeFacts
  <2> QED BY <2>1, <2>5, ConstantTypes DEF Slots
<1>5. k <= k BY <1>1 DEF Slots
<1>6. s \in find_event_by_index(i)
  BY <1>1, <1>3, <1>4, <1>5 DEF find_event_by_index
<1> QED BY <1>6, FoundOnce

-----------------------------------------------------------------------------
(* Where the tasks are.                                                    *)

Ok(s)   == flash[s].st = "ok"
Writing == logT.pc \in {"verify", "reverify"}
InHand  == logT.pc \in {"verify", "reverify", "index", "deliver"}
Holding == logT.pc \in {"hold", "fanout"}

\* A record is at the write position that has not moved on yet ...
Unmoved == IF Writing THEN 1 ELSE 0

\* ... or has not gone to the ring of station m yet.
Unsent(m) == IF InHand \/ (Holding /\ m # MacroMon) THEN 1 ELSE 0

\* Events taken off the queue; the next one is LogT_Task's.
Taken == logged - Len(queue)

\* No write has failed and no format has met work in progress.
Sound == NoneOf({"badWrite", "format"})

(***************************************************************************)
(* The queue holds the last events logged, and LogT_Task the first of      *)
(* them.                                                                   *)
(***************************************************************************)
Queued ==
  /\ Taken >= 0
  /\ \A i \in 1..Len(queue) : queue[i] = Taken + i
  /\ InHand => logT.ev = Taken + 1
  /\ Holding => logT.ev \in Held /\ MacroMon \in Monitors
  /\ rabbit.pc = "tag" => format.pc # "erase"
  /\ savedWrptr = wrptr

\* The record that LogT_Task has in hand.
Hand ==
  /\ Writing => logT.slot = wrptr /\ logT.index = eventIndex /\ flash[wrptr] = Written
  /\ logT.pc \in {"index", "deliver"} =>
       flash[logT.slot].index = logT.index /\ eventIndex = IndexInc(logT.index)
  /\ Holding => logT.ev = Taken /\ logT.index \in {IndexTop, flash[logT.slot].index}
  /\ logT.pc # "poll" => Ok(logT.slot) /\ flash[logT.slot].ev = logT.ev
  /\ logT.pc # "poll" /\ ~Writing => Age(wrptr, logT.slot) = 1

(***************************************************************************)
(* The records of the ring: all different, and older the farther back they *)
(* lie.  The slot at the write position may hold what a power loss gave up.*)
(***************************************************************************)
Records ==
  /\ \A s \in Slots : flash[s].st # "bad"
  /\ \A s \in Slots : Ok(s) => /\ flash[s].index # IndexTop
                             /\ flash[s].ev >= 1
                             /\ (flash[s].ev <= Taken \/ (InHand /\ s = logT.slot))
  /\ \A s, t \in Slots : Ok(s) /\ Ok(t) /\ flash[s].ev = flash[t].ev => s = t
  /\ \A s, t \in Slots :
       Ok(s) /\ Ok(t) /\ Age(wrptr, s) < Age(wrptr, t) /\ t # wrptr => flash[t].ev < flash[s].ev

\* A format that met no work finds none until it has erased the last slot.
Erasing ==
  format.pc = "erase" =>
    queue = <<>> /\ logT.pc = "poll" /\ \A s \in Slots : s < format.done => ~Ok(s)

(***************************************************************************)
(* What waits in a transmit ring is still in the log, and not too far back *)
(* to be overwritten while it waits: each record that went by pushed the   *)
(* ring on by one place, until the place of the entry itself was taken.    *)
(***************************************************************************)
Reach(m, k) ==
  Window + Pace + Lap(Len(tx[m]) - k) + Unsent(m) + HeldUpTo(m, Taken)

IsOf(r, x) == r.st = "ok" /\ r.index = x.index /\ r.ev = x.ev

Entries ==
  \A m \in Monitors : \A k \in 1..Len(tx[m]) :
    /\ tx[m][k].ev <= Taken
    /\ format.pc # "erase" /\ tx[m][k].index # IndexTop =>
         \E s \in Slots : IsOf(flash[s], tx[m][k]) /\ Age(wrptr, s) + Unmoved <= Reach(m, k)

\* The record whose mark RabbitTask is about to write is where it read it.
Tagging ==
  rabbit.pc = "tag" =>
    /\ rabbit.rec.st = "ok" /\ IsOf(flash[rabbit.slot], rabbit.rec)
    /\ Age(wrptr, rabbit.slot) + Unmoved <=
         Window + Pace + TXEVENTBUFFERLEN + rabbit.pace + HeldUpTo(rabbit.mon, Taken)

\* A reload stays ahead of LogT_Task, by the records stored since it began.
Reloading ==
  rabbit.pc = "reload" =>
    /\ Age(wrptr, rabbit.slot) + Unmoved = rabbit.left + rabbit.pace
    /\ InHand => rabbit.pace >= 1

SoundInv == Sound => Hand /\ Records /\ Erasing /\ Entries /\ Tagging /\ Reloading

(***************************************************************************)
(* Each index tells how far back its record lies.  After a format the      *)
(* saved index is old until FormatEventFlash, or LogT_Task, saves it; the  *)
(* log is then empty but for what is at the write position.                *)
(***************************************************************************)
Empty == \A s \in Slots : s # wrptr => ~Ok(s)

Indexed ==
  /\ logT.pc # "index" => savedIndex = eventIndex \/ (format.pc = "save" /\ Empty)
  /\ \A s \in Slots : Ok(s) /\ s # wrptr => flash[s].index = Minus(eventIndex, Age(wrptr, s))
  /\ Ok(wrptr) => flash[wrptr].index \in {eventIndex, Minus(eventIndex, DF_MAXEVENTS)} \/ Empty

\* A mark is on the record of an event that was acknowledged or is held.
Marked ==
  /\ \A s \in Slots, m \in Monitors :
       m \in flash[s].ack => flash[s].ev \in acked[m] \/ IsHeld(m, flash[s].ev)
  /\ rabbit.pc = "tag" =>
       /\ rabbit.rec.ev \in acked[rabbit.mon] /\ flash[rabbit.slot] = rabbit.rec
       /\ logT.pc # "poll" => rabbit.slot # logT.slot

IndexInv == ~Corrupted => Indexed /\ Marked

(***************************************************************************)
(* Without any fault the log has no hole, every acknowledged event has its *)
(* mark, or is getting it, and an event waits at most once for a station.  *)
(***************************************************************************)
Dense ==
  format.pc # "erase" =>
    \A s, t \in Slots :
      Age(wrptr, s) < Age(wrptr, t) /\ ~(Writing /\ t = wrptr) /\ Ok(t) => Ok(s)

AllMarked ==
  \A s \in Slots, m \in Monitors :
    Ok(s) /\ flash[s].ev \in acked[m] /\ flash[s].ev \notin Held =>
      m \in flash[s].ack \/ (rabbit.pc = "tag" /\ rabbit.mon = m /\ rabbit.slot = s)

Past ==
  /\ \A m \in Monitors : \A e \in acked[m] : e <= Taken
  /\ \A m \in Monitors : \A k \in 1..Len(tx[m]) : tx[m][k].index # IndexTop
  /\ logT.pc \in {"index", "deliver"} => eventIndex # 0
  /\ Holding => logT.index # IndexTop

Once ==
  \A m \in Monitors : \A i, j \in 1..Len(tx[m]) :
    tx[m][i].ev \notin Held =>
      tx[m][i].ev \notin acked[m] /\ (i # j => tx[m][i].ev # tx[m][j].ev)

\* What a reload has yet to look at is not in the ring.
Ahead(s) ==
  /\ Age(wrptr, s) <= Age(wrptr, rabbit.slot)
  /\ Age(wrptr, s) > Age(wrptr, rabbit.slot) - rabbit.left

NotYet ==
  rabbit.pc = "reload" =>
    \A s \in Slots : Ok(s) /\ flash[s].ev \notin Held /\ Ahead(s) =>
      \A k \in 1..Len(tx[rabbit.mon]) : tx[rabbit.mon][k].ev # flash[s].ev

ResendInv == NoneOf(FaultKinds) => Dense /\ AllMarked /\ Past /\ Once /\ NotYet

Inv == Queued /\ SoundInv /\ IndexInv /\ ResendInv

-----------------------------------------------------------------------------
(* The queue.                                                              *)

LEMMA Typed ==
  ASSUME TypeInv
  PROVE  /\ flash \in [Slots -> Record]
         /\ wrptr \in Slots /\ eventIndex \in 0..(IndexTop - 1)
         /\ savedWrptr \in Slots /\ savedIndex \in 0..(IndexTop - 1)
         /\ queue \in Seq(Events) /\ tx \in [Monitors -> Seq(TxEntry)]
         /\ logT \in LogTType /\ rabbit \in RabbitType /\ format \in FormatType
         /\ logged \in Nat /\ acked \in [Monitors -> SUBSET (0..MaxLogged)]
         /\ logT.slot \in Slots /\ rabbit.slot \in Slots /\ rabbit.left \in Nat
         /\ rabbit.left <= Window /\ rabbit.pace \in Nat /\ rabbit.pace <= Pace
         /\ Taken \in Int /\ Working
  BY ConstantTypes
  DEF TypeInv, TypeOK, LogTType, RabbitType, FormatType, Taken

LEMMA InitQueued == Init => Queued
<1> SUFFICES ASSUME Init PROVE Queued OBVIOUS
<1>1. Len(queue) = 0 /\ logged = 0 BY DEF Init
<1>2. \A i \in 1..Len(queue) : queue[i] = Taken + i BY <1>1
<1> QED BY <1>1, <1>2 DEF Init, Queued, Taken, InHand, Holding, Polling, Idle

\* LogT_Task has the event delivered, or waits for the mark of a held one.
LEMMA ToStationsEffect ==
  ASSUME TypeInv, NEW i, ToStations(i, logT.ev)
  PROVE  \/ logT'.pc = "poll" /\ FanOut(Monitors, i, logT.ev)
            /\ ~(MacroMon \in Monitors /\ logT.ev \in Held)
         \/ /\ logT'.pc = "hold" /\ logT'.ev = logT.ev /\ logT'.slot = logT.slot /\ logT'.index = i
            /\ logT.ev \in Held /\ MacroMon \in Monitors /\ UNCHANGED <<tx, faults>>
<1>1. CASE MacroMon \in Monitors /\ logT.ev \in Held
  <2>1. logT' = [logT EXCEPT !.pc = "hold", !.index = i] /\ UNCHANGED <<tx, faults>>
    BY <1>1 DEF ToStations
  <2>2. logT \in LogTType BY Typed
  <2>3. logT'.pc = "hold" /\ logT'.ev = logT.ev /\ logT'.slot = logT.slot /\ logT'.index = i
    BY <2>1, <2>2 DEF LogTType
  <2> QED BY <1>1, <2>1, <2>3
<1>2. CASE ~(MacroMon \in Monitors /\ logT.ev \in Held)
  <2>1. FanOut(Monitors, i, logT.ev) BY <1>2 DEF ToStations
  <2>2. logT'.pc = "poll" BY <2>1 DEF FanOut, Polling
  <2> QED BY <1>2, <2>1, <2>2
<1> QED BY <1>1, <1>2

LEMMA NextQueued ==
  ASSUME TypeInv, Queued, [Next]_vars
  PROVE  Queued'
<1> DEFINE Q(n, q) == n - Len(q) >= 0 /\ \A i \in 1..Len(q) : q[i] = n - Len(q) + i
<1>a. /\ queue \in Seq(Events) /\ logged \in Nat /\ Q(logged, queue)
      /\ savedWrptr = wrptr
      /\ InHand => logT.ev = Taken + 1 /\ queue # <<>>
      /\ Holding => logT.ev \in Held /\ MacroMon \in Monitors
      /\ rabbit.pc = "tag" => format.pc # "erase"
  BY Typed DEF Queued, Taken, Working, InHand
<1>b. queue # <<>> =>
        /\ Head(queue) = Taken + 1 /\ Len(Tail(queue)) = Len(queue) - 1
        /\ Q(logged, Tail(queue)) /\ Tail(queue) \in Seq(Events)
  BY <1>a DEF Taken
<1>c. ASSUME Q(logged', queue'),
             InHand' => logT'.ev = Taken' + 1,
             Holding' => logT'.ev \in Held /\ MacroMon \in Monitors,
             rabbit'.pc = "tag" => format'.pc # "erase",
             savedWrptr' = wrptr'
      PROVE  Queued'
  BY <1>c DEF Queued, Taken
<1>1. CASE logCidEvent
  <2>1. queue' = Append(queue, logged + 1) /\ logged' = logged + 1 BY <1>1 DEF logCidEvent
  <2>2. Q(logged', queue') /\ Taken' = Taken BY <1>a, <2>1 DEF Taken
  <2> HIDE DEF Q
  <2> QED BY <1>1, <1>a, <1>c, <2>2 DEF logCidEvent, pointers, saved, InHand, Holding
<1>2. CASE StoreRecord
  <2>1. logT'.pc = "verify" /\ logT'.ev = Taken + 1 BY <1>2, <1>b DEF StoreRecord
  <2>2. Taken' = Taken BY <1>2 DEF StoreRecord, history, Taken
  <2>3. rabbit'.pc = rabbit.pc BY <1>2, Typed DEF StoreRecord, RabbitType
  <2> HIDE DEF Q
  <2> QED BY <1>2, <1>a, <1>c, <2>1, <2>2, <2>3 DEF StoreRecord, history, pointers, saved, InHand, Holding
<1>3. CASE RewriteRecord
  <2>1. logT'.pc = "reverify" /\ logT'.ev = logT.ev /\ InHand
    BY <1>3, Typed DEF RewriteRecord, LogTType, InHand
  <2>2. Taken' = Taken BY <1>3 DEF RewriteRecord, history, Taken
  <2> HIDE DEF Q
  <2> QED BY <1>3, <1>a, <1>c, <2>1, <2>2 DEF RewriteRecord, history, pointers, saved, InHand, Holding
<1>4. CASE AdvancePointers
  <2>1. logT'.pc = "index" /\ logT'.ev = logT.ev /\ InHand
    BY <1>4, Typed DEF AdvancePointers, LogTType, InHand
  <2>2. Taken' = Taken BY <1>4 DEF AdvancePointers, history, Taken
  <2> HIDE DEF Q
  <2> QED BY <1>4, <1>a, <1>c, <2>1, <2>2 DEF AdvancePointers, history, InHand, Holding
<1>5. CASE SaveIndex
  <2>1. logT'.pc = "deliver" /\ logT'.ev = logT.ev /\ InHand
    BY <1>5, Typed DEF SaveIndex, LogTType, InHand
  <2>2. Taken' = Taken BY <1>5 DEF SaveIndex, history, Taken
  <2> HIDE DEF Q
  <2> QED BY <1>5, <1>a, <1>c, <2>1, <2>2 DEF SaveIndex, history, pointers, InHand, Holding
<1>6. CASE Deliver
  <2>1. InHand BY <1>6 DEF Deliver, InHand
  <2>2. Q(logged', queue') /\ Taken' = Taken + 1
    BY <1>6, <1>a, <1>b, <2>1 DEF Deliver, history, Taken
  <2>3. \/ logT'.pc = "poll"
        \/ logT'.pc = "hold" /\ logT'.ev = logT.ev /\ logT.ev \in Held /\ MacroMon \in Monitors
    BY <1>6, ToStationsEffect DEF Deliver
  <2> HIDE DEF Q
  <2> QED BY <1>6, <1>a, <1>c, <2>1, <2>2, <2>3 DEF Deliver, pointers, saved, InHand, Holding
<1>7. CASE DeliverUnstored
  <2>1. \/ logT'.pc = "poll"
        \/ logT'.pc = "hold" /\ logT'.ev = logT.ev /\ logT.ev \in Held /\ MacroMon \in Monitors
    BY <1>7, ToStationsEffect DEF DeliverUnstored
  <2> HIDE DEF Q
  <2> QED BY <1>7, <1>a, <1>c, <2>1 DEF DeliverUnstored, history, pointers, saved, InHand, Holding
<1>8. CASE HoldEvent
  <2>1. logT'.pc = "fanout" /\ logT'.ev = logT.ev /\ Holding
    BY <1>8, Typed DEF HoldEvent, LogTType, Holding
  <2>2. Taken' = Taken BY <1>8 DEF HoldEvent, history, Taken
  <2> HIDE DEF Q
  <2> QED BY <1>8, <1>a, <1>c, <2>1, <2>2 DEF HoldEvent, history, pointers, saved, InHand, Holding
<1>9. CASE DeliverRest
  <2>1. logT'.pc = "poll" BY <1>9 DEF DeliverRest, FanOut, Polling
  <2> HIDE DEF Q
  <2> QED BY <1>9, <1>a, <1>c, <2>1 DEF DeliverRest, history, pointers, saved, InHand, Holding
<1>10. ASSUME NEW m \in Monitors, ReadOutEvent(m)
       PROVE  (Queued)'
  <2>1. format.pc # "erase" /\ UNCHANGED <<queue, logged, logT, format, wrptr, savedWrptr>>
    BY <1>10 DEF ReadOutEvent, SemaphoreFree, pointers, saved
  <2>2. Taken' = Taken BY <2>1 DEF Taken
  <2> QED BY <1>a, <2>1, <2>2 DEF InHand, Holding, Queued
<1>11. ASSUME NEW m \in Monitors, ReloadUnAckEvents25(m)
       PROVE  (Queued)'
  <2>1. rabbit'.pc = "reload" /\ UNCHANGED <<queue, logged, logT, wrptr, savedWrptr>>
    BY <1>11 DEF ReloadUnAckEvents25, pointers, saved, history
  <2>2. Taken' = Taken BY <2>1 DEF Taken
  <2> QED BY <1>a, <2>1, <2>2 DEF InHand, Holding, Queued
<1>12. CASE TagEvent \/ ReloadSlot
  <2>1. UNCHANGED <<queue, logged, logT, wrptr, savedWrptr>> /\ rabbit'.pc # "tag"
    <3>1. CASE TagEvent BY <3>1 DEF TagEvent, Idle, pointers, saved, history
    <3>2. CASE ReloadSlot
      <4>1. rabbit' = Idle \/ rabbit'.pc = rabbit.pc BY <3>2, Typed DEF ReloadSlot, RabbitType
      <4> QED BY <3>2, <4>1 DEF ReloadSlot, Idle, pointers, saved, history
    <3> QED BY <1>12, <3>1, <3>2
  <2>2. Taken' = Taken BY <2>1 DEF Taken
  <2> QED BY <1>a, <2>1, <2>2 DEF InHand, Holding, Queued
<1>13. CASE FormatEventFlash
  <2>1. UNCHANGED <<queue, logged, logT, wrptr, savedWrptr, rabbit>> /\ rabbit.pc # "tag"
    BY <1>13 DEF FormatEventFlash, SemaphoreFree, pointers, saved, history
  <2>2. Taken' = Taken BY <2>1 DEF Taken
  <2> QED BY <1>a, <2>1, <2>2 DEF InHand, Holding, Queued
<1>14. CASE EraseSlots
  <2>1. /\ UNCHANGED <<queue, logged, logT, wrptr, savedWrptr, rabbit>>
        /\ format.pc = "erase" /\ format'.pc = "erase"
    BY <1>14, Typed DEF EraseSlots, FormatType, pointers, saved, history
  <2>2. Taken' = Taken BY <2>1 DEF Taken
  <2> QED BY <1>a, <2>1, <2>2 DEF InHand, Holding, Queued
<1>15. CASE EraseRest
  <2>1. UNCHANGED <<queue, logged, logT, rabbit>> /\ format'.pc = "save" /\ savedWrptr' = wrptr'
    BY <1>15 DEF EraseRest, history
  <2>2. Taken' = Taken BY <2>1 DEF Taken
  <2> QED BY <1>a, <2>1, <2>2 DEF InHand, Holding, Queued
<1>16. CASE FormatSaveIndex
  <2>1. UNCHANGED <<queue, logged, logT, wrptr, savedWrptr, rabbit>> /\ format'.pc = "idle"
    BY <1>16 DEF FormatSaveIndex, NoFormat, pointers, history
  <2>2. Taken' = Taken BY <2>1 DEF Taken
  <2> QED BY <1>a, <2>1, <2>2 DEF InHand, Holding, Queued
<1>17. CASE Crash
  <2>1. /\ queue' = <<>> /\ logged' = logged /\ logT'.pc = "poll" /\ rabbit'.pc = "idle"
        /\ wrptr' = savedWrptr /\ savedWrptr' = savedWrptr
    BY <1>17 DEF Crash, Get_evwrptr, saved, history, Polling, Idle
  <2>2. Len(queue') = 0 BY <2>1
  <2> QED BY <1>a, <2>1, <2>2 DEF InHand, Holding, Queued, Taken
<1>18. CASE UNCHANGED vars
  <2>1. UNCHANGED <<queue, logged, logT, wrptr, savedWrptr, rabbit, format>>
    BY <1>18 DEF vars, saved, pointers, history
  <2>2. Taken' = Taken BY <2>1 DEF Taken
  <2> QED BY <1>a, <2>1, <2>2 DEF InHand, Holding, Queued
<1> QED
  BY <1>1, <1>2, <1>3, <1>4, <1>5, <1>6, <1>7, <1>8, <1>9, <1>10, <1>11, <1>12, <1>13, <1>14,
     <1>15, <1>16, <1>17, <1>18
  DEF Next, LogTStep, FormatStep

-----------------------------------------------------------------------------
(* What the steps of the proofs share.                                     *)

Ctx ==
  /\ HeldFit /\ TypeInv /\ Queued /\ Sound
  /\ Hand /\ Records /\ Erasing /\ Entries /\ Tagging /\ Reloading

SoundParts == Hand /\ Records /\ Erasing /\ Entries /\ Tagging /\ Reloading

\* A step that touches nothing of the records but their marks.
SameRecords ==
  \A s \in Slots : /\ flash'[s].st = flash[s].st
                   /\ flash'[s].index = flash[s].index
                   /\ flash'[s].ev = flash[s].ev

\* Whether the ring of station m moves on when event e goes to the stations S.
PlaceFor(S, m, e) == IF m \in S /\ ~IsHeld(m, e) THEN 1 ELSE 0

LEMMA UnFacts ==
  /\ Unmoved \in {0, 1} /\ Unmoved' \in {0, 1}
  /\ \A m : Unsent(m) \in {0, 1} /\ Unsent(m)' \in {0, 1}
  BY DEF Unmoved, Unsent

LEMMA FitFacts ==
  ASSUME HeldFit
  PROVE  \A m, n : Window + Pace + TXEVENTBUFFERLEN + Pace + HeldUpTo(m, n) <= DF_MAXEVENTS
  BY ConstantTypes, HeldFacts DEF HeldFit

LEMMA EntryType ==
  ASSUME TypeInv, NEW m \in Monitors
  PROVE  /\ tx[m] \in Seq(TxEntry) /\ Len(tx[m]) \in Nat
         /\ \A k \in 1..Len(tx[m]) : /\ tx[m][k] \in TxEntry /\ tx[m][k].index \in Index
                                     /\ tx[m][k].ev \in 0..MaxLogged
<1>1. tx[m] \in Seq(TxEntry) BY Typed
<1>2. \A k \in 1..Len(tx[m]) : tx[m][k] \in TxEntry BY <1>1
<1> QED BY <1>1, <1>2 DEF TxEntry

LEMMA ReachFacts ==
  ASSUME TypeInv, NEW m \in Monitors, NEW k \in 1..Len(tx[m])
  PROVE  /\ Lap(Len(tx[m]) - k) \in Nat /\ Lap(Len(tx[m]) - k) <= TXEVENTBUFFERLEN - 1
         /\ Reach(m, k) \in Nat
         /\ Reach(m, k) <= Window + Pace + (TXEVENTBUFFERLEN - 1) + Unsent(m)
                            + HeldUpTo(m, Taken)
<1>1. Len(tx[m]) - k \in Nat BY EntryType
<1>2. Lap(Len(tx[m]) - k) \in Nat /\ Lap(Len(tx[m]) - k) <= TXEVENTBUFFERLEN - 1
  BY <1>1, LapFacts
<1> DEFINE lap == Lap(Len(tx[m]) - k)
           un == Unsent(m)
           held == HeldUpTo(m, Taken)
<1>3. lap \in Nat /\ lap <= TXEVENTBUFFERLEN - 1 BY <1>2
<1>4. un \in Nat /\ held \in Nat BY HeldFacts, UnFacts
<1>5. Reach(m, k) = Window + Pace + lap + un + held BY DEF Reach
<1>6. Window \in Nat /\ Pace \in Nat /\ TXEVENTBUFFERLEN \in Nat BY ConstantTypes
<1> HIDE DEF lap, un, held
<1>7. /\ Reach(m, k) \in Nat
      /\ Reach(m, k) <= Window + Pace + (TXEVENTBUFFERLEN - 1) + un + held
  BY <1>3, <1>4, <1>5, <1>6
<1> QED BY <1>2, <1>7 DEF lap, un, held

\* While a ring stands still its entries reach as far as the records that go by.
LEMMA ReachMoves ==
  ASSUME TypeInv, NEW m \in Monitors, NEW k \in 1..Len(tx[m]), tx' = tx
  PROVE  Reach(m, k)' = Reach(m, k) + (Unsent(m)' - Unsent(m))
                                    + (HeldUpTo(m, Taken') - HeldUpTo(m, Taken))
<1> DEFINE lap == Lap(Len(tx[m]) - k)
<1>1. /\ Reach(m, k) = Window + Pace + lap + Unsent(m) + HeldUpTo(m, Taken)
      /\ Reach(m, k)' = Window + Pace + lap + Unsent(m)' + HeldUpTo(m, Taken')
  BY DEF Reach
<1>2. lap \in Nat BY ReachFacts
<1> DEFINE un == Unsent(m)
           un2 == Unsent(m)'
           held == HeldUpTo(m, Taken)
           held2 == HeldUpTo(m, Taken')
<1>3. un \in Nat /\ un2 \in Nat BY UnFacts
<1>4. held \in Nat /\ held2 \in Nat BY HeldFacts
<1>5. /\ Reach(m, k) = Window + Pace + lap + un + held
      /\ Reach(m, k)' = Window + Pace + lap + un2 + held2
  BY <1>1
<1>6. Window \in Nat /\ Pace \in Nat BY ConstantTypes
<1> HIDE DEF lap, un, un2, held, held2
<1>7. Reach(m, k)' = Reach(m, k) + (un2 - un) + (held2 - held) BY <1>2, <1>3, <1>4, <1>5, <1>6
<1> QED BY <1>7 DEF un, un2, held, held2

\* A record within a reach is within every longer one.
LEMMA WithinLonger ==
  ASSUME TypeInv, NEW x, NEW n \in Int, NEW o \in Int, n <= o,
         \E s \in Slots : IsOf(flash[s], x) /\ Age(wrptr, s) + Unmoved <= n
  PROVE  \E s \in Slots : IsOf(flash[s], x) /\ Age(wrptr, s) + Unmoved <= o
<1>1. PICK s \in Slots : IsOf(flash[s], x) /\ Age(wrptr, s) + Unmoved <= n OBVIOUS
<1>2. wrptr \in Slots BY Typed
<1> DEFINE far == Age(wrptr, s)
<1>3. far \in Nat /\ Unmoved \in Nat BY <1>2, AgeFacts, UnFacts
<1>4. far + Unmoved <= n BY <1>1
<1> HIDE DEF far
<1>5. far + Unmoved <= o BY <1>3, <1>4
<1> QED BY <1>1, <1>5 DEF far

\* A place of a ring that moved on holds the new entry, or the one it held.
NewOrKept(t, i, e, k) ==
  \/ /\ TxPut(t, i, e)[k] = [index |-> i, ev |-> e]
     /\ Lap(Len(t) + 1 - k) = 0
  \/ /\ k \in 1..Len(t) /\ TxPut(t, i, e)[k] = t[k]
     /\ Lap(Len(t) + 1 - k) = Lap(Len(t) - k) + 1

LEMMA TxPutFacts ==
  ASSUME NEW t \in Seq(TxEntry), NEW i, NEW e, NEW k \in 1..Len(TxPut(t, i, e))
  PROVE  Len(TxPut(t, i, e)) = Len(t) + 1 /\ NewOrKept(t, i, e, k)
<1>1. Len(t) \in Nat OBVIOUS
<1>2. Len(TxPut(t, i, e)) = Len(t) + 1 BY <1>1 DEF TxPut
<1>3. k \in 1..(Len(t) + 1) BY <1>2
<1>4. CASE Lap(Len(t) + 1 - k) = 0
  <2>1. TxPut(t, i, e)[k] = [index |-> i, ev |-> e] BY <1>3, <1>4 DEF TxPut, Lap
  <2> QED BY <1>2, <1>4, <2>1 DEF NewOrKept
<1>5. CASE Lap(Len(t) + 1 - k) # 0
  <2>1. TxPut(t, i, e)[k] = t[k] BY <1>3, <1>5 DEF TxPut, Lap
  <2>2. Lap(0) = 0 BY LapFacts, ConstantsAssumption DEF ConstantsAssumption
  <2>3. k # Len(t) + 1 BY <1>1, <1>5, <2>2
  <2>4. k \in 1..Len(t) /\ Len(t) - k \in Nat BY <1>1, <1>3, <2>3
  <2>5. Len(t) + 1 - k = (Len(t) - k) + 1 BY <1>1, <1>3
  <2> QED BY <1>2, <1>5, <2>1, <2>4, <2>5, LapFacts DEF NewOrKept
<1> QED BY <1>4, <1>5

(***************************************************************************)
(* An event goes to the rings of the stations S: each place that a ring    *)
(* moves on pays for one record that went by.                              *)
(***************************************************************************)
LEMMA PutEntries ==
  ASSUME TypeInv, Entries,
         NEW S \in SUBSET Monitors, NEW i, NEW e, tx' = TxAfter(S, i, e),
         SameRecords, wrptr' = wrptr, wrptr \in Slots, format'.pc = format.pc, Unmoved' = Unmoved,
         Taken' \in Int, Taken <= Taken', e <= Taken',
         \A m \in Monitors :
           Unsent(m)' + HeldUpTo(m, Taken') + PlaceFor(S, m, e)
             >= Unsent(m) + HeldUpTo(m, Taken),
         format.pc # "erase" /\ i # IndexTop =>
           \E s \in Slots : /\ IsOf(flash[s], [index |-> i, ev |-> e])
                            /\ Age(wrptr, s) + Unmoved <= Window + Pace
  PROVE  Entries'
<1>0. Taken \in Int /\ TXEVENTBUFFERLEN \in Nat /\ TXEVENTBUFFERLEN >= 1
      /\ Window \in Nat /\ Pace \in Nat
  BY Typed, ConstantTypes, ConstantsAssumption DEF ConstantsAssumption
<1> SUFFICES ASSUME NEW m \in Monitors, NEW k \in 1..Len(tx'[m])
             PROVE  /\ tx'[m][k].ev <= Taken'
                    /\ format'.pc # "erase" /\ tx'[m][k].index # IndexTop =>
                         \E s \in Slots : /\ IsOf(flash'[s], tx'[m][k])
                                          /\ Age(wrptr', s) + Unmoved' <= Reach(m, k)'
  BY DEF Entries
<1>1. \A s \in Slots : Age(wrptr, s) \in Nat BY AgeFacts
<1>2. ASSUME NEW s \in Slots, NEW x, IsOf(flash[s], x) PROVE IsOf(flash'[s], x)
  BY <1>2 DEF SameRecords, IsOf
<1>3. Unmoved \in Nat BY UnFacts
<1>4. /\ Unsent(m) \in Nat /\ Unsent(m)' \in Nat
      /\ HeldUpTo(m, Taken) \in Nat /\ HeldUpTo(m, Taken') \in Nat
  BY HeldFacts, UnFacts
<1>5. Reach(m, k)' = Window + Pace + Lap(Len(tx'[m]) - k)
                     + Unsent(m)' + HeldUpTo(m, Taken')
  BY DEF Reach
<1>6. tx[m] \in Seq(TxEntry) /\ Len(tx[m]) \in Nat BY EntryType
<1>7. \A j \in 1..Len(tx[m]) :
        tx[m][j].ev \in Nat /\ Lap(Len(tx[m]) - j) \in Nat
  BY EntryType, ReachFacts
<1>8. ASSUME NEW x, x.ev <= Taken',
             format.pc # "erase" /\ x.index # IndexTop =>
               \E s \in Slots : IsOf(flash[s], x) /\ Age(wrptr, s) + Unmoved <= Reach(m, k)',
             tx'[m][k] = x
      PROVE  /\ tx'[m][k].ev <= Taken'
             /\ format'.pc # "erase" /\ tx'[m][k].index # IndexTop =>
                  \E s \in Slots : /\ IsOf(flash'[s], tx'[m][k])
                                   /\ Age(wrptr', s) + Unmoved' <= Reach(m, k)'
  BY <1>2, <1>8
<1>9. CASE ~(m \in S /\ ~IsHeld(m, e))
  <2>1. tx'[m] = tx[m] BY <1>9 DEF TxAfter
  <2>2. PlaceFor(S, m, e) = 0 BY <1>9 DEF PlaceFor
  <2>3. Unsent(m)' + HeldUpTo(m, Taken') >= Unsent(m) + HeldUpTo(m, Taken)
    BY <1>4, <2>2
  <2>4. Reach(m, k) <= Reach(m, k)' /\ Reach(m, k) \in Int /\ Reach(m, k)' \in Int
    <3> DEFINE lap == Lap(Len(tx[m]) - k)
               un == Unsent(m)
               un2 == Unsent(m)'
               held == HeldUpTo(m, Taken)
               held2 == HeldUpTo(m, Taken')
    <3>1. lap \in Nat BY <1>7, <2>1
    <3>2. un \in Nat /\ un2 \in Nat /\ held \in Nat /\ held2 \in Nat BY <1>4
    <3>3. un2 + held2 >= un + held BY <2>3
    <3>4. Reach(m, k) = Window + Pace + lap + un + held BY DEF Reach
    <3>5. Reach(m, k)' = Window + Pace + lap + un2 + held2 BY <1>5, <2>1
    <3> HIDE DEF lap, un, un2, held, held2
    <3> QED BY <1>0, <3>1, <3>2, <3>3, <3>4, <3>5
  <2>5. tx[m][k].ev <= Taken' BY <1>0, <1>7, <2>1 DEF Entries
  <2>6. format.pc # "erase" /\ tx[m][k].index # IndexTop =>
          \E s \in Slots : IsOf(flash[s], tx[m][k]) /\ Age(wrptr, s) + Unmoved <= Reach(m, k)
    BY <2>1 DEF Entries
  <2>7. format.pc # "erase" /\ tx[m][k].index # IndexTop =>
          \E s \in Slots : IsOf(flash[s], tx[m][k]) /\ Age(wrptr, s) + Unmoved <= Reach(m, k)'
    BY <2>4, <2>6, WithinLonger
  <2> QED BY <1>8, <2>1, <2>5, <2>7
<1>10. CASE m \in S /\ ~IsHeld(m, e)
  <2>1. tx'[m] = TxPut(tx[m], i, e) BY <1>10 DEF TxAfter
  <2>2. PlaceFor(S, m, e) = 1 BY <1>10 DEF PlaceFor
  <2>3. Unsent(m)' + HeldUpTo(m, Taken') + 1 >= Unsent(m) + HeldUpTo(m, Taken)
    BY <1>4, <2>2
  <2>7. tx[m] \in Seq(TxEntry) /\ k \in 1..Len(TxPut(tx[m], i, e)) BY <1>6, <2>1
  <2>9. Len(TxPut(tx[m], i, e)) = Len(tx[m]) + 1 BY ONLY <2>7, TxPutFacts
  <2>0. Len(tx'[m]) = Len(tx[m]) + 1 BY <2>1, <2>9
  <2>4. Reach(m, k)' = Window + Pace + Lap(Len(tx[m]) + 1 - k) + Unsent(m)' + HeldUpTo(m, Taken')
    BY <1>5, <2>0
  <2>5. CASE tx'[m][k] = [index |-> i, ev |-> e]
             /\ Lap(Len(tx[m]) + 1 - k) = 0
    <3>1. Window + Pace <= Reach(m, k)' /\ Window + Pace \in Int /\ Reach(m, k)' \in Int
      <4> DEFINE un2 == Unsent(m)'
                 held2 == HeldUpTo(m, Taken')
      <4>1. un2 \in Nat /\ held2 \in Nat BY <1>4
      <4>2. Reach(m, k)' = Window + Pace + 0 + un2 + held2 BY <2>4, <2>5
      <4> HIDE DEF un2, held2
      <4> QED BY <1>0, <4>1, <4>2
    <3>2. format.pc # "erase" /\ i # IndexTop =>
            \E s \in Slots : /\ IsOf(flash[s], [index |-> i, ev |-> e])
                             /\ Age(wrptr, s) + Unmoved <= Reach(m, k)'
      <4> DEFINE x == [index |-> i, ev |-> e]
      <4>1. format.pc # "erase" /\ i # IndexTop =>
              \E s \in Slots : IsOf(flash[s], x) /\ Age(wrptr, s) + Unmoved <= Window + Pace
        OBVIOUS
      <4> HIDE DEF x
      <4>2. format.pc # "erase" /\ i # IndexTop =>
              \E s \in Slots : IsOf(flash[s], x) /\ Age(wrptr, s) + Unmoved <= Reach(m, k)'
        BY <3>1, <4>1, WithinLonger
      <4> QED BY <4>2 DEF x
    <3>3. [index |-> i, ev |-> e].ev <= Taken' OBVIOUS
    <3> QED BY <1>8, <2>5, <3>2, <3>3
  <2>6. CASE /\ k \in 1..Len(tx[m]) /\ tx'[m][k] = tx[m][k]
             /\ Lap(Len(tx[m]) + 1 - k) = Lap(Len(tx[m]) - k) + 1
    <3>0. Lap(Len(tx[m]) - k) \in Nat /\ tx[m][k].ev \in Nat BY <1>7, <2>6
    <3>1. Reach(m, k) <= Reach(m, k)' /\ Reach(m, k) \in Int /\ Reach(m, k)' \in Int
      <4>1. Reach(m, k) = Window + Pace + Lap(Len(tx[m]) - k) + Unsent(m) + HeldUpTo(m, Taken)
        BY DEF Reach
      <4> DEFINE new == Lap(Len(tx[m]) + 1 - k)
                 old == Lap(Len(tx[m]) - k)
                 un == Unsent(m)
                 un2 == Unsent(m)'
                 held == HeldUpTo(m, Taken)
                 held2 == HeldUpTo(m, Taken')
      <4>2. new = old + 1 /\ old \in Nat BY <2>6, <3>0
      <4>3. /\ Reach(m, k) = Window + Pace + old + un + held
            /\ Reach(m, k)' = Window + Pace + new + un2 + held2
        BY <2>4, <4>1
      <4>4. un \in Nat /\ un2 \in Nat /\ held \in Nat /\ held2 \in Nat BY <1>4
      <4>5. un2 + held2 + 1 >= un + held BY <2>3
      <4> HIDE DEF new, old, un, un2, held, held2
      <4> QED BY <1>0, <4>2, <4>3, <4>4, <4>5
    <3>4. tx[m][k].ev <= Taken BY <2>6 DEF Entries
    <3>2. tx[m][k].ev <= Taken' BY <1>0, <3>0, <3>4
    <3>5. format.pc # "erase" /\ tx[m][k].index # IndexTop =>
            \E s \in Slots : IsOf(flash[s], tx[m][k]) /\ Age(wrptr, s) + Unmoved <= Reach(m, k)
      BY <2>6 DEF Entries
    <3>3. format.pc # "erase" /\ tx[m][k].index # IndexTop =>
            \E s \in Slots : IsOf(flash[s], tx[m][k]) /\ Age(wrptr, s) + Unmoved <= Reach(m, k)'
      BY <3>1, <3>5, WithinLonger
    <3> QED BY <1>8, <2>6, <3>2, <3>3
  <2>8. NewOrKept(tx[m], i, e, k) BY ONLY <2>7, TxPutFacts
  <2> QED BY <2>1, <2>5, <2>6, <2>8 DEF NewOrKept
<1> QED BY <1>9, <1>10

-----------------------------------------------------------------------------
(* LogT_Task and the records.                                              *)

\* Nothing that the invariants speak of changes.
LEMMA FrameKeeps ==
  ASSUME Ctx, UNCHANGED <<flash, wrptr, eventIndex, tx, logT, rabbit, format>>, Taken' = Taken,
         format.pc = "erase" => queue' = queue
  PROVE  SoundParts'
<1>1. Unmoved' = Unmoved /\ \A m : Unsent(m)' = Unsent(m)
  BY DEF Unmoved, Unsent, Writing, InHand, Holding
<1>2. Hand' BY DEF Ctx, Hand, Writing, Holding, Written, Ok
<1>3. Records' BY DEF Ctx, Records, InHand, Ok
<1>4. Erasing' BY DEF Ctx, Erasing, Ok
<1>5. Entries' BY <1>1 DEF Ctx, Entries, Reach
<1>6. Tagging' BY <1>1 DEF Ctx, Tagging
<1>7. Reloading' BY <1>1 DEF Ctx, Reloading, InHand
<1> QED BY <1>2, <1>3, <1>4, <1>5, <1>6, <1>7 DEF SoundParts

LEMMA StoreEffect ==
  ASSUME Ctx, Sound', StoreRecord
  PROVE  /\ logT.pc = "poll" /\ format.pc # "erase"
         /\ logT'.pc = "verify" /\ logT'.slot = wrptr /\ logT'.index = eventIndex
         /\ logT'.ev = Taken + 1
         /\ UNCHANGED <<wrptr, eventIndex, savedIndex, tx, format, acked, faults>> /\ Taken' = Taken
         /\ flash'[wrptr] = [st |-> "ok", index |-> eventIndex, ev |-> Taken + 1, ack |-> {}]
         /\ \A s \in Slots : s # wrptr => flash'[s] = flash[s]
         /\ rabbit'.pc = rabbit.pc /\ rabbit'.slot = rabbit.slot /\ rabbit'.left = rabbit.left
         /\ rabbit'.mon = rabbit.mon /\ rabbit'.rec = rabbit.rec
         /\ rabbit.pc # "idle" => rabbit'.pace = rabbit.pace + 1 /\ rabbit.pace + 1 <= Pace
<1> DEFINE rec == [st |-> "ok", index |-> eventIndex, ev |-> Head(queue), ack |-> {}]
<1>0. TypeInv /\ Queued /\ Sound BY DEF Ctx
<1>1. queue # <<>> /\ logT.pc = "poll" BY DEF StoreRecord
<1>2. Head(queue) = Taken + 1
  <2>1. queue \in Seq(Events) /\ Len(queue) >= 1 BY <1>0, <1>1, Typed
  <2> QED BY <1>0, <2>1 DEF Queued
<1>3. flash' = [flash EXCEPT ![wrptr] = rec] /\ faults' = faults
  <2>1. "badWrite" \notin faults' BY DEF Sound, NoneOf
  <2> QED BY <2>1 DEF StoreRecord, WriteSlot
<1>4. flash \in [Slots -> Record] /\ wrptr \in Slots BY <1>0, Typed
<1>5. flash'[wrptr] = rec /\ \A s \in Slots : s # wrptr => flash'[s] = flash[s] BY <1>3, <1>4
<1>6. format.pc # "erase" BY <1>1 DEF Ctx, Erasing
<1>7. rabbit \in RabbitType /\ rabbit.pace \in Nat /\ Pace \in Nat BY <1>0, Typed, ConstantTypes
<1>8. /\ rabbit'.pc = rabbit.pc /\ rabbit'.slot = rabbit.slot /\ rabbit'.left = rabbit.left
      /\ rabbit'.mon = rabbit.mon /\ rabbit'.rec = rabbit.rec
  BY <1>7 DEF StoreRecord, RabbitType
<1>9. rabbit.pc # "idle" => rabbit'.pace = rabbit.pace + 1 /\ rabbit.pace + 1 <= Pace
  BY <1>7 DEF StoreRecord, RabbitType
<1>10. Taken' = Taken BY DEF StoreRecord, history, Taken
<1> QED
  BY <1>1, <1>2, <1>3, <1>5, <1>6, <1>8, <1>9, <1>10 DEF StoreRecord, pointers, saved, history

LEMMA StoreKeeps ==
  ASSUME Ctx, Sound', StoreRecord
  PROVE  SoundParts'
<1>0. TypeInv /\ HeldFit /\ wrptr \in Slots /\ rabbit.slot \in Slots
      /\ eventIndex # IndexTop /\ Taken \in Int /\ Taken >= 0
  BY Typed, ConstantTypes DEF Ctx, Queued
<1>1. Unmoved = 0 /\ Unmoved' = 1 /\ \A m : Unsent(m) = 0 /\ Unsent(m)' = 1
  BY StoreEffect DEF Unmoved, Unsent, Writing, InHand, Holding
<1>2. \A s \in Slots : Age(wrptr, s) \in Nat /\ (Age(wrptr, s) = DF_MAXEVENTS <=> s = wrptr)
                       /\ Age(wrptr, s) <= DF_MAXEVENTS
  BY <1>0, AgeFacts
<1>3. /\ DF_MAXEVENTS \in Nat /\ Window \in Nat /\ Pace \in Nat
      /\ TXEVENTBUFFERLEN \in Nat /\ TXEVENTBUFFERLEN >= 1
  BY ConstantTypes, ConstantsAssumption DEF ConstantsAssumption
<1>4. Hand' BY StoreEffect DEF Hand, Writing, Holding, Written, Ok
<1>5. Records'
  <2>1. \A s \in Slots : s # wrptr /\ Ok(s) => flash[s].ev <= Taken
    BY StoreEffect DEF Ctx, Records, InHand
  <2>2. \A s \in Slots : flash[s].ev \in Nat BY <1>0, Typed DEF Record
  <2>3. \A s \in Slots : flash'[s].st # "bad" BY StoreEffect DEF Ctx, Records
  <2>4. \A s \in Slots : Ok(s)' => /\ flash'[s].index # IndexTop /\ flash'[s].ev >= 1
                                   /\ (flash'[s].ev <= Taken' \/ (InHand /\ s = logT.slot)')
    BY <1>0, <2>1, StoreEffect DEF Ctx, Records, InHand, Ok
  <2>5. \A s, t \in Slots : Ok(s)' /\ Ok(t)' /\ flash'[s].ev = flash'[t].ev => s = t
    BY <1>0, <2>1, <2>2, StoreEffect DEF Ctx, Records, Ok
  <2>6. ASSUME NEW s \in Slots, NEW t \in Slots, Ok(s)', Ok(t)',
               Age(wrptr', s) < Age(wrptr', t), t # wrptr'
        PROVE  flash'[t].ev < flash'[s].ev
    <3>1. wrptr' = wrptr BY StoreEffect
    <3>2. s # wrptr BY <1>2, <1>3, <2>6, <3>1
    <3> QED BY <2>6, <3>1, <3>2, StoreEffect DEF Ctx, Records, Ok
  <2> QED BY <2>3, <2>4, <2>5, <2>6 DEF Records
<1>6. Erasing' BY StoreEffect DEF Erasing
<1>7. Entries'
  <2> SUFFICES ASSUME NEW m \in Monitors, NEW k \in 1..Len(tx[m])
               PROVE  /\ tx[m][k].ev <= Taken
                      /\ tx[m][k].index # IndexTop =>
                           \E s \in Slots : /\ IsOf(flash'[s], tx[m][k])
                                            /\ Age(wrptr, s) + Unmoved' <= Reach(m, k)'
    BY StoreEffect DEF Entries
  <2>1. Reach(m, k)' = Reach(m, k) + 1 /\ Reach(m, k) \in Nat
    <3>1. tx' = tx /\ Taken' = Taken BY StoreEffect
    <3> QED BY <1>0, <1>1, <3>1, ReachMoves, ReachFacts, HeldFacts
  <2>2. Reach(m, k) < DF_MAXEVENTS
    BY <1>0, <1>1, <1>3, ReachFacts, FitFacts, HeldFacts
  <2>3. CASE tx[m][k].index # IndexTop
    <3>1. PICK s \in Slots : IsOf(flash[s], tx[m][k]) /\ Age(wrptr, s) + Unmoved <= Reach(m, k)
      BY <2>3, StoreEffect DEF Ctx, Entries
    <3>2. s # wrptr BY <1>1, <1>2, <1>3, <2>1, <2>2, <3>1
    <3>3. IsOf(flash'[s], tx[m][k]) BY <3>1, <3>2, StoreEffect
    <3>4. Age(wrptr, s) + Unmoved' <= Reach(m, k)' BY <1>1, <1>2, <2>1, <3>1
    <3> QED BY <2>3, <3>3, <3>4 DEF Ctx, Entries
  <2> QED BY <2>3 DEF Ctx, Entries
<1>8. Tagging'
  <2> SUFFICES ASSUME rabbit.pc = "tag" PROVE Tagging' BY StoreEffect DEF Tagging
  <2>1. /\ rabbit.rec.st = "ok" /\ IsOf(flash[rabbit.slot], rabbit.rec)
        /\ Age(wrptr, rabbit.slot) + Unmoved <=
             Window + Pace + TXEVENTBUFFERLEN + rabbit.pace + HeldUpTo(rabbit.mon, Taken)
    BY DEF Ctx, Tagging
  <2>2. rabbit'.pace = rabbit.pace + 1 /\ rabbit.pace \in Nat /\ rabbit.pace + 1 <= Pace
    BY <1>0, Typed, StoreEffect
  <2>3. HeldUpTo(rabbit.mon, Taken) \in Nat BY HeldFacts
  <2>4. Window + Pace + TXEVENTBUFFERLEN + Pace + HeldUpTo(rabbit.mon, Taken) <= DF_MAXEVENTS
    BY <1>0, FitFacts
  <2>5. rabbit.slot # wrptr BY <1>0, <1>1, <1>2, <1>3, <2>1, <2>2, <2>3, <2>4
  <2>6. Age(wrptr, rabbit.slot) + Unmoved' <=
             Window + Pace + TXEVENTBUFFERLEN + rabbit'.pace + HeldUpTo(rabbit.mon, Taken)
    BY <1>0, <1>1, <1>2, <1>3, <2>1, <2>2, <2>3
  <2> QED BY <1>0, <2>1, <2>5, <2>6, StoreEffect DEF Tagging
<1>9. Reloading'
  <2> SUFFICES ASSUME rabbit.pc = "reload" PROVE Reloading' BY StoreEffect DEF Reloading
  <2>1. Age(wrptr, rabbit.slot) + Unmoved = rabbit.left + rabbit.pace BY DEF Ctx, Reloading
  <2>2. rabbit'.pace = rabbit.pace + 1 /\ rabbit.pace \in Nat /\ rabbit.left \in Nat
    BY <1>0, Typed, StoreEffect
  <2>3. Age(wrptr, rabbit.slot) + Unmoved' = rabbit.left + rabbit'.pace /\ rabbit'.pace >= 1
    BY <1>0, <1>1, <1>2, <2>1, <2>2
  <2> QED BY <2>3, StoreEffect DEF Reloading
<1> QED BY <1>4, <1>5, <1>6, <1>7, <1>8, <1>9 DEF SoundParts

LEMMA AdvanceEffect ==
  ASSUME Ctx, AdvancePointers
  PROVE  /\ logT.pc \in {"verify", "reverify"} /\ format.pc # "erase"
         /\ logT.slot = wrptr /\ logT.index = eventIndex /\ flash[wrptr] = Written
         /\ logT'.pc = "index" /\ logT'.slot = wrptr /\ logT'.index = eventIndex
         /\ logT'.ev = logT.ev /\ logT.ev = Taken + 1
         /\ wrptr' = SlotInc(wrptr) /\ eventIndex' = IndexInc(eventIndex)
         /\ UNCHANGED <<flash, savedIndex, tx, rabbit, format, acked>> /\ Taken' = Taken
<1>1. logT.pc \in {"verify", "reverify"} BY DEF AdvancePointers
<1>2. logT.slot = wrptr /\ logT.index = eventIndex /\ flash[wrptr] = Written
  BY <1>1 DEF Ctx, Hand, Writing
<1>3. logT.ev = Taken + 1 BY <1>1 DEF Ctx, Queued, InHand
<1>4. format.pc # "erase" BY <1>1 DEF Ctx, Erasing
<1>5. logT \in LogTType BY Typed DEF Ctx
<1>6. logT'.pc = "index" /\ logT'.slot = logT.slot /\ logT'.index = logT.index /\ logT'.ev = logT.ev
  BY <1>5 DEF AdvancePointers, LogTType
<1>7. Taken' = Taken BY DEF AdvancePointers, history, Taken
<1> QED BY <1>1, <1>2, <1>3, <1>4, <1>6, <1>7 DEF AdvancePointers, history

LEMMA AdvanceKeeps ==
  ASSUME Ctx, AdvancePointers
  PROVE  SoundParts'
<1>0. TypeInv /\ HeldFit /\ wrptr \in Slots /\ rabbit.slot \in Slots /\ Taken \in Int /\ Taken >= 0
  BY Typed DEF Ctx, Queued
<1>1. Unmoved = 1 /\ Unmoved' = 0 /\ \A m : Unsent(m) = 1 /\ Unsent(m)' = 1
  BY AdvanceEffect DEF Unmoved, Unsent, Writing, InHand, Holding
<1>2. \A s \in Slots : /\ Age(wrptr, s) \in Nat /\ (Age(wrptr, s) = DF_MAXEVENTS <=> s = wrptr)
                       /\ Age(wrptr, s) <= DF_MAXEVENTS
  BY <1>0, AgeFacts
<1>3. /\ DF_MAXEVENTS \in Nat /\ Window \in Nat /\ Pace \in Nat
      /\ TXEVENTBUFFERLEN \in Nat /\ TXEVENTBUFFERLEN >= 1
  BY ConstantTypes, ConstantsAssumption DEF ConstantsAssumption
<1>4. \A s \in Slots : Age(wrptr', s) = IF s = wrptr THEN 1 ELSE Age(wrptr, s) + 1
  BY <1>0, AgeAdvances, AdvanceEffect
<1>5. flash[wrptr].st = "ok" /\ flash[wrptr].index = eventIndex /\ flash[wrptr].ev = Taken + 1
  BY AdvanceEffect DEF Written
<1>6. Hand' BY <1>0, <1>4, <1>5, AdvanceEffect DEF Hand, Writing, Holding, Ok
<1>7. Records'
  <2>1. \A s \in Slots : s # wrptr /\ Ok(s) => flash[s].ev <= Taken
    BY AdvanceEffect DEF Ctx, Records
  <2>2. \A s \in Slots : flash[s].ev \in Nat BY <1>0, Typed DEF Record
  <2>3. ASSUME NEW s \in Slots, NEW t \in Slots, Ok(s), Ok(t),
               Age(wrptr', s) < Age(wrptr', t), t # wrptr'
        PROVE  flash[t].ev < flash[s].ev
    <3>1. t # wrptr BY <1>2, <1>4, <2>3
    <3>2. CASE s = wrptr BY <1>0, <1>5, <2>1, <2>2, <2>3, <3>1, <3>2
    <3>3. CASE s # wrptr
      <4>1. Age(wrptr, s) < Age(wrptr, t) BY <1>2, <1>4, <2>3, <3>1, <3>3
      <4> QED BY <2>3, <3>1, <4>1 DEF Ctx, Records
    <3> QED BY <3>2, <3>3
  <2> QED BY <2>3, AdvanceEffect DEF Ctx, Records, Ok, InHand
<1>8. Erasing' BY AdvanceEffect DEF Erasing
<1>9. Entries'
  <2> SUFFICES ASSUME NEW m \in Monitors, NEW k \in 1..Len(tx[m]), tx[m][k].index # IndexTop
               PROVE  \E s \in Slots : /\ IsOf(flash[s], tx[m][k])
                                       /\ Age(wrptr', s) + Unmoved' <= Reach(m, k)'
    BY AdvanceEffect DEF Ctx, Entries
  <2>1. Reach(m, k)' = Reach(m, k) /\ Reach(m, k) \in Nat
    <3>1. tx' = tx /\ Taken' = Taken BY AdvanceEffect
    <3> QED BY <1>0, <1>1, <3>1, ReachMoves, ReachFacts, HeldFacts
  <2>2. PICK s \in Slots : IsOf(flash[s], tx[m][k]) /\ Age(wrptr, s) + Unmoved <= Reach(m, k)
    BY AdvanceEffect DEF Ctx, Entries
  <2>3. tx[m][k].ev <= Taken /\ tx[m][k].ev \in Nat BY <1>0, EntryType DEF Ctx, Entries
  <2>4. s # wrptr BY <1>0, <1>5, <2>2, <2>3 DEF IsOf
  <2> QED BY <1>1, <1>2, <1>4, <2>1, <2>2, <2>4
<1>10. Tagging'
  <2> SUFFICES ASSUME rabbit.pc = "tag" PROVE Tagging' BY AdvanceEffect DEF Tagging
  <2>1. /\ rabbit.rec.st = "ok" /\ IsOf(flash[rabbit.slot], rabbit.rec)
        /\ Age(wrptr, rabbit.slot) + Unmoved <=
             Window + Pace + TXEVENTBUFFERLEN + rabbit.pace + HeldUpTo(rabbit.mon, Taken)
    BY DEF Ctx, Tagging
  <2>2. rabbit.pace \in Nat /\ rabbit.pace <= Pace BY <1>0, Typed
  <2>3. HeldUpTo(rabbit.mon, Taken) \in Nat BY HeldFacts
  <2>4. Window + Pace + TXEVENTBUFFERLEN + Pace + HeldUpTo(rabbit.mon, Taken) <= DF_MAXEVENTS
    BY <1>0, FitFacts
  <2>5. rabbit.slot # wrptr BY <1>0, <1>1, <1>2, <1>3, <2>1, <2>2, <2>3, <2>4
  <2>6. Age(wrptr', rabbit.slot) + Unmoved' = Age(wrptr, rabbit.slot) + Unmoved
    BY <1>0, <1>1, <1>2, <1>4, <2>5
  <2> QED BY <2>1, <2>6, AdvanceEffect DEF Tagging
<1>11. Reloading'
  <2> SUFFICES ASSUME rabbit.pc = "reload" PROVE Reloading' BY AdvanceEffect DEF Reloading
  <2>1. Age(wrptr, rabbit.slot) + Unmoved = rabbit.left + rabbit.pace /\ rabbit.pace >= 1
    BY AdvanceEffect DEF Ctx, Reloading, InHand
  <2>2. /\ rabbit.pace \in Nat /\ rabbit.pace <= Pace /\ rabbit.left \in Nat
        /\ rabbit.left <= Window
    BY <1>0, Typed
  <2>3. Window + Pace < DF_MAXEVENTS BY <1>0, <1>3, FitFacts, HeldFacts
  <2>4. rabbit.slot # wrptr BY <1>0, <1>1, <1>2, <1>3, <2>1, <2>2, <2>3
  <2>5. Age(wrptr', rabbit.slot) + Unmoved' = Age(wrptr, rabbit.slot) + Unmoved
    BY <1>0, <1>1, <1>2, <1>4, <2>4
  <2> QED BY <2>1, <2>5, AdvanceEffect DEF Reloading
<1> QED BY <1>6, <1>7, <1>8, <1>9, <1>10, <1>11 DEF SoundParts

LEMMA SaveIndexKeeps ==
  ASSUME Ctx, SaveIndex
  PROVE  SoundParts'
<1>1. logT \in LogTType BY Typed DEF Ctx
<1>2. /\ logT.pc = "index" /\ logT'.pc = "deliver" /\ logT'.slot = logT.slot
      /\ logT'.index = logT.index /\ logT'.ev = logT.ev /\ format.pc # "erase"
  BY <1>1 DEF SaveIndex, LogTType, Ctx, Erasing
<1>3. Taken' = Taken BY DEF SaveIndex, history, Taken
<1>4. UNCHANGED <<flash, wrptr, eventIndex, tx, rabbit, format>> BY DEF SaveIndex, pointers
<1>5. Unmoved' = Unmoved /\ \A m : Unsent(m)' = Unsent(m)
  BY <1>2 DEF Unmoved, Unsent, Writing, InHand, Holding
<1>6. Hand' BY <1>2, <1>3, <1>4 DEF Ctx, Hand, Writing, Holding, Written, Ok
<1>7. Records' BY <1>2, <1>3, <1>4 DEF Ctx, Records, InHand, Ok
<1>8. Erasing' BY <1>2, <1>4 DEF Erasing
<1>9. Entries' BY <1>3, <1>4, <1>5 DEF Ctx, Entries, Reach
<1>10. Tagging' BY <1>3, <1>4, <1>5 DEF Ctx, Tagging
<1>11. Reloading' BY <1>2, <1>4, <1>5 DEF Ctx, Reloading, InHand
<1> QED BY <1>6, <1>7, <1>8, <1>9, <1>10, <1>11 DEF SoundParts

-----------------------------------------------------------------------------
(* The event goes to the stations.                                         *)

LEMMA TagForSame ==
  ASSUME TypeInv, NEW m, NEW i, flash' = TagFor(m, i)
  PROVE  /\ SameRecords
         /\ \A s \in Slots : flash'[s].ack = IF s \in find_event_by_index(i)
                                             THEN flash[s].ack \cup {m} ELSE flash[s].ack
         /\ \A s \in Slots : s \notin find_event_by_index(i) => flash'[s] = flash[s]
  BY Typed DEF TagFor, SameRecords, Record

\* The rings stand still.
LEMMA EntriesFrame ==
  ASSUME TypeInv, Entries, tx' = tx, SameRecords, wrptr' = wrptr, Unmoved' = Unmoved,
         format'.pc = format.pc, Taken' \in Int, Taken <= Taken',
         \A m \in Monitors :
           Unsent(m)' + HeldUpTo(m, Taken') >= Unsent(m) + HeldUpTo(m, Taken)
  PROVE  Entries'
<1> SUFFICES ASSUME NEW m \in Monitors, NEW k \in 1..Len(tx[m])
             PROVE  /\ tx[m][k].ev <= Taken'
                    /\ format.pc # "erase" /\ tx[m][k].index # IndexTop =>
                         \E s \in Slots : /\ IsOf(flash'[s], tx[m][k])
                                          /\ Age(wrptr, s) + Unmoved <= Reach(m, k)'
  BY DEF Entries
<1>1. tx[m][k].ev <= Taken /\ tx[m][k].ev \in Nat /\ Taken \in Int
  BY EntryType, Typed DEF Entries
<1>2. Reach(m, k)' >= Reach(m, k) /\ Reach(m, k) \in Int /\ Reach(m, k)' \in Int
  <2>1. Unsent(m) \in Nat /\ Unsent(m)' \in Nat BY UnFacts
  <2>2. HeldUpTo(m, Taken) \in Nat /\ HeldUpTo(m, Taken') \in Nat BY HeldFacts
  <2>3. Unsent(m)' + HeldUpTo(m, Taken') >= Unsent(m) + HeldUpTo(m, Taken) OBVIOUS
  <2>4. Reach(m, k) \in Nat BY ReachFacts
  <2>5. Reach(m, k)' = Reach(m, k) + (Unsent(m)' - Unsent(m))
                                   + (HeldUpTo(m, Taken') - HeldUpTo(m, Taken))
    BY ReachMoves
  <2> DEFINE un == Unsent(m)
             un2 == Unsent(m)'
             held == HeldUpTo(m, Taken)
             held2 == HeldUpTo(m, Taken')
             far == Reach(m, k)
             far2 == Reach(m, k)'
  <2>6. un \in Nat /\ un2 \in Nat /\ held \in Nat /\ held2 \in Nat /\ far \in Nat
    BY <2>1, <2>2, <2>4
  <2>7. un2 + held2 >= un + held BY <2>3
  <2>8. far2 = far + (un2 - un) + (held2 - held) BY <2>5
  <2> HIDE DEF un, un2, held, held2, far, far2
  <2>9. far2 >= far /\ far \in Int /\ far2 \in Int BY ONLY <2>6, <2>7, <2>8
  <2> QED BY <2>9 DEF far, far2
<1>3. (\A s \in Slots : Age(wrptr, s) \in Nat) /\ Unmoved \in Nat
  <2>1. wrptr \in Slots BY Typed
  <2>2. \A s \in Slots : Age(wrptr, s) \in Nat BY ONLY <2>1, AgeFacts
  <2> QED BY <2>2, UnFacts
<1>4. ASSUME format.pc # "erase", tx[m][k].index # IndexTop
      PROVE  \E s \in Slots : /\ IsOf(flash'[s], tx[m][k])
                              /\ Age(wrptr, s) + Unmoved <= Reach(m, k)'
  <2>1. PICK s \in Slots : IsOf(flash[s], tx[m][k]) /\ Age(wrptr, s) + Unmoved <= Reach(m, k)
    BY <1>4 DEF Entries
  <2>2. IsOf(flash'[s], tx[m][k]) BY <2>1 DEF SameRecords, IsOf
  <2>3. Age(wrptr, s) + Unmoved <= Reach(m, k)' BY <1>2, <1>3, <2>1
  <2> QED BY <2>2, <2>3
<1> QED BY <1>1, <1>4

LEMMA DeliverEffect ==
  ASSUME Ctx, Deliver
  PROVE  /\ logT.pc = "deliver" /\ logT.ev = Taken + 1 /\ Taken' = Taken + 1
         /\ QueuedIndex \in {IndexTop, logT.index}
         /\ QueuedIndex = IndexTop => eventIndex = 0
         /\ format.pc # "erase"
         /\ UNCHANGED <<flash, wrptr, eventIndex, savedIndex, rabbit, format, acked>>
         /\ \/ /\ logT'.pc = "poll" /\ ~(MacroMon \in Monitors /\ logT.ev \in Held)
               /\ tx' = TxAfter(Monitors, QueuedIndex, logT.ev)
               /\ faults' = faults \cup IF Overruns(Monitors, logT.ev) THEN {"overrun"} ELSE {}
            \/ /\ logT'.pc = "hold" /\ logT'.ev = logT.ev /\ logT'.slot = logT.slot
               /\ logT'.index = QueuedIndex
               /\ logT.ev \in Held /\ MacroMon \in Monitors /\ UNCHANGED <<tx, faults>>
<1>0. TypeInv /\ logT \in LogTType /\ queue \in Seq(Events) /\ logged \in Nat
      /\ eventIndex \in 0..(IndexTop - 1)
  BY Typed DEF Ctx
<1>1. logT.pc = "deliver" /\ logT.ev = Taken + 1 /\ queue # <<>>
  BY <1>0, Typed DEF Deliver, Ctx, Queued, InHand, Working
<1>2. Taken' = Taken + 1
  <2>1. queue' = Tail(queue) /\ logged' = logged BY DEF Deliver, history
  <2>2. Len(queue') = Len(queue) - 1 BY <1>0, <1>1, <2>1
  <2>3. Len(queue) \in Nat BY <1>0
  <2>4. Taken' = logged - Len(queue') BY <2>1 DEF Taken
  <2>5. Taken = logged - Len(queue) BY DEF Taken
  <2> QED BY <1>0, <2>2, <2>3, <2>4, <2>5
<1>3. QueuedIndex \in {IndexTop, logT.index} /\ (QueuedIndex = IndexTop => eventIndex = 0)
  <2>1. eventIndex = IndexInc(logT.index) /\ logT.index \in Nat
    BY <1>0, <1>1, ConstantTypes DEF Ctx, Hand, LogTType, Index
  <2>2. QueuedIndex = IF eventIndex = 0 THEN IndexTop ELSE eventIndex - 1
    BY <1>0, QueuedIndexFacts
  <2> QED BY <1>0, <2>1, <2>2, ConstantTypes DEF IndexInc
<1>4. format.pc # "erase" BY <1>1 DEF Ctx, Erasing
<1>5. ToStations(QueuedIndex, logT.ev) BY DEF Deliver
<1>6. UNCHANGED <<flash, wrptr, eventIndex, savedIndex, rabbit, format, acked>>
  BY DEF Deliver, saved, pointers, history
<1>7. \/ /\ logT'.pc = "poll" /\ ~(MacroMon \in Monitors /\ logT.ev \in Held)
         /\ tx' = TxAfter(Monitors, QueuedIndex, logT.ev)
         /\ faults' = faults \cup IF Overruns(Monitors, logT.ev) THEN {"overrun"} ELSE {}
      \/ /\ logT'.pc = "hold" /\ logT'.ev = logT.ev /\ logT'.slot = logT.slot
         /\ logT'.index = QueuedIndex
         /\ logT.ev \in Held /\ MacroMon \in Monitors /\ UNCHANGED <<tx, faults>>
  BY <1>0, <1>5, ToStationsEffect DEF FanOut
<1> QED BY <1>1, <1>2, <1>3, <1>4, <1>6, <1>7

LEMMA DeliverKeeps ==
  ASSUME Ctx, Deliver
  PROVE  SoundParts'
<1>0. TypeInv /\ HeldFit /\ wrptr \in Slots /\ logT.slot \in Slots /\ Taken \in Nat
      /\ Window \in Nat /\ Window >= 1 /\ Pace \in Nat
  BY Typed, ConstantTypes DEF Ctx, Queued
<1>1. /\ Unmoved = 0 /\ Unmoved' = 0 /\ \A m : Unsent(m) = 1
      /\ \A m : Unsent(m)' = IF logT'.pc = "hold" /\ m # MacroMon THEN 1 ELSE 0
  BY DeliverEffect DEF Unmoved, Unsent, Writing, InHand, Holding
<1>2. /\ flash[logT.slot].st = "ok" /\ flash[logT.slot].index = logT.index
      /\ flash[logT.slot].ev = logT.ev /\ Age(wrptr, logT.slot) = 1
  BY DeliverEffect DEF Ctx, Hand, Writing, Ok
<1>3. SameRecords BY DeliverEffect DEF SameRecords
<1>4. Hand' BY <1>0, <1>2, DeliverEffect DEF Hand, Writing, Holding, Ok
<1>5. Records'
  <2>1. \A s \in Slots : flash[s].ev \in Nat BY <1>0, Typed DEF Record
  <2>2. \A s \in Slots : Ok(s) => flash[s].ev <= Taken + 1
    BY <1>0, <1>2, <2>1, DeliverEffect DEF Ctx, Records
  <2> QED BY <2>2, DeliverEffect DEF Ctx, Records, Ok
<1>6. Erasing' BY DeliverEffect DEF Erasing
<1>7. Entries'
  <2>1. CASE logT'.pc = "poll"
    <3>1. tx' = TxAfter(Monitors, QueuedIndex, logT.ev)
          /\ ~(MacroMon \in Monitors /\ logT.ev \in Held)
      BY <2>1, DeliverEffect
    <3>2. \A m \in Monitors :
            Unsent(m)' + HeldUpTo(m, Taken') + PlaceFor(Monitors, m, logT.ev)
              >= Unsent(m) + HeldUpTo(m, Taken)
      <4>1. SUFFICES ASSUME NEW m \in Monitors
                     PROVE  Unsent(m)' + HeldUpTo(m, Taken') + PlaceFor(Monitors, m, logT.ev)
                              >= Unsent(m) + HeldUpTo(m, Taken)
        OBVIOUS
      <4>2. PlaceFor(Monitors, m, logT.ev) = 1 BY <3>1 DEF PlaceFor, IsHeld
      <4>3. /\ HeldUpTo(m, Taken) <= HeldUpTo(m, Taken')
            /\ HeldUpTo(m, Taken) \in Nat /\ HeldUpTo(m, Taken') \in Nat
        BY <1>0, HeldFacts, DeliverEffect
      <4> QED BY <1>1, <2>1, <4>2, <4>3
    <3>3. QueuedIndex # IndexTop =>
            IsOf(flash[logT.slot], [index |-> QueuedIndex, ev |-> logT.ev])
      BY <1>2, DeliverEffect DEF IsOf
    <3>4. Age(wrptr, logT.slot) + Unmoved <= Window + Pace BY <1>0, <1>1, <1>2
    <3>5. Taken' \in Int /\ Taken <= Taken' /\ logT.ev <= Taken' BY <1>0, DeliverEffect
    <3>6. wrptr' = wrptr /\ format'.pc = format.pc /\ Unmoved' = Unmoved BY <1>1, DeliverEffect
    <3> DEFINE i == QueuedIndex
    <3> HIDE DEF i
    <3> QED BY <1>0, <1>3, <3>1, <3>2, <3>3, <3>4, <3>5, <3>6, PutEntries DEF Ctx
  <2>2. CASE logT'.pc = "hold"
    <3>1. tx' = tx /\ logT.ev \in Held BY <2>2, DeliverEffect
    <3>2. ASSUME NEW m \in Monitors
          PROVE  Unsent(m)' + HeldUpTo(m, Taken') >= Unsent(m) + HeldUpTo(m, Taken)
      <4>1. /\ HeldUpTo(m, Taken) <= HeldUpTo(m, Taken')
            /\ HeldUpTo(m, Taken) \in Nat /\ HeldUpTo(m, Taken') \in Nat
        BY <1>0, HeldFacts, DeliverEffect
      <4>2. m = MacroMon => HeldUpTo(m, Taken') = HeldUpTo(m, Taken) + 1
        BY <1>0, <3>1, HeldFacts, DeliverEffect
      <4> QED BY <1>1, <2>2, <4>1, <4>2
    <3>3. Taken' \in Int /\ Taken <= Taken' BY <1>0, DeliverEffect
    <3>4. wrptr' = wrptr /\ format'.pc = format.pc /\ Unmoved' = Unmoved BY <1>1, DeliverEffect
    <3> QED BY <1>0, <1>3, <3>1, <3>2, <3>3, <3>4, EntriesFrame DEF Ctx
  <2> QED BY <2>1, <2>2, DeliverEffect
<1>8. Tagging'
  <2>1. HeldUpTo(rabbit.mon, Taken) <= HeldUpTo(rabbit.mon, Taken')
        /\ HeldUpTo(rabbit.mon, Taken) \in Nat /\ HeldUpTo(rabbit.mon, Taken') \in Nat
    BY <1>0, HeldFacts, DeliverEffect
  <2>2. Age(wrptr, rabbit.slot) \in Nat /\ rabbit.pace \in Nat /\ TXEVENTBUFFERLEN \in Nat
    BY <1>0, Typed, AgeFacts, ConstantTypes
  <2> QED BY <1>0, <1>1, <2>1, <2>2, DeliverEffect DEF Ctx, Tagging
<1>9. Reloading' BY <1>1, DeliverEffect DEF Ctx, Reloading, InHand
<1> QED BY <1>4, <1>5, <1>6, <1>7, <1>8, <1>9 DEF SoundParts

\* The mark of the held event: its record is the newest of all.
LEMMA HoldEffect ==
  ASSUME Ctx, HoldEvent
  PROVE  /\ logT.pc = "hold" /\ logT'.pc = "fanout" /\ logT'.slot = logT.slot
         /\ logT'.index = logT.index /\ logT'.ev = logT.ev
         /\ logT.ev \in Held /\ format.pc # "erase"
         /\ UNCHANGED <<wrptr, eventIndex, savedIndex, tx, rabbit, format, acked, faults>>
         /\ Taken' = Taken /\ SameRecords
         /\ \A s \in Slots : s # logT.slot => flash'[s] = flash[s]
         /\ flash'[logT.slot].ack \in {flash[logT.slot].ack, flash[logT.slot].ack \cup {MacroMon}}
         /\ flash[logT.slot].ev = logT.ev
<1>0. TypeInv /\ logT \in LogTType /\ logT.slot \in Slots /\ wrptr \in Slots BY Typed DEF Ctx
<1>1. /\ logT.pc = "hold" /\ logT'.pc = "fanout" /\ logT'.slot = logT.slot
      /\ logT'.index = logT.index /\ logT'.ev = logT.ev
  BY <1>0 DEF HoldEvent, LogTType
<1>2. logT.ev \in Held /\ format.pc # "erase" BY <1>1 DEF Ctx, Queued, Holding, Erasing
<1>3. /\ flash[logT.slot].st = "ok" /\ flash[logT.slot].ev = logT.ev
      /\ Age(wrptr, logT.slot) = 1 /\ logT.index \in {IndexTop, flash[logT.slot].index}
  BY <1>1 DEF Ctx, Hand, Holding, Writing, Ok
<1>4. find_event_by_index(logT.index) \subseteq {logT.slot}
  <2>1. CASE logT.index = flash[logT.slot].index BY <1>0, <1>3, <2>1, FoundNewest
  <2>2. CASE logT.index = IndexTop
    <3>1. ASSUME NEW s \in find_event_by_index(logT.index) PROVE FALSE
      <4>1. s \in Slots /\ flash[s].index = IndexTop /\ flash[s].st # "erased"
        BY <1>0, <2>2, FoundFacts
      <4>2. flash[s].st = "ok" BY <1>0, <4>1, Typed DEF Record, Ctx, Records
      <4> QED BY <4>1, <4>2 DEF Ctx, Records, Ok
    <3> QED BY <3>1
  <2> QED BY <1>3, <2>1, <2>2
<1>5. flash' = TagFor(MacroMon, logT.index) BY DEF HoldEvent
<1>6. Taken' = Taken BY DEF HoldEvent, history, Taken
<1>7. /\ SameRecords /\ \A s \in Slots : s # logT.slot => flash'[s] = flash[s]
      /\ flash'[logT.slot].ack \in {flash[logT.slot].ack, flash[logT.slot].ack \cup {MacroMon}}
  BY <1>0, <1>4, <1>5, TagForSame
<1> QED BY <1>1, <1>2, <1>3, <1>6, <1>7 DEF HoldEvent, saved, pointers, history

LEMMA HoldKeeps ==
  ASSUME Ctx, HoldEvent
  PROVE  SoundParts'
<1>0. TypeInv /\ wrptr \in Slots /\ logT.slot \in Slots /\ rabbit.slot \in Slots /\ Taken \in Int
  BY Typed DEF Ctx
<1>1. Unmoved' = Unmoved /\ \A m : Unsent(m)' = Unsent(m)
  BY HoldEffect DEF Unmoved, Unsent, Writing, InHand, Holding
<1>2. Hand' BY <1>0, HoldEffect DEF Ctx, Hand, Writing, Holding, Ok, SameRecords
<1>3. Records' BY HoldEffect DEF Ctx, Records, InHand, Ok, SameRecords
<1>4. Erasing' BY HoldEffect DEF Erasing
<1>5. Entries'
  <2>1. \A m \in Monitors : Unsent(m)' + HeldUpTo(m, Taken') >= Unsent(m) + HeldUpTo(m, Taken)
    BY <1>1, HoldEffect, UnFacts, HeldFacts
  <2> QED BY <1>0, <1>1, <2>1, HoldEffect, EntriesFrame DEF Ctx
<1>6. Tagging' BY <1>0, <1>1, HoldEffect DEF Ctx, Tagging, IsOf, SameRecords
<1>7. Reloading' BY <1>1, HoldEffect DEF Ctx, Reloading, InHand
<1> QED BY <1>2, <1>3, <1>4, <1>5, <1>6, <1>7 DEF SoundParts

LEMMA RestEffect ==
  ASSUME Ctx, DeliverRest
  PROVE  /\ logT.pc = "fanout" /\ logT'.pc = "poll" /\ logT.ev = Taken /\ Taken' = Taken
         /\ logT.ev \in Held /\ MacroMon \in Monitors
         /\ tx' = TxAfter(Monitors \ {MacroMon}, logT.index, logT.ev)
         /\ faults' = faults \cup IF Overruns(Monitors \ {MacroMon}, logT.ev)
                                  THEN {"overrun"} ELSE {}
         /\ UNCHANGED <<flash, wrptr, eventIndex, savedIndex, rabbit, format, acked>>
         /\ format.pc # "erase"
<1>1. logT.pc = "fanout" BY DEF DeliverRest
<1>2. logT.ev \in Held /\ MacroMon \in Monitors /\ format.pc # "erase" /\ logT.ev = Taken
  BY <1>1 DEF Ctx, Queued, Holding, Erasing, Hand
<1>3. Taken' = Taken BY DEF DeliverRest, history, Taken
<1> QED BY <1>1, <1>2, <1>3 DEF DeliverRest, FanOut, Polling, saved, pointers, history

LEMMA RestKeeps ==
  ASSUME Ctx, DeliverRest
  PROVE  SoundParts'
<1>0. TypeInv /\ wrptr \in Slots /\ logT.slot \in Slots /\ Taken \in Int
      /\ Window \in Nat /\ Window >= 1 /\ Pace \in Nat
  BY Typed, ConstantTypes DEF Ctx
<1>1. /\ Unmoved = 0 /\ Unmoved' = 0 /\ \A m : Unsent(m)' = 0
      /\ \A m : Unsent(m) = IF m # MacroMon THEN 1 ELSE 0
  BY RestEffect DEF Unmoved, Unsent, Writing, InHand, Holding
<1>2. /\ flash[logT.slot].st = "ok" /\ logT.index \in {IndexTop, flash[logT.slot].index}
      /\ flash[logT.slot].ev = logT.ev /\ Age(wrptr, logT.slot) = 1
  BY RestEffect DEF Ctx, Hand, Holding, Writing, Ok
<1>3. SameRecords BY RestEffect DEF SameRecords
<1>4. Hand' BY RestEffect DEF Hand, Writing, Holding
<1>5. Records' BY RestEffect DEF Ctx, Records, Ok, InHand
<1>6. Erasing' BY RestEffect DEF Erasing
<1>7. Entries'
  <2>1. ASSUME NEW m \in Monitors
        PROVE  Unsent(m)' + HeldUpTo(m, Taken') + PlaceFor(Monitors \ {MacroMon}, m, logT.ev)
                 >= Unsent(m) + HeldUpTo(m, Taken)
    <3>1. PlaceFor(Monitors \ {MacroMon}, m, logT.ev) = Unsent(m)
      BY <1>1 DEF PlaceFor, IsHeld
    <3>2. Taken' = Taken /\ HeldUpTo(m, Taken) \in Nat BY HeldFacts, RestEffect
    <3>3. Unsent(m) \in {0, 1} BY UnFacts
    <3> QED BY <1>1, <3>1, <3>2, <3>3
  <2>2. logT.index # IndexTop =>
          IsOf(flash[logT.slot], [index |-> logT.index, ev |-> logT.ev])
    BY <1>2 DEF IsOf
  <2>3. Age(wrptr, logT.slot) + Unmoved <= Window + Pace BY <1>0, <1>1, <1>2
  <2>4. Taken' \in Int /\ Taken <= Taken' /\ logT.ev <= Taken' BY <1>0, RestEffect
  <2>5. wrptr' = wrptr /\ format'.pc = format.pc /\ Unmoved' = Unmoved
        /\ tx' = TxAfter(Monitors \ {MacroMon}, logT.index, logT.ev)
    BY <1>1, RestEffect
  <2>6. Monitors \ {MacroMon} \in SUBSET Monitors OBVIOUS
  <2> QED BY <1>0, <1>3, <2>1, <2>2, <2>3, <2>4, <2>5, <2>6, PutEntries DEF Ctx
<1>8. Tagging' BY <1>1, RestEffect DEF Ctx, Tagging
<1>9. Reloading' BY <1>1, RestEffect DEF Ctx, Reloading, InHand
<1> QED BY <1>4, <1>5, <1>6, <1>7, <1>8, <1>9 DEF SoundParts

-----------------------------------------------------------------------------
(* RabbitTask.                                                             *)

LEMMA ReadOutEffect ==
  ASSUME Ctx, NEW m \in Monitors, ReadOutEvent(m)
  PROVE  /\ rabbit.pc = "idle" /\ format.pc # "erase"
         /\ tx[m] \in Seq(TxEntry) /\ Len(tx[m]) \in Nat /\ Len(tx[m]) >= 1
         /\ logT.pc \in {"hold", "fanout"} =>
              logT.slot \notin find_event_by_index(tx[m][1].index)
         /\ tx' = [tx EXCEPT ![m] = Tail(tx[m])]
         /\ Len(tx'[m]) = Len(tx[m]) - 1
         /\ \A k \in 1..Len(tx'[m]) : k + 1 \in 1..Len(tx[m]) /\ tx'[m][k] = tx[m][k + 1]
         /\ \A n \in Monitors : n # m => tx'[n] = tx[n]
         /\ acked'[m] = acked[m] \cup {tx[m][1].ev}
         /\ \A n \in Monitors : n # m => acked'[n] = acked[n]
         /\ UNCHANGED <<flash, wrptr, eventIndex, savedIndex, logT, format, queue, faults>>
         /\ Taken' = Taken
         /\ \/ find_event_by_index(tx[m][1].index) = {} /\ rabbit' = rabbit
            \/ \E s \in find_event_by_index(tx[m][1].index) :
                 rabbit' = [pc |-> "tag", mon |-> m, slot |-> s, left |-> 0, pace |-> 0,
                            rec |-> flash[s]]
<1>0. TypeInv /\ tx \in [Monitors -> Seq(TxEntry)] /\ acked \in [Monitors -> SUBSET (0..MaxLogged)]
  BY Typed DEF Ctx
<1>1. tx[m] \in Seq(TxEntry) /\ Len(tx[m]) \in Nat /\ Len(tx[m]) >= 1 /\ Head(tx[m]) = tx[m][1]
  BY <1>0 DEF ReadOutEvent
<1>2. tx' = [tx EXCEPT ![m] = Tail(tx[m])] BY DEF ReadOutEvent
<1>3. tx'[m] = Tail(tx[m]) /\ \A n \in Monitors : n # m => tx'[n] = tx[n] BY <1>0, <1>2
<1>4. Len(tx'[m]) = Len(tx[m]) - 1 BY <1>1, <1>3
<1>5. \A k \in 1..Len(tx'[m]) : k + 1 \in 1..Len(tx[m]) /\ tx'[m][k] = tx[m][k + 1]
  BY <1>1, <1>3, <1>4
<1>6. acked' = [acked EXCEPT ![m] = acked[m] \cup {Head(tx[m]).ev}] BY DEF ReadOutEvent
<1>7. acked'[m] = acked[m] \cup {tx[m][1].ev} /\ \A n \in Monitors : n # m => acked'[n] = acked[n]
  BY <1>0, <1>1, <1>6
<1>8. Taken' = Taken BY DEF ReadOutEvent, Taken
<1>9. \/ find_event_by_index(tx[m][1].index) = {} /\ rabbit' = rabbit
      \/ \E s \in find_event_by_index(tx[m][1].index) :
           rabbit' = [pc |-> "tag", mon |-> m, slot |-> s, left |-> 0, pace |-> 0,
                      rec |-> flash[s]]
  BY <1>1 DEF ReadOutEvent
<1>10. /\ rabbit.pc = "idle" /\ format.pc # "erase"
       /\ logT.pc \in {"hold", "fanout"} =>
            logT.slot \notin find_event_by_index(tx[m][1].index)
       /\ UNCHANGED <<flash, wrptr, eventIndex, savedIndex, logT, format, queue, faults>>
  BY <1>1 DEF ReadOutEvent, SemaphoreFree, saved, pointers
<1> QED BY <1>1, <1>2, <1>3, <1>4, <1>5, <1>7, <1>8, <1>9, <1>10

\* The entry at the head leads to a record no farther back than its own.
LEMMA FoundOfEntry ==
  ASSUME Ctx, NEW m \in Monitors, Len(tx[m]) >= 1, format.pc # "erase",
         NEW s \in find_event_by_index(tx[m][1].index)
  PROVE  /\ s \in Slots /\ flash[s].st = "ok" /\ flash[s].index = tx[m][1].index
         /\ tx[m][1].index # IndexTop
         /\ Age(wrptr, s) + Unmoved <= Reach(m, 1)
<1>0. TypeInv /\ wrptr \in Slots /\ Len(tx[m]) \in Nat /\ 1 \in 1..Len(tx[m])
  BY Typed, EntryType DEF Ctx
<1>1. /\ s \in Slots /\ flash[s].index = tx[m][1].index /\ flash[s].st # "erased"
      /\ \A t \in Slots : flash[t].index = tx[m][1].index => Age(wrptr, s) <= Age(wrptr, t)
  BY <1>0, FoundFacts
<1>2. flash[s].st = "ok" BY <1>0, <1>1, Typed DEF Record, Ctx, Records
<1>3. tx[m][1].index # IndexTop BY <1>1, <1>2 DEF Ctx, Records, Ok
<1>4. PICK t \in Slots : IsOf(flash[t], tx[m][1]) /\ Age(wrptr, t) + Unmoved <= Reach(m, 1)
  BY <1>0, <1>3 DEF Ctx, Entries
<1>5. Age(wrptr, s) <= Age(wrptr, t) BY <1>1, <1>4 DEF IsOf
<1>6. Age(wrptr, s) \in Nat /\ Age(wrptr, t) \in Nat BY <1>0, <1>1, AgeFacts
<1>7. Unmoved \in Nat /\ Reach(m, 1) \in Nat BY <1>0, UnFacts, ReachFacts
<1> QED BY <1>1, <1>2, <1>3, <1>4, <1>5, <1>6, <1>7

LEMMA ReadOutKeeps ==
  ASSUME Ctx, NEW m \in Monitors, ReadOutEvent(m)
  PROVE  SoundParts'
<1>0. TypeInv /\ wrptr \in Slots /\ Taken \in Int BY Typed DEF Ctx
<1>1. Unmoved' = Unmoved /\ \A n : Unsent(n)' = Unsent(n)
  BY ReadOutEffect DEF Unmoved, Unsent, Writing, InHand, Holding
<1>2. Hand' BY ReadOutEffect DEF Ctx, Hand, Writing, Holding, Written, Ok
<1>3. Records' BY ReadOutEffect DEF Ctx, Records, InHand, Ok
<1>4. Erasing' BY ReadOutEffect DEF Erasing
<1>5. Entries'
  <2> SUFFICES ASSUME NEW n \in Monitors, NEW k \in 1..Len(tx'[n])
               PROVE  /\ tx'[n][k].ev <= Taken
                      /\ tx'[n][k].index # IndexTop =>
                           \E s \in Slots : /\ IsOf(flash[s], tx'[n][k])
                                            /\ Age(wrptr, s) + Unmoved <= Reach(n, k)'
    BY <1>1, ReadOutEffect DEF Entries
  <2>1. PICK j \in 1..Len(tx[n]) : tx'[n][k] = tx[n][j] /\ Len(tx'[n]) - k = Len(tx[n]) - j
    <3>1. CASE n = m
      <4>1. k + 1 \in 1..Len(tx[m]) /\ tx'[m][k] = tx[m][k + 1] BY <3>1, ReadOutEffect
      <4>2. Len(tx'[m]) - k = Len(tx[m]) - (k + 1) BY <3>1, ReadOutEffect
      <4> QED BY <3>1, <4>1, <4>2
    <3>2. CASE n # m BY <3>2, ReadOutEffect
    <3> QED BY <3>1, <3>2
  <2>2. Reach(n, k)' = Reach(n, j) BY <1>1, <2>1, ReadOutEffect DEF Reach
  <2> QED BY <2>1, <2>2, ReadOutEffect DEF Ctx, Entries
<1>6. Tagging'
  <2>1. CASE rabbit' = rabbit BY <2>1, ReadOutEffect DEF Tagging
  <2>2. ASSUME NEW s \in find_event_by_index(tx[m][1].index),
               rabbit' = [pc |-> "tag", mon |-> m, slot |-> s, left |-> 0, pace |-> 0,
                          rec |-> flash[s]]
        PROVE  Tagging'
    <3>1. /\ s \in Slots /\ flash[s].st = "ok" /\ Age(wrptr, s) + Unmoved <= Reach(m, 1)
      BY ReadOutEffect, FoundOfEntry
    <3>2. Reach(m, 1) \in Nat /\ Reach(m, 1) <= Window + Pace + TXEVENTBUFFERLEN + 0 + HeldUpTo(m, Taken)
      <4>1. 1 \in 1..Len(tx[m]) BY ReadOutEffect
      <4>2. Reach(m, 1) \in Nat /\ Reach(m, 1) <= Window + Pace + (TXEVENTBUFFERLEN - 1)
                                      + Unsent(m) + HeldUpTo(m, Taken)
        BY <1>0, <4>1, ReachFacts
      <4>3. Unsent(m) \in {0, 1} /\ HeldUpTo(m, Taken) \in Nat BY UnFacts, HeldFacts
      <4> QED BY <4>2, <4>3, ConstantTypes
    <3>3. Age(wrptr, s) + Unmoved <= Window + Pace + TXEVENTBUFFERLEN + 0 + HeldUpTo(m, Taken)
      <4>1. Age(wrptr, s) \in Nat /\ Unmoved \in Nat BY <1>0, <3>1, AgeFacts, UnFacts
      <4>2. HeldUpTo(m, Taken) \in Nat BY HeldFacts
      <4> QED BY <3>1, <3>2, <4>1, <4>2, ConstantTypes
    <3>4. IsOf(flash[s], flash[s]) BY <3>1 DEF IsOf
    <3> QED BY <1>1, <2>2, <3>1, <3>3, <3>4, ReadOutEffect DEF Tagging
  <2> QED BY <2>1, <2>2, ReadOutEffect
<1>7. Reloading' BY ReadOutEffect DEF Reloading
<1> QED BY <1>2, <1>3, <1>4, <1>5, <1>6, <1>7 DEF SoundParts

LEMMA StartReloadKeeps ==
  ASSUME Ctx, NEW m \in Monitors, ReloadUnAckEvents25(m)
  PROVE  SoundParts'
<1>0. TypeInv /\ wrptr \in Slots BY Typed DEF Ctx
<1>1. UNCHANGED <<flash, wrptr, eventIndex, tx, logT, format, queue>> /\ Taken' = Taken
  BY DEF ReloadUnAckEvents25, saved, pointers, history, Taken
<1>2. /\ rabbit'.pc = "reload" /\ rabbit'.slot = ReloadFrom /\ rabbit'.left = Window
      /\ rabbit'.pace = 0
  BY DEF ReloadUnAckEvents25
<1>3. Unmoved' = Unmoved /\ \A n : Unsent(n)' = Unsent(n)
  BY <1>1 DEF Unmoved, Unsent, Writing, InHand, Holding
<1>4. ~InHand /\ Unmoved = 0
  BY <1>0, Typed DEF ReloadUnAckEvents25, Working, InHand, Unmoved, Writing
<1>5. Hand' BY <1>1 DEF Ctx, Hand, Writing, Holding, Written, Ok
<1>6. Records' BY <1>1 DEF Ctx, Records, InHand, Ok
<1>7. Erasing' BY <1>1 DEF Ctx, Erasing, Ok
<1>8. Entries' BY <1>1, <1>3 DEF Ctx, Entries, Reach
<1>9. Tagging' BY <1>2 DEF Tagging
<1>10. Reloading'
  <2>1. Age(wrptr, ReloadFrom) = Window BY <1>0, AgeOfReloadFrom DEF ReloadFrom
  <2>2. Window + 0 = Window BY ConstantTypes
  <2> QED BY <1>1, <1>2, <1>3, <1>4, <2>1, <2>2 DEF Reloading, InHand
<1> QED BY <1>5, <1>6, <1>7, <1>8, <1>9, <1>10 DEF SoundParts

LEMMA TagEffect ==
  ASSUME Ctx, Sound', TagEvent
  PROVE  /\ rabbit.pc = "tag" /\ rabbit'.pc = "idle" /\ SameRecords
         /\ \A s \in Slots : s # rabbit.slot => flash'[s] = flash[s]
         /\ flash'[rabbit.slot].ack = rabbit.rec.ack \cup {rabbit.mon}
         /\ UNCHANGED <<wrptr, eventIndex, savedIndex, tx, logT, format, queue, acked, faults>>
         /\ Taken' = Taken /\ rabbit.mon \in Monitors
         /\ Writing => rabbit.slot # wrptr
<1>0. TypeInv /\ HeldFit /\ wrptr \in Slots /\ rabbit.slot \in Slots /\ flash \in [Slots -> Record]
      /\ rabbit \in RabbitType /\ rabbit.rec \in Record
  BY Typed DEF Ctx, RabbitType
<1>1. rabbit.pc = "tag" /\ rabbit'.pc = "idle" BY DEF TagEvent, Idle
<1>2. flash' = [flash EXCEPT ![rabbit.slot] = [rabbit.rec EXCEPT !.ack = rabbit.rec.ack \cup {rabbit.mon}]]
      /\ faults' = faults
  <2>1. "badWrite" \notin faults' BY DEF Sound, NoneOf
  <2> QED BY <2>1 DEF TagEvent, WriteSlot
<1>3. flash'[rabbit.slot] = [rabbit.rec EXCEPT !.ack = rabbit.rec.ack \cup {rabbit.mon}]
      /\ \A s \in Slots : s # rabbit.slot => flash'[s] = flash[s]
  BY <1>0, <1>2
<1>4. /\ flash'[rabbit.slot].st = rabbit.rec.st /\ flash'[rabbit.slot].index = rabbit.rec.index
      /\ flash'[rabbit.slot].ev = rabbit.rec.ev
      /\ flash'[rabbit.slot].ack = rabbit.rec.ack \cup {rabbit.mon}
  BY <1>0, <1>3 DEF Record
<1>5. rabbit.rec.st = "ok" /\ IsOf(flash[rabbit.slot], rabbit.rec)
      /\ Age(wrptr, rabbit.slot) + Unmoved <=
           Window + Pace + TXEVENTBUFFERLEN + rabbit.pace + HeldUpTo(rabbit.mon, Taken)
  BY <1>1 DEF Ctx, Tagging
<1>6. SameRecords BY <1>3, <1>4, <1>5 DEF SameRecords, IsOf
<1>7. Writing => rabbit.slot # wrptr
  <2> SUFFICES ASSUME Writing PROVE rabbit.slot # wrptr OBVIOUS
  <2>1. Unmoved = 1 BY DEF Unmoved
  <2>2. Window + Pace + TXEVENTBUFFERLEN + Pace + HeldUpTo(rabbit.mon, Taken) <= DF_MAXEVENTS
    BY <1>0, FitFacts
  <2>3. rabbit.pace \in Nat /\ rabbit.pace <= Pace /\ HeldUpTo(rabbit.mon, Taken) \in Nat
    BY <1>0, Typed, HeldFacts
  <2>4. Age(wrptr, rabbit.slot) \in Nat /\ Age(wrptr, wrptr) = DF_MAXEVENTS BY <1>0, AgeFacts
  <2>5. Age(wrptr, rabbit.slot) < DF_MAXEVENTS BY <1>5, <2>1, <2>2, <2>3, <2>4, ConstantTypes
  <2> QED BY <2>4, <2>5, ConstantTypes
<1>8. rabbit.mon \in Monitors BY <1>0, <1>1, Typed DEF Working
<1>9. Taken' = Taken BY DEF TagEvent, history, Taken
<1> QED BY <1>1, <1>2, <1>3, <1>4, <1>6, <1>7, <1>8, <1>9 DEF TagEvent, saved, pointers, history

\* Marking records leaves what LogT_Task has in hand.
LEMMA HandMarked ==
  ASSUME Hand, SameRecords, UNCHANGED <<wrptr, eventIndex, logT>>, Taken' = Taken,
         wrptr \in Slots, logT.slot \in Slots,
         Writing => flash'[wrptr] = flash[wrptr]
  PROVE  Hand'
<1>1. /\ Writing' = Writing /\ Holding' = Holding /\ Written' = Written
      /\ Ok(logT.slot)' = Ok(logT.slot)
      /\ flash'[logT.slot].index = flash[logT.slot].index
      /\ flash'[logT.slot].ev = flash[logT.slot].ev
  BY DEF Writing, Holding, Written, Ok, SameRecords
<1>2. Writing => logT.slot = wrptr /\ logT.index = eventIndex /\ flash'[wrptr] = Written
  BY DEF Hand
<1> QED BY <1>1, <1>2 DEF Hand

LEMMA TagKeeps ==
  ASSUME Ctx, Sound', TagEvent
  PROVE  SoundParts'
<1>0. TypeInv /\ wrptr \in Slots /\ logT.slot \in Slots /\ Taken \in Int BY Typed DEF Ctx
<1>1. Unmoved' = Unmoved /\ \A m : Unsent(m)' = Unsent(m)
  BY TagEffect DEF Unmoved, Unsent, Writing, InHand, Holding
<1>2. Hand'
  <2>1. /\ SameRecords /\ UNCHANGED <<wrptr, eventIndex, logT>> /\ Taken' = Taken
        /\ Writing => flash'[wrptr] = flash[wrptr]
    BY <1>0, TagEffect
  <2>2. Hand BY DEF Ctx
  <2> QED BY <1>0, <2>1, <2>2, HandMarked
<1>3. Records' BY TagEffect DEF Ctx, Records, InHand, Ok, SameRecords
<1>4. Erasing' BY TagEffect DEF Ctx, Erasing, Ok, SameRecords
<1>5. Entries'
  <2>1. \A m \in Monitors : Unsent(m)' + HeldUpTo(m, Taken') >= Unsent(m) + HeldUpTo(m, Taken)
    BY <1>1, TagEffect, UnFacts, HeldFacts
  <2> QED BY <1>0, <1>1, <2>1, TagEffect, EntriesFrame DEF Ctx
<1>6. Tagging' /\ Reloading' BY TagEffect DEF Tagging, Reloading
<1> QED BY <1>2, <1>3, <1>4, <1>5, <1>6 DEF SoundParts

\* A reload reads a settled record, and a tag it writes goes no farther back.
LEMMA ReloadSlotEffect ==
  ASSUME Ctx, ReloadSlot
  PROVE  /\ rabbit.pc = "reload" /\ rabbit.mon \in Monitors /\ rabbit.slot # wrptr
         /\ Age(wrptr, rabbit.slot) + Unmoved <= Window + Pace
         /\ InHand => rabbit.slot # logT.slot
         /\ Ok(rabbit.slot) => flash[rabbit.slot].ev <= Taken
         /\ \/ rabbit.left = 1 /\ rabbit'.pc = "idle"
            \/ /\ rabbit.left >= 2 /\ rabbit'.pc = "reload" /\ rabbit'.slot = SlotInc(rabbit.slot)
               /\ rabbit'.left = rabbit.left - 1 /\ rabbit'.pace = rabbit.pace
               /\ rabbit'.mon = rabbit.mon
         /\ SameRecords /\ flash'[wrptr] = flash[wrptr]
         /\ UNCHANGED <<wrptr, eventIndex, savedIndex, logT, format, queue, acked>>
         /\ Taken' = Taken
         /\ \/ /\ Reloadable(rabbit.mon, flash[rabbit.slot])
               /\ tx' = TxAfter({rabbit.mon}, flash[rabbit.slot].index, flash[rabbit.slot].ev)
               /\ faults' = faults \cup IF Overruns({rabbit.mon}, flash[rabbit.slot].ev)
                                        THEN {"overrun"} ELSE {}
               /\ \/ ~IsHeld(rabbit.mon, flash[rabbit.slot].ev) /\ flash' = flash
                  \/ /\ IsHeld(rabbit.mon, flash[rabbit.slot].ev)
                     /\ flash' = TagFor(rabbit.mon, flash[rabbit.slot].index)
            \/ ~Reloadable(rabbit.mon, flash[rabbit.slot]) /\ UNCHANGED <<tx, flash, faults>>
<1> DEFINE S == rabbit.slot
           rec == flash[rabbit.slot]
<1>0. /\ TypeInv /\ HeldFit /\ wrptr \in Slots /\ S \in Slots /\ rabbit \in RabbitType
      /\ rabbit.left \in Nat /\ rabbit.left <= Window /\ rabbit.pace \in Nat /\ rabbit.pace <= Pace
  BY Typed DEF Ctx
<1>1. rabbit.pc = "reload" BY DEF ReloadSlot
<1>2. rabbit.mon \in Monitors /\ rabbit.left >= 1 BY <1>0, <1>1, Typed DEF Working
<1>3. Age(wrptr, S) + Unmoved = rabbit.left + rabbit.pace /\ (InHand => rabbit.pace >= 1)
  BY <1>1 DEF Ctx, Reloading
<1>4. /\ \A s \in Slots : Age(wrptr, s) \in Nat /\ (Age(wrptr, s) = DF_MAXEVENTS <=> s = wrptr)
      /\ Unmoved \in {0, 1}
  BY <1>0, AgeFacts, UnFacts
<1>5. Age(wrptr, S) + Unmoved <= Window + Pace
  BY <1>0, <1>3, ConstantTypes
<1>6. Age(wrptr, S) < DF_MAXEVENTS /\ S # wrptr
  <2>1. Window + Pace < DF_MAXEVENTS
    BY <1>0, FitFacts, HeldFacts, ConstantTypes, ConstantsAssumption DEF ConstantsAssumption
  <2>2. Age(wrptr, S) < DF_MAXEVENTS BY <1>0, <1>4, <1>5, <2>1, ConstantTypes
  <2> QED BY <1>0, <1>4, <2>2, ConstantTypes
<1>7. InHand => S # logT.slot
  <2>1. CASE Writing BY <1>6, <2>1 DEF Ctx, Hand
  <2>2. CASE InHand /\ ~Writing
    <3>1. Age(wrptr, logT.slot) = 1 BY <2>2 DEF Ctx, Hand, InHand
    <3>2. Unmoved = 0 BY <2>2 DEF Unmoved
    <3>3. Age(wrptr, S) >= 2 BY <1>0, <1>2, <1>3, <1>4, <2>2, <3>2
    <3> QED BY <3>1, <3>3
  <2> QED BY <2>1, <2>2
<1>8. Ok(S) => rec.ev <= Taken BY <1>0, <1>7 DEF Ctx, Records
<1>9. \/ rabbit.left = 1 /\ rabbit'.pc = "idle"
      \/ /\ rabbit.left >= 2 /\ rabbit'.pc = "reload" /\ rabbit'.slot = SlotInc(S)
         /\ rabbit'.left = rabbit.left - 1 /\ rabbit'.pace = rabbit.pace
         /\ rabbit'.mon = rabbit.mon
  <2>1. CASE rabbit.left = 1 BY <2>1 DEF ReloadSlot, Idle
  <2>2. CASE rabbit.left # 1
    <3>1. rabbit' = [rabbit EXCEPT !.slot = SlotInc(rabbit.slot), !.left = rabbit.left - 1]
      BY <2>2 DEF ReloadSlot
    <3> QED BY <1>0, <1>1, <1>2, <2>2, <3>1 DEF RabbitType
  <2> QED BY <2>1, <2>2
<1>10. \/ /\ Reloadable(rabbit.mon, rec)
          /\ tx' = TxAfter({rabbit.mon}, rec.index, rec.ev)
          /\ faults' = faults \cup IF Overruns({rabbit.mon}, rec.ev) THEN {"overrun"} ELSE {}
          /\ \/ ~IsHeld(rabbit.mon, rec.ev) /\ flash' = flash
             \/ IsHeld(rabbit.mon, rec.ev) /\ flash' = TagFor(rabbit.mon, rec.index)
       \/ ~Reloadable(rabbit.mon, rec) /\ UNCHANGED <<tx, flash, faults>>
  BY DEF ReloadSlot
<1>11. SameRecords /\ flash'[wrptr] = flash[wrptr]
  <2>1. CASE flash' = flash BY <2>1 DEF SameRecords
  <2>2. CASE flash' = TagFor(rabbit.mon, rec.index)
    <3>1. wrptr \notin find_event_by_index(rec.index)
      <4>1. ASSUME wrptr \in find_event_by_index(rec.index) PROVE FALSE
        <5>1. Age(wrptr, wrptr) <= Age(wrptr, S) BY <1>0, <4>1, FoundFacts
        <5> QED BY <1>0, <1>4, <1>6, <5>1, ConstantTypes
      <4> QED BY <4>1
    <3> QED BY <1>0, <2>2, <3>1, TagForSame
  <2> QED BY <1>10, <2>1, <2>2
<1>12. Taken' = Taken BY DEF ReloadSlot, history, Taken
<1>13. UNCHANGED <<wrptr, eventIndex, savedIndex, logT, format, queue, acked>>
  BY DEF ReloadSlot, saved, pointers, history
<1> QED BY <1>1, <1>2, <1>5, <1>6, <1>7, <1>8, <1>9, <1>10, <1>11, <1>12, <1>13

LEMMA ReloadSlotKeeps ==
  ASSUME Ctx, ReloadSlot
  PROVE  SoundParts'
<1>0. TypeInv /\ wrptr \in Slots /\ logT.slot \in Slots /\ rabbit.slot \in Slots
      /\ Taken \in Int
  BY Typed DEF Ctx
<1>1. Unmoved' = Unmoved /\ \A m : Unsent(m)' = Unsent(m)
  BY ReloadSlotEffect DEF Unmoved, Unsent, Writing, InHand, Holding
<1>2. Hand'
  <2>1. /\ SameRecords /\ UNCHANGED <<wrptr, eventIndex, logT>> /\ Taken' = Taken
        /\ Writing => flash'[wrptr] = flash[wrptr]
    BY ReloadSlotEffect
  <2>2. Hand BY DEF Ctx
  <2> QED BY <1>0, <2>1, <2>2, HandMarked
<1>3. Records' BY ReloadSlotEffect DEF Ctx, Records, InHand, Ok, SameRecords
<1>4. Erasing' BY ReloadSlotEffect DEF Ctx, Erasing, Ok, SameRecords
<1>5. Entries'
  <2>1. \A m : /\ Unsent(m)' + HeldUpTo(m, Taken') = Unsent(m) + HeldUpTo(m, Taken)
               /\ Unsent(m) + HeldUpTo(m, Taken) \in Nat
    BY <1>1, ReloadSlotEffect, UnFacts, HeldFacts
  <2>2. wrptr' = wrptr /\ format'.pc = format.pc /\ Taken' = Taken /\ SameRecords
    BY ReloadSlotEffect
  <2>3. CASE UNCHANGED tx
    BY <1>0, <1>1, <2>1, <2>2, <2>3, EntriesFrame DEF Ctx
  <2>4. CASE /\ Reloadable(rabbit.mon, flash[rabbit.slot])
             /\ tx' = TxAfter({rabbit.mon}, flash[rabbit.slot].index, flash[rabbit.slot].ev)
    <3> DEFINE i == flash[rabbit.slot].index
               e == flash[rabbit.slot].ev
    <3>1. Ok(rabbit.slot) BY <2>4 DEF Reloadable, Ok
    <3>2. IsOf(flash[rabbit.slot], [index |-> i, ev |-> e]) BY <3>1 DEF Ok, IsOf
    <3>3. Age(wrptr, rabbit.slot) + Unmoved <= Window + Pace BY ReloadSlotEffect
    <3>4. {rabbit.mon} \in SUBSET Monitors BY ReloadSlotEffect
    <3>5. e <= Taken' BY <2>2, <3>1, ReloadSlotEffect
    <3>6. tx' = TxAfter({rabbit.mon}, i, e) BY <2>4
    <3> HIDE DEF i, e
    <3>7. \A m \in Monitors :
            Unsent(m)' + HeldUpTo(m, Taken') + PlaceFor({rabbit.mon}, m, e)
              >= Unsent(m) + HeldUpTo(m, Taken)
      <4>1. SUFFICES ASSUME NEW m \in Monitors
                     PROVE  Unsent(m)' + HeldUpTo(m, Taken') + PlaceFor({rabbit.mon}, m, e)
                              >= Unsent(m) + HeldUpTo(m, Taken)
        OBVIOUS
      <4>2. PlaceFor({rabbit.mon}, m, e) \in {0, 1} BY DEF PlaceFor
      <4> QED BY <2>1, <4>2
    <3>8. Taken <= Taken' /\ Taken' \in Int BY <1>0, <2>2
    <3> QED BY <1>0, <1>1, <2>2, <3>2, <3>3, <3>4, <3>5, <3>6, <3>7, <3>8, PutEntries DEF Ctx
  <2> QED BY <2>3, <2>4, ReloadSlotEffect
<1>6. Tagging' BY ReloadSlotEffect DEF Tagging
<1>7. Reloading'
  <2> SUFFICES ASSUME rabbit'.pc = "reload" PROVE Reloading' BY DEF Reloading
  <2>1. /\ rabbit.left >= 2 /\ rabbit'.slot = SlotInc(rabbit.slot)
        /\ rabbit'.left = rabbit.left - 1 /\ rabbit'.pace = rabbit.pace
    BY ReloadSlotEffect
  <2>2. Age(wrptr, rabbit.slot) + Unmoved = rabbit.left + rabbit.pace /\ (InHand => rabbit.pace >= 1)
    BY ReloadSlotEffect DEF Ctx, Reloading
  <2>3. rabbit.pace \in Nat /\ rabbit.left \in Nat /\ Age(wrptr, rabbit.slot) \in Nat
    BY <1>0, Typed, AgeFacts
  <2>4. Unmoved \in {0, 1} /\ (Unmoved = 1 => InHand) BY DEF Unmoved, Writing, InHand
  <2>5. Age(wrptr, rabbit.slot) >= 2 BY <2>1, <2>2, <2>3, <2>4
  <2>6. Age(wrptr, SlotInc(rabbit.slot)) = Age(wrptr, rabbit.slot) - 1 BY <1>0, <2>5, AgeOfNext
  <2>7. Age(wrptr, SlotInc(rabbit.slot)) + Unmoved = rabbit'.left + rabbit'.pace
    BY <2>1, <2>2, <2>3, <2>4, <2>6
  <2>8. wrptr' = wrptr /\ (InHand' => InHand) BY ReloadSlotEffect DEF InHand
  <2> QED BY <1>1, <2>1, <2>2, <2>7, <2>8 DEF Reloading
<1> QED BY <1>2, <1>3, <1>4, <1>5, <1>6, <1>7 DEF SoundParts

-----------------------------------------------------------------------------
(* The other steps.                                                        *)

\* A write that cannot fail is never repeated.
LEMMA NoRewrite ==
  ASSUME Ctx
  PROVE  ~RewriteRecord /\ ~DeliverUnstored
<1>1. logT.pc \in {"verify", "reverify"} => flash[logT.slot] = Written
  BY DEF Ctx, Hand, Writing
<1> QED BY <1>1 DEF RewriteRecord, DeliverUnstored

LEMMA LogKeeps ==
  ASSUME Ctx, logCidEvent
  PROVE  SoundParts' /\ Taken' = Taken
<1>1. UNCHANGED <<flash, wrptr, eventIndex, tx, logT, rabbit, format>> /\ format.pc # "erase"
  BY DEF logCidEvent, SemaphoreFree, pointers
<1>2. Taken' = Taken
  <2>1. queue \in Seq(Events) /\ logged \in Nat BY Typed DEF Ctx
  <2>2. queue' = Append(queue, logged + 1) /\ logged' = logged + 1 BY DEF logCidEvent
  <2>3. Len(queue') = Len(queue) + 1 /\ Len(queue) \in Nat BY <2>1, <2>2
  <2>4. Taken' = logged' - Len(queue') /\ Taken = logged - Len(queue) BY DEF Taken
  <2> QED BY <2>1, <2>2, <2>3, <2>4
<1> QED BY <1>1, <1>2, FrameKeeps

\* A format that is to meet no work starts and ends with the tasks at rest.
LEMMA FormatEffect ==
  ASSUME Sound', FormatEventFlash \/ EraseRest
  PROVE  Quiet
<1>1. faults' = faults \cup MetWork BY DEF FormatEventFlash, EraseRest
<1>2. "format" \notin faults' BY DEF Sound, NoneOf
<1> QED BY <1>1, <1>2 DEF MetWork

LEMMA FormatKeeps ==
  ASSUME Ctx, Sound', FormatEventFlash
  PROVE  SoundParts'
<1>1. Quiet BY FormatEffect
<1>2. /\ UNCHANGED <<flash, wrptr, eventIndex, tx, logT, rabbit, queue>> /\ Taken' = Taken
      /\ format'.pc = "erase" /\ format'.done = 0
  BY DEF FormatEventFlash, pointers, history, Taken
<1>3. Unmoved' = Unmoved BY <1>2 DEF Unmoved, Writing
<1>4. Hand' BY <1>2 DEF Ctx, Hand, Writing, Holding, Written, Ok
<1>5. Records' BY <1>2 DEF Ctx, Records, InHand, Ok
<1>6. Erasing'
  <2>1. \A s \in Slots : ~(s < 0) BY ConstantTypes DEF Slots
  <2> QED BY <1>1, <1>2, <2>1 DEF Quiet, Erasing
<1>7. Entries' BY <1>2 DEF Ctx, Entries
<1>8. Tagging' BY <1>1, <1>2 DEF Quiet, Tagging
<1>9. Reloading' BY <1>1, <1>2 DEF Quiet, Reloading
<1> QED BY <1>4, <1>5, <1>6, <1>7, <1>8, <1>9 DEF SoundParts

\* Erasing leaves a slot as it is or blank.
LEMMA EraseEffect ==
  ASSUME TypeInv, NEW k \in Nat, EraseTo(k)
  PROVE  /\ \A s \in Slots : flash'[s] = flash[s] \/ flash'[s].st = "erased"
         /\ \A s \in Slots : format.done <= s /\ s < k => flash'[s].st = "erased"
         /\ \A s \in Slots : flash'[s].st # "erased" => flash'[s] = flash[s]
         /\ \A s \in Slots : flash'[s] = flash[s] \/ (flash'[s].ack = {} /\ flash'[s].ev = 0)
<1>1. format.done \in Nat BY Typed DEF FormatType
<1>2. \A s \in Slots : s \in Nat BY ConstantTypes DEF Slots
<1>3. \A s \in Slots : flash'[s] = IF s \in format.done..(k - 1) THEN Blank ELSE flash[s]
  BY DEF EraseTo
<1>4. \A s \in Slots : flash'[s] = flash[s] \/ flash'[s] = Blank BY <1>3
<1>5. \A s \in Slots : format.done <= s /\ s < k => flash'[s] = Blank BY <1>1, <1>2, <1>3
<1>6. Blank.st = "erased" /\ Blank.ack = {} /\ Blank.ev = 0 BY DEF Blank
<1> QED BY <1>4, <1>5, <1>6

LEMMA EraseKeeps ==
  ASSUME Ctx, EraseSlots
  PROVE  SoundParts'
<1>0. TypeInv /\ format \in FormatType BY Typed DEF Ctx
<1>1. PICK k \in (format.done + 1)..(DF_MAXEVENTS - 1) :
        EraseTo(k) /\ format' = [format EXCEPT !.done = k]
  BY DEF EraseSlots
<1>2. format.pc = "erase" /\ format'.pc = "erase" /\ format'.done = k
  BY <1>0, <1>1 DEF EraseSlots, FormatType
<1>3. format.done \in Nat /\ k \in Nat BY <1>0, <1>1, ConstantTypes DEF FormatType
<1>4. /\ \A s \in Slots : flash'[s] = flash[s] \/ flash'[s].st = "erased"
      /\ \A s \in Slots : format.done <= s /\ s < k => flash'[s].st = "erased"
  BY <1>0, <1>1, <1>3, EraseEffect
<1>5. UNCHANGED <<wrptr, eventIndex, tx, logT, rabbit, queue>> /\ Taken' = Taken
  BY DEF EraseSlots, pointers, history, Taken
<1>6. /\ queue = <<>> /\ logT.pc = "poll" /\ \A s \in Slots : s < format.done => ~Ok(s)
      /\ rabbit.pc # "tag"
  BY <1>2 DEF Ctx, Erasing, Queued
<1>7. Unmoved' = Unmoved BY <1>5 DEF Unmoved, Writing
<1>8. Hand' BY <1>5, <1>6 DEF Hand, Writing, Holding
<1>9. Records' BY <1>4, <1>5, <1>6 DEF Ctx, Records, InHand, Ok
<1>10. Erasing'
  <2>1. \A s \in Slots : s \in Nat BY ConstantTypes DEF Slots
  <2>2. ASSUME NEW s \in Slots, s < k PROVE flash'[s].st # "ok"
    <3>1. CASE format.done <= s BY <1>4, <2>2, <3>1
    <3>2. CASE s < format.done BY <1>4, <1>6, <3>2 DEF Ok
    <3> QED BY <1>3, <2>1, <3>1, <3>2
  <2> QED BY <1>2, <1>5, <1>6, <2>2 DEF Erasing, Ok
<1>11. Entries' BY <1>2, <1>5 DEF Ctx, Entries
<1>12. Tagging' BY <1>5, <1>6 DEF Tagging
<1>13. Reloading' BY <1>5, <1>7 DEF Ctx, Reloading, InHand
<1> QED BY <1>8, <1>9, <1>10, <1>11, <1>12, <1>13 DEF SoundParts

\* The log is empty when the last slot is erased.
LEMMA EraseRestEffect ==
  ASSUME Ctx, Sound', EraseRest
  PROVE  /\ \A s \in Slots : flash'[s].st = "erased"
         /\ \A s \in Slots : flash'[s] = flash[s] \/ (flash'[s].ack = {} /\ flash'[s].ev = 0)
         /\ \A m \in Monitors : tx'[m] = <<>>
         /\ logT'.pc = "poll" /\ rabbit'.pc = "idle" /\ format'.pc = "save"
         /\ wrptr' = 0 /\ eventIndex' = 0 /\ acked' = acked
<1>0. TypeInv BY DEF Ctx
<1>1. Quiet BY FormatEffect
<1>2. format.pc = "erase" /\ EraseTo(DF_MAXEVENTS) BY DEF EraseRest
<1>3. /\ \A s \in Slots : flash'[s] = flash[s] \/ flash'[s].st = "erased"
      /\ \A s \in Slots : format.done <= s /\ s < DF_MAXEVENTS => flash'[s].st = "erased"
      /\ \A s \in Slots : flash'[s] = flash[s] \/ (flash'[s].ack = {} /\ flash'[s].ev = 0)
  BY <1>0, <1>2, EraseEffect, ConstantTypes
<1>4. \A s \in Slots : s \in Nat /\ s < DF_MAXEVENTS BY ConstantTypes DEF Slots
<1>5. format.done \in Nat BY <1>0, Typed DEF FormatType
<1>6. ASSUME NEW s \in Slots PROVE flash'[s].st = "erased"
  <2>1. CASE format.done <= s BY <1>3, <1>4, <2>1
  <2>2. CASE s < format.done
    <3>1. flash[s].st # "ok" BY <1>2, <2>2 DEF Ctx, Erasing, Ok
    <3>2. flash[s].st # "bad" BY DEF Ctx, Records
    <3>3. flash[s].st \in {"erased", "bad", "ok"} BY <1>0, Typed DEF Record
    <3> QED BY <1>3, <3>1, <3>2, <3>3
  <2> QED BY <1>4, <1>5, <2>1, <2>2
<1> QED BY <1>1, <1>3, <1>6 DEF EraseRest, Quiet, history

LEMMA EraseRestKeeps ==
  ASSUME Ctx, Sound', EraseRest
  PROVE  SoundParts'
<1>1. Hand' BY EraseRestEffect DEF Hand, Writing, Holding
<1>2. Records' BY EraseRestEffect DEF Records, Ok
<1>3. Erasing' BY EraseRestEffect DEF Erasing
<1>4. Entries'
  <2>1. \A m \in Monitors : \A k \in 1..Len(tx'[m]) : FALSE
    <3>1. Len(<<>>) = 0 OBVIOUS
    <3> QED BY <3>1, EraseRestEffect
  <2> QED BY <2>1 DEF Entries
<1>5. Tagging' /\ Reloading' BY EraseRestEffect DEF Tagging, Reloading
<1> QED BY <1>1, <1>2, <1>3, <1>4, <1>5 DEF SoundParts

LEMMA FormatSaveKeeps ==
  ASSUME Ctx, FormatSaveIndex
  PROVE  SoundParts'
<1>1. /\ UNCHANGED <<flash, wrptr, eventIndex, tx, logT, rabbit>> /\ Taken' = Taken
      /\ format.pc = "save" /\ format'.pc = "idle"
  BY DEF FormatSaveIndex, NoFormat, pointers, history, Taken
<1>2. Unmoved' = Unmoved /\ \A m : Unsent(m)' = Unsent(m)
  BY <1>1 DEF Unmoved, Unsent, Writing, InHand, Holding
<1>3. Hand' BY <1>1 DEF Ctx, Hand, Writing, Holding, Written, Ok
<1>4. Records' BY <1>1 DEF Ctx, Records, InHand, Ok
<1>5. Erasing' BY <1>1 DEF Erasing
<1>6. Entries' BY <1>1, <1>2 DEF Ctx, Entries, Reach
<1>7. Tagging' BY <1>1, <1>2 DEF Ctx, Tagging
<1>8. Reloading' BY <1>1, <1>2 DEF Ctx, Reloading, InHand
<1> QED BY <1>3, <1>4, <1>5, <1>6, <1>7, <1>8 DEF SoundParts

\* A restart returns to the saved position, which is the position it had.
LEMMA CrashEffect ==
  ASSUME TypeInv, Queued, Crash
  PROVE  /\ wrptr' = wrptr /\ eventIndex' = savedIndex
         /\ queue' = <<>> /\ logT'.pc = "poll" /\ rabbit'.pc = "idle" /\ format'.pc = "idle"
         /\ \A m \in Monitors : tx'[m] = <<>>
         /\ UNCHANGED <<flash, savedIndex, acked>> /\ Taken' = logged /\ Taken <= Taken'
         /\ InHand => Taken + 1 <= Taken' /\ logT.ev = Taken + 1
         /\ faults' = faults \cup {"crash"} \cup (IF logT.pc = "index" THEN {"split"} ELSE {})
<1>1. /\ wrptr' = wrptr /\ eventIndex' = savedIndex
      /\ queue' = <<>> /\ logT'.pc = "poll" /\ rabbit'.pc = "idle" /\ format'.pc = "idle"
      /\ \A m \in Monitors : tx'[m] = <<>>
      /\ UNCHANGED <<flash, savedIndex, acked, logged>>
  BY DEF Crash, Get_evwrptr, Queued, Polling, Idle, NoFormat, saved, history
<1>2. Taken' = logged
  <2>1. Len(queue') = 0 BY <1>1
  <2>2. Taken' = logged' - Len(queue') BY DEF Taken
  <2> QED BY <1>1, <2>1, <2>2, Typed
<1>3. Taken = logged - Len(queue) /\ queue \in Seq(Events) /\ logged \in Nat
  BY Typed DEF Taken
<1>4. Len(queue) \in Nat /\ (queue # <<>> => Len(queue) >= 1) BY <1>3
<1>5. InHand => queue # <<>> /\ logT.ev = Taken + 1 BY Typed DEF Working, InHand, Queued
<1>6. Taken <= logged /\ (InHand => Taken + 1 <= logged) BY <1>3, <1>4, <1>5
<1> QED BY <1>1, <1>2, <1>5, <1>6 DEF Crash

LEMMA CrashKeeps ==
  ASSUME Ctx, Crash
  PROVE  SoundParts'
<1>0. TypeInv /\ Queued /\ Taken \in Int /\ Taken' \in Int /\ logT.slot \in Slots
  BY Typed, CrashEffect DEF Ctx
<1>1. Hand' BY <1>0, CrashEffect DEF Hand, Writing, Holding
<1>2. Records'
  <2>1. \A s \in Slots : flash[s].ev \in Nat BY <1>0, Typed DEF Record
  <2>2. ASSUME NEW s \in Slots, Ok(s) PROVE flash[s].ev <= Taken'
    <3>1. CASE flash[s].ev <= Taken BY <1>0, <2>1, <3>1, CrashEffect
    <3>2. CASE InHand /\ s = logT.slot
      <4>1. flash[s].ev = logT.ev BY <3>2 DEF Ctx, Hand, InHand
      <4> QED BY <1>0, <3>2, <4>1, CrashEffect
    <3> QED BY <2>2, <3>1, <3>2 DEF Ctx, Records
  <2>3. flash' = flash /\ wrptr' = wrptr BY <1>0, CrashEffect
  <2> QED BY <2>2, <2>3 DEF Ctx, Records, Ok
<1>3. Erasing' BY <1>0, CrashEffect DEF Erasing
<1>4. Entries'
  <2>1. \A m \in Monitors : \A k \in 1..Len(tx'[m]) : FALSE
    <3>1. Len(<<>>) = 0 OBVIOUS
    <3> QED BY <1>0, <3>1, CrashEffect
  <2> QED BY <2>1 DEF Entries
<1>5. Tagging' /\ Reloading' BY <1>0, CrashEffect DEF Tagging, Reloading
<1> QED BY <1>1, <1>2, <1>3, <1>4, <1>5 DEF SoundParts

\* Faults are never forgotten.
LEMMA FaultsGrow ==
  ASSUME TypeInv, [Next]_vars
  PROVE  faults \subseteq faults'
<1>1. CASE LogTStep
  <2>1. CASE Deliver \/ DeliverUnstored \/ DeliverRest
    BY <2>1 DEF Deliver, DeliverUnstored, DeliverRest, ToStations, FanOut
  <2> QED BY <1>1, <2>1
    DEF LogTStep, StoreRecord, RewriteRecord, WriteSlot, AdvancePointers, SaveIndex, HoldEvent
<1>2. CASE \E m \in Monitors : ReadOutEvent(m) \/ ReloadUnAckEvents25(m)
  BY <1>2 DEF ReadOutEvent, ReloadUnAckEvents25
<1>3. CASE TagEvent \/ ReloadSlot BY <1>3 DEF TagEvent, ReloadSlot, WriteSlot
<1>4. CASE FormatEventFlash \/ FormatStep
  BY <1>4 DEF FormatEventFlash, FormatStep, EraseSlots, EraseRest, FormatSaveIndex
<1>5. CASE logCidEvent \/ Crash BY <1>5 DEF logCidEvent, Crash
<1>6. CASE UNCHANGED vars BY <1>6 DEF vars
<1> QED BY <1>1, <1>2, <1>3, <1>4, <1>5, <1>6 DEF Next

LEMMA SoundGrows ==
  ASSUME TypeInv, [Next]_vars, NEW kinds, NoneOf(kinds)'
  PROVE  NoneOf(kinds)
  BY FaultsGrow DEF NoneOf

LEMMA SoundStep ==
  ASSUME HeldFit, TypeInv, Queued, SoundInv, [Next]_vars
  PROVE  SoundInv'
<1> SUFFICES ASSUME Sound' PROVE SoundParts' BY DEF SoundInv, SoundParts
<1>1. Sound BY SoundGrows DEF Sound
<1>2. Ctx BY <1>1 DEF SoundInv, Ctx
<1> HIDE DEF Ctx
<1>3. CASE logCidEvent BY <1>2, <1>3, LogKeeps
<1>4. CASE LogTStep
  BY <1>2, <1>4, StoreKeeps, NoRewrite, AdvanceKeeps, SaveIndexKeeps, DeliverKeeps, HoldKeeps,
     RestKeeps
  DEF LogTStep
<1>5. CASE \E m \in Monitors : ReadOutEvent(m) \/ ReloadUnAckEvents25(m)
  BY <1>2, <1>5, ReadOutKeeps, StartReloadKeeps
<1>6. CASE TagEvent \/ ReloadSlot BY <1>2, <1>6, TagKeeps, ReloadSlotKeeps
<1>7. CASE FormatEventFlash BY <1>2, <1>7, FormatKeeps
<1>8. CASE FormatStep
  BY <1>2, <1>8, EraseKeeps, EraseRestKeeps, FormatSaveKeeps DEF FormatStep
<1>9. CASE Crash BY <1>2, <1>9, CrashKeeps
<1>10. CASE UNCHANGED vars
  <2>1. UNCHANGED <<flash, wrptr, eventIndex, tx, logT, rabbit, format, queue>> /\ Taken' = Taken
    BY <1>10 DEF vars, pointers, history, Taken
  <2> QED BY <1>2, <2>1, FrameKeeps
<1> QED BY <1>3, <1>4, <1>5, <1>6, <1>7, <1>8, <1>9, <1>10 DEF Next

LEMMA InitSound == Init => SoundInv
<1> SUFFICES ASSUME Init PROVE SoundParts BY DEF SoundInv, SoundParts
<1>1. \A s \in Slots : flash[s] = Blank BY DEF Init
<1>2. \A s \in Slots : flash[s].st = "erased" BY <1>1 DEF Blank
<1>3. logT.pc = "poll" /\ rabbit.pc = "idle" /\ format.pc = "idle"
  BY DEF Init, Polling, Idle, NoFormat
<1>4. \A m \in Monitors : \A k \in 1..Len(tx[m]) : FALSE
  <2>1. \A m \in Monitors : Len(tx[m]) = 0 BY DEF Init
  <2> QED BY <2>1
<1>5. Hand BY <1>3 DEF Hand, Writing, Holding
<1>6. Records BY <1>2 DEF Records, Ok
<1>7. Entries BY <1>4 DEF Entries
<1>8. Erasing /\ Tagging /\ Reloading BY <1>3 DEF Erasing, Tagging, Reloading
<1> QED BY <1>5, <1>6, <1>7, <1>8 DEF SoundParts

-----------------------------------------------------------------------------
(* The indices and the marks.                                              *)

Faultless == Ctx /\ Indexed /\ Marked

LEMMA NotCorrupted ==
  ASSUME TypeInv, [Next]_vars, ~Corrupted'
  PROVE  ~Corrupted /\ Sound /\ Sound'
<1>1. ~Corrupted BY SoundGrows DEF Corrupted
<1> QED BY <1>1 DEF Corrupted, Sound, NoneOf

\* No index is used twice.
LEMMA OneIndex ==
  ASSUME TypeInv, Indexed, NEW s \in Slots, NEW t \in Slots, Ok(s), Ok(t),
         flash[s].index = flash[t].index
  PROVE  s = t
<1>0. wrptr \in Slots /\ eventIndex \in 0..(IndexTop - 1) BY Typed
<1>1. \A r \in Slots : Age(wrptr, r) \in 1..DF_MAXEVENTS BY <1>0, AgeFacts, ConstantTypes
<1>2. /\ \A a \in 1..DF_MAXEVENTS : Minus(eventIndex, a) # eventIndex
      /\ \A a, b \in 1..DF_MAXEVENTS : Minus(eventIndex, a) = Minus(eventIndex, b) => a = b
  BY <1>0, MinusFacts
<1>3. \A r \in Slots : Ok(r) /\ r # wrptr => flash[r].index = Minus(eventIndex, Age(wrptr, r))
  BY DEF Indexed
<1>4. ASSUME NEW r \in Slots, r # wrptr, Ok(r), Ok(wrptr), flash[r].index = flash[wrptr].index
      PROVE  FALSE
  <2>1. flash[wrptr].index \in {eventIndex, Minus(eventIndex, DF_MAXEVENTS)}
    BY <1>4 DEF Indexed, Empty
  <2>2. flash[r].index = Minus(eventIndex, Age(wrptr, r)) BY <1>3, <1>4
  <2>3. DF_MAXEVENTS \in 1..DF_MAXEVENTS BY ConstantTypes
  <2>4. Age(wrptr, r) = DF_MAXEVENTS BY <1>1, <1>2, <1>4, <2>1, <2>2, <2>3
  <2> QED BY <1>0, <1>4, <2>4, AgeFacts
<1>5. CASE s = wrptr BY <1>4, <1>5
<1>6. CASE t = wrptr BY <1>4, <1>6
<1>7. CASE s # wrptr /\ t # wrptr
  <2>1. Minus(eventIndex, Age(wrptr, s)) = Minus(eventIndex, Age(wrptr, t)) BY <1>3, <1>7
  <2>2. Age(wrptr, s) = Age(wrptr, t) BY <1>1, <1>2, <2>1
  <2> QED BY <1>0, <2>2, AgeFacts
<1> QED BY <1>5, <1>6, <1>7

\* Records stay or go, and the counters stand still.
LEMMA IndexedFrame ==
  ASSUME Indexed, wrptr \in Slots, UNCHANGED <<wrptr, eventIndex>>,
         \A s \in Slots : Ok(s)' => Ok(s) /\ flash'[s].index = flash[s].index,
         logT'.pc # "index" =>
           savedIndex' = eventIndex \/ (logT.pc # "index" /\ savedIndex' = savedIndex
                                        /\ (format.pc = "save" => format'.pc = "save"))
  PROVE  Indexed'
<1>1. Empty => Empty' BY DEF Empty
<1>2. logT'.pc # "index" => savedIndex' = eventIndex' \/ (format'.pc = "save" /\ Empty')
  BY <1>1 DEF Indexed
<1>3. \A s \in Slots : Ok(s)' /\ s # wrptr' => flash'[s].index = Minus(eventIndex', Age(wrptr', s))
  BY DEF Indexed
<1>4. Ok(wrptr)' =>
        flash'[wrptr].index \in {eventIndex, Minus(eventIndex, DF_MAXEVENTS)} \/ Empty'
  BY <1>1 DEF Indexed
<1> QED BY <1>2, <1>3, <1>4 DEF Indexed, Ok

LEMMA StoreIndexed ==
  ASSUME Faultless, Sound', StoreRecord
  PROVE  Indexed'
<1>0. wrptr \in Slots BY Typed DEF Faultless, Ctx
<1>1. Ctx /\ Indexed BY DEF Faultless
<1>2. /\ wrptr' = wrptr /\ eventIndex' = eventIndex /\ savedIndex' = savedIndex /\ format' = format
      /\ logT.pc # "index" /\ logT'.pc # "index" /\ flash'[wrptr].index = eventIndex
      /\ \A s \in Slots : s # wrptr => flash'[s] = flash[s]
  BY <1>1, StoreEffect
<1>3. Empty' = Empty BY <1>2 DEF Empty, Ok
<1> QED BY <1>0, <1>1, <1>2, <1>3 DEF Indexed, Ok

LEMMA AdvanceIndexed ==
  ASSUME Faultless, AdvancePointers
  PROVE  Indexed'
<1>0. wrptr \in Slots /\ eventIndex \in 0..(IndexTop - 1) BY Typed DEF Faultless, Ctx
<1>1. Ctx /\ Indexed BY DEF Faultless
<1>2. /\ wrptr' = SlotInc(wrptr) /\ eventIndex' = IndexInc(eventIndex) /\ flash' = flash
      /\ logT'.pc = "index" /\ flash[wrptr].index = eventIndex
  BY <1>1, AdvanceEffect DEF Written
<1>3. wrptr' \in Slots BY <1>0, <1>2, RingArithmetic
<1>4. /\ \A s \in Slots : Age(wrptr, s) \in 1..DF_MAXEVENTS
      /\ \A s \in Slots : s # wrptr => Age(wrptr, s) \in 1..(DF_MAXEVENTS - 1)
  <2>1. \A s \in Slots : /\ Age(wrptr, s) \in Nat /\ 1 <= Age(wrptr, s)
                         /\ Age(wrptr, s) <= DF_MAXEVENTS
                         /\ (s # wrptr => Age(wrptr, s) # DF_MAXEVENTS)
    BY <1>0, AgeFacts
  <2> QED BY <2>1, ConstantTypes
<1>5. \A s \in Slots : Age(wrptr', s) = IF s = wrptr THEN 1 ELSE Age(wrptr, s) + 1
  BY <1>0, <1>2, AgeAdvances
<1>6. /\ \A a \in 1..(DF_MAXEVENTS - 1) : Minus(eventIndex', a + 1) = Minus(eventIndex, a)
      /\ Minus(eventIndex', 1) = eventIndex
  BY <1>0, <1>2, MinusFacts
<1>7. ASSUME NEW s \in Slots, Ok(s) PROVE flash[s].index = Minus(eventIndex', Age(wrptr', s))
  <2>1. CASE s = wrptr BY <1>2, <1>5, <1>6, <2>1
  <2>2. CASE s # wrptr
    <3>1. flash[s].index = Minus(eventIndex, Age(wrptr, s)) BY <1>1, <1>7, <2>2 DEF Indexed
    <3> QED BY <1>4, <1>5, <1>6, <2>2, <3>1
  <2> QED BY <2>1, <2>2
<1>8. Age(wrptr', wrptr') = DF_MAXEVENTS BY <1>3, AgeFacts
<1>9. \A s \in Slots : Ok(s)' = Ok(s) BY <1>2 DEF Ok
<1>10. Ok(wrptr') => flash[wrptr'].index = Minus(eventIndex', DF_MAXEVENTS) BY <1>3, <1>7, <1>8
<1>11. Ok(wrptr)' => Ok(wrptr') BY <1>2 DEF Ok
<1>12. \A s \in Slots : Ok(s)' /\ s # wrptr' => flash'[s].index = Minus(eventIndex', Age(wrptr', s))
  BY <1>2, <1>7, <1>9
<1> QED BY <1>2, <1>10, <1>11, <1>12 DEF Indexed

LEMMA CrashIndexed ==
  ASSUME Faultless, Crash, ~Corrupted'
  PROVE  Indexed'
<1>0. wrptr \in Slots /\ TypeInv /\ Queued /\ Ctx /\ Indexed BY Typed DEF Faultless, Ctx
<1>1. /\ wrptr' = wrptr /\ eventIndex' = savedIndex /\ savedIndex' = savedIndex /\ flash' = flash
      /\ logT'.pc = "poll"
      /\ faults' = faults \cup {"crash"} \cup (IF logT.pc = "index" THEN {"split"} ELSE {})
  BY <1>0, CrashEffect
<1>2. logT.pc # "index" BY <1>1 DEF Corrupted, NoneOf
<1>3. CASE savedIndex = eventIndex
  <2>1. \A s \in Slots : Ok(s)' => Ok(s) /\ flash'[s].index = flash[s].index BY <1>1 DEF Ok
  <2> QED BY <1>0, <1>1, <1>3, <2>1, IndexedFrame
<1>4. CASE Empty
  <2>1. Empty' BY <1>1, <1>4 DEF Empty, Ok
  <2>2. \A s \in Slots : s # wrptr' => ~Ok(s)' BY <2>1 DEF Empty
  <2> QED BY <1>1, <2>1, <2>2 DEF Indexed
<1> QED BY <1>0, <1>2, <1>3, <1>4 DEF Indexed

LEMMA IndexedStep ==
  ASSUME Faultless, ~Corrupted', Sound', [Next]_vars
  PROVE  Indexed'
<1>0. wrptr \in Slots /\ TypeInv /\ Ctx /\ Indexed BY Typed DEF Faultless, Ctx
<1> HIDE DEF Faultless, Corrupted
<1>1. SameRecords => \A s \in Slots : Ok(s)' => Ok(s) /\ flash'[s].index = flash[s].index
  BY DEF SameRecords, Ok
<1>2. (flash' = flash) => SameRecords BY DEF SameRecords
<1>3. ASSUME SameRecords, UNCHANGED <<wrptr, eventIndex, savedIndex>>,
             logT'.pc # "index" => logT.pc # "index",
             format'.pc = format.pc
      PROVE  Indexed'
  BY <1>0, <1>1, <1>3, IndexedFrame
<1>4. CASE logCidEvent BY <1>2, <1>3, <1>4 DEF logCidEvent, pointers, saved
<1>5. CASE StoreRecord BY <1>5, StoreIndexed
<1>6. CASE RewriteRecord \/ DeliverUnstored BY <1>0, <1>6, NoRewrite
<1>7. CASE AdvancePointers BY <1>7, AdvanceIndexed
<1>8. CASE SaveIndex
  <2>1. UNCHANGED <<flash, wrptr, eventIndex>> /\ savedIndex' = eventIndex
    BY <1>8 DEF SaveIndex, pointers
  <2> QED BY <1>0, <1>1, <1>2, <2>1, IndexedFrame
<1>9. CASE Deliver
  <2>1. UNCHANGED <<flash, wrptr, eventIndex, savedIndex, format>> /\ logT.pc = "deliver"
    BY <1>0, <1>9, DeliverEffect
  <2> QED BY <1>2, <1>3, <2>1
<1>10. CASE HoldEvent BY <1>0, <1>3, <1>10, HoldEffect
<1>11. CASE DeliverRest
  <2>1. UNCHANGED <<flash, wrptr, eventIndex, savedIndex, format>> /\ logT.pc = "fanout"
    BY <1>0, <1>11, RestEffect
  <2> QED BY <1>2, <1>3, <2>1
<1>12. ASSUME NEW m \in Monitors, ReadOutEvent(m) PROVE Indexed'
  BY <1>2, <1>3, <1>12 DEF ReadOutEvent, pointers, saved
<1>13. ASSUME NEW m \in Monitors, ReloadUnAckEvents25(m) PROVE Indexed'
  BY <1>2, <1>3, <1>13 DEF ReloadUnAckEvents25, pointers, saved
<1>14. CASE TagEvent BY <1>0, <1>3, <1>14, TagEffect
<1>15. CASE ReloadSlot BY <1>0, <1>3, <1>15, ReloadSlotEffect
<1>16. CASE FormatEventFlash
  <2>1. UNCHANGED <<flash, wrptr, eventIndex, savedIndex, logT>> /\ format.pc = "idle"
    BY <1>16 DEF FormatEventFlash, pointers, saved
  <2> QED BY <1>0, <1>1, <1>2, <2>1, IndexedFrame
<1>17. CASE EraseSlots
  <2>1. PICK k \in (format.done + 1)..(DF_MAXEVENTS - 1) : EraseTo(k) BY <1>17 DEF EraseSlots
  <2>0. format.done \in Nat BY <1>0, Typed DEF FormatType
  <2>2. k \in Nat BY <2>0, <2>1, ConstantTypes
  <2>3. \A s \in Slots : flash'[s] = flash[s] \/ flash'[s].st = "erased"
    BY <1>0, <2>1, <2>2, EraseEffect
  <2>4. \A s \in Slots : Ok(s)' => Ok(s) /\ flash'[s].index = flash[s].index BY <2>3 DEF Ok
  <2>5. UNCHANGED <<wrptr, eventIndex, savedIndex, logT>> /\ format.pc = "erase"
    BY <1>17 DEF EraseSlots, pointers, saved
  <2> QED BY <1>0, <2>4, <2>5, IndexedFrame
<1>18. CASE EraseRest
  <2>1. (\A s \in Slots : ~Ok(s)') /\ format'.pc = "save" /\ wrptr' = 0
    BY <1>0, <1>18, EraseRestEffect DEF Ok
  <2>2. 0 \in Slots BY ConstantTypes DEF Slots
  <2> QED BY <2>1, <2>2 DEF Indexed, Empty, Ok
<1>19. CASE FormatSaveIndex
  <2>1. UNCHANGED <<flash, wrptr, eventIndex>> /\ savedIndex' = eventIndex
    BY <1>19 DEF FormatSaveIndex, pointers
  <2> QED BY <1>0, <1>1, <1>2, <2>1, IndexedFrame
<1>20. CASE Crash BY <1>20, CrashIndexed
<1>21. CASE UNCHANGED vars BY <1>2, <1>3, <1>21 DEF vars, pointers, saved
<1> QED
  BY <1>4, <1>5, <1>6, <1>7, <1>8, <1>9, <1>10, <1>11, <1>12, <1>13, <1>14, <1>15, <1>16,
     <1>17, <1>18, <1>19, <1>20, <1>21
  DEF Next, LogTStep, FormatStep

\* LogT_Task cannot come to the record that RabbitTask is about to mark.
LEMMA TagAway ==
  ASSUME Ctx, rabbit.pc = "tag", rabbit.pace + 1 <= Pace
  PROVE  rabbit.slot # wrptr
<1>0. TypeInv /\ HeldFit /\ wrptr \in Slots /\ rabbit.slot \in Slots /\ rabbit.pace \in Nat
  BY Typed DEF Ctx
<1>1. Age(wrptr, rabbit.slot) + Unmoved <=
        Window + Pace + TXEVENTBUFFERLEN + rabbit.pace + HeldUpTo(rabbit.mon, Taken)
  BY DEF Ctx, Tagging
<1>2. HeldUpTo(rabbit.mon, Taken) \in Nat /\ Unmoved \in Nat BY HeldFacts, UnFacts
<1>3. Window + Pace + TXEVENTBUFFERLEN + Pace + HeldUpTo(rabbit.mon, Taken) <= DF_MAXEVENTS
  BY <1>0, FitFacts
<1>4. Age(wrptr, rabbit.slot) \in Nat /\ Age(wrptr, wrptr) = DF_MAXEVENTS BY <1>0, AgeFacts
<1>5. Age(wrptr, rabbit.slot) < DF_MAXEVENTS
  BY <1>0, <1>1, <1>2, <1>3, <1>4, ConstantTypes
<1> QED BY <1>4, <1>5, ConstantTypes

\* RabbitTask's record stays as it is, and LogT_Task's.
LEMMA MarkedFrame ==
  ASSUME Marked, UNCHANGED <<flash, acked>>,
         rabbit'.pc = "tag" => /\ rabbit.pc = "tag" /\ rabbit'.slot = rabbit.slot
                               /\ rabbit'.mon = rabbit.mon /\ rabbit'.rec = rabbit.rec,
         logT'.pc # "poll" => logT.pc # "poll" /\ logT'.slot = logT.slot
  PROVE  Marked'
  BY DEF Marked

LEMMA StoreMarked ==
  ASSUME Faultless, Sound', StoreRecord
  PROVE  Marked'
<1>0. wrptr \in Slots /\ TypeInv /\ Ctx /\ Marked /\ rabbit.slot \in Slots
  BY Typed DEF Faultless, Ctx
<1>1. /\ \A s \in Slots : s # wrptr => flash'[s] = flash[s]
      /\ flash'[wrptr].ack = {} /\ acked' = acked /\ logT'.slot = wrptr
  BY <1>0, StoreEffect
<1>2. /\ rabbit'.pc = rabbit.pc /\ rabbit'.slot = rabbit.slot /\ rabbit'.mon = rabbit.mon
      /\ rabbit'.rec = rabbit.rec
  BY <1>0, StoreEffect
<1>3. rabbit.pc = "tag" => rabbit.slot # wrptr BY <1>0, TagAway, StoreEffect
<1>4. \A s \in Slots, m \in Monitors :
        m \in flash'[s].ack => flash'[s].ev \in acked'[m] \/ IsHeld(m, flash'[s].ev)
  BY <1>0, <1>1 DEF Marked
<1>5. rabbit'.pc = "tag" =>
        /\ rabbit'.rec.ev \in acked'[rabbit'.mon] /\ flash'[rabbit'.slot] = rabbit'.rec
        /\ rabbit'.slot # logT'.slot
  BY <1>0, <1>1, <1>2, <1>3 DEF Marked
<1> QED BY <1>4, <1>5 DEF Marked

LEMMA HoldMarked ==
  ASSUME Faultless, HoldEvent
  PROVE  Marked'
<1>0. TypeInv /\ Ctx /\ Marked /\ rabbit.slot \in Slots /\ logT.slot \in Slots
  BY Typed DEF Faultless, Ctx
<1>1. /\ \A s \in Slots : s # logT.slot => flash'[s] = flash[s]
      /\ flash'[logT.slot].ack \in {flash[logT.slot].ack, flash[logT.slot].ack \cup {MacroMon}}
      /\ flash[logT.slot].ev \in Held /\ flash'[logT.slot].ev = flash[logT.slot].ev
      /\ UNCHANGED <<acked, rabbit>> /\ logT'.slot = logT.slot /\ logT.pc # "poll"
  BY <1>0, HoldEffect DEF SameRecords
<1>2. \A s \in Slots, m \in Monitors :
        m \in flash'[s].ack => flash'[s].ev \in acked'[m] \/ IsHeld(m, flash'[s].ev)
  <2> SUFFICES ASSUME NEW s \in Slots, NEW m \in Monitors, m \in flash'[s].ack
               PROVE  flash'[s].ev \in acked[m] \/ IsHeld(m, flash'[s].ev)
    BY <1>1
  <2>1. CASE m \in flash[s].ack
    <3>1. flash'[s].ev = flash[s].ev BY <1>1
    <3> QED BY <1>0, <2>1, <3>1 DEF Marked
  <2>2. CASE m \notin flash[s].ack
    <3>1. s = logT.slot /\ m = MacroMon BY <1>1, <2>2
    <3> QED BY <1>1, <3>1 DEF IsHeld
  <2> QED BY <2>1, <2>2
<1>3. rabbit'.pc = "tag" =>
        /\ rabbit'.rec.ev \in acked'[rabbit'.mon] /\ flash'[rabbit'.slot] = rabbit'.rec
        /\ rabbit'.slot # logT'.slot
  BY <1>0, <1>1 DEF Marked
<1> QED BY <1>2, <1>3 DEF Marked

\* The record of the entry at the head, and no other, is found by its index.
LEMMA FoundIsEntry ==
  ASSUME Faultless, NEW m \in Monitors, Len(tx[m]) >= 1, format.pc # "erase",
         NEW s \in find_event_by_index(tx[m][1].index)
  PROVE  /\ s \in Slots /\ flash[s].st = "ok" /\ flash[s].ev = tx[m][1].ev
         /\ flash[s].ev <= Taken
         /\ InHand => s # logT.slot
<1>0. TypeInv /\ Ctx /\ Indexed /\ 1 \in 1..Len(tx[m]) /\ Taken \in Int
  BY Typed, EntryType DEF Faultless, Ctx
<1>1. s \in Slots /\ flash[s].st = "ok" /\ flash[s].index = tx[m][1].index /\ tx[m][1].index # IndexTop
  BY <1>0, FoundOfEntry
<1>2. PICK t \in Slots : IsOf(flash[t], tx[m][1]) BY <1>0, <1>1 DEF Ctx, Entries
<1>3. s = t BY <1>0, <1>1, <1>2, OneIndex DEF IsOf, Ok
<1>4. flash[s].ev = tx[m][1].ev /\ flash[s].ev <= Taken BY <1>0, <1>2, <1>3 DEF Ctx, Entries, IsOf
<1>5. InHand => s # logT.slot
  <2>1. InHand => flash[logT.slot].ev = logT.ev /\ logT.ev = Taken + 1
    BY <1>0 DEF Ctx, Hand, Queued, InHand
  <2> QED BY <1>0, <1>4, <2>1
<1> QED BY <1>1, <1>4, <1>5

LEMMA ReadOutMarked ==
  ASSUME Faultless, NEW m \in Monitors, ReadOutEvent(m)
  PROVE  Marked'
<1>0. TypeInv /\ Ctx /\ Marked /\ logT \in LogTType BY Typed DEF Faultless, Ctx
<1>1. /\ UNCHANGED <<flash, logT>> /\ rabbit.pc = "idle"
      /\ Len(tx[m]) >= 1 /\ format.pc # "erase"
      /\ logT.pc \in {"hold", "fanout"} => logT.slot \notin find_event_by_index(tx[m][1].index)
      /\ acked'[m] = acked[m] \cup {tx[m][1].ev}
      /\ \A n \in Monitors : n # m => acked'[n] = acked[n]
  BY <1>0, ReadOutEffect
<1>2. \A s \in Slots, n \in Monitors :
        n \in flash[s].ack => flash[s].ev \in acked'[n] \/ IsHeld(n, flash[s].ev)
  BY <1>0, <1>1 DEF Marked
<1>3. CASE rabbit' = rabbit BY <1>1, <1>2, <1>3 DEF Marked
<1>4. ASSUME NEW s \in find_event_by_index(tx[m][1].index),
             rabbit' = [pc |-> "tag", mon |-> m, slot |-> s, left |-> 0, pace |-> 0,
                        rec |-> flash[s]]
      PROVE  Marked'
  <2>1. flash[s].ev = tx[m][1].ev /\ (InHand => s # logT.slot) BY <1>1, FoundIsEntry
  <2>2. logT.pc # "poll" => s # logT.slot BY <1>0, <1>1, <2>1 DEF LogTType, InHand
  <2> QED BY <1>1, <1>2, <1>4, <2>1, <2>2 DEF Marked
<1> QED BY <1>0, <1>3, <1>4, ReadOutEffect

LEMMA TagMarked ==
  ASSUME Faultless, Sound', TagEvent
  PROVE  Marked'
<1>0. TypeInv /\ Ctx /\ Marked BY DEF Faultless, Ctx
<1>1. /\ \A s \in Slots : s # rabbit.slot => flash'[s] = flash[s]
      /\ flash'[rabbit.slot].ack = rabbit.rec.ack \cup {rabbit.mon}
      /\ SameRecords /\ acked' = acked /\ rabbit'.pc = "idle"
      /\ flash[rabbit.slot] = rabbit.rec /\ rabbit.rec.ev \in acked[rabbit.mon]
  BY <1>0, TagEffect DEF Marked
<1>2. ASSUME NEW s \in Slots, NEW m \in Monitors, m \in flash'[s].ack
      PROVE  flash'[s].ev \in acked[m] \/ IsHeld(m, flash'[s].ev)
  <2>0. flash'[s].ev = flash[s].ev BY <1>1 DEF SameRecords
  <2>1. CASE m \in flash[s].ack BY <1>0, <2>0, <2>1 DEF Marked
  <2>2. CASE m \notin flash[s].ack
    <3>1. s = rabbit.slot /\ m = rabbit.mon BY <1>1, <1>2, <2>2
    <3> QED BY <1>1, <2>0, <3>1
  <2> QED BY <2>1, <2>2
<1> QED BY <1>1, <1>2 DEF Marked

\* A held record that a reload comes to is marked itself, and no other.
LEMMA ReloadFoundItself ==
  ASSUME Faultless, ReloadSlot, Reloadable(rabbit.mon, flash[rabbit.slot]),
         NEW s \in find_event_by_index(flash[rabbit.slot].index)
  PROVE  s = rabbit.slot
<1>0. TypeInv /\ Ctx /\ Indexed /\ wrptr \in Slots /\ rabbit.slot \in Slots
  BY Typed DEF Faultless, Ctx
<1>1. s \in Slots /\ flash[s].index = flash[rabbit.slot].index /\ flash[s].st # "erased"
  BY <1>0, FoundFacts
<1>2. flash[s].st = "ok" BY <1>0, <1>1, Typed DEF Record, Ctx, Records
<1>3. flash[rabbit.slot].st = "ok" BY DEF Reloadable
<1> QED BY <1>0, <1>1, <1>2, <1>3, OneIndex DEF Ok

LEMMA ReloadMarked ==
  ASSUME Faultless, ReloadSlot
  PROVE  Marked'
<1>0. TypeInv /\ Ctx /\ Marked BY DEF Faultless, Ctx
<1>1. rabbit'.pc # "tag" /\ UNCHANGED <<logT, acked>>
  BY <1>0, ReloadSlotEffect
<1>2. CASE flash' = flash BY <1>0, <1>1, <1>2, MarkedFrame
<1>3. CASE /\ Reloadable(rabbit.mon, flash[rabbit.slot])
           /\ IsHeld(rabbit.mon, flash[rabbit.slot].ev)
           /\ flash' = TagFor(rabbit.mon, flash[rabbit.slot].index)
  <2>1. /\ SameRecords
        /\ \A s \in Slots : flash'[s].ack = IF s \in find_event_by_index(flash[rabbit.slot].index)
                                            THEN flash[s].ack \cup {rabbit.mon} ELSE flash[s].ack
    BY <1>0, <1>3, TagForSame
  <2>2. ASSUME NEW s \in Slots, NEW m \in Monitors, m \in flash'[s].ack
        PROVE  flash'[s].ev \in acked[m] \/ IsHeld(m, flash'[s].ev)
    <3>0. flash'[s].ev = flash[s].ev BY <2>1 DEF SameRecords
    <3>1. CASE m \in flash[s].ack BY <1>0, <3>0, <3>1 DEF Marked
    <3>2. CASE m \notin flash[s].ack
      <4>1. s \in find_event_by_index(flash[rabbit.slot].index) /\ m = rabbit.mon
        BY <2>1, <2>2, <3>2
      <4>2. s = rabbit.slot BY <1>3, <4>1, ReloadFoundItself
      <4> QED BY <1>3, <3>0, <4>1, <4>2
    <3> QED BY <3>1, <3>2
  <2> QED BY <1>1, <2>2 DEF Marked
<1> QED BY <1>0, <1>2, <1>3, ReloadSlotEffect

LEMMA MarkedStep ==
  ASSUME Faultless, Sound', [Next]_vars
  PROVE  Marked'
<1>0. TypeInv /\ Ctx /\ Marked BY DEF Faultless, Ctx
<1> HIDE DEF Faultless
<1>1. CASE logCidEvent BY <1>0, <1>1, MarkedFrame DEF logCidEvent
<1>2. CASE StoreRecord BY <1>2, StoreMarked
<1>3. CASE RewriteRecord \/ DeliverUnstored BY <1>0, <1>3, NoRewrite
<1>4. CASE AdvancePointers
  <2>1. UNCHANGED <<flash, acked, rabbit>> /\ logT.pc # "poll" /\ logT'.slot = logT.slot
    BY <1>0, <1>4, AdvanceEffect
  <2> QED BY <1>0, <2>1, MarkedFrame
<1>5. CASE SaveIndex
  <2>1. UNCHANGED <<flash, acked, rabbit>> /\ logT.pc # "poll" /\ logT'.slot = logT.slot
    BY <1>0, <1>5, Typed DEF SaveIndex, LogTType, history
  <2> QED BY <1>0, <2>1, MarkedFrame
<1>6. CASE Deliver
  <2>1. UNCHANGED <<flash, acked, rabbit>> /\ logT.pc # "poll"
        /\ (logT'.pc # "poll" => logT'.slot = logT.slot)
    BY <1>0, <1>6, DeliverEffect
  <2> QED BY <1>0, <2>1, MarkedFrame
<1>7. CASE HoldEvent BY <1>7, HoldMarked
<1>8. CASE DeliverRest
  <2>1. UNCHANGED <<flash, acked, rabbit>> /\ logT'.pc = "poll" BY <1>0, <1>8, RestEffect
  <2> QED BY <1>0, <2>1, MarkedFrame
<1>9. ASSUME NEW m \in Monitors, ReadOutEvent(m) PROVE Marked' BY <1>9, ReadOutMarked
<1>10. ASSUME NEW m \in Monitors, ReloadUnAckEvents25(m) PROVE Marked'
  <2>1. UNCHANGED <<flash, acked, logT>> /\ rabbit'.pc = "reload"
    BY <1>10 DEF ReloadUnAckEvents25, history
  <2> QED BY <1>0, <2>1, MarkedFrame
<1>11. CASE TagEvent BY <1>11, TagMarked
<1>12. CASE ReloadSlot BY <1>12, ReloadMarked
<1>13. CASE FormatEventFlash BY <1>0, <1>13, MarkedFrame DEF FormatEventFlash, history
<1>14. CASE EraseSlots \/ EraseRest
  <2>1. /\ \A s \in Slots : flash'[s] = flash[s] \/ flash'[s].ack = {}
        /\ acked' = acked /\ rabbit'.pc # "tag"
    <3>1. CASE EraseSlots
      <4>1. PICK k \in (format.done + 1)..(DF_MAXEVENTS - 1) : EraseTo(k) BY <3>1 DEF EraseSlots
      <4>2. k \in Nat BY <1>0, <4>1, Typed, ConstantTypes DEF FormatType
      <4>3. \A s \in Slots : flash'[s] = flash[s] \/ flash'[s].ack = {}
        BY <1>0, <4>1, <4>2, EraseEffect
      <4>4. rabbit' = rabbit /\ acked' = acked /\ format.pc = "erase"
        BY <3>1 DEF EraseSlots, history
      <4> QED BY <1>0, <4>3, <4>4 DEF Ctx, Queued
    <3>2. CASE EraseRest BY <1>0, <3>2, EraseRestEffect
    <3> QED BY <1>14, <3>1, <3>2
  <2>2. \A s \in Slots, m \in Monitors :
          m \in flash'[s].ack => flash'[s].ev \in acked'[m] \/ IsHeld(m, flash'[s].ev)
    BY <1>0, <2>1 DEF Marked
  <2> QED BY <2>1, <2>2 DEF Marked
<1>15. CASE FormatSaveIndex BY <1>0, <1>15, MarkedFrame DEF FormatSaveIndex, history
<1>16. CASE Crash
  <2>1. UNCHANGED <<flash, acked>> /\ logT'.pc = "poll" /\ rabbit'.pc = "idle"
    BY <1>0, <1>16, CrashEffect DEF Ctx
  <2> QED BY <1>0, <2>1, MarkedFrame
<1>17. CASE UNCHANGED vars BY <1>0, <1>17, MarkedFrame DEF vars, history
<1> QED
  BY <1>1, <1>2, <1>3, <1>4, <1>5, <1>6, <1>7, <1>8, <1>9, <1>10, <1>11, <1>12, <1>13, <1>14,
     <1>15, <1>16, <1>17
  DEF Next, LogTStep, FormatStep

LEMMA IndexStep ==
  ASSUME HeldFit, TypeInv, Queued, SoundInv, IndexInv, [Next]_vars
  PROVE  IndexInv'
<1> SUFFICES ASSUME ~Corrupted' PROVE (Indexed /\ Marked)' BY DEF IndexInv
<1>1. ~Corrupted /\ Sound /\ Sound' BY NotCorrupted
<1>2. Faultless BY <1>1 DEF IndexInv, SoundInv, Ctx, Faultless
<1> QED BY <1>1, <1>2, IndexedStep, MarkedStep

LEMMA InitIndex == Init => IndexInv
<1> SUFFICES ASSUME Init PROVE Indexed /\ Marked BY DEF IndexInv
<1>1. \A s \in Slots : flash[s].st = "erased" /\ flash[s].ack = {} BY DEF Init, Blank
<1>2. logT.pc = "poll" /\ rabbit.pc = "idle" /\ wrptr = 0 /\ savedIndex = eventIndex
  BY DEF Init, Polling, Idle
<1>3. 0 \in Slots BY ConstantTypes DEF Slots
<1> QED BY <1>1, <1>2, <1>3 DEF Indexed, Marked, Ok

-----------------------------------------------------------------------------
(* The marks stay.                                                         *)

LEMMA KeepsTagsStep ==
  ASSUME Inv, TypeInv, HeldFit, [Next]_vars
  PROVE  KeepsTags
<1> SUFFICES ASSUME ~Corrupted', NEW s \in Slots, flash[s].st = "ok", flash'[s].ev = flash[s].ev
             PROVE  flash[s].ack \subseteq flash'[s].ack
  BY DEF KeepsTags
<1>1. ~Corrupted /\ Sound /\ Sound' BY NotCorrupted
<1>2. Faultless /\ Ctx BY <1>1 DEF Inv, IndexInv, SoundInv, Ctx, Faultless
<1>3. flash[s].ev >= 1 /\ flash[s].ev \in Nat /\ flash[s].ev # 0
  BY <1>2, Typed DEF Ctx, Records, Ok, Record
<1> HIDE DEF Ctx, Faultless, Corrupted
<1>4. CASE flash' = flash BY <1>4
<1>5. CASE StoreRecord
  <2>1. logT.pc = "poll" BY <1>5 DEF StoreRecord
  <2>2. flash[s].ev <= Taken BY <1>2, <2>1 DEF Ctx, Records, InHand, Ok
  <2>3. flash'[wrptr].ev = Taken + 1 /\ \A t \in Slots : t # wrptr => flash'[t] = flash[t]
    BY <1>1, <1>2, <1>5, StoreEffect
  <2> QED BY <1>3, <2>2, <2>3, Typed
<1>6. CASE RewriteRecord BY <1>2, <1>6, NoRewrite
<1>7. CASE HoldEvent
  BY <1>7, TagForSame DEF HoldEvent
<1>8. CASE TagEvent
  <2>1. /\ \A t \in Slots : t # rabbit.slot => flash'[t] = flash[t]
        /\ flash'[rabbit.slot].ack = rabbit.rec.ack \cup {rabbit.mon}
    BY <1>1, <1>2, <1>8, TagEffect
  <2>2. flash[rabbit.slot] = rabbit.rec
    BY <1>2, <1>8 DEF Faultless, Marked, TagEvent
  <2> QED BY <2>1, <2>2
<1>9. CASE ReloadSlot
  <2>1. flash' = flash \/ flash' = TagFor(rabbit.mon, flash[rabbit.slot].index)
    BY <1>9 DEF ReloadSlot
  <2> QED BY <2>1, TagForSame
<1>10. CASE EraseSlots
  <2>1. PICK k \in (format.done + 1)..(DF_MAXEVENTS - 1) : EraseTo(k) BY <1>10 DEF EraseSlots
  <2>0. format.done \in Nat BY Typed DEF FormatType
  <2>2. k \in Nat BY <2>0, <2>1, ConstantTypes
  <2>3. flash'[s] = flash[s] \/ flash'[s].ev = 0 BY <2>1, <2>2, EraseEffect
  <2> QED BY <1>3, <2>3
<1>11. CASE EraseRest
  <2>1. flash'[s] = flash[s] \/ flash'[s].ev = 0 BY <1>1, <1>2, <1>11, EraseRestEffect
  <2> QED BY <1>3, <2>1
<1>12. CASE logCidEvent \/ FormatEventFlash \/ FormatSaveIndex \/ Crash \/ UNCHANGED vars
  BY <1>12 DEF logCidEvent, FormatEventFlash, FormatSaveIndex, Crash, vars
<1>13. CASE AdvancePointers \/ SaveIndex \/ Deliver \/ DeliverUnstored \/ DeliverRest
  BY <1>13 DEF AdvancePointers, SaveIndex, Deliver, DeliverUnstored, DeliverRest
<1>14. CASE \E m \in Monitors : ReadOutEvent(m) \/ ReloadUnAckEvents25(m)
  BY <1>14 DEF ReadOutEvent, ReloadUnAckEvents25
<1> QED
  BY <1>4, <1>5, <1>6, <1>7, <1>8, <1>9, <1>10, <1>11, <1>12, <1>13, <1>14
  DEF Next, LogTStep, FormatStep

-----------------------------------------------------------------------------
(* Without any fault.                                                      *)

Clean == Faultless /\ Dense /\ AllMarked /\ Past /\ Once /\ NotYet

LEMMA NoFault ==
  ASSUME TypeInv, [Next]_vars, NoneOf(FaultKinds)'
  PROVE  NoneOf(FaultKinds) /\ ~Corrupted /\ ~Corrupted' /\ Sound /\ Sound' /\ ~Crash
<1>1. NoneOf(FaultKinds) BY SoundGrows
<1>2. ~Crash BY DEF Crash, NoneOf, FaultKinds, Inputs
<1> QED BY <1>1, <1>2 DEF Corrupted, Sound, NoneOf, FaultKinds, Inputs

\* A ring that is not full grows at its end.
LEMMA PutAtEnd ==
  ASSUME NEW t \in Seq(TxEntry), NEW i, NEW e, Len(t) < TXEVENTBUFFERLEN
  PROVE  /\ Len(TxPut(t, i, e)) = Len(t) + 1
         /\ \A k \in 1..Len(TxPut(t, i, e)) :
              IF k = Len(t) + 1 THEN TxPut(t, i, e)[k] = [index |-> i, ev |-> e]
                                ELSE k \in 1..Len(t) /\ TxPut(t, i, e)[k] = t[k]
<1>0. Len(t) \in Nat /\ TXEVENTBUFFERLEN \in Nat BY ConstantTypes
<1>1. Len(TxPut(t, i, e)) = Len(t) + 1 BY <1>0 DEF TxPut
<1>2. ASSUME NEW k \in 1..(Len(t) + 1)
      PROVE  IF k = Len(t) + 1 THEN TxPut(t, i, e)[k] = [index |-> i, ev |-> e]
                               ELSE k \in 1..Len(t) /\ TxPut(t, i, e)[k] = t[k]
  <2>1. Len(t) + 1 - k \in Nat /\ Len(t) + 1 - k < TXEVENTBUFFERLEN BY <1>0
  <2>2. Lap(Len(t) + 1 - k) = Len(t) + 1 - k BY <2>1, LapFacts
  <2>3. CASE k = Len(t) + 1
    <3>1. Lap(Len(t) + 1 - k) = 0 BY <1>0, <2>2, <2>3
    <3> QED BY <1>2, <2>3, <3>1 DEF TxPut, Lap
  <2>4. CASE k # Len(t) + 1
    <3>1. Lap(Len(t) + 1 - k) # 0 BY <1>0, <2>2, <2>4
    <3>2. TxPut(t, i, e)[k] = t[k] BY <1>2, <3>1 DEF TxPut, Lap
    <3> QED BY <1>0, <2>4, <3>2
  <2> QED BY <2>3, <2>4
<1> QED BY <1>1, <1>2

LEMMA TxAfterEnd ==
  ASSUME TypeInv, NEW S, NEW i, NEW e, tx' = TxAfter(S, i, e), ~Overruns(S, e),
         NEW m \in Monitors, NEW k \in 1..Len(tx'[m])
  PROVE  \/ k \in 1..Len(tx[m]) /\ tx'[m][k] = tx[m][k]
         \/ /\ m \in S /\ ~IsHeld(m, e) /\ tx'[m][k] = [index |-> i, ev |-> e]
            /\ k = Len(tx[m]) + 1 /\ Len(tx'[m]) = Len(tx[m]) + 1
<1>1. tx[m] \in Seq(TxEntry) /\ Len(tx[m]) \in Nat BY EntryType
<1>2. CASE m \in S /\ ~IsHeld(m, e)
  <2>1. tx'[m] = TxPut(tx[m], i, e) BY <1>2 DEF TxAfter
  <2>2. Len(tx[m]) < TXEVENTBUFFERLEN BY <1>1, <1>2, ConstantTypes DEF Overruns
  <2> QED BY <1>1, <1>2, <2>1, <2>2, PutAtEnd
<1>3. CASE ~(m \in S /\ ~IsHeld(m, e))
  <2>1. tx'[m] = tx[m] BY <1>3 DEF TxAfter
  <2> QED BY <2>1
<1> QED BY <1>2, <1>3

-----------------------------------------------------------------------------
(* No hole in the log.                                                     *)

LEMMA DenseFrame ==
  ASSUME Dense, SameRecords, wrptr' = wrptr, Writing => Writing',
         format'.pc # "erase" => format.pc # "erase"
  PROVE  Dense'
  BY DEF Dense, SameRecords, Ok

LEMMA StoreDense ==
  ASSUME Clean, Sound', StoreRecord
  PROVE  Dense'
<1>0. wrptr \in Slots /\ Ctx /\ Dense BY Typed DEF Clean, Faultless, Ctx
<1>1. /\ wrptr' = wrptr /\ logT'.pc = "verify" /\ format.pc # "erase" /\ format' = format
      /\ \A s \in Slots : s # wrptr => flash'[s] = flash[s]
  BY <1>0, StoreEffect
<1>2. /\ \A s \in Slots : Age(wrptr, s) \in Nat /\ Age(wrptr, s) <= DF_MAXEVENTS
      /\ Age(wrptr, wrptr) = DF_MAXEVENTS
  BY <1>0, AgeFacts
<1>3. ASSUME NEW s \in Slots, NEW t \in Slots, Age(wrptr, s) < Age(wrptr, t), t # wrptr, Ok(t)'
      PROVE  Ok(s)'
  <2>1. s # wrptr BY <1>2, <1>3, ConstantTypes
  <2> QED BY <1>0, <1>1, <1>3, <2>1 DEF Dense, Ok
<1> QED BY <1>1, <1>3 DEF Dense, Writing

LEMMA AdvanceDense ==
  ASSUME Clean, AdvancePointers
  PROVE  Dense'
<1>0. wrptr \in Slots /\ Ctx /\ Dense BY Typed DEF Clean, Faultless, Ctx
<1>1. /\ wrptr' = SlotInc(wrptr) /\ flash' = flash /\ format.pc # "erase"
      /\ flash[wrptr].st = "ok"
  BY <1>0, AdvanceEffect DEF Written
<1>2. \A s \in Slots : Age(wrptr, s) \in Nat /\ 1 <= Age(wrptr, s) BY <1>0, AgeFacts
<1>3. \A s \in Slots : Age(wrptr', s) = IF s = wrptr THEN 1 ELSE Age(wrptr, s) + 1
  BY <1>0, <1>1, AgeAdvances
<1>4. ASSUME NEW s \in Slots, NEW t \in Slots, Age(wrptr', s) < Age(wrptr', t), Ok(t)
      PROVE  Ok(s)
  <2>1. t # wrptr BY <1>2, <1>3, <1>4
  <2>2. CASE s = wrptr BY <1>1, <2>2 DEF Ok
  <2>3. CASE s # wrptr
    <3>1. Age(wrptr, s) < Age(wrptr, t) BY <1>2, <1>3, <1>4, <2>1, <2>3
    <3> QED BY <1>0, <1>1, <1>4, <2>1, <3>1 DEF Dense
  <2> QED BY <2>2, <2>3
<1> QED BY <1>1, <1>4 DEF Dense, Ok

LEMMA DenseStep ==
  ASSUME Clean, NoneOf(FaultKinds)', [Next]_vars
  PROVE  Dense'
<1>0. TypeInv /\ Ctx /\ Dense /\ Sound' /\ ~Crash BY NoFault DEF Clean, Faultless, Ctx
<1> HIDE DEF Clean
<1>1. (flash' = flash) => SameRecords BY DEF SameRecords
<1>2. (logT' = logT) => (Writing => Writing') BY DEF Writing
<1>3. CASE StoreRecord BY <1>0, <1>3, StoreDense
<1>4. CASE AdvancePointers BY <1>4, AdvanceDense
<1>5. CASE RewriteRecord \/ DeliverUnstored BY <1>0, <1>5, NoRewrite
<1>6. CASE logCidEvent BY <1>0, <1>1, <1>2, <1>6, DenseFrame DEF logCidEvent, pointers
<1>7. CASE SaveIndex
  BY <1>0, <1>1, <1>7, DenseFrame DEF SaveIndex, pointers, Writing
<1>8. CASE Deliver BY <1>0, <1>1, <1>8, DenseFrame DEF Deliver, pointers, Writing
<1>9. CASE DeliverRest BY <1>0, <1>1, <1>9, DenseFrame DEF DeliverRest, pointers, Writing
<1>10. CASE HoldEvent
  <2>1. SameRecords /\ wrptr' = wrptr /\ format' = format /\ ~Writing
    BY <1>0, <1>10, HoldEffect DEF Writing
  <2> QED BY <1>0, <2>1, DenseFrame
<1>11. ASSUME NEW m \in Monitors, ReadOutEvent(m) \/ ReloadUnAckEvents25(m) PROVE Dense'
  BY <1>0, <1>1, <1>2, <1>11, DenseFrame DEF ReadOutEvent, ReloadUnAckEvents25, pointers
<1>12. CASE TagEvent BY <1>0, <1>2, <1>12, TagEffect, DenseFrame
<1>13. CASE ReloadSlot BY <1>0, <1>2, <1>13, ReloadSlotEffect, DenseFrame
<1>14. CASE FormatEventFlash BY <1>14 DEF FormatEventFlash, Dense
<1>15. CASE EraseSlots
  <2>1. format'.pc = "erase" BY <1>0, <1>15, Typed DEF EraseSlots, FormatType
  <2> QED BY <2>1 DEF Dense
<1>16. CASE EraseRest BY <1>0, <1>16, EraseRestEffect DEF Dense, Ok
<1>17. CASE FormatSaveIndex BY <1>0, <1>1, <1>2, <1>17, DenseFrame DEF FormatSaveIndex, pointers
<1>18. CASE UNCHANGED vars BY <1>0, <1>1, <1>2, <1>18, DenseFrame DEF vars, pointers
<1> QED
  BY <1>0, <1>3, <1>4, <1>5, <1>6, <1>7, <1>8, <1>9, <1>10, <1>11, <1>12, <1>13, <1>14,
     <1>15, <1>16, <1>17, <1>18
  DEF Next, LogTStep, FormatStep

-----------------------------------------------------------------------------
(* Every acknowledged event is marked.                                     *)

LEMMA AllMarkedFrame ==
  ASSUME AllMarked, acked' = acked,
         \A s \in Slots : Ok(s)' => /\ Ok(s) /\ flash'[s].ev = flash[s].ev
                                    /\ flash[s].ack \subseteq flash'[s].ack,
         rabbit.pc = "tag" => /\ rabbit'.pc = "tag" /\ rabbit'.mon = rabbit.mon
                              /\ rabbit'.slot = rabbit.slot
  PROVE  AllMarked'
<1> SUFFICES ASSUME NEW s \in Slots, NEW m \in Monitors,
                    Ok(s)', flash'[s].ev \in acked[m], flash'[s].ev \notin Held
             PROVE  m \in flash'[s].ack
                      \/ (rabbit'.pc = "tag" /\ rabbit'.mon = m /\ rabbit'.slot = s)
  BY DEF AllMarked
<1> QED BY DEF AllMarked

\* The record of the entry at the head is found.
LEMMA HeadFound ==
  ASSUME Clean, NEW m \in Monitors, Len(tx[m]) >= 1, format.pc # "erase",
         NEW s \in Slots, Ok(s), flash[s].ev = tx[m][1].ev
  PROVE  find_event_by_index(tx[m][1].index) = {s}
<1>0. TypeInv /\ Ctx /\ Indexed /\ wrptr \in Slots /\ 1 \in 1..Len(tx[m]) /\ Taken \in Int
  BY Typed, EntryType DEF Clean, Faultless, Ctx
<1>1. tx[m][1].index # IndexTop BY <1>0 DEF Clean, Past
<1>2. PICK t \in Slots : IsOf(flash[t], tx[m][1]) BY <1>0, <1>1 DEF Ctx, Entries
<1>3. s = t BY <1>0, <1>2 DEF Ctx, Records, IsOf, Ok
<1>4. flash[s].index = tx[m][1].index /\ flash[s].ev <= Taken
  BY <1>0, <1>2, <1>3 DEF IsOf, Ctx, Entries
<1>5. ~(Writing /\ s = wrptr)
  <2>1. Writing => flash[wrptr].ev = Taken + 1
    BY <1>0 DEF Ctx, Hand, Queued, InHand, Writing, Written
  <2> QED BY <1>0, <1>4, <2>1
<1>6. ASSUME NEW u \in Slots, Age(wrptr, u) <= Age(wrptr, s) PROVE flash[u].st # "erased"
  <2>1. CASE u = s BY <2>1 DEF Ok
  <2>2. CASE u # s
    <3>1. Age(wrptr, u) \in Nat /\ Age(wrptr, s) \in Nat /\ Age(wrptr, u) # Age(wrptr, s)
      BY <1>0, <2>2, AgeFacts
    <3>2. Age(wrptr, u) < Age(wrptr, s) BY <1>6, <3>1
    <3>3. Ok(u) BY <1>5, <3>2 DEF Clean, Dense
    <3> QED BY <3>3 DEF Ok
  <2> QED BY <2>1, <2>2
<1>7. ASSUME NEW u \in Slots, flash[u].st # "erased", flash[u].index = flash[s].index PROVE u = s
  <2>1. flash[u].st = "ok" BY <1>0, <1>7, Typed DEF Record, Ctx, Records
  <2> QED BY <1>0, <1>7, <2>1, OneIndex DEF Ok
<1> QED BY <1>0, <1>4, <1>6, <1>7, FoundAlone

LEMMA ReadOutAllMarked ==
  ASSUME Clean, NEW m \in Monitors, ReadOutEvent(m)
  PROVE  AllMarked'
<1>0. TypeInv /\ Ctx /\ AllMarked BY DEF Clean, Faultless, Ctx
<1>1. /\ flash' = flash /\ rabbit.pc = "idle" /\ Len(tx[m]) >= 1 /\ format.pc # "erase"
      /\ acked'[m] = acked[m] \cup {tx[m][1].ev}
      /\ \A n \in Monitors : n # m => acked'[n] = acked[n]
  BY <1>0, ReadOutEffect
<1> SUFFICES ASSUME NEW s \in Slots, NEW n \in Monitors,
                    Ok(s), flash[s].ev \in acked'[n], flash[s].ev \notin Held
             PROVE  n \in flash[s].ack
                      \/ (rabbit'.pc = "tag" /\ rabbit'.mon = n /\ rabbit'.slot = s)
  BY <1>1 DEF AllMarked, Ok
<1>2. CASE flash[s].ev \in acked[n] BY <1>0, <1>1, <1>2 DEF AllMarked
<1>3. CASE n = m /\ flash[s].ev = tx[m][1].ev
  <2>1. find_event_by_index(tx[m][1].index) = {s} BY <1>1, <1>3, HeadFound
  <2>2. rabbit' = [pc |-> "tag", mon |-> m, slot |-> s, left |-> 0, pace |-> 0, rec |-> flash[s]]
    BY <1>0, <2>1, ReadOutEffect
  <2> QED BY <1>3, <2>2
<1> QED BY <1>1, <1>2, <1>3

LEMMA StoreAllMarked ==
  ASSUME Clean, Sound', StoreRecord
  PROVE  AllMarked'
<1>0. wrptr \in Slots /\ TypeInv /\ Ctx /\ AllMarked /\ Past /\ Taken \in Int
  BY Typed DEF Clean, Faultless, Ctx
<1>1. /\ flash'[wrptr].ev = Taken + 1 /\ acked' = acked
      /\ \A s \in Slots : s # wrptr => flash'[s] = flash[s]
      /\ rabbit'.pc = rabbit.pc /\ rabbit'.slot = rabbit.slot /\ rabbit'.mon = rabbit.mon
  BY <1>0, StoreEffect
<1> SUFFICES ASSUME NEW s \in Slots, NEW m \in Monitors,
                    Ok(s)', flash'[s].ev \in acked[m], flash'[s].ev \notin Held
             PROVE  m \in flash'[s].ack
                      \/ (rabbit'.pc = "tag" /\ rabbit'.mon = m /\ rabbit'.slot = s)
  BY <1>1 DEF AllMarked
<1>2. s # wrptr
  <2>1. ~(Taken + 1 <= Taken) BY <1>0
  <2> QED BY <1>0, <1>1, <2>1 DEF Past
<1> QED BY <1>0, <1>1, <1>2 DEF AllMarked, Ok

LEMMA TagAllMarked ==
  ASSUME Clean, Sound', TagEvent
  PROVE  AllMarked'
<1>0. TypeInv /\ Ctx /\ AllMarked BY DEF Clean, Faultless, Ctx
<1>1. /\ \A s \in Slots : s # rabbit.slot => flash'[s] = flash[s]
      /\ flash'[rabbit.slot].ack = rabbit.rec.ack \cup {rabbit.mon}
      /\ SameRecords /\ acked' = acked /\ rabbit.pc = "tag"
      /\ flash[rabbit.slot] = rabbit.rec
  BY <1>0, TagEffect DEF Clean, Faultless, Marked
<1> SUFFICES ASSUME NEW s \in Slots, NEW m \in Monitors,
                    Ok(s)', flash'[s].ev \in acked[m], flash'[s].ev \notin Held
             PROVE  m \in flash'[s].ack
  BY <1>1 DEF AllMarked
<1>2. Ok(s) /\ flash'[s].ev = flash[s].ev BY <1>1 DEF SameRecords, Ok
<1>3. CASE m \in flash[s].ack BY <1>1, <1>3
<1>4. CASE m = rabbit.mon /\ s = rabbit.slot BY <1>1, <1>4
<1> QED BY <1>0, <1>2, <1>3, <1>4 DEF AllMarked

LEMMA AllMarkedStep ==
  ASSUME Clean, NoneOf(FaultKinds)', [Next]_vars
  PROVE  AllMarked'
<1>0. TypeInv /\ Ctx /\ AllMarked /\ Sound' /\ ~Crash BY NoFault DEF Clean, Faultless, Ctx
<1> HIDE DEF Clean
<1>1. (flash' = flash) =>
        \A s \in Slots : Ok(s)' => /\ Ok(s) /\ flash'[s].ev = flash[s].ev
                                   /\ flash[s].ack \subseteq flash'[s].ack
  BY DEF Ok
<1>2. (SameRecords /\ \A s \in Slots : flash[s].ack \subseteq flash'[s].ack) =>
        \A s \in Slots : Ok(s)' => /\ Ok(s) /\ flash'[s].ev = flash[s].ev
                                   /\ flash[s].ack \subseteq flash'[s].ack
  BY DEF Ok, SameRecords
<1>3. CASE StoreRecord BY <1>0, <1>3, StoreAllMarked
<1>4. CASE RewriteRecord \/ DeliverUnstored BY <1>0, <1>4, NoRewrite
<1>5. CASE logCidEvent BY <1>0, <1>1, <1>5, AllMarkedFrame DEF logCidEvent
<1>6. CASE AdvancePointers \/ SaveIndex \/ Deliver \/ DeliverRest
  BY <1>0, <1>1, <1>6, AllMarkedFrame DEF AdvancePointers, SaveIndex, Deliver, DeliverRest, history
<1>7. CASE HoldEvent
  <2>1. SameRecords /\ acked' = acked /\ rabbit' = rabbit BY <1>0, <1>7, HoldEffect
  <2>2. \A s \in Slots : flash[s].ack \subseteq flash'[s].ack
    BY <1>0, <1>7, TagForSame DEF HoldEvent
  <2> QED BY <1>0, <1>2, <2>1, <2>2, AllMarkedFrame
<1>8. ASSUME NEW m \in Monitors, ReadOutEvent(m) PROVE AllMarked' BY <1>8, ReadOutAllMarked
<1>9. ASSUME NEW m \in Monitors, ReloadUnAckEvents25(m) PROVE AllMarked'
  BY <1>0, <1>1, <1>9, AllMarkedFrame DEF ReloadUnAckEvents25, history
<1>10. CASE TagEvent BY <1>0, <1>10, TagAllMarked
<1>11. CASE ReloadSlot
  <2>1. SameRecords /\ acked' = acked /\ rabbit.pc = "reload" BY <1>0, <1>11, ReloadSlotEffect
  <2>3. flash' = flash \/ flash' = TagFor(rabbit.mon, flash[rabbit.slot].index)
    BY <1>11 DEF ReloadSlot
  <2>2. \A s \in Slots : flash[s].ack \subseteq flash'[s].ack
    BY <1>0, <2>3, TagForSame
  <2> QED BY <1>0, <1>2, <2>1, <2>2, AllMarkedFrame
<1>12. CASE FormatEventFlash \/ FormatSaveIndex
  BY <1>0, <1>1, <1>12, AllMarkedFrame DEF FormatEventFlash, FormatSaveIndex, history
<1>13. CASE EraseSlots
  <2>1. PICK k \in (format.done + 1)..(DF_MAXEVENTS - 1) : EraseTo(k) BY <1>13 DEF EraseSlots
  <2>0. format.done \in Nat BY <1>0, Typed DEF FormatType
  <2>2. k \in Nat BY <2>0, <2>1, ConstantTypes
  <2>3. \A s \in Slots : flash'[s] = flash[s] \/ flash'[s].st = "erased"
    BY <1>0, <2>1, <2>2, EraseEffect
  <2>4. \A s \in Slots : Ok(s)' => /\ Ok(s) /\ flash'[s].ev = flash[s].ev
                                   /\ flash[s].ack \subseteq flash'[s].ack
    BY <2>3 DEF Ok
  <2> QED BY <1>0, <1>13, <2>4, AllMarkedFrame DEF EraseSlots, history
<1>14. CASE EraseRest BY <1>0, <1>14, EraseRestEffect DEF AllMarked, Ok
<1>15. CASE UNCHANGED vars BY <1>0, <1>1, <1>15, AllMarkedFrame DEF vars, history
<1> QED
  BY <1>0, <1>3, <1>4, <1>5, <1>6, <1>7, <1>8, <1>9, <1>10, <1>11, <1>12, <1>13, <1>14, <1>15
  DEF Next, LogTStep, FormatStep

-----------------------------------------------------------------------------
(* No index is skipped.                                                    *)

LEMMA PastFrame ==
  ASSUME TypeInv, Past, UNCHANGED <<acked, tx, eventIndex>>, Taken' \in Int, Taken <= Taken',
         logT'.pc \in {"index", "deliver"} => logT.pc \in {"index", "deliver"},
         Holding' => Holding /\ logT'.index = logT.index
  PROVE  Past'
<1>1. ASSUME NEW m \in Monitors, NEW e \in acked[m] PROVE e <= Taken'
  <2>1. e \in Nat /\ Taken \in Int BY Typed
  <2>2. e <= Taken BY DEF Past
  <2> QED BY <2>1, <2>2
<1>2. /\ \A m \in Monitors : \A k \in 1..Len(tx[m]) : tx[m][k].index # IndexTop
      /\ logT.pc \in {"index", "deliver"} => eventIndex # 0
      /\ Holding => logT.index # IndexTop
  BY DEF Past
<1> QED BY <1>1, <1>2 DEF Past

LEMMA AdvancePast ==
  ASSUME Clean, NoneOf(FaultKinds)', AdvancePointers
  PROVE  Past'
<1>0. /\ Ctx /\ Past /\ eventIndex \in 0..(IndexTop - 1)
  BY Typed DEF Clean, Faultless, Ctx
<1>1. UNCHANGED <<acked, tx>> /\ Taken' = Taken /\ logT'.pc = "index" /\ eventIndex' = IndexInc(eventIndex)
  BY <1>0, AdvanceEffect
<1>2. eventIndex + 1 # IndexTop BY DEF AdvancePointers, NoneOf, FaultKinds
<1>3. eventIndex' # 0 BY <1>0, <1>1, <1>2, ConstantTypes DEF IndexInc
<1> QED BY <1>0, <1>1, <1>3 DEF Past, Holding

LEMMA TxPast ==
  ASSUME Clean, NEW S, NEW i, NEW e, i # IndexTop, tx' = TxAfter(S, i, e), ~Overruns(S, e)
  PROVE  \A m \in Monitors : \A k \in 1..Len(tx'[m]) : tx'[m][k].index # IndexTop
<1>0. TypeInv /\ Past BY DEF Clean, Faultless, Ctx
<1> SUFFICES ASSUME NEW m \in Monitors, NEW k \in 1..Len(tx'[m])
             PROVE  tx'[m][k].index # IndexTop
  OBVIOUS
<1>1. \/ k \in 1..Len(tx[m]) /\ tx'[m][k] = tx[m][k]
      \/ tx'[m][k] = [index |-> i, ev |-> e]
  BY <1>0, TxAfterEnd
<1> QED BY <1>0, <1>1 DEF Past

\* No step overruns a ring.
LEMMA NoOverrun ==
  ASSUME NoneOf(FaultKinds)', NEW S, NEW e,
         faults' = faults \cup IF Overruns(S, e) THEN {"overrun"} ELSE {}
  PROVE  ~Overruns(S, e)
  BY DEF NoneOf, FaultKinds

LEMMA DeliverPast ==
  ASSUME Clean, NoneOf(FaultKinds)', Deliver
  PROVE  Past'
<1>0. /\ TypeInv /\ Ctx /\ Past /\ Taken \in Int BY Typed DEF Clean, Faultless, Ctx
<1>1. /\ UNCHANGED <<acked, eventIndex>> /\ Taken' = Taken + 1
      /\ logT.pc = "deliver" /\ (QueuedIndex = IndexTop => eventIndex = 0)
  BY <1>0, DeliverEffect
<1>2. QueuedIndex # IndexTop BY <1>0, <1>1 DEF Past
<1>3. \A m \in Monitors : \A e \in acked[m] : e <= Taken'
  <2>1. \A m \in Monitors : \A e \in acked[m] : e \in Nat /\ e <= Taken
    BY <1>0, Typed DEF Past
  <2> QED BY <1>0, <1>1, <2>1
<1>4. CASE /\ logT'.pc = "poll" /\ tx' = TxAfter(Monitors, QueuedIndex, logT.ev)
           /\ faults' = faults \cup IF Overruns(Monitors, logT.ev) THEN {"overrun"} ELSE {}
  <2>1. ~Overruns(Monitors, logT.ev) BY <1>4, NoOverrun
  <2>2. \A m \in Monitors : \A k \in 1..Len(tx'[m]) : tx'[m][k].index # IndexTop
    BY <1>2, <1>4, <2>1, TxPast
  <2> QED BY <1>1, <1>3, <1>4, <2>2 DEF Past, Holding
<1>5. CASE logT'.pc = "hold" /\ logT'.index = QueuedIndex /\ tx' = tx
  BY <1>0, <1>1, <1>2, <1>3, <1>5 DEF Past, Holding
<1> QED BY <1>0, <1>4, <1>5, DeliverEffect

LEMMA RestPast ==
  ASSUME Clean, NoneOf(FaultKinds)', DeliverRest
  PROVE  Past'
<1>0. /\ TypeInv /\ Ctx /\ Past BY DEF Clean, Faultless, Ctx
<1>1. /\ UNCHANGED <<acked, eventIndex>> /\ Taken' = Taken /\ logT'.pc = "poll"
      /\ tx' = TxAfter(Monitors \ {MacroMon}, logT.index, logT.ev) /\ logT.pc = "fanout"
      /\ faults' = faults \cup IF Overruns(Monitors \ {MacroMon}, logT.ev) THEN {"overrun"} ELSE {}
  BY <1>0, RestEffect
<1>2. logT.index # IndexTop BY <1>0, <1>1 DEF Past, Holding
<1>3. \A m \in Monitors : \A k \in 1..Len(tx'[m]) : tx'[m][k].index # IndexTop
  <2>1. ~Overruns(Monitors \ {MacroMon}, logT.ev) BY <1>1, NoOverrun
  <2> QED BY <1>1, <1>2, <2>1, TxPast
<1> QED BY <1>0, <1>1, <1>3 DEF Past, Holding

LEMMA ReadOutPast ==
  ASSUME Clean, NEW m \in Monitors, ReadOutEvent(m)
  PROVE  Past'
<1>0. /\ TypeInv /\ Ctx /\ Past BY DEF Clean, Faultless, Ctx
<1>1. /\ UNCHANGED <<eventIndex, logT>> /\ Taken' = Taken
      /\ \A k \in 1..Len(tx'[m]) : k + 1 \in 1..Len(tx[m]) /\ tx'[m][k] = tx[m][k + 1]
      /\ \A n \in Monitors : n # m => tx'[n] = tx[n]
      /\ acked'[m] = acked[m] \cup {tx[m][1].ev}
      /\ \A n \in Monitors : n # m => acked'[n] = acked[n]
      /\ Len(tx[m]) \in Nat /\ Len(tx[m]) >= 1
  BY <1>0, ReadOutEffect
<1>2. tx[m][1].ev <= Taken
  <2>1. 1 \in 1..Len(tx[m]) BY <1>1
  <2> QED BY <1>0, <2>1 DEF Ctx, Entries
<1>3. \A n \in Monitors : \A e \in acked'[n] : e <= Taken'
  BY <1>0, <1>1, <1>2 DEF Past
<1>4. \A n \in Monitors : \A k \in 1..Len(tx'[n]) : tx'[n][k].index # IndexTop
  BY <1>0, <1>1 DEF Past
<1> QED BY <1>0, <1>1, <1>3, <1>4 DEF Past, Holding

LEMMA ReloadPast ==
  ASSUME Clean, NoneOf(FaultKinds)', ReloadSlot
  PROVE  Past'
<1>0. TypeInv /\ Ctx /\ Past /\ Taken \in Int /\ rabbit.slot \in Slots
  BY Typed DEF Clean, Faultless, Ctx
<1>1. UNCHANGED <<acked, eventIndex, logT>> /\ Taken' = Taken BY <1>0, ReloadSlotEffect
<1>2. CASE tx' = tx BY <1>0, <1>1, <1>2, PastFrame DEF Holding
<1>3. CASE /\ Reloadable(rabbit.mon, flash[rabbit.slot])
           /\ tx' = TxAfter({rabbit.mon}, flash[rabbit.slot].index, flash[rabbit.slot].ev)
           /\ faults' = faults \cup IF Overruns({rabbit.mon}, flash[rabbit.slot].ev)
                                    THEN {"overrun"} ELSE {}
  <2>1. flash[rabbit.slot].index # IndexTop
    BY <1>0, <1>3 DEF Ctx, Records, Reloadable, Ok
  <2>2. ~Overruns({rabbit.mon}, flash[rabbit.slot].ev) BY <1>3, NoOverrun
  <2>3. \A m \in Monitors : \A k \in 1..Len(tx'[m]) : tx'[m][k].index # IndexTop
    BY <1>3, <2>1, <2>2, TxPast
  <2> QED BY <1>0, <1>1, <2>3 DEF Past, Holding
<1> QED BY <1>0, <1>2, <1>3, ReloadSlotEffect

LEMMA PastStep ==
  ASSUME Clean, NoneOf(FaultKinds)', [Next]_vars
  PROVE  Past'
<1>0. TypeInv /\ Ctx /\ Past /\ Sound' /\ ~Crash /\ Taken \in Int /\ Taken <= Taken
  BY NoFault, Typed DEF Clean, Faultless, Ctx
<1> HIDE DEF Clean
<1>1. (queue' = queue /\ logged' = logged) => Taken' = Taken BY DEF Taken
<1>2. CASE logCidEvent
  BY <1>0, <1>2, LogKeeps, PastFrame DEF logCidEvent, pointers, Holding
<1>3. CASE StoreRecord BY <1>0, <1>3, StoreEffect, PastFrame DEF Holding
<1>4. CASE RewriteRecord \/ DeliverUnstored BY <1>0, <1>4, NoRewrite
<1>5. CASE AdvancePointers BY <1>5, AdvancePast
<1>6. CASE SaveIndex
  <2>1. logT.pc = "index" /\ logT'.pc = "deliver"
    BY <1>0, <1>6, Typed DEF SaveIndex, LogTType
  <2> QED BY <1>0, <1>1, <1>6, <2>1, PastFrame DEF SaveIndex, pointers, history, Holding
<1>7. CASE Deliver BY <1>7, DeliverPast
<1>8. CASE HoldEvent
  <2>1. UNCHANGED <<acked, tx, eventIndex>> /\ Taken' = Taken /\ logT'.pc = "fanout"
        /\ logT.pc = "hold" /\ logT'.index = logT.index
    BY <1>0, <1>8, HoldEffect
  <2> QED BY <1>0, <2>1, PastFrame DEF Holding
<1>9. CASE DeliverRest BY <1>9, RestPast
<1>10. ASSUME NEW m \in Monitors, ReadOutEvent(m) PROVE Past' BY <1>10, ReadOutPast
<1>11. ASSUME NEW m \in Monitors, ReloadUnAckEvents25(m) PROVE Past'
  BY <1>0, <1>1, <1>11, PastFrame DEF ReloadUnAckEvents25, pointers, history, Holding
<1>12. CASE TagEvent BY <1>0, <1>12, TagEffect, PastFrame DEF Holding
<1>13. CASE ReloadSlot BY <1>13, ReloadPast
<1>14. CASE FormatEventFlash \/ EraseSlots \/ FormatSaveIndex
  BY <1>0, <1>1, <1>14, PastFrame
  DEF FormatEventFlash, EraseSlots, FormatSaveIndex, pointers, history, Holding
<1>15. CASE EraseRest
  <2>1. /\ \A m \in Monitors : tx'[m] = <<>>
        /\ logT'.pc = "poll" /\ acked' = acked
    BY <1>0, <1>15, EraseRestEffect
  <2>2. Taken' = Taken BY <1>1, <1>15 DEF EraseRest, history
  <2>3. Len(<<>>) = 0 OBVIOUS
  <2>4. \A m \in Monitors : \A k \in 1..Len(tx'[m]) : FALSE BY <2>1, <2>3
  <2> QED BY <1>0, <2>1, <2>2, <2>4 DEF Past, Holding
<1>16. CASE UNCHANGED vars BY <1>0, <1>1, <1>16, PastFrame DEF vars, pointers, history, Holding
<1> QED
  BY <1>0, <1>2, <1>3, <1>4, <1>5, <1>6, <1>7, <1>8, <1>9, <1>10, <1>11, <1>12, <1>13, <1>14,
     <1>15, <1>16
  DEF Next, LogTStep, FormatStep

-----------------------------------------------------------------------------
(* No event waits twice, or again.                                         *)

\* One entry for an event that is held, or new to the rings it goes to.
LEMMA PutOnce ==
  ASSUME TypeInv, Once, NEW S \in SUBSET Monitors, NEW i, NEW e,
         tx' = TxAfter(S, i, e), ~Overruns(S, e), acked' = acked,
         e \notin Held =>
           \A m \in S : e \notin acked[m] /\ \A k \in 1..Len(tx[m]) : tx[m][k].ev # e
  PROVE  Once'
<1> SUFFICES ASSUME NEW m \in Monitors, NEW a \in 1..Len(tx'[m]), NEW b \in 1..Len(tx'[m]),
                    tx'[m][a].ev \notin Held
             PROVE  tx'[m][a].ev \notin acked[m] /\ (a # b => tx'[m][a].ev # tx'[m][b].ev)
  BY DEF Once
<1>1. \A k \in 1..Len(tx'[m]) :
        \/ k \in 1..Len(tx[m]) /\ tx'[m][k] = tx[m][k]
        \/ m \in S /\ tx'[m][k].ev = e /\ k = Len(tx[m]) + 1
  <2> SUFFICES ASSUME NEW k \in 1..Len(tx'[m])
               PROVE  \/ k \in 1..Len(tx[m]) /\ tx'[m][k] = tx[m][k]
                      \/ m \in S /\ tx'[m][k].ev = e /\ k = Len(tx[m]) + 1
    OBVIOUS
  <2>1. \/ k \in 1..Len(tx[m]) /\ tx'[m][k] = tx[m][k]
        \/ /\ m \in S /\ ~IsHeld(m, e) /\ tx'[m][k] = [index |-> i, ev |-> e]
           /\ k = Len(tx[m]) + 1 /\ Len(tx'[m]) = Len(tx[m]) + 1
    BY TxAfterEnd
  <2> QED BY <2>1
<1>2. \A k \in 1..Len(tx[m]) : k # Len(tx[m]) + 1 BY EntryType
<1>3. CASE a \in 1..Len(tx[m]) /\ tx'[m][a] = tx[m][a]
  <2>1. tx'[m][a].ev \notin acked[m] BY <1>3 DEF Once
  <2>2. CASE b \in 1..Len(tx[m]) /\ tx'[m][b] = tx[m][b] BY <1>3, <2>1, <2>2 DEF Once
  <2>3. CASE m \in S /\ tx'[m][b].ev = e BY <1>3, <2>1, <2>3
  <2> QED BY <1>1, <2>2, <2>3
<1>4. CASE m \in S /\ tx'[m][a].ev = e /\ a = Len(tx[m]) + 1
  <2>1. tx'[m][a].ev \notin acked[m] BY <1>4
  <2>2. CASE b \in 1..Len(tx[m]) /\ tx'[m][b] = tx[m][b] BY <1>4, <2>1, <2>2
  <2>3. CASE b = Len(tx[m]) + 1 BY <1>4, <2>1, <2>3
  <2> QED BY <1>1, <2>2, <2>3
<1> QED BY <1>1, <1>3, <1>4

LEMMA DeliverOnce ==
  ASSUME Clean, NoneOf(FaultKinds)', Deliver
  PROVE  Once'
<1>0. TypeInv /\ Ctx /\ Past /\ Once /\ Taken \in Int BY Typed DEF Clean, Faultless, Ctx
<1>1. acked' = acked /\ logT.ev = Taken + 1 BY <1>0, DeliverEffect
<1>2. CASE /\ tx' = TxAfter(Monitors, QueuedIndex, logT.ev)
           /\ faults' = faults \cup IF Overruns(Monitors, logT.ev) THEN {"overrun"} ELSE {}
  <2>1. ~Overruns(Monitors, logT.ev) BY <1>2, NoOverrun
  <2>2. ~(Taken + 1 <= Taken) BY <1>0
  <2>3. \A m \in Monitors :
          logT.ev \notin acked[m] /\ \A k \in 1..Len(tx[m]) : tx[m][k].ev # logT.ev
    BY <1>0, <1>1, <2>2 DEF Past, Ctx, Entries
  <2> DEFINE i == QueuedIndex
  <2>4. tx' = TxAfter(Monitors, i, logT.ev) BY <1>2
  <2> HIDE DEF i
  <2>5. Monitors \in SUBSET Monitors OBVIOUS
  <2> QED BY <1>0, <1>1, <2>1, <2>3, <2>4, <2>5, PutOnce
<1>3. CASE tx' = tx BY <1>0, <1>1, <1>3 DEF Once
<1> QED BY <1>0, <1>2, <1>3, DeliverEffect

LEMMA RestOnce ==
  ASSUME Clean, NoneOf(FaultKinds)', DeliverRest
  PROVE  Once'
<1>0. TypeInv /\ Ctx /\ Once BY DEF Clean, Faultless, Ctx
<1>1. /\ acked' = acked /\ logT.ev \in Held
      /\ tx' = TxAfter(Monitors \ {MacroMon}, logT.index, logT.ev)
      /\ faults' = faults \cup IF Overruns(Monitors \ {MacroMon}, logT.ev) THEN {"overrun"} ELSE {}
  BY <1>0, RestEffect
<1>2. ~Overruns(Monitors \ {MacroMon}, logT.ev) BY <1>1, NoOverrun
<1>3. Monitors \ {MacroMon} \in SUBSET Monitors OBVIOUS
<1> QED BY <1>0, <1>1, <1>2, <1>3, PutOnce

LEMMA ReadOutOnce ==
  ASSUME Clean, NEW m \in Monitors, ReadOutEvent(m)
  PROVE  Once'
<1>0. TypeInv /\ Ctx /\ Once BY DEF Clean, Faultless, Ctx
<1>1. /\ Len(tx[m]) \in Nat /\ Len(tx[m]) >= 1
      /\ \A k \in 1..Len(tx'[m]) : k + 1 \in 1..Len(tx[m]) /\ tx'[m][k] = tx[m][k + 1]
      /\ \A n \in Monitors : n # m => tx'[n] = tx[n]
      /\ acked'[m] = acked[m] \cup {tx[m][1].ev}
      /\ \A n \in Monitors : n # m => acked'[n] = acked[n]
      /\ Len(tx'[m]) = Len(tx[m]) - 1
  BY <1>0, ReadOutEffect
<1> SUFFICES ASSUME NEW n \in Monitors, NEW a \in 1..Len(tx'[n]), NEW b \in 1..Len(tx'[n]),
                    tx'[n][a].ev \notin Held
             PROVE  tx'[n][a].ev \notin acked'[n] /\ (a # b => tx'[n][a].ev # tx'[n][b].ev)
  BY DEF Once
<1>2. CASE n # m BY <1>0, <1>1, <1>2 DEF Once
<1>3. CASE n = m
  <2>1. /\ a + 1 \in 1..Len(tx[m]) /\ tx'[m][a] = tx[m][a + 1]
        /\ b + 1 \in 1..Len(tx[m]) /\ tx'[m][b] = tx[m][b + 1]
    BY <1>1, <1>3
  <2>2. 1 \in 1..Len(tx[m]) /\ a + 1 # 1 /\ (a # b => a + 1 # b + 1) BY <1>1, <1>3
  <2>3. tx[m][a + 1].ev \notin acked[m] /\ tx[m][a + 1].ev # tx[m][1].ev
    BY <1>0, <1>3, <2>1, <2>2 DEF Once
  <2>4. a # b => tx[m][a + 1].ev # tx[m][b + 1].ev BY <1>0, <1>3, <2>1, <2>2 DEF Once
  <2> QED BY <1>1, <1>3, <2>1, <2>3, <2>4
<1> QED BY <1>2, <1>3

LEMMA ReloadOnce ==
  ASSUME Clean, NoneOf(FaultKinds)', ReloadSlot
  PROVE  Once'
<1>0. TypeInv /\ Ctx /\ Once /\ AllMarked /\ NotYet /\ wrptr \in Slots /\ rabbit.slot \in Slots
      /\ rabbit.left \in Nat
  BY Typed DEF Clean, Faultless, Ctx
<1>1. /\ acked' = acked /\ rabbit.pc = "reload" /\ rabbit.mon \in Monitors
  BY <1>0, ReloadSlotEffect
<1>2. CASE tx' = tx BY <1>0, <1>1, <1>2 DEF Once
<1>3. CASE /\ Reloadable(rabbit.mon, flash[rabbit.slot])
           /\ tx' = TxAfter({rabbit.mon}, flash[rabbit.slot].index, flash[rabbit.slot].ev)
           /\ faults' = faults \cup IF Overruns({rabbit.mon}, flash[rabbit.slot].ev)
                                    THEN {"overrun"} ELSE {}
  <2> DEFINE e == flash[rabbit.slot].ev
             i == flash[rabbit.slot].index
  <2>1. ~Overruns({rabbit.mon}, e) BY <1>3, NoOverrun
  <2>2. Ok(rabbit.slot) /\ rabbit.mon \notin flash[rabbit.slot].ack
    BY <1>3 DEF Reloadable, Ok
  <2>3. e \notin Held => e \notin acked[rabbit.mon] BY <1>0, <1>1, <2>2 DEF AllMarked
  <2>4. Ahead(rabbit.slot)
    <3>1. rabbit.left >= 1 BY <1>0, <1>1, Typed DEF Working
    <3>2. Age(wrptr, rabbit.slot) \in Nat BY <1>0, AgeFacts
    <3> QED BY <1>0, <3>1, <3>2 DEF Ahead
  <2>5. e \notin Held => \A k \in 1..Len(tx[rabbit.mon]) : tx[rabbit.mon][k].ev # e
    BY <1>0, <1>1, <2>2, <2>4 DEF NotYet
  <2>6. tx' = TxAfter({rabbit.mon}, i, e) BY <1>3
  <2> HIDE DEF e, i
  <2>7. {rabbit.mon} \in SUBSET Monitors BY <1>1
  <2> QED BY <1>0, <1>1, <2>1, <2>3, <2>5, <2>6, <2>7, PutOnce
<1> QED BY <1>0, <1>2, <1>3, ReloadSlotEffect

LEMMA OnceStep ==
  ASSUME Clean, NoneOf(FaultKinds)', [Next]_vars
  PROVE  Once'
<1>0. TypeInv /\ Ctx /\ Once /\ Sound' /\ ~Crash BY NoFault DEF Clean, Faultless, Ctx
<1> HIDE DEF Clean
<1>1. CASE UNCHANGED <<tx, acked>> BY <1>0, <1>1 DEF Once
<1>2. CASE logCidEvent BY <1>1, <1>2 DEF logCidEvent
<1>3. CASE StoreRecord \/ AdvancePointers \/ SaveIndex \/ HoldEvent
  BY <1>1, <1>3 DEF StoreRecord, AdvancePointers, SaveIndex, HoldEvent, history
<1>4. CASE RewriteRecord \/ DeliverUnstored BY <1>0, <1>4, NoRewrite
<1>5. CASE Deliver BY <1>5, DeliverOnce
<1>6. CASE DeliverRest BY <1>6, RestOnce
<1>7. ASSUME NEW m \in Monitors, ReadOutEvent(m) PROVE Once' BY <1>7, ReadOutOnce
<1>8. ASSUME NEW m \in Monitors, ReloadUnAckEvents25(m) PROVE Once'
  BY <1>1, <1>8 DEF ReloadUnAckEvents25, history
<1>9. CASE TagEvent BY <1>1, <1>9 DEF TagEvent, history
<1>10. CASE ReloadSlot BY <1>10, ReloadOnce
<1>11. CASE FormatEventFlash \/ FormatStep
  BY <1>1, <1>11 DEF FormatEventFlash, FormatStep, EraseSlots, EraseRest, FormatSaveIndex, history
<1>12. CASE UNCHANGED vars BY <1>1, <1>12 DEF vars, history
<1> QED
  BY <1>0, <1>2, <1>3, <1>4, <1>5, <1>6, <1>7, <1>8, <1>9, <1>10, <1>11, <1>12
  DEF Next, LogTStep

-----------------------------------------------------------------------------
(* What a reload has yet to look at.                                       *)

LEMMA NotYetFrame ==
  ASSUME NotYet, UNCHANGED <<wrptr, tx>>,
         \A s \in Slots : Ok(s)' => Ok(s) /\ flash'[s].ev = flash[s].ev,
         rabbit'.pc = "reload" =>
           /\ rabbit.pc = "reload" /\ rabbit'.mon = rabbit.mon
           /\ rabbit'.slot = rabbit.slot /\ rabbit'.left = rabbit.left
  PROVE  NotYet'
<1> SUFFICES ASSUME rabbit'.pc = "reload", NEW s \in Slots, Ok(s)', flash'[s].ev \notin Held, Ahead(s)',
                    NEW k \in 1..Len(tx[rabbit.mon])
             PROVE  tx[rabbit.mon][k].ev # flash'[s].ev
  BY DEF NotYet
<1>1. Ahead(s) BY DEF Ahead
<1>2. Ok(s) /\ flash'[s].ev = flash[s].ev OBVIOUS
<1> QED BY <1>1, <1>2 DEF NotYet

LEMMA StoreNotYet ==
  ASSUME Clean, Sound', StoreRecord
  PROVE  NotYet'
<1>0. TypeInv /\ Ctx /\ NotYet /\ wrptr \in Slots /\ Taken \in Int
  BY Typed DEF Clean, Faultless, Ctx
<1>1. /\ UNCHANGED <<wrptr, tx>> /\ flash'[wrptr].ev = Taken + 1
      /\ \A s \in Slots : s # wrptr => flash'[s] = flash[s]
      /\ rabbit'.pc = rabbit.pc /\ rabbit'.slot = rabbit.slot /\ rabbit'.left = rabbit.left
      /\ rabbit'.mon = rabbit.mon
  BY <1>0, StoreEffect
<1> SUFFICES ASSUME rabbit.pc = "reload", NEW s \in Slots, Ok(s)', flash'[s].ev \notin Held, Ahead(s)',
                    NEW k \in 1..Len(tx[rabbit.mon])
             PROVE  tx[rabbit.mon][k].ev # flash'[s].ev
  BY <1>1 DEF NotYet
<1>2. CASE s = wrptr
  <2>1. rabbit.mon \in Monitors BY <1>0, Typed DEF Working
  <2>2. tx[rabbit.mon][k].ev <= Taken BY <1>0, <2>1 DEF Ctx, Entries
  <2> QED BY <1>0, <1>1, <1>2, <2>2
<1>3. CASE s # wrptr
  <2>1. Ahead(s) BY <1>1 DEF Ahead
  <2> QED BY <1>0, <1>1, <1>3, <2>1 DEF NotYet, Ok
<1> QED BY <1>2, <1>3

LEMMA AdvanceNotYet ==
  ASSUME Clean, AdvancePointers
  PROVE  NotYet'
<1>0. /\ TypeInv /\ Ctx /\ NotYet /\ wrptr \in Slots /\ Taken \in Int /\ rabbit.slot \in Slots
      /\ rabbit.left \in Nat /\ rabbit.left <= Window /\ rabbit.pace \in Nat /\ rabbit.pace <= Pace
      /\ HeldFit
  BY Typed DEF Clean, Faultless, Ctx
<1>1. /\ UNCHANGED <<flash, tx, rabbit>> /\ flash[wrptr].ev = Taken + 1 /\ Writing
      /\ wrptr' = SlotInc(wrptr) /\ logT.pc \in {"verify", "reverify"}
  BY <1>0, AdvanceEffect DEF Written, Writing
<1> SUFFICES ASSUME rabbit.pc = "reload", NEW s \in Slots, Ok(s), flash[s].ev \notin Held, Ahead(s)',
                    NEW k \in 1..Len(tx[rabbit.mon])
             PROVE  tx[rabbit.mon][k].ev # flash[s].ev
  BY <1>1 DEF NotYet, Ok
<1>2. CASE s = wrptr
  <2>1. rabbit.mon \in Monitors BY <1>0, Typed DEF Working
  <2>2. tx[rabbit.mon][k].ev <= Taken BY <1>0, <2>1 DEF Ctx, Entries
  <2> QED BY <1>0, <1>1, <1>2, <2>2
<1>3. CASE s # wrptr
  <2>1. /\ Age(wrptr, s) \in Nat /\ Age(wrptr, rabbit.slot) \in Nat
        /\ Age(wrptr, wrptr) = DF_MAXEVENTS
    BY <1>0, AgeFacts
  <2>2. rabbit.slot # wrptr
    <3>1. Age(wrptr, rabbit.slot) + Unmoved = rabbit.left + rabbit.pace /\ Unmoved = 1
      BY <1>0, <1>1 DEF Ctx, Reloading, Unmoved
    <3>2. Window + Pace < DF_MAXEVENTS
      BY <1>0, FitFacts, HeldFacts, ConstantTypes, ConstantsAssumption DEF ConstantsAssumption
    <3>3. Age(wrptr, rabbit.slot) < DF_MAXEVENTS BY <1>0, <2>1, <3>1, <3>2, ConstantTypes
    <3> QED BY <2>1, <3>3, ConstantTypes
  <2>3. /\ Age(wrptr', s) = Age(wrptr, s) + 1
        /\ Age(wrptr', rabbit.slot) = Age(wrptr, rabbit.slot) + 1
    BY <1>0, <1>1, <1>3, <2>2, AgeAdvances
  <2>4. Age(wrptr', s) <= Age(wrptr', rabbit.slot)
        /\ Age(wrptr', s) > Age(wrptr', rabbit.slot) - rabbit.left
    BY <1>1 DEF Ahead
  <2>5. Ahead(s) BY <1>0, <2>1, <2>3, <2>4 DEF Ahead
  <2> QED BY <1>0, <2>5 DEF NotYet
<1> QED BY <1>2, <1>3

LEMMA DeliverNotYet ==
  ASSUME Clean, NoneOf(FaultKinds)', Deliver
  PROVE  NotYet'
<1>0. /\ TypeInv /\ Ctx /\ NotYet /\ wrptr \in Slots /\ logT.slot \in Slots
      /\ rabbit.slot \in Slots /\ rabbit.left \in Nat /\ rabbit.pace \in Nat
  BY Typed DEF Clean, Faultless, Ctx
<1>1. UNCHANGED <<flash, wrptr, rabbit>> /\ logT.pc = "deliver" BY <1>0, DeliverEffect
<1>2. CASE tx' = tx
  <2>1. \A s \in Slots : Ok(s)' => Ok(s) /\ flash'[s].ev = flash[s].ev BY <1>1 DEF Ok
  <2> QED BY <1>0, <1>1, <1>2, <2>1, NotYetFrame
<1>3. CASE /\ tx' = TxAfter(Monitors, QueuedIndex, logT.ev)
           /\ faults' = faults \cup IF Overruns(Monitors, logT.ev) THEN {"overrun"} ELSE {}
  <2> SUFFICES ASSUME rabbit.pc = "reload", NEW s \in Slots, Ok(s), flash[s].ev \notin Held, Ahead(s),
                      NEW k \in 1..Len(tx'[rabbit.mon])
               PROVE  tx'[rabbit.mon][k].ev # flash[s].ev
    BY <1>1 DEF NotYet, Ok, Ahead
  <2>1. ~Overruns(Monitors, logT.ev) BY <1>3, NoOverrun
  <2>2. rabbit.mon \in Monitors BY <1>0, Typed DEF Working
  <2> DEFINE i == QueuedIndex
  <2>3. tx' = TxAfter(Monitors, i, logT.ev) BY <1>3
  <2> HIDE DEF i
  <2>4. \/ k \in 1..Len(tx[rabbit.mon]) /\ tx'[rabbit.mon][k] = tx[rabbit.mon][k]
        \/ tx'[rabbit.mon][k] = [index |-> i, ev |-> logT.ev]
    BY <1>0, <2>1, <2>2, <2>3, TxAfterEnd
  <2>5. s # logT.slot
    <3>1. Age(wrptr, logT.slot) = 1 BY <1>0, <1>1 DEF Ctx, Hand, Writing
    <3>2. Age(wrptr, rabbit.slot) = rabbit.left + rabbit.pace /\ rabbit.pace >= 1
      <4>1. Unmoved = 0 /\ InHand BY <1>1 DEF Unmoved, Writing, InHand
      <4>2. Age(wrptr, rabbit.slot) + Unmoved = rabbit.left + rabbit.pace /\ rabbit.pace >= 1
        BY <1>0, <4>1 DEF Ctx, Reloading
      <4>3. Age(wrptr, rabbit.slot) \in Nat BY <1>0, AgeFacts
      <4> QED BY <4>1, <4>2, <4>3
    <3>3. Age(wrptr, s) > Age(wrptr, rabbit.slot) - rabbit.left BY DEF Ahead
    <3>4. Age(wrptr, s) \in Nat BY <1>0, AgeFacts
    <3>5. Age(wrptr, s) # 1 BY <1>0, <3>2, <3>3, <3>4
    <3> QED BY <3>1, <3>5
  <2>6. flash[s].ev # logT.ev
    <3>1. Ok(logT.slot) /\ flash[logT.slot].ev = logT.ev BY <1>0, <1>1 DEF Ctx, Hand
    <3> QED BY <1>0, <2>5, <3>1 DEF Ctx, Records
  <2>7. CASE k \in 1..Len(tx[rabbit.mon]) /\ tx'[rabbit.mon][k] = tx[rabbit.mon][k]
    BY <1>0, <2>7 DEF NotYet
  <2>8. CASE tx'[rabbit.mon][k] = [index |-> i, ev |-> logT.ev] BY <2>6, <2>8
  <2> QED BY <2>4, <2>7, <2>8
<1> QED BY <1>0, <1>2, <1>3, DeliverEffect

LEMMA RestNotYet ==
  ASSUME Clean, NoneOf(FaultKinds)', DeliverRest
  PROVE  NotYet'
<1>0. TypeInv /\ Ctx /\ NotYet BY DEF Clean, Faultless, Ctx
<1>1. /\ UNCHANGED <<flash, wrptr, rabbit>> /\ logT.ev \in Held
      /\ tx' = TxAfter(Monitors \ {MacroMon}, logT.index, logT.ev)
      /\ faults' = faults \cup IF Overruns(Monitors \ {MacroMon}, logT.ev) THEN {"overrun"} ELSE {}
  BY <1>0, RestEffect
<1> SUFFICES ASSUME rabbit.pc = "reload", NEW s \in Slots, Ok(s), flash[s].ev \notin Held, Ahead(s),
                    NEW k \in 1..Len(tx'[rabbit.mon])
             PROVE  tx'[rabbit.mon][k].ev # flash[s].ev
  BY <1>1 DEF NotYet, Ok, Ahead
<1>2. ~Overruns(Monitors \ {MacroMon}, logT.ev) BY <1>1, NoOverrun
<1>3. rabbit.mon \in Monitors BY <1>0, Typed DEF Working
<1>4. \/ k \in 1..Len(tx[rabbit.mon]) /\ tx'[rabbit.mon][k] = tx[rabbit.mon][k]
      \/ tx'[rabbit.mon][k] = [index |-> logT.index, ev |-> logT.ev]
  <2> DEFINE m == rabbit.mon
             S == Monitors \ {MacroMon}
             i == logT.index
             e == logT.ev
  <2>1. TypeInv /\ tx' = TxAfter(S, i, e) /\ ~Overruns(S, e) BY <1>0, <1>1, <1>2
  <2>2. m \in Monitors /\ k \in 1..Len(tx'[m]) BY <1>3
  <2> HIDE DEF m, S, i, e
  <2>3. \/ k \in 1..Len(tx[m]) /\ tx'[m][k] = tx[m][k]
        \/ tx'[m][k] = [index |-> i, ev |-> e]
    BY <2>1, <2>2, TxAfterEnd
  <2> QED BY <2>3 DEF m, i, e
<1>5. CASE k \in 1..Len(tx[rabbit.mon]) /\ tx'[rabbit.mon][k] = tx[rabbit.mon][k]
  BY <1>0, <1>5 DEF NotYet
<1>6. CASE tx'[rabbit.mon][k] = [index |-> logT.index, ev |-> logT.ev] BY <1>1, <1>6
<1> QED BY <1>4, <1>5, <1>6

LEMMA ReloadNotYet ==
  ASSUME Clean, NoneOf(FaultKinds)', ReloadSlot
  PROVE  NotYet'
<1>0. /\ TypeInv /\ Ctx /\ NotYet /\ wrptr \in Slots
      /\ rabbit.slot \in Slots /\ rabbit.left \in Nat /\ rabbit.pace \in Nat
  BY Typed DEF Clean, Faultless, Ctx
<1>1. wrptr' = wrptr /\ SameRecords /\ rabbit.mon \in Monitors /\ rabbit.pc = "reload"
  BY <1>0, ReloadSlotEffect
<1> SUFFICES ASSUME rabbit'.pc = "reload", NEW s \in Slots, Ok(s)', flash'[s].ev \notin Held, Ahead(s)',
                    NEW k \in 1..Len(tx'[rabbit'.mon])
             PROVE  tx'[rabbit'.mon][k].ev # flash'[s].ev
  BY DEF NotYet
<1>2. /\ rabbit.left >= 2 /\ rabbit'.slot = SlotInc(rabbit.slot)
      /\ rabbit'.left = rabbit.left - 1 /\ rabbit'.mon = rabbit.mon
  BY <1>0, ReloadSlotEffect
<1>3. Ok(s) /\ flash'[s].ev = flash[s].ev BY <1>1 DEF SameRecords, Ok
<1>4. Age(wrptr, s) \in Nat /\ Age(wrptr, rabbit.slot) \in Nat BY <1>0, AgeFacts
<1>5. Age(wrptr, SlotInc(rabbit.slot)) = Age(wrptr, rabbit.slot) - 1
  <2>1. Age(wrptr, rabbit.slot) + Unmoved = rabbit.left + rabbit.pace
    BY <1>0, <1>1 DEF Ctx, Reloading
  <2>2. Unmoved \in {0, 1} /\ (Unmoved = 1 => rabbit.pace >= 1)
    BY <1>0, <1>1 DEF Unmoved, Writing, Ctx, Reloading, InHand
  <2>3. Age(wrptr, rabbit.slot) >= 2 BY <1>0, <1>2, <1>4, <2>1, <2>2
  <2> QED BY <1>0, <2>3, AgeOfNext
<1>6. Ahead(s) /\ s # rabbit.slot
  <2>1. /\ Age(wrptr, s) <= Age(wrptr, SlotInc(rabbit.slot))
        /\ Age(wrptr, s) > Age(wrptr, SlotInc(rabbit.slot)) - (rabbit.left - 1)
    BY <1>1, <1>2 DEF Ahead
  <2>2. /\ Age(wrptr, s) < Age(wrptr, rabbit.slot)
        /\ Age(wrptr, s) > Age(wrptr, rabbit.slot) - rabbit.left
    BY <1>0, <1>4, <1>5, <2>1
  <2> QED BY <1>0, <1>4, <2>2 DEF Ahead
<1>7. \A j \in 1..Len(tx[rabbit.mon]) : tx[rabbit.mon][j].ev # flash[s].ev
  BY <1>0, <1>1, <1>3, <1>6 DEF NotYet
<1>8. CASE tx' = tx BY <1>2, <1>3, <1>7, <1>8
<1>9. CASE /\ Reloadable(rabbit.mon, flash[rabbit.slot])
           /\ tx' = TxAfter({rabbit.mon}, flash[rabbit.slot].index, flash[rabbit.slot].ev)
           /\ faults' = faults \cup IF Overruns({rabbit.mon}, flash[rabbit.slot].ev)
                                    THEN {"overrun"} ELSE {}
  <2> DEFINE e == flash[rabbit.slot].ev
             i == flash[rabbit.slot].index
  <2>1. ~Overruns({rabbit.mon}, e) BY <1>9, NoOverrun
  <2>2. flash[s].ev # e
    <3>1. Ok(rabbit.slot) BY <1>9 DEF Reloadable, Ok
    <3> QED BY <1>0, <1>3, <1>6, <3>1 DEF Ctx, Records
  <2>3. tx' = TxAfter({rabbit.mon}, i, e) BY <1>9
  <2> HIDE DEF e, i
  <2>4. k \in 1..Len(tx'[rabbit.mon]) BY <1>2
  <2>5. \/ k \in 1..Len(tx[rabbit.mon]) /\ tx'[rabbit.mon][k] = tx[rabbit.mon][k]
        \/ tx'[rabbit.mon][k] = [index |-> i, ev |-> e]
    <3> DEFINE m == rabbit.mon
               S == {rabbit.mon}
    <3>1. TypeInv /\ tx' = TxAfter(S, i, e) /\ ~Overruns(S, e) BY <1>0, <2>1, <2>3
    <3>2. m \in Monitors /\ k \in 1..Len(tx'[m]) BY <1>1, <2>4
    <3> HIDE DEF m, S
    <3>3. \/ k \in 1..Len(tx[m]) /\ tx'[m][k] = tx[m][k]
          \/ tx'[m][k] = [index |-> i, ev |-> e]
      BY <3>1, <3>2, TxAfterEnd
    <3> QED BY <3>3 DEF m
  <2>6. CASE k \in 1..Len(tx[rabbit.mon]) /\ tx'[rabbit.mon][k] = tx[rabbit.mon][k]
    BY <1>2, <1>3, <1>7, <2>6
  <2>7. CASE tx'[rabbit.mon][k] = [index |-> i, ev |-> e] BY <1>2, <1>3, <2>2, <2>7
  <2> QED BY <2>5, <2>6, <2>7
<1> QED BY <1>0, <1>8, <1>9, ReloadSlotEffect

LEMMA NotYetStep ==
  ASSUME Clean, NoneOf(FaultKinds)', [Next]_vars
  PROVE  NotYet'
<1>0. TypeInv /\ Ctx /\ NotYet /\ Sound' /\ ~Crash BY NoFault DEF Clean, Faultless, Ctx
<1> HIDE DEF Clean
<1>1. (flash' = flash) => \A s \in Slots : Ok(s)' => Ok(s) /\ flash'[s].ev = flash[s].ev
  BY DEF Ok
<1>2. SameRecords => \A s \in Slots : Ok(s)' => Ok(s) /\ flash'[s].ev = flash[s].ev
  BY DEF Ok, SameRecords
<1>3. CASE logCidEvent BY <1>0, <1>1, <1>3, NotYetFrame DEF logCidEvent, pointers
<1>4. CASE StoreRecord BY <1>0, <1>4, StoreNotYet
<1>5. CASE RewriteRecord \/ DeliverUnstored BY <1>0, <1>5, NoRewrite
<1>6. CASE AdvancePointers BY <1>6, AdvanceNotYet
<1>7. CASE SaveIndex BY <1>0, <1>1, <1>7, NotYetFrame DEF SaveIndex, pointers
<1>8. CASE Deliver BY <1>8, DeliverNotYet
<1>9. CASE HoldEvent BY <1>0, <1>2, <1>9, HoldEffect, NotYetFrame
<1>10. CASE DeliverRest BY <1>10, RestNotYet
<1>11. ASSUME NEW m \in Monitors, ReadOutEvent(m) PROVE NotYet'
  <2>1. rabbit'.pc # "reload" BY <1>11 DEF ReadOutEvent
  <2> QED BY <2>1 DEF NotYet
<1>12. ASSUME NEW m \in Monitors, ReloadUnAckEvents25(m) PROVE NotYet'
  <2>1. rabbit'.mon = m /\ tx'[m] = <<>> BY <1>12 DEF ReloadUnAckEvents25
  <2>2. Len(<<>>) = 0 OBVIOUS
  <2> QED BY <2>1, <2>2 DEF NotYet
<1>13. CASE TagEvent
  <2>1. rabbit'.pc = "idle" BY <1>13 DEF TagEvent, Idle
  <2> QED BY <2>1 DEF NotYet
<1>14. CASE ReloadSlot BY <1>14, ReloadNotYet
<1>15. CASE FormatEventFlash \/ FormatSaveIndex
  BY <1>0, <1>1, <1>15, NotYetFrame DEF FormatEventFlash, FormatSaveIndex, pointers
<1>16. CASE EraseSlots
  <2>1. PICK k \in (format.done + 1)..(DF_MAXEVENTS - 1) : EraseTo(k) BY <1>16 DEF EraseSlots
  <2>0. format.done \in Nat BY <1>0, Typed DEF FormatType
  <2>2. k \in Nat BY <2>0, <2>1, ConstantTypes
  <2>3. \A s \in Slots : flash'[s] = flash[s] \/ flash'[s].st = "erased"
    BY <1>0, <2>1, <2>2, EraseEffect
  <2>4. \A s \in Slots : Ok(s)' => Ok(s) /\ flash'[s].ev = flash[s].ev BY <2>3 DEF Ok
  <2> QED BY <1>0, <1>16, <2>4, NotYetFrame DEF EraseSlots, pointers
<1>17. CASE EraseRest
  <2>1. rabbit'.pc = "idle" BY <1>0, <1>17, EraseRestEffect
  <2> QED BY <2>1 DEF NotYet
<1>18. CASE UNCHANGED vars BY <1>0, <1>1, <1>18, NotYetFrame DEF vars, pointers
<1> QED
  BY <1>0, <1>3, <1>4, <1>5, <1>6, <1>7, <1>8, <1>9, <1>10, <1>11, <1>12, <1>13, <1>14,
     <1>15, <1>16, <1>17, <1>18
  DEF Next, LogTStep, FormatStep

LEMMA ResendStep ==
  ASSUME HeldFit, TypeInv, Queued, SoundInv, IndexInv, ResendInv, [Next]_vars
  PROVE  ResendInv'
<1> SUFFICES ASSUME NoneOf(FaultKinds)' PROVE (Dense /\ AllMarked /\ Past /\ Once /\ NotYet)'
  BY DEF ResendInv
<1>1. NoneOf(FaultKinds) /\ ~Corrupted /\ Sound BY NoFault
<1>2. Faultless BY <1>1 DEF IndexInv, SoundInv, Ctx, Faultless
<1>3. Clean BY <1>1, <1>2 DEF ResendInv, Clean
<1> QED BY <1>3, DenseStep, AllMarkedStep, PastStep, OnceStep, NotYetStep

LEMMA InitResend == Init => ResendInv
<1> SUFFICES ASSUME Init PROVE Dense /\ AllMarked /\ Past /\ Once /\ NotYet BY DEF ResendInv
<1>1. \A s \in Slots : flash[s].st = "erased" BY DEF Init, Blank
<1>2. logT.pc = "poll" /\ rabbit.pc = "idle" BY DEF Init, Polling, Idle
<1>3. \A m \in Monitors : acked[m] = {} /\ \A k \in 1..Len(tx[m]) : FALSE
  <2>1. \A m \in Monitors : Len(tx[m]) = 0 BY DEF Init
  <2> QED BY <2>1 DEF Init
<1>4. Dense /\ AllMarked BY <1>1 DEF Dense, AllMarked, Ok
<1>5. Past BY <1>2, <1>3 DEF Past, Holding
<1>6. Once /\ NotYet BY <1>2, <1>3 DEF Once, NotYet
<1> QED BY <1>4, <1>5, <1>6

-----------------------------------------------------------------------------
(* What follows.                                                           *)

LEMMA InvHolds == ASSUME HeldFit PROVE Spec => [](TypeInv /\ Inv)
<1>1. Init => TypeInv /\ Inv
  BY InitTypeInv, InitQueued, InitSound, InitIndex, InitResend DEF Inv
<1>2. TypeInv /\ Inv /\ [Next]_vars => (TypeInv /\ Inv)'
  <2> SUFFICES ASSUME TypeInv, Inv, [Next]_vars PROVE TypeInv' /\ Inv' OBVIOUS
  <2>1. TypeInv' BY NextTypeInv
  <2>2. Queued' BY NextQueued DEF Inv
  <2>3. SoundInv' BY SoundStep DEF Inv
  <2>4. IndexInv' BY IndexStep DEF Inv
  <2>5. ResendInv' BY ResendStep DEF Inv
  <2> QED BY <2>1, <2>2, <2>3, <2>4, <2>5 DEF Inv
<1> QED BY <1>1, <1>2, PTL DEF Spec

(***************************************************************************)
(* No mark of a station is ever put on another event than the one that the *)
(* station acknowledged: for a ring that is long enough, and until a write *)
(* fails, power is lost between the two counters, or a format meets work.  *)
(***************************************************************************)
THEOREM TagSoundCorrect == ASSUME HeldFit PROVE Spec => []TagSound
<1>1. Inv => TagSound BY DEF Inv, IndexInv, Marked, TagSound
<1> QED BY <1>1, InvHolds, PTL

(***************************************************************************)
(* The sixteen-bit indices of the records of the ring all differ, across   *)
(* restarts, clean formats and any number of turns of the ring and of the  *)
(* index: the search by index cannot take one record for another.          *)
(***************************************************************************)
THEOREM IndexUniqueCorrect == ASSUME HeldFit PROVE Spec => []IndexUnique
<1>1. TypeInv /\ Inv => IndexUnique
  <2> SUFFICES ASSUME TypeInv, Inv, ~Corrupted, NEW s \in Slots, NEW t \in Slots,
                      Ok(s), Ok(t), s # t
               PROVE  flash[s].index # flash[t].index
    BY DEF IndexUnique, Ok
  <2>1. Indexed BY DEF Inv, IndexInv
  <2> QED BY <2>1, OneIndex
<1> QED BY <1>1, InvHolds, PTL

(***************************************************************************)
(* Whenever power is lost, but between the two writes of Set_evwrptr, the  *)
(* saved position and index lead back to the newest record.                *)
(***************************************************************************)
THEOREM RestartContinuesCorrect == ASSUME HeldFit PROVE Spec => []RestartContinues
<1>1. TypeInv /\ Inv => RestartContinues
  <2> SUFFICES ASSUME TypeInv, Inv, ~Corrupted, logT.pc # "index",
                      flash[Back(savedWrptr, 0)].st = "ok"
               PROVE  IndexInc(flash[Back(savedWrptr, 0)].index) = savedIndex
    BY DEF RestartContinues
  <2> DEFINE s == Back(wrptr, 0)
  <2>1. Indexed /\ savedWrptr = wrptr BY DEF Inv, IndexInv, Queued
  <2>2. wrptr \in Slots /\ 0 \in Slots /\ eventIndex \in 0..(IndexTop - 1)
    BY Typed, ConstantTypes DEF Slots
  <2>3. s \in Slots /\ Age(wrptr, s) = 1
    <3>1. Age(wrptr, s) = 0 + 1 BY <2>2, AgeFacts
    <3>2. s \in Slots BY <2>2, RingArithmetic
    <3> QED BY <3>1, <3>2
  <2>4. s # wrptr BY <2>2, <2>3, AgeFacts, ConstantTypes
  <2>5. Ok(s) BY <2>1 DEF Ok
  <2> HIDE DEF s
  <2>6. flash[s].index = Minus(eventIndex, 1) BY <2>1, <2>3, <2>4, <2>5 DEF Indexed
  <2>7. ~Empty BY <2>3, <2>4, <2>5 DEF Empty
  <2>8. savedIndex = eventIndex BY <2>1, <2>7 DEF Indexed
  <2>9. IndexInc(Minus(eventIndex, 1)) = eventIndex BY <2>2, MinusFacts
  <2> QED BY <2>1, <2>6, <2>8, <2>9 DEF s
<1> QED BY <1>1, InvHolds, PTL

(***************************************************************************)
(* LogT_Task and the reload after an idle heartbeat, run side by side in   *)
(* any order, queue no event twice for a station and none again that it    *)
(* has acknowledged, as long as no fault at all strikes.                   *)
(***************************************************************************)
THEOREM NoResendCorrect == ASSUME HeldFit PROVE Spec => []NoResend
<1>1. TypeInv /\ Inv => NoResend
  <2> SUFFICES ASSUME TypeInv, Once PROVE NoResend BY DEF Inv, ResendInv, NoResend
  <2>1. \A m \in Monitors : DOMAIN tx[m] = 1..Len(tx[m]) BY EntryType
  <2> QED BY <2>1 DEF Once, NoResend
<1> QED BY <1>1, InvHolds, PTL

(***************************************************************************)
(* No step takes back a mark: neither LogT_Task, which marks held events   *)
(* between the read and the write of another mark, nor a mark written late *)
(* over a slot that has a new record.                                      *)
(***************************************************************************)
THEOREM TagsKeptCorrect == ASSUME HeldFit PROVE Spec => TagsKept
<1>1. TypeInv /\ Inv /\ [Next]_vars => [KeepsTags]_vars BY KeepsTagsStep
<1> QED BY <1>1, InvHolds, PTL DEF Spec, TagsKept

(***************************************************************************)
(* Walking back from the write position the events get older, whatever     *)
(* restarts, wraps of the index and overruns of the transmit rings there   *)
(* were, until a write of the flash fails or the ring is formatted.        *)
(***************************************************************************)
THEOREM LogInOrderCorrect == ASSUME HeldFit PROVE Spec => []LogInOrder
<1>1. TypeInv /\ Inv => LogInOrder
  <2> SUFFICES ASSUME TypeInv, Inv, NoneOf({"format", "badWrite"}),
                      NEW j \in 0..(DF_MAXEVENTS - 2), NEW k \in 0..(DF_MAXEVENTS - 2),
                      j < k, Ok(Back(wrptr, j)), Ok(Back(wrptr, k))
               PROVE  flash[Back(wrptr, k)].ev < flash[Back(wrptr, j)].ev
    BY DEF LogInOrder, Ok
  <2>1. Records BY DEF Inv, SoundInv, Sound, NoneOf
  <2>2. wrptr \in Slots /\ j \in Slots /\ k \in Slots BY Typed, ConstantTypes DEF Slots
  <2>3. /\ Back(wrptr, j) \in Slots /\ Age(wrptr, Back(wrptr, j)) = j + 1
        /\ Back(wrptr, k) \in Slots /\ Age(wrptr, Back(wrptr, k)) = k + 1
    BY <2>2, RingArithmetic, AgeFacts
  <2>4. Back(wrptr, k) # wrptr
    <3>1. Age(wrptr, wrptr) = DF_MAXEVENTS BY <2>2, AgeFacts
    <3> QED BY <2>3, <3>1, ConstantTypes
  <2>5. Age(wrptr, Back(wrptr, j)) < Age(wrptr, Back(wrptr, k)) BY <2>3
  <2> QED BY <2>1, <2>3, <2>4, <2>5 DEF Records
<1> QED BY <1>1, InvHolds, PTL

-----------------------------------------------------------------------------
(***************************************************************************)
(* Every step of EventFlash is a step of EventJournal or leaves the        *)
(* journal as it is, for rings of any size and any number of stations, as  *)
(* long as no write fails and the ring is not formatted.                   *)
(***************************************************************************)

(***************************************************************************)
(* The log has no hole, whatever restarts there were: what a power loss    *)
(* gave up lies at the write position, and the next record replaces it.    *)
(***************************************************************************)
Solid ==
  /\ format.pc = "idle"
  /\ Sound => \A s, t \in Slots :
       Age(wrptr, s) < Age(wrptr, t) /\ t # wrptr /\ Ok(t) => Ok(s)

\* The record that RabbitTask is about to mark is as it read it.
Fresh == rabbit.pc = "tag" => flash[rabbit.slot] = rabbit.rec

\* No station in use runs in MACROMODE, or it has nothing to hold.
NobodyHolds == MacroMon \notin Monitors \/ Held = {}

\* What the journal keeps of slot s.
Entry(s) == [ev |-> flash[s].ev, ack |-> flash[s].ack]

JournalStep == Journal!Next \/ UNCHANGED Journal!vars

-----------------------------------------------------------------------------
(* The log has no hole.                                                    *)

LEMMA NoFormats ==
  ASSUME MaxFormats = 0, TypeInv, [Next]_vars, format.pc = "idle"
  PROVE  format'.pc = "idle" /\ ~FormatEventFlash /\ ~FormatStep
<1>1. ~FormatStep BY DEF FormatStep, EraseSlots, EraseRest, FormatSaveIndex
<1>2. ~FormatEventFlash
  <2>1. spent["format"] \in Nat BY DEF TypeInv, TypeOK, Inputs
  <2> QED BY <2>1 DEF FormatEventFlash
<1> SUFFICES format'.pc = "idle" BY <1>1, <1>2
<1>3. CASE UNCHANGED vars BY <1>3 DEF vars
<1>4. CASE logCidEvent \/ Crash BY <1>4 DEF logCidEvent, Crash, NoFormat
<1>5. CASE LogTStep
  BY <1>5 DEF LogTStep, StoreRecord, RewriteRecord, AdvancePointers, SaveIndex, Deliver,
              DeliverUnstored, HoldEvent, DeliverRest
<1>6. CASE \E m \in Monitors : ReadOutEvent(m) \/ ReloadUnAckEvents25(m)
  BY <1>6 DEF ReadOutEvent, ReloadUnAckEvents25
<1>7. CASE TagEvent \/ ReloadSlot BY <1>7 DEF TagEvent, ReloadSlot
<1> QED BY <1>1, <1>2, <1>3, <1>4, <1>5, <1>6, <1>7 DEF Next

LEMMA AdvanceSolid ==
  ASSUME Ctx, AdvancePointers, Solid,
         NEW s \in Slots, NEW t \in Slots, Age(wrptr', s) < Age(wrptr', t), Ok(t)
  PROVE  Ok(s)
<1>0. wrptr \in Slots BY Typed DEF Ctx
<1>1. wrptr' = SlotInc(wrptr) /\ Ok(wrptr) BY AdvanceEffect DEF Written, Ok
<1>2. Age(wrptr, s) \in Nat /\ 1 <= Age(wrptr, s) /\ Age(wrptr, t) \in Nat BY <1>0, AgeFacts
<1>3. /\ Age(wrptr', s) = IF s = wrptr THEN 1 ELSE Age(wrptr, s) + 1
      /\ Age(wrptr', t) = IF t = wrptr THEN 1 ELSE Age(wrptr, t) + 1
  BY <1>0, <1>1, AgeAdvances
<1>4. t # wrptr BY <1>2, <1>3
<1>5. CASE s = wrptr BY <1>1, <1>5
<1>6. CASE s # wrptr
  <2>1. Age(wrptr, s) < Age(wrptr, t) BY <1>2, <1>3, <1>4, <1>6
  <2> QED BY <1>4, <2>1 DEF Solid, Ctx
<1> QED BY <1>5, <1>6

LEMMA StoreSolid ==
  ASSUME Ctx, Sound', StoreRecord, Solid,
         NEW s \in Slots, NEW t \in Slots, Age(wrptr, s) < Age(wrptr, t), t # wrptr, Ok(t)'
  PROVE  Ok(s)'
<1>0. wrptr \in Slots BY Typed DEF Ctx
<1>1. \A r \in Slots : r # wrptr => flash'[r] = flash[r] BY StoreEffect
<1>2. /\ Age(wrptr, s) \in Nat /\ Age(wrptr, t) \in Nat /\ Age(wrptr, t) <= DF_MAXEVENTS
      /\ Age(wrptr, wrptr) = DF_MAXEVENTS
  BY <1>0, AgeFacts
<1>3. s # wrptr BY <1>2, ConstantTypes
<1> QED BY <1>1, <1>3 DEF Solid, Ctx, Ok

\* Steps that move no record.
LEMMA SolidFrame ==
  ASSUME Solid, Sound, SameRecords, wrptr' = wrptr,
         NEW s \in Slots, NEW t \in Slots, Age(wrptr', s) < Age(wrptr', t), t # wrptr', Ok(t)'
  PROVE  Ok(s)'
  BY DEF Solid, SameRecords, Ok

LEMMA SolidStep ==
  ASSUME MaxFormats = 0, HeldFit, TypeInv, Inv, Solid, [Next]_vars
  PROVE  Solid'
<1>1. format.pc = "idle" /\ format'.pc = "idle" /\ ~FormatEventFlash /\ ~FormatStep
  BY NoFormats DEF Solid
<1> SUFFICES ASSUME Sound', NEW s \in Slots, NEW t \in Slots,
                    Age(wrptr', s) < Age(wrptr', t), t # wrptr', Ok(t)'
             PROVE  Ok(s)'
  BY <1>1 DEF Solid
<1>2. Sound BY SoundGrows DEF Sound
<1>3. Ctx BY <1>2 DEF Inv, SoundInv, Ctx
<1>4. (flash' = flash) => SameRecords BY DEF SameRecords
<1> HIDE DEF Ctx
<1>5. CASE StoreRecord
  <2>1. wrptr' = wrptr BY <1>3, <1>5, StoreEffect
  <2> QED BY <1>3, <1>5, <2>1, StoreSolid
<1>6. CASE AdvancePointers
  <2>1. flash' = flash BY <1>6 DEF AdvancePointers
  <2>2. Ok(s)' = Ok(s) /\ Ok(t)' = Ok(t) BY <2>1 DEF Ok
  <2> QED BY <1>3, <1>6, <2>2, AdvanceSolid
<1>7. CASE RewriteRecord \/ DeliverUnstored BY <1>3, <1>7, NoRewrite
<1>8. CASE SaveIndex \/ Deliver \/ DeliverRest
  <2>1. flash' = flash /\ wrptr' = wrptr BY <1>8 DEF SaveIndex, Deliver, DeliverRest, pointers
  <2> QED BY <1>2, <1>4, <2>1, SolidFrame
<1>9. CASE logCidEvent \/ UNCHANGED vars
  <2>1. flash' = flash /\ wrptr' = wrptr BY <1>9 DEF logCidEvent, vars, pointers
  <2> QED BY <1>2, <1>4, <2>1, SolidFrame
<1>10. CASE HoldEvent
  <2>1. SameRecords /\ wrptr' = wrptr BY <1>3, <1>10, HoldEffect
  <2> QED BY <1>2, <2>1, SolidFrame
<1>11. ASSUME NEW m \in Monitors, ReadOutEvent(m) \/ ReloadUnAckEvents25(m) PROVE Ok(s)'
  <2>1. flash' = flash /\ wrptr' = wrptr
    BY <1>11 DEF ReadOutEvent, ReloadUnAckEvents25, pointers
  <2> QED BY <1>2, <1>4, <2>1, SolidFrame
<1>12. CASE TagEvent
  <2>1. SameRecords /\ wrptr' = wrptr BY <1>3, <1>12, TagEffect
  <2> QED BY <1>2, <2>1, SolidFrame
<1>13. CASE ReloadSlot
  <2>1. SameRecords /\ wrptr' = wrptr BY <1>3, <1>13, ReloadSlotEffect
  <2> QED BY <1>2, <2>1, SolidFrame
<1>14. CASE Crash
  <2>1. flash' = flash /\ wrptr' = wrptr BY <1>3, <1>14, CrashEffect DEF Ctx
  <2> QED BY <1>2, <1>4, <2>1, SolidFrame
<1> QED
  BY <1>1, <1>5, <1>6, <1>7, <1>8, <1>9, <1>10, <1>11, <1>12, <1>13, <1>14 DEF Next, LogTStep

-----------------------------------------------------------------------------
(* The journal.                                                            *)

LEMMA KeptFacts ==
  /\ \A r : r \in Kept <=> \E s \in Slots : s # wrptr /\ Ok(s) /\ r = Entry(s)
  /\ \A s : s \in KeptSlots <=> s \in Slots /\ s # wrptr /\ Ok(s)
  BY DEF Kept, KeptSlots, Entry, Ok

\* Nothing that the journal speaks of changes.
LEMMA Stutter ==
  ASSUME UNCHANGED <<flash, wrptr, logged>>, Waiting' = Waiting,
         spent'["badWrite"] = spent["badWrite"]
  PROVE  JournalStep
<1>1. Kept' = Kept BY DEF Kept, KeptSlots
<1> QED BY <1>1 DEF JournalStep, Journal!vars

\* One station marks one record, or has marked it before.
LEMMA MarkOne ==
  ASSUME Ctx, NEW s \in Slots, NEW m \in Monitors,
         SameRecords, \A t \in Slots : t # s => flash'[t] = flash[t],
         flash'[s].ack \in {flash[s].ack, flash[s].ack \cup {m}},
         UNCHANGED <<wrptr, logged>>, Waiting' = Waiting,
         spent'["badWrite"] = spent["badWrite"]
  PROVE  JournalStep
<1>1. \A t \in Slots : Ok(t)' = Ok(t) BY DEF Ok, SameRecords
<1>2. \A t \in Slots : t # s => Entry(t)' = Entry(t) BY DEF Entry
<1>3. KeptSlots' = KeptSlots BY <1>1 DEF KeptSlots, Ok
<1>4. CASE s = wrptr \/ ~Ok(s) \/ flash'[s].ack = flash[s].ack
  <2>1. \A t \in KeptSlots : Entry(t)' = Entry(t)
    BY <1>2, <1>4 DEF KeptSlots, Ok, Entry, SameRecords
  <2>2. Kept' = {Entry(t)' : t \in KeptSlots} BY <1>3 DEF Kept, Entry
  <2>3. Kept = {Entry(t) : t \in KeptSlots} BY DEF Kept, Entry
  <2>4. Kept' = Kept
    <3> HIDE DEF Entry, KeptSlots
    <3> QED BY <2>1, <2>2, <2>3
  <2> QED BY <2>4 DEF JournalStep, Journal!vars
<1>5. CASE s # wrptr /\ Ok(s) /\ flash'[s].ack = flash[s].ack \cup {m}
  <2>1. s \in KeptSlots /\ Entry(s) \in Kept BY <1>5 DEF Kept, KeptSlots, Ok, Entry
  <2>2. Entry(s)' = [Entry(s) EXCEPT !.ack = @ \cup {m}]
    <3>1. flash'[s].ev = flash[s].ev BY DEF SameRecords
    <3>2. Entry(s)' = [ev |-> flash[s].ev, ack |-> flash[s].ack \cup {m}] BY <1>5, <3>1 DEF Entry
    <3> QED BY <3>2 DEF Entry
  <2>3. \A t \in KeptSlots : t # s => Entry(t) # Entry(s)
    <3>1. \A t \in KeptSlots : t # s => flash[t].ev # flash[s].ev
      BY <1>5 DEF KeptSlots, Ok, Ctx, Records
    <3> QED BY <3>1 DEF Entry
  <2>4. Kept = {Entry(t) : t \in KeptSlots} /\ Kept' = {Entry(t)' : t \in KeptSlots}
    BY <1>3 DEF Kept, Entry
  <2>5. \A t \in KeptSlots : t # s => Entry(t)' = Entry(t) BY <1>2 DEF KeptSlots
  <2> HIDE DEF Kept, KeptSlots, Entry
  <2>6. Kept' = (Kept \ {Entry(s)}) \cup {Entry(s)'}
    BY <2>1, <2>3, <2>4, <2>5
  <2>7. Journal!Mark BY <2>1, <2>2, <2>6 DEF Journal!Mark
  <2> QED BY <2>7 DEF JournalStep, Journal!Next
<1> QED BY <1>4, <1>5

-----------------------------------------------------------------------------
(* AdvancePointers keeps an event, and lets the oldest go from a full log. *)

LEMMA ImageCount ==
  ASSUME NEW S, IsFiniteSet(S), NEW f, NEW T, f \in [S -> T], T = {f[x] : x \in S}
  PROVE  /\ IsFiniteSet(T) /\ Cardinality(T) <= Cardinality(S)
         /\ (\A x, y \in S : f[x] = f[y] => x = y) => Cardinality(T) = Cardinality(S)
<1>1. f \in Surjection(S, T) BY DEF Surjection
<1>2. (\A x, y \in S : f[x] = f[y] => x = y) => f \in Injection(S, T)
  BY DEF Injection, IsInjective
<1> QED BY <1>1, <1>2, FS_Surjection

LEMMA SlotCount ==
  ASSUME NEW w \in Slots
  PROVE  IsFiniteSet(Slots \ {w}) /\ Cardinality(Slots \ {w}) = DF_MAXEVENTS - 1
<1>1. IsFiniteSet(Slots) /\ Cardinality(Slots) = DF_MAXEVENTS
  <2>1. 0 \in Int /\ DF_MAXEVENTS - 1 \in Int /\ ~(0 > DF_MAXEVENTS - 1) BY ConstantTypes
  <2>2. IsFiniteSet(0..(DF_MAXEVENTS - 1))
        /\ Cardinality(0..(DF_MAXEVENTS - 1)) = (DF_MAXEVENTS - 1) - 0 + 1
    BY <2>1, FS_Interval
  <2> QED BY <2>2, ConstantTypes DEF Slots
<1> QED BY <1>1, FS_RemoveElement

\* Of at most as many slots as the journal has room for ...
LEMMA CountBound ==
  ASSUME NEW w \in Slots, NEW S \in SUBSET (Slots \ {w}), NEW f, NEW T,
         f \in [S -> T], T = {f[x] : x \in S}
  PROVE  Cardinality(T) <= DF_MAXEVENTS - 1
<1>1. IsFiniteSet(Slots \ {w}) /\ Cardinality(Slots \ {w}) = DF_MAXEVENTS - 1 BY SlotCount
<1>2. IsFiniteSet(S) /\ Cardinality(S) <= DF_MAXEVENTS - 1 BY <1>1, FS_Subset
<1>3. IsFiniteSet(T) /\ Cardinality(T) <= Cardinality(S) BY <1>2, ImageCount
<1>4. Cardinality(S) \in Nat /\ Cardinality(T) \in Nat BY <1>2, <1>3, FS_CardinalityType
<1> QED BY <1>2, <1>3, <1>4, ConstantTypes

\* ... and of exactly as many when every slot but that at the write position is used.
LEMMA FullCount ==
  ASSUME Ctx, KeptSlots = Slots \ {wrptr}
  PROVE  Cardinality(Kept) = DF_MAXEVENTS - 1
<1> DEFINE f == [s \in KeptSlots |-> Entry(s)]
<1>1. wrptr \in Slots BY Typed DEF Ctx
<1>2. IsFiniteSet(KeptSlots) /\ Cardinality(KeptSlots) = DF_MAXEVENTS - 1 BY <1>1, SlotCount
<1>3. f \in [KeptSlots -> Kept] /\ Kept = {f[s] : s \in KeptSlots} BY DEF Kept, Entry
<1>4. \A s, t \in KeptSlots : f[s] = f[t] => s = t
  <2>1. \A s, t \in KeptSlots : flash[s].ev = flash[t].ev => s = t
    BY DEF KeptSlots, Ctx, Records, Ok
  <2> QED BY <2>1 DEF Entry
<1> HIDE DEF f
<1> QED BY <1>2, <1>3, <1>4, ImageCount

LEMMA NextSlot ==
  ASSUME NEW w \in Slots
  PROVE  /\ SlotInc(w) \in Slots /\ SlotInc(w) # w /\ Age(w, SlotInc(w)) = DF_MAXEVENTS - 1
         /\ \A s \in Slots : s # w /\ s # SlotInc(w) => Age(w, s) < Age(w, SlotInc(w))
<1>1. SlotInc(w) \in Slots /\ SlotInc(w) # w /\ Age(w, SlotInc(w)) = DF_MAXEVENTS - 1
  BY ConstantTypes DEF SlotInc, Slots, Age
<1>2. ASSUME NEW s \in Slots, s # w, s # SlotInc(w) PROVE Age(w, s) < Age(w, SlotInc(w))
  <2>1. Age(w, s) \in Nat /\ Age(w, s) <= DF_MAXEVENTS /\ Age(w, s) # DF_MAXEVENTS
    BY <1>2, AgeFacts
  <2>2. Age(w, s) # Age(w, SlotInc(w)) BY <1>1, <1>2, AgeFacts
  <2> QED BY <1>1, <2>1, <2>2, ConstantTypes
<1> QED BY <1>1, <1>2

\* The slot at which the next record goes holds the oldest entry.
LEMMA OldestIsNext ==
  ASSUME Ctx, Ok(SlotInc(wrptr))
  PROVE  Journal!Oldest = {Entry(SlotInc(wrptr))}
<1> DEFINE n == SlotInc(wrptr)
<1>0. wrptr \in Slots /\ flash \in [Slots -> Record] BY Typed DEF Ctx
<1>1. n \in Slots /\ n # wrptr /\ \A s \in Slots : s # wrptr /\ s # n => Age(wrptr, s) < Age(wrptr, n)
  BY <1>0, NextSlot
<1>2. \A s \in Slots : flash[s].ev \in Nat BY <1>0, ConstantTypes DEF Record
<1>3. \A s \in KeptSlots : s # n => flash[n].ev < flash[s].ev
  BY <1>1 DEF KeptSlots, Ctx, Records, Ok
<1>4. n \in KeptSlots BY <1>1 DEF KeptSlots, Ok
<1> HIDE DEF n
<1>5. /\ \A r : r \in Kept <=> \E s \in KeptSlots : r = Entry(s)
      /\ \A s \in KeptSlots : Entry(s).ev = flash[s].ev /\ flash[s].ev \in Nat
  BY <1>2 DEF Kept, KeptSlots, Entry
<1>6. \A r \in Kept : Entry(n).ev <= r.ev /\ (r.ev <= Entry(n).ev => r = Entry(n))
  <2> SUFFICES ASSUME NEW s \in KeptSlots
               PROVE  /\ Entry(n).ev <= Entry(s).ev
                      /\ Entry(s).ev <= Entry(n).ev => Entry(s) = Entry(n)
    BY <1>5
  <2>1. CASE s = n BY <1>4, <1>5, <2>1
  <2>2. CASE s # n BY <1>3, <1>4, <1>5, <2>2
  <2> QED BY <2>1, <2>2
<1>7. Entry(n) \in Kept BY <1>4, <1>5
<1> QED BY <1>6, <1>7 DEF Journal!Oldest, n

\* With the slot before it in use the log is full.
LEMMA FullLog ==
  ASSUME Ctx, Solid, Ok(SlotInc(wrptr))
  PROVE  KeptSlots = Slots \ {wrptr}
<1>0. wrptr \in Slots BY Typed DEF Ctx
<1>1. /\ SlotInc(wrptr) \in Slots /\ SlotInc(wrptr) # wrptr
      /\ \A s \in Slots : s # wrptr /\ s # SlotInc(wrptr) => Age(wrptr, s) < Age(wrptr, SlotInc(wrptr))
  BY <1>0, NextSlot
<1>2. \A s \in Slots : s # wrptr => Ok(s) BY <1>1 DEF Solid, Ctx
<1> QED BY <1>2 DEF KeptSlots, Ok

\* The journal counts as this module does.
LEMMA SameCount == \A S : Journal!Cardinality(S) = Cardinality(S)
  BY DEF Journal!Cardinality, Cardinality

LEMMA AdvanceIsKeep ==
  ASSUME Ctx, Solid, AdvancePointers
  PROVE  Journal!Keep
<1> DEFINE n == SlotInc(wrptr)
           new == [ev |-> Head(queue), ack |-> {}]
<1>0. /\ TypeInv /\ wrptr \in Slots /\ queue \in Seq(Events) /\ queue # <<>>
      /\ flash \in [Slots -> Record]
  <2>1. logT.pc \in {"verify", "reverify"} BY DEF AdvancePointers
  <2> QED BY <2>1, Typed DEF Ctx, Working
<1>1. /\ Writing /\ logT.slot = wrptr /\ flash[wrptr] = Written /\ logT.ev = Taken + 1
      /\ logT'.pc = "index" /\ wrptr' = n /\ flash' = flash
  BY AdvanceEffect DEF Writing
<1>2. queue' = queue /\ logged' = logged /\ spent' = spent BY DEF AdvancePointers, history
<1>3. Head(queue) = Taken + 1
  <2>1. 1 \in 1..Len(queue) /\ Head(queue) = queue[1] BY <1>0
  <2> QED BY <2>1, <1>0, Typed DEF Ctx, Queued
<1>4. Waiting = queue /\ Waiting' = Tail(queue)
  BY <1>1, <1>2 DEF Waiting, Writing
<1>5. Ok(wrptr) /\ Entry(wrptr) = new BY <1>1, <1>3 DEF Written, Ok, Entry
<1>6. n \in Slots /\ n # wrptr BY <1>0, NextSlot
<1>7. /\ \A s : s \in KeptSlots <=> s \in Slots /\ s # wrptr /\ Ok(s)
      /\ \A s : s \in KeptSlots' <=> s \in Slots /\ s # n /\ Ok(s)
  BY <1>1 DEF KeptSlots, Ok
<1>8. Kept = {Entry(s) : s \in KeptSlots} /\ Kept' = {Entry(s) : s \in KeptSlots'}
  BY <1>1 DEF Kept, Entry
<1>9. \A r \in Kept : r.ev < Head(queue)
  <2>1. \A s \in KeptSlots : flash[s].ev <= Taken
    BY <1>1, <1>7 DEF Ctx, Records
  <2>2. \A s \in KeptSlots : flash[s].ev \in Nat
    BY <1>0, <1>7, ConstantTypes DEF Record
  <2>3. \A s \in KeptSlots : flash[s].ev < Taken + 1 BY <2>1, <2>2, Typed, <1>0
  <2> QED BY <1>3, <1>8, <2>3 DEF Entry
<1>10. Cardinality(Kept') <= DF_MAXEVENTS - 1
  <2> DEFINE f == [s \in KeptSlots' |-> Entry(s)]
  <2>1. f \in [KeptSlots' -> Kept'] /\ Kept' = {f[s] : s \in KeptSlots'} BY <1>8
  <2>2. KeptSlots' \in SUBSET (Slots \ {n}) BY <1>7
  <2> HIDE DEF f
  <2> QED BY <1>6, <2>1, <2>2, CountBound
<1>11. \E gone \in {{}, Journal!Oldest} :
         /\ gone # {} => Cardinality(Kept) + spent["badWrite"] >= DF_MAXEVENTS - 1
         /\ Kept' = (Kept \ gone) \cup {new}
         /\ Cardinality(Kept') <= DF_MAXEVENTS - 1
  <2>1. CASE Ok(n)
    <3>1. Journal!Oldest = {Entry(n)} BY <2>1, OldestIsNext
    <3>2. Cardinality(Kept) = DF_MAXEVENTS - 1 BY <2>1, FullLog, FullCount
    <3>3. spent["badWrite"] \in Nat BY <1>0 DEF TypeInv, TypeOK, Inputs
    <3>4. Cardinality(Kept) + spent["badWrite"] >= DF_MAXEVENTS - 1
      BY <3>2, <3>3, ConstantTypes
    <3>5. \A s \in KeptSlots : Entry(s) = Entry(n) => s = n
      <4>1. \A s \in KeptSlots : flash[s].ev = flash[n].ev => s = n
        BY <1>6, <1>7, <2>1 DEF Ctx, Records
      <4> QED BY <4>1 DEF Entry
    <3>6. n \in KeptSlots BY <1>6, <1>7, <2>1
    <3>7. \A s : s \in KeptSlots' <=> (s \in KeptSlots /\ s # n) \/ s = wrptr
      BY <1>0, <1>5, <1>6, <1>7
    <3> HIDE DEF n, new
    <3>8. Kept' = (Kept \ {Entry(n)}) \cup {new}
      BY <1>5, <1>8, <3>5, <3>6, <3>7
    <3> QED BY <1>10, <3>1, <3>4, <3>8
  <2>2. CASE ~Ok(n)
    <3>1. \A s : s \in KeptSlots' <=> s \in KeptSlots \/ s = wrptr
      BY <1>0, <1>5, <1>6, <1>7, <2>2
    <3> HIDE DEF n, new
    <3>2. Kept' = (Kept \ {}) \cup {new} BY <1>5, <1>8, <3>1
    <3> QED BY <1>10, <3>2
  <2> QED BY <2>1, <2>2
<1>12. Journal!Cardinality(Kept) = Cardinality(Kept)
       /\ Journal!Cardinality(Kept') = Cardinality(Kept')
  BY SameCount
<1> QED BY <1>0, <1>2, <1>4, <1>9, <1>11, <1>12 DEF Journal!Keep

-----------------------------------------------------------------------------
(* Every step of the log is one of the journal or leaves it alone.         *)

\* Without a failed write none is counted.
LEMMA NoneSpent ==
  ASSUME TypeInv, Sound', NEW s, NEW rec, WriteSlot(s, rec)
  PROVE  spent' = spent
  BY DEF WriteSlot, Sound, NoneOf

LEMMA LogIsLog ==
  ASSUME TypeInv, logCidEvent
  PROVE  JournalStep
<1>1. queue \in Seq(Events) /\ Working BY Typed
<1>2. /\ queue' = Append(queue, logged + 1) /\ logged' = logged + 1
      /\ UNCHANGED <<flash, wrptr, logT, spent>>
  BY DEF logCidEvent, pointers
<1>3. Kept' = Kept BY <1>2 DEF Kept, KeptSlots
<1>4. queue # <<>> => Tail(Append(queue, logged + 1)) = Append(Tail(queue), logged + 1)
  BY <1>1
<1>5. Waiting' = Append(Waiting, logged + 1)
  BY <1>1, <1>2, <1>4 DEF Waiting, Working
<1> QED BY <1>2, <1>3, <1>5 DEF JournalStep, Journal!Next, Journal!Log

LEMMA CrashIsPowerLoss ==
  ASSUME TypeInv, Queued, Crash
  PROVE  JournalStep
<1>1. wrptr' = wrptr /\ flash' = flash /\ queue' = <<>> /\ logT'.pc = "poll" BY CrashEffect
<1>2. Waiting' = <<>> BY <1>1 DEF Waiting
<1>3. Kept' = Kept BY <1>1 DEF Kept, KeptSlots
<1>4. spent \in [Inputs -> Nat] BY DEF TypeInv, TypeOK
<1>5. spent'["badWrite"] = spent["badWrite"] /\ logged' = logged
  BY <1>4 DEF Crash, Spend, Inputs, history
<1> QED BY <1>2, <1>3, <1>5 DEF JournalStep, Journal!Next, Journal!PowerLoss

LEMMA StoreIsStutter ==
  ASSUME Ctx, Sound', StoreRecord
  PROVE  JournalStep
<1>0. TypeInv BY DEF Ctx
<1>1. /\ wrptr' = wrptr /\ \A s \in Slots : s # wrptr => flash'[s] = flash[s]
      /\ logT.pc = "poll" /\ logT'.pc = "verify"
  BY StoreEffect
<1>2. queue' = queue /\ logged' = logged BY DEF StoreRecord, history
<1>3. spent' = spent BY <1>0, NoneSpent DEF StoreRecord
<1>4. Waiting' = Waiting BY <1>1, <1>2 DEF Waiting
<1>5. \A s \in Slots \ {wrptr} : flash'[s] = flash[s] BY <1>1
<1>6. KeptSlots' = KeptSlots BY <1>1, <1>5 DEF KeptSlots
<1>7. \A s \in KeptSlots : flash'[s] = flash[s] BY <1>5 DEF KeptSlots
<1>8. Kept' = Kept BY <1>6, <1>7 DEF Kept
<1> QED BY <1>2, <1>3, <1>4, <1>8 DEF JournalStep, Journal!vars

LEMMA HoldIsMark ==
  ASSUME Ctx, HoldEvent
  PROVE  JournalStep
<1>1. /\ logT.pc = "hold" /\ logT'.pc = "fanout" /\ wrptr' = wrptr /\ SameRecords
      /\ \A s \in Slots : s # logT.slot => flash'[s] = flash[s]
      /\ flash'[logT.slot].ack \in {flash[logT.slot].ack, flash[logT.slot].ack \cup {MacroMon}}
  BY HoldEffect
<1>2. logT.slot \in Slots /\ MacroMon \in Monitors
  BY <1>1, Typed DEF Ctx, Queued, Holding
<1>3. UNCHANGED <<queue, logged, spent>> BY DEF HoldEvent, history
<1>4. Waiting' = Waiting BY <1>1, <1>3 DEF Waiting
<1> QED BY <1>1, <1>2, <1>3, <1>4, MarkOne

LEMMA TagIsMark ==
  ASSUME Ctx, Sound', Fresh, TagEvent
  PROVE  JournalStep
<1>0. TypeInv BY DEF Ctx
<1>1. /\ rabbit.pc = "tag" /\ rabbit.mon \in Monitors /\ wrptr' = wrptr /\ SameRecords
      /\ \A s \in Slots : s # rabbit.slot => flash'[s] = flash[s]
      /\ flash'[rabbit.slot].ack = rabbit.rec.ack \cup {rabbit.mon}
  BY TagEffect
<1>2. rabbit.slot \in Slots /\ flash[rabbit.slot] = rabbit.rec BY <1>0, <1>1, Typed DEF Fresh
<1>3. UNCHANGED <<queue, logged, logT>> BY DEF TagEvent, history
<1>4. spent' = spent BY <1>0, NoneSpent DEF TagEvent
<1>5. Waiting' = Waiting BY <1>3 DEF Waiting
<1>6. flash'[rabbit.slot].ack = flash[rabbit.slot].ack \cup {rabbit.mon} BY <1>1, <1>2
<1> QED BY <1>1, <1>2, <1>3, <1>4, <1>5, <1>6, MarkOne

LEMMA ReloadIsMark ==
  ASSUME Ctx, ReloadSlot
  PROVE  JournalStep
<1>0. TypeInv /\ wrptr \in Slots BY Typed DEF Ctx
<1>1. UNCHANGED <<wrptr, queue, logged, logT, spent>> /\ rabbit.pc = "reload"
  BY DEF ReloadSlot, pointers, history
<1>2. rabbit.mon \in Monitors BY <1>0, <1>1, Typed DEF Working
<1>3. Waiting' = Waiting BY <1>1 DEF Waiting
<1>4. CASE flash' = flash BY <1>1, <1>3, <1>4, Stutter
<1>5. CASE flash' = TagFor(rabbit.mon, flash[rabbit.slot].index)
  <2> DEFINE found == find_event_by_index(flash[rabbit.slot].index)
  <2>1. /\ SameRecords
        /\ \A s \in Slots : flash'[s].ack = IF s \in found THEN flash[s].ack \cup {rabbit.mon}
                                             ELSE flash[s].ack
        /\ \A s \in Slots : s \notin found => flash'[s] = flash[s]
    BY <1>0, <1>5, TagForSame
  <2>2. CASE found = {}
    <3>1. \A s \in Slots : flash'[s] = flash[s] BY <2>1, <2>2
    <3>2. flash'[rabbit.slot].ack = flash[rabbit.slot].ack /\ rabbit.slot \in Slots
      BY <1>0, <3>1, Typed
    <3> QED BY <1>1, <1>2, <1>3, <2>1, <3>1, <3>2, MarkOne
  <2>3. ASSUME NEW s \in found PROVE JournalStep
    <3>1. s \in Slots /\ \A t \in found : t = s BY <1>0, FoundFacts, FoundOnce
    <3>2. \A t \in Slots : t # s => flash'[t] = flash[t] BY <2>1, <3>1
    <3>3. flash'[s].ack = flash[s].ack \cup {rabbit.mon} BY <2>1, <3>1
    <3> QED BY <1>1, <1>2, <1>3, <2>1, <3>1, <3>2, <3>3, MarkOne
  <2> QED BY <2>2, <2>3
<1> QED BY <1>4, <1>5 DEF ReloadSlot

LEMMA StepIsJournals ==
  ASSUME MaxFormats = 0, HeldFit, TypeInv, Inv, Solid, Fresh, Sound', [Next]_vars
  PROVE  JournalStep
<1>1. ~FormatEventFlash /\ ~FormatStep BY NoFormats DEF Solid
<1>2. Sound BY SoundGrows DEF Sound
<1>3. Ctx BY <1>2 DEF Inv, SoundInv, Ctx
<1>4. Queued BY DEF Inv
<1> HIDE DEF Ctx
<1>5. CASE UNCHANGED vars
  BY <1>5, Stutter DEF vars, pointers, history, Waiting
<1>6. CASE logCidEvent BY <1>6, LogIsLog
<1>7. CASE Crash BY <1>4, <1>7, CrashIsPowerLoss
<1>8. CASE StoreRecord BY <1>3, <1>8, StoreIsStutter
<1>9. CASE RewriteRecord \/ DeliverUnstored BY <1>3, <1>9, NoRewrite
<1>10. CASE AdvancePointers
  BY <1>3, <1>10, AdvanceIsKeep DEF JournalStep, Journal!Next
<1>11. CASE SaveIndex
  <2>1. /\ UNCHANGED <<flash, wrptr, logged, queue, spent>>
        /\ logT.pc = "index" /\ logT' = [logT EXCEPT !.pc = "deliver"]
    BY <1>11 DEF SaveIndex, pointers, history
  <2>2. logT'.pc = "deliver" BY <2>1, Typed DEF LogTType
  <2>3. Waiting' = Waiting BY <2>1, <2>2 DEF Waiting
  <2> QED BY <2>1, <2>3, Stutter
<1>12. CASE Deliver
  <2>1. /\ UNCHANGED <<flash, wrptr, logged, spent>> /\ queue' = Tail(queue)
        /\ logT.pc = "deliver"
    BY <1>12 DEF Deliver, pointers, history
  <2>2. logT'.pc \in {"poll", "hold"} BY <1>3, <1>12, DeliverEffect
  <2>3. Waiting' = Waiting BY <2>1, <2>2 DEF Waiting
  <2> QED BY <2>1, <2>3, Stutter
<1>13. CASE HoldEvent BY <1>3, <1>13, HoldIsMark
<1>14. CASE DeliverRest
  <2>1. /\ UNCHANGED <<flash, wrptr, logged, queue, spent>>
        /\ logT.pc = "fanout" /\ logT'.pc = "poll"
    BY <1>14 DEF DeliverRest, FanOut, Polling, pointers, history
  <2>2. Waiting' = Waiting BY <2>1 DEF Waiting
  <2> QED BY <2>1, <2>2, Stutter
<1>15. ASSUME NEW m \in Monitors, ReadOutEvent(m) \/ ReloadUnAckEvents25(m)
       PROVE  JournalStep
  <2>1. UNCHANGED <<flash, wrptr, logged, queue, logT, spent>>
    BY <1>15 DEF ReadOutEvent, ReloadUnAckEvents25, pointers, history
  <2>2. Waiting' = Waiting BY <2>1 DEF Waiting
  <2> QED BY <2>1, <2>2, Stutter
<1>16. CASE TagEvent BY <1>3, <1>16, TagIsMark
<1>17. CASE ReloadSlot BY <1>3, <1>17, ReloadIsMark
<1> QED
  BY <1>1, <1>5, <1>6, <1>7, <1>8, <1>9, <1>10, <1>11, <1>12, <1>13, <1>14, <1>15, <1>16, <1>17
  DEF Next, LogTStep

-----------------------------------------------------------------------------
(* From the first step to all of them.                                     *)

LEMMA SoundKept ==
  ASSUME MaxBadWrites = 0, MaxFormats = 0, TypeInv, Solid, Sound, [Next]_vars
  PROVE  Sound'
<1>1. ~FormatEventFlash /\ ~FormatStep BY NoFormats DEF Solid
<1>2. ~(spent["badWrite"] < MaxBadWrites)
  <2>1. spent["badWrite"] \in Nat BY DEF TypeInv, TypeOK, Inputs
  <2> QED BY <2>1
<1> SUFFICES ASSUME NEW k \in {"badWrite", "format"} PROVE k \notin faults'
  BY DEF Sound, NoneOf
<1>3. k \notin faults BY DEF Sound, NoneOf
<1>4. CASE StoreRecord \/ RewriteRecord \/ TagEvent
  BY <1>2, <1>3, <1>4 DEF StoreRecord, RewriteRecord, TagEvent, WriteSlot
<1>5. CASE AdvancePointers \/ SaveIndex \/ HoldEvent
  BY <1>3, <1>5 DEF AdvancePointers, SaveIndex, HoldEvent
<1>6. CASE Deliver \/ DeliverUnstored \/ DeliverRest
  BY <1>3, <1>6 DEF Deliver, DeliverUnstored, DeliverRest, ToStations, FanOut
<1>7. CASE \E m \in Monitors : ReadOutEvent(m) \/ ReloadUnAckEvents25(m)
  BY <1>3, <1>7 DEF ReadOutEvent, ReloadUnAckEvents25
<1>8. CASE ReloadSlot BY <1>3, <1>8 DEF ReloadSlot
<1>9. CASE logCidEvent \/ Crash BY <1>3, <1>9 DEF logCidEvent, Crash
<1>10. CASE UNCHANGED vars BY <1>3, <1>10 DEF vars
<1> QED BY <1>1, <1>4, <1>5, <1>6, <1>7, <1>8, <1>9, <1>10 DEF Next, LogTStep

\* A power loss between the two counters can repeat an index, and a search then
\* hits the record that LogT_Task has in hand: only a hold could mark it meanwhile.
LEMMA FreshStep ==
  ASSUME MaxFormats = 0, NobodyHolds, Ctx, Solid, Fresh, Sound', [Next]_vars
  PROVE  Fresh'
<1>0. TypeInv /\ ~FormatEventFlash /\ ~FormatStep BY NoFormats DEF Solid, Ctx
<1>1. ~HoldEvent
  <2>1. logT.pc = "hold" => logT.ev \in Held /\ MacroMon \in Monitors
    BY DEF Ctx, Queued, Holding
  <2> QED BY <2>1 DEF HoldEvent, NobodyHolds
<1> HIDE DEF Ctx
<1>2. CASE StoreRecord
  <2>1. /\ \A s \in Slots : s # wrptr => flash'[s] = flash[s]
        /\ rabbit'.pc = rabbit.pc /\ rabbit'.slot = rabbit.slot /\ rabbit'.rec = rabbit.rec
        /\ rabbit.pc # "idle" => rabbit.pace + 1 <= Pace
    BY <1>2, StoreEffect
  <2>2. rabbit.pc = "tag" => rabbit.slot # wrptr BY <2>1, TagAway
  <2>3. rabbit.slot \in Slots BY <1>0, Typed
  <2> QED BY <2>1, <2>2, <2>3 DEF Fresh
<1>3. CASE RewriteRecord \/ DeliverUnstored BY <1>3, NoRewrite
<1>4. CASE AdvancePointers \/ SaveIndex \/ Deliver \/ DeliverRest
  BY <1>4 DEF AdvancePointers, SaveIndex, Deliver, DeliverRest, Fresh
<1>5. CASE logCidEvent \/ UNCHANGED vars BY <1>5 DEF logCidEvent, vars, Fresh
<1>6. ASSUME NEW m \in Monitors, ReadOutEvent(m) PROVE Fresh'
  BY <1>6 DEF ReadOutEvent, Fresh
<1>7. ASSUME NEW m \in Monitors, ReloadUnAckEvents25(m) PROVE Fresh'
  BY <1>7 DEF ReloadUnAckEvents25, Fresh
<1>8. CASE TagEvent BY <1>8 DEF TagEvent, Idle, Fresh
<1>9. CASE ReloadSlot
  <2>1. rabbit'.pc # "tag" BY <1>9, ReloadSlotEffect
  <2> QED BY <2>1 DEF Fresh
<1>10. CASE Crash BY <1>10 DEF Crash, Idle, Fresh
<1> QED
  BY <1>0, <1>1, <1>2, <1>3, <1>4, <1>5, <1>6, <1>7, <1>8, <1>9, <1>10 DEF Next, LogTStep

LEMMA InitJournal == Init => Journal!Init /\ Solid /\ Fresh /\ Sound
<1> SUFFICES ASSUME Init PROVE Journal!Init /\ Solid /\ Fresh /\ Sound OBVIOUS
<1>1. \A s \in Slots : flash[s].st = "erased" BY DEF Init, Blank
<1>2. Kept = {} BY <1>1 DEF Kept, KeptSlots
<1>3. Waiting = <<>> BY DEF Init, Waiting, Polling
<1>4. logged = 0 /\ spent["badWrite"] = 0 BY DEF Init, Inputs
<1>5. Solid BY <1>1 DEF Init, Solid, NoFormat, Ok
<1>6. Fresh /\ Sound BY DEF Init, Fresh, Sound, NoneOf, Idle
<1> QED BY <1>2, <1>3, <1>4, <1>5, <1>6 DEF Journal!Init

(***************************************************************************)
(* The log in flash, with its two pointers, their saved copies, and two    *)
(* tasks that write it, is the journal of EventJournal: through any number *)
(* of power losses, also between the two writes of Set_evwrptr, events     *)
(* are kept in order, the newest of them all there, and no mark is taken   *)
(* back.  What failed writes do stays with TLC, and so does that every     *)
(* event is kept in the end; a hold in MACROMODE is the next theorem's.    *)
(***************************************************************************)
THEOREM StepsOfJournal ==
  ASSUME HeldFit, NobodyHolds, MaxBadWrites = 0, MaxFormats = 0
  PROVE  Spec => Journal!Init /\ [][Journal!Next]_(Journal!vars)
<1>1. Init => Solid /\ Fresh /\ Sound /\ Journal!Init BY InitJournal
<1>2. TypeInv /\ Inv /\ Solid /\ Fresh /\ Sound /\ [Next]_vars => (Solid /\ Fresh /\ Sound)'
  <2> SUFFICES ASSUME TypeInv, Inv, Solid, Fresh, Sound, [Next]_vars
               PROVE  Solid' /\ Fresh' /\ Sound'
    OBVIOUS
  <2>1. Ctx BY DEF Inv, SoundInv, Ctx
  <2>2. Solid' BY SolidStep
  <2>3. Sound' BY SoundKept
  <2>4. Fresh' BY <2>1, <2>3, FreshStep
  <2> QED BY <2>2, <2>3, <2>4
<1>3. /\ TypeInv /\ Inv /\ Solid /\ Fresh /\ Sound /\ (Solid /\ Fresh /\ Sound)' /\ [Next]_vars
      => [Journal!Next]_(Journal!vars)
  BY StepIsJournals DEF JournalStep
<1> QED BY <1>1, <1>2, <1>3, InvHolds, PTL DEF Spec

(***************************************************************************)
(* With a station in MACROMODE as well every step is one of the journal,   *)
(* until a write fails or power is lost between the two writes of          *)
(* Set_evwrptr: the index that such a restart repeats makes the search hit *)
(* the record LogT_Task is about to mark for the hold, and RabbitTask then *)
(* writes it back without that mark.                                       *)
(***************************************************************************)
THEOREM StepsOfJournalHeld ==
  ASSUME HeldFit, MaxFormats = 0
  PROVE  Spec => Journal!Init /\ [][~Corrupted' => JournalStep]_vars
<1>1. Init => Solid /\ Journal!Init BY InitJournal
<1>2. TypeInv /\ Inv /\ Solid /\ [Next]_vars => Solid' BY SolidStep
<1>3. TypeInv /\ Inv /\ Solid /\ [Next]_vars => (~Corrupted' => JournalStep)
  <2> SUFFICES ASSUME TypeInv, Inv, Solid, [Next]_vars, ~Corrupted' PROVE JournalStep OBVIOUS
  <2>1. ~Corrupted /\ Sound' BY NotCorrupted
  <2>2. Fresh BY <2>1 DEF Inv, IndexInv, Marked, Fresh
  <2> QED BY <2>1, <2>2, StepIsJournals
<1> QED BY <1>1, <1>2, <1>3, InvHolds, PTL DEF Spec
=============================================================================
