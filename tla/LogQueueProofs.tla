--------------------------- MODULE LogQueueProofs ---------------------------
(***************************************************************************)
(* Theorems about LogQueue, for a queue of any length, any number of       *)
(* events and any set of producers.                                        *)
(***************************************************************************)
EXTENDS LogQueue, FiniteSetTheorems, TLAPS

LEMMA BufflenType ==
  /\ LogT_BUFFLEN \in Nat /\ LogT_BUFFLEN >= 1 /\ MaxEvents \in Nat
  /\ Producers \subseteq Nat
  BY ConstantsAssumption DEF ConstantsAssumption

(***************************************************************************)
(* Type correctness needs the read position: it stands at LogT_BUFFLEN     *)
(* only between its increment and its wrap.                                *)
(***************************************************************************)
ReadptrOK == logT.pc \in {"poll", "copied"} => readptr \in Elements

TypeInv == TypeOK /\ ReadptrOK

LEMMA InitTypeInv == Init => TypeInv
<1> SUFFICES ASSUME Init PROVE TypeInv OBVIOUS
<1> USE BufflenType DEF Init, NotPushing, Delayed, Elements, Junk
<1>1. ReadptrOK BY DEF ReadptrOK
<1>2. NotPushing \in Push BY DEF Push
<1>3. low \in [Producers -> Push] BY <1>2
<1>4. logT \in [pc : {"poll", "copied", "stored", "loaded", "wrap"},
                rec : Events \cup {Junk}, reg : Int]
  OBVIOUS
<1>5. buf \in [Elements -> Events \cup {Junk}] OBVIOUS
<1>6. out \in Seq(Events \cup {Junk}) OBVIOUS
<1> QED BY <1>1, <1>3, <1>4, <1>5, <1>6 DEF TypeInv, TypeOK, Push

\* A record is put in the array or nowhere.
LEMMA PutType ==
  ASSUME TypeInv, NEW slot \in Nat, NEW e \in Events \cup {Junk}
  PROVE  Put(slot, e) \in [Elements -> Events \cup {Junk}]
  BY DEF Put, TypeInv, TypeOK

LEMMA BeginRacesType == BeginRaces \subseteq Races
  BY DEF BeginRaces, Race, Races

\* A step of a producer.
LEMMA LowTypeInv ==
  ASSUME TypeInv, NEW p \in Producers, LowStep(p)
  PROVE  TypeInv'
<1> USE BufflenType DEF TypeInv, TypeOK, ReadptrOK, LowRuns, Elements
<1>0. low[p] \in Push /\ low \in [Producers -> Push] BY DEF Push
<1>1. CASE LowTakeSlot(p)
  <2>1. begun' \in Events /\ begun' = begun + 1 BY <1>1 DEF LowTakeSlot, Events
  <2>2. PICK locked \in BOOLEAN :
          low' = [low EXCEPT ![p] = [pc |-> "slot", slot |-> writeptr, reg |-> 0,
                                     ev |-> begun + 1, locked |-> locked]]
    BY <1>1 DEF LowTakeSlot
  <2>3. raced' \subseteq Races BY <1>1, BeginRacesType DEF LowTakeSlot
  <2>4. begun' \in 0..MaxEvents BY <2>1 DEF Events
  <2>5. low' \in [Producers -> Push] BY <1>0, <2>1, <2>2 DEF Push
  <2> QED BY <1>1, <2>1, <2>3, <2>4, <2>5 DEF LowTakeSlot, Push
<1>2. CASE LowLoadCount(p)
  <2>1. low' \in [Producers -> Push] BY <1>0, <1>2 DEF LowLoadCount, Push
  <2> QED BY <1>2, <2>1 DEF LowLoadCount, Push
<1>3. CASE LowStoreCount(p)
  <2>1. low' \in [Producers -> Push] BY <1>0, <1>3 DEF LowStoreCount, Push
  <2>2. count' \in Int /\ pushed' \in Nat BY <1>0, <1>3 DEF LowStoreCount, Push
  <2>3. raced' \subseteq Races BY <1>3 DEF LowStoreCount, Race, Races
  <2> QED BY <1>3, <2>1, <2>2, <2>3 DEF LowStoreCount, Push
<1>4. CASE LowWriteRecord(p)
  <2>1. low' \in [Producers -> Push] BY <1>0, <1>4 DEF LowWriteRecord, Push
  <2>2. buf' \in [Elements -> Events \cup {Junk}]
    BY <1>0, <1>4, PutType DEF LowWriteRecord, Push
  <2> QED BY <1>4, <2>1, <2>2 DEF LowWriteRecord, Push
<1>5. CASE LowWrap(p)
  <2>1. low' \in [Producers -> Push]
    BY <1>0, <1>5 DEF LowWrap, Push, NotPushing, Junk
  <2>2. writeptr' \in Nat BY <1>5 DEF LowWrap, Wrap
  <2> QED BY <1>5, <2>1, <2>2 DEF LowWrap, Push
<1> QED BY <1>1, <1>2, <1>3, <1>4, <1>5 DEF LowStep

\* A step of LogT_Task.
LEMMA LogTTypeInv == TypeInv /\ LogTStep => TypeInv'
<1> SUFFICES ASSUME TypeInv, LogTStep PROVE TypeInv' OBVIOUS
<1> USE BufflenType DEF TypeInv, TypeOK, ReadptrOK, Elements
<1>1. CASE CopyRecord
  <2>1. raced' \subseteq Races BY <1>1 DEF CopyRecord, Race, Races
  <2>2. buf[readptr] \in Events \cup {Junk} BY <1>1 DEF CopyRecord
  <2>3. /\ logT' = [pc |-> "copied", rec |-> buf[readptr], reg |-> 0]
        /\ logT.pc = "poll"
        /\ UNCHANGED <<buf, writeptr, readptr, count, low, begun, pushed, out>>
    BY <1>1 DEF CopyRecord
  <2> QED BY <2>1, <2>2, <2>3
<1>2. CASE NotStored BY <1>2 DEF NotStored, Delayed, Junk
<1>3. CASE Stored
  <2>1. logT' = [logT EXCEPT !.pc = "stored"] /\ readptr' \in 0..LogT_BUFFLEN
    BY <1>3 DEF Stored
  <2> QED BY <1>3, <2>1 DEF Stored
<1>4. CASE LoadCount BY <1>4 DEF LoadCount
<1>5. CASE StoreCount
  <2>1. raced' \subseteq Races BY <1>5 DEF StoreCount, Race, Races
  <2>2. out' \in Seq(Events \cup {Junk}) BY <1>5 DEF StoreCount
  <2>3. logT' = [logT EXCEPT !.pc = "wrap"] /\ count' \in Int BY <1>5 DEF StoreCount
  <2> QED BY <1>5, <2>1, <2>2, <2>3 DEF StoreCount
<1>6. CASE WrapReadptr BY <1>6 DEF WrapReadptr, Delayed, Wrap, Junk
<1> QED BY <1>1, <1>2, <1>3, <1>4, <1>5, <1>6 DEF LogTStep

LEMMA NextTypeInv == TypeInv /\ [Next]_vars => TypeInv'
<1> SUFFICES ASSUME TypeInv, [Next]_vars PROVE TypeInv' OBVIOUS
<1>1. CASE UNCHANGED vars BY <1>1 DEF vars, TypeInv, TypeOK, ReadptrOK
<1>2. CASE AppPush
  <2> USE BufflenType, <1>2 DEF AppPush, TypeInv, TypeOK, ReadptrOK, Elements
  <2>1. raced' \subseteq Races BY BeginRacesType DEF Race, Races
  <2>2. writeptr' \in Nat BY DEF Wrap
  <2>3. begun + 1 \in Events BY DEF Events
  <2>4. buf' \in [Elements -> Events \cup {Junk}] BY <2>3, PutType
  <2>5. begun' \in 0..MaxEvents OBVIOUS
  <2> QED BY <2>1, <2>2, <2>4, <2>5
<1> QED BY <1>1, <1>2, LowTypeInv, LogTTypeInv DEF Next

(***************************************************************************)
(* LogT_Task copies and stores elements of the queue and nothing beside    *)
(* them: its position stands at LogT_BUFFLEN only between its increment    *)
(* and its wrap, however the producers overtake it, and past it never.     *)
(* The write position is typed as a natural number only: it may leave the  *)
(* array, and PositionCorrect says when.                                   *)
(***************************************************************************)
THEOREM ReadptrCorrect == Spec => [](TypeOK /\ ReadptrOK)
<1>1. TypeInv => TypeOK /\ ReadptrOK BY DEF TypeInv
<1> QED BY <1>1, InitTypeInv, NextTypeInv, PTL DEF Spec

-----------------------------------------------------------------------------
\* What a step of a producer does to the producers.
LEMMA LowFacts ==
  ASSUME TypeInv, NEW p \in Producers, LowStep(p)
  PROVE  /\ logT.pc \in {"poll", "copied"} /\ UNCHANGED <<readptr, logT, out>>
         /\ \A q \in Producers : q < p => low[q].pc = "idle"
         /\ \A q \in Producers \ {p} : low'[q] = low[q]
<1>1. low \in [Producers -> Push] BY DEF TypeInv, TypeOK, Push
<1> QED BY <1>1
  DEF LowStep, LowTakeSlot, LowLoadCount, LowStoreCount, LowWriteRecord, LowWrap, LowRuns

\* What each step of a producer does to itself.
LEMMA LowMoves ==
  ASSUME TypeInv, NEW p \in Producers
  PROVE  /\ LowTakeSlot(p) => /\ low[p].pc = "idle" /\ low'[p].pc = "slot"
                              /\ low'[p].slot = writeptr /\ low'[p].ev = begun + 1
         /\ LowLoadCount(p) => /\ low[p].pc = "slot" /\ low'[p].pc = "loaded"
                               /\ low'[p].reg = count /\ low'[p].slot = low[p].slot
                               /\ low'[p].ev = low[p].ev
         /\ LowStoreCount(p) => /\ low[p].pc = "loaded" /\ low'[p].pc = "counted"
                                /\ low'[p].slot = low[p].slot /\ low'[p].ev = low[p].ev
         /\ LowWriteRecord(p) => /\ low[p].pc = "counted" /\ low'[p].pc = "written"
                                 /\ low'[p].slot = low[p].slot /\ low'[p].ev = low[p].ev
         /\ LowWrap(p) => low[p].pc = "written" /\ low'[p].pc = "idle"
<1>1. low \in [Producers -> Push] BY DEF TypeInv, TypeOK, Push
<1> QED BY <1>1 DEF LowTakeSlot, LowLoadCount, LowStoreCount, LowWriteRecord, LowWrap,
                    LowRuns, NotPushing, Push

(***************************************************************************)
(* The write position: inductive as it is.                                 *)
(***************************************************************************)
LEMMA NextPositionInside == TypeInv /\ PositionInside /\ [Next]_vars => PositionInside'
<1> SUFFICES ASSUME TypeInv, PositionInside, [Next]_vars, "runoff" \notin raced'
             PROVE  /\ writeptr' <= LogT_BUFFLEN
                    /\ writeptr' = LogT_BUFFLEN =>
                         \E p \in Producers : low'[p].pc # "idle"
                                              /\ low'[p].slot = LogT_BUFFLEN - 1
  BY DEF PositionInside
<1> USE BufflenType
<1>0. writeptr \in Nat BY DEF TypeInv, TypeOK
<1>1. CASE UNCHANGED vars BY <1>1 DEF vars, PositionInside
<1>2. CASE AppPush
  <2>1. writeptr \in Elements BY <1>2 DEF AppPush, BeginRaces, Race
  <2> QED BY <1>2, <2>1 DEF AppPush, Wrap, Elements
<1>3. ASSUME NEW p \in Producers, LowStep(p)
      PROVE  /\ writeptr' <= LogT_BUFFLEN
             /\ writeptr' = LogT_BUFFLEN =>
                  \E q \in Producers : low'[q].pc # "idle"
                                       /\ low'[q].slot = LogT_BUFFLEN - 1
  <2>1. CASE LowTakeSlot(p)
    <3>1. writeptr \in Elements BY <2>1 DEF LowTakeSlot, BeginRaces, Race
    <3>2. writeptr' = writeptr + 1 /\ low'[p].pc = "slot" /\ low'[p].slot = writeptr
      BY <2>1, LowMoves DEF LowTakeSlot
    <3>3. writeptr' <= LogT_BUFFLEN
          /\ (writeptr' = LogT_BUFFLEN => writeptr = LogT_BUFFLEN - 1)
      BY <1>0, <3>1, <3>2 DEF Elements
    <3>4. low'[p].pc # "idle" /\ low'[p].slot = writeptr BY <3>2
    <3> QED BY <3>3, <3>4
  <2>2. CASE LowLoadCount(p) \/ LowStoreCount(p) \/ LowWriteRecord(p)
    <3>1. writeptr' = writeptr /\ "runoff" \notin raced
      BY <2>2 DEF LowLoadCount, LowStoreCount, LowWriteRecord
    <3>2. \A q \in Producers : low[q].pc # "idle" =>
             low'[q].pc # "idle" /\ low'[q].slot = low[q].slot
      BY <1>3, <2>2, LowFacts, LowMoves
    <3> QED BY <3>1, <3>2 DEF PositionInside
  <2>3. CASE LowWrap(p)
    BY <1>0, <2>3 DEF LowWrap, Wrap, PositionInside
  <2> QED BY <1>3, <2>1, <2>2, <2>3 DEF LowStep
<1>4. CASE LogTStep
  <2>1. UNCHANGED <<writeptr, low>> /\ "runoff" \notin raced
    BY <1>4 DEF LogTStep, CopyRecord, NotStored, Stored, LoadCount, StoreCount, WrapReadptr
  <2> QED BY <2>1 DEF PositionInside
<1> QED BY <1>1, <1>2, <1>3, <1>4 DEF Next

(***************************************************************************)
(* The write position leaves the array only if a push begins while another *)
(* one, interrupted, has yet to wrap it.                                   *)
(***************************************************************************)
THEOREM PositionCorrect == Spec => []PositionInside
<1>1. Init => PositionInside BY BufflenType DEF Init, PositionInside
<1>2. Spec => []TypeInv BY InitTypeInv, NextTypeInv, PTL DEF Spec
<1> QED BY <1>1, <1>2, NextPositionInside, PTL DEF Spec

-----------------------------------------------------------------------------
(***************************************************************************)
(* The counter.  A register loaded by a producer is at most the counter    *)
(* until LogT_Task pops, and at least the counter until another push       *)
(* counts itself; the producer that runs loaded its own last.  A register  *)
(* loaded by LogT_Task is at most the counter.                             *)
(***************************************************************************)
CountInv ==
  /\ CountNeverNegative /\ NeverOverstated /\ NeverUnderstated
  /\ logT.pc \in {"copied", "stored"} => count >= 1
  /\ logT.pc = "loaded" =>
       logT.reg >= 1 /\ logT.reg <= count /\ ("lostPush" \notin raced => logT.reg = count)
  /\ \A p \in Producers : low[p].pc = "loaded" =>
       /\ low[p].reg >= 0
       /\ "lostPop" \notin raced => low[p].reg <= count
       /\ "lostPush" \notin raced => low[p].reg >= count
       /\ "lostPop" \notin raced =>
            \A q \in Producers : low[q].pc = "loaded" /\ q < p => low[p].reg <= low[q].reg

LEMMA InitCountInv == Init => CountInv
  BY DEF Init, CountInv, CountNeverNegative, NeverOverstated, NeverUnderstated, Popped,
     NotPushing, Delayed

LEMMA LowCountInv ==
  ASSUME TypeInv, CountInv, NEW p \in Producers, LowStep(p)
  PROVE  CountInv'
<1>0. /\ count \in Int /\ pushed \in Int /\ Popped \in Int /\ logT.reg \in Int
      /\ \A q \in Producers : low[q].reg \in Int /\ q \in Nat
  BY BufflenType DEF TypeInv, TypeOK, Popped, Push
<1> USE <1>0 DEF CountInv, CountNeverNegative, NeverOverstated, NeverUnderstated
<1>1. logT.pc \in {"poll", "copied"} /\ UNCHANGED <<logT, out>> /\ Popped' = Popped
  BY LowFacts DEF Popped
<1>2. \A q \in Producers \ {p} : low'[q] = low[q] BY LowFacts
<1>3. CASE LowTakeSlot(p)
  <2>1. UNCHANGED <<count, pushed>> /\ low'[p].pc # "loaded" BY <1>3, LowMoves DEF LowTakeSlot
  <2>2. /\ "lostPop" \in raced' <=> "lostPop" \in raced
        /\ "lostPush" \in raced' <=> "lostPush" \in raced
    BY <1>3 DEF LowTakeSlot, BeginRaces, Race
  <2> QED BY <1>1, <1>2, <2>1, <2>2
<1>4. CASE LowLoadCount(p)
  <2>1. UNCHANGED <<count, pushed, raced>> /\ low'[p].pc = "loaded" /\ low'[p].reg = count
    BY <1>4, LowMoves DEF LowLoadCount
  <2>2. \A q \in Producers : q < p => low[q].pc = "idle" BY LowFacts
  <2>3. \A q \in Producers \ {p} : low[q].pc = "loaded" /\ "lostPop" \notin raced
          => low[q].reg <= low'[p].reg
    BY <2>1
  <2> QED BY <1>1, <1>2, <2>1, <2>2, <2>3
<1>5. CASE LowStoreCount(p)
  <2>1. /\ low[p].pc = "loaded" /\ low'[p].pc = "counted"
        /\ count' = low[p].reg + 1 /\ pushed' = pushed + 1
    BY <1>5, LowMoves DEF LowStoreCount
  <2>2. "lostPop" \in raced' <=> "lostPop" \in raced BY <1>5 DEF LowStoreCount, Race
  <2>3. "lostPush" \notin raced' =>
          "lostPush" \notin raced /\ \A q \in Producers \ {p} : low[q].pc # "loaded"
    BY <1>5 DEF LowStoreCount, Race, Counting
  <2>4. \A q \in Producers : q < p => low[q].pc = "idle" BY LowFacts
  <2>5. \A q \in Producers \ {p} : low[q].pc = "loaded" /\ "lostPop" \notin raced
          => low[q].reg <= low[p].reg
    BY <2>1, <2>4
  <2>6. CountNeverNegative' /\ NeverOverstated' /\ NeverUnderstated' /\ count' >= 1
    BY <1>1, <2>1, <2>2, <2>3
  <2>7. \A q \in Producers : low'[q].pc = "loaded" => q # p /\ low'[q] = low[q]
    BY <1>2, <2>1
  <2>8. \A q \in Producers : low'[q].pc = "loaded" =>
          /\ low'[q].reg >= 0
          /\ "lostPop" \notin raced' => low'[q].reg <= count'
          /\ "lostPush" \notin raced' => low'[q].reg >= count'
    BY <2>1, <2>2, <2>3, <2>5, <2>7
  <2>9. \A q, r \in Producers :
          low'[q].pc = "loaded" /\ low'[r].pc = "loaded" /\ r < q /\ "lostPop" \notin raced'
          => low'[q].reg <= low'[r].reg
    BY <2>2, <2>7
  <2> QED BY <1>1, <2>6, <2>8, <2>9
<1>6. CASE LowWriteRecord(p) \/ LowWrap(p)
  <2>1. UNCHANGED <<count, pushed, raced>> /\ low'[p].pc # "loaded"
    BY <1>6, LowMoves DEF LowWriteRecord, LowWrap
  <2> QED BY <1>1, <1>2, <2>1
<1> QED BY <1>3, <1>4, <1>5, <1>6 DEF LowStep

LEMMA NextCountInv == TypeInv /\ CountInv /\ [Next]_vars => CountInv'
<1> SUFFICES ASSUME TypeInv, CountInv, [Next]_vars PROVE CountInv' OBVIOUS
<1>0. /\ count \in Int /\ pushed \in Int /\ Popped \in Int /\ logT.reg \in Int
      /\ \A q \in Producers : low[q].reg \in Int
  BY DEF TypeInv, TypeOK, Popped, Push
<1> USE <1>0 DEF CountInv, CountNeverNegative, NeverOverstated, NeverUnderstated
<1>1. CASE UNCHANGED vars BY <1>1 DEF vars, Popped
<1>2. CASE AppPush
  <2>1. /\ UNCHANGED <<low, logT>> /\ Popped' = Popped /\ count' = count + 1
        /\ pushed' = pushed + 1
    BY <1>2 DEF AppPush, Popped
  <2>2. "lostPop" \in raced' <=> "lostPop" \in raced
    BY <1>2 DEF AppPush, BeginRaces, Race
  <2>3. "lostPush" \notin raced' =>
          /\ "lostPush" \notin raced /\ logT.pc # "loaded"
          /\ \A q \in Producers : low[q].pc # "loaded"
    BY <1>2 DEF AppPush, Race, Counting
  <2> QED BY <2>1, <2>2, <2>3
<1>3. CASE LogTStep
  <2>1. CASE CopyRecord
    <3>1. /\ count # 0 /\ logT'.pc = "copied" /\ Popped' = Popped
          /\ UNCHANGED <<count, pushed, low>>
      BY <2>1 DEF CopyRecord, Popped
    <3>2. /\ "lostPop" \in raced' <=> "lostPop" \in raced
          /\ "lostPush" \in raced' <=> "lostPush" \in raced
      BY <2>1 DEF CopyRecord, Race
    <3> QED BY <3>1, <3>2
  <2>2. CASE NotStored
    <3>1. logT'.pc = "poll" BY <2>2 DEF NotStored, Delayed
    <3> QED BY <2>2, <3>1 DEF NotStored, Popped
  <2>3. CASE Stored
    <3>1. logT.pc = "copied" /\ logT'.pc = "stored" BY <2>3 DEF Stored, TypeInv, TypeOK
    <3> QED BY <2>3, <3>1 DEF Stored, Popped
  <2>4. CASE LoadCount
    <3>1. logT.pc = "stored" /\ logT'.pc = "loaded" /\ logT'.reg = count
      BY <2>4 DEF LoadCount, TypeInv, TypeOK
    <3> QED BY <2>4, <3>1 DEF LoadCount, Popped
  <2>5. CASE StoreCount
    <3>1. /\ logT.pc = "loaded" /\ logT'.pc = "wrap" /\ count' = logT.reg - 1
          /\ UNCHANGED <<low, pushed>>
      BY <2>5 DEF StoreCount, TypeInv, TypeOK
    <3>2. Popped' = Popped + 1 BY <2>5 DEF StoreCount, Popped, TypeInv, TypeOK
    <3>3. "lostPush" \in raced' <=> "lostPush" \in raced BY <2>5 DEF StoreCount, Race
    <3>4. "lostPop" \notin raced' =>
            "lostPop" \notin raced /\ \A q \in Producers : low[q].pc # "loaded"
      BY <2>5 DEF StoreCount, Race, Counting
    <3>5. CountNeverNegative' /\ NeverOverstated' /\ NeverUnderstated'
      BY <3>1, <3>2, <3>3, <3>4
    <3>6. \A q \in Producers : low'[q].pc = "loaded" =>
            /\ low'[q].reg >= 0 /\ "lostPop" \in raced'
            /\ "lostPush" \notin raced' => low'[q].reg >= count'
      BY <3>1, <3>3, <3>4
    <3> QED BY <3>1, <3>5, <3>6
  <2>6. CASE WrapReadptr
    <3>1. logT'.pc = "poll" BY <2>6 DEF WrapReadptr, Delayed
    <3> QED BY <2>6, <3>1 DEF WrapReadptr, Popped
  <2> QED BY <1>3, <2>1, <2>2, <2>3, <2>4, <2>5, <2>6 DEF LogTStep
<1> QED BY <1>1, <1>2, <1>3, LowCountInv DEF Next

LEMMA CountInvariant == Spec => [](TypeInv /\ CountInv)
<1>1. Init => TypeInv /\ CountInv BY InitTypeInv, InitCountInv
<1>2. TypeInv /\ CountInv /\ [Next]_vars => (TypeInv /\ CountInv)'
  BY NextTypeInv, NextCountInv
<1> QED BY <1>1, <1>2, PTL DEF Spec

(***************************************************************************)
(* Whatever updates of LogT_eventRec_count are lost, it never goes below   *)
(* zero, which LogT_Task would take for a queue to read from.              *)
(***************************************************************************)
THEOREM CountCorrect == Spec => []CountNeverNegative
<1>1. CountInv => CountNeverNegative BY DEF CountInv
<1> QED BY <1>1, CountInvariant, PTL

(***************************************************************************)
(* The counter is above the number of records waiting only after LogT_Task *)
(* has interrupted a producer's increment ...                              *)
(***************************************************************************)
THEOREM OverstatedCorrect == Spec => []NeverOverstated
<1>1. CountInv => NeverOverstated BY DEF CountInv
<1> QED BY <1>1, CountInvariant, PTL

(***************************************************************************)
(* ... and below it only after a push has interrupted another increment or *)
(* LogT_Task's decrement.                                                  *)
(***************************************************************************)
THEOREM UnderstatedCorrect == Spec => []NeverUnderstated
<1>1. CountInv => NeverUnderstated BY DEF CountInv
<1> QED BY <1>1, CountInvariant, PTL

(***************************************************************************)
(* The counter of the queue is sound but for the lost updates named, for   *)
(* queues of any length and any producers.                                 *)
(***************************************************************************)
THEOREM CountSoundCorrect == Spec => []CountSound
<1>1. CountInv => CountSound BY DEF CountInv, CountSound
<1> QED BY <1>1, CountInvariant, PTL

-----------------------------------------------------------------------------
(***************************************************************************)
(* Pushes begun and pushes counted differ by the producers in between.     *)
(***************************************************************************)
Uncounted == {p \in Producers : low[p].pc \in {"slot", "loaded"}}
CardInv == pushed + Cardinality(Uncounted) = begun

LEMMA UncountedFinite == IsFiniteSet(Uncounted)
  BY ConstantsAssumption, FS_Subset DEF Uncounted, ConstantsAssumption

LEMMA InitCardInv == Init => CardInv
<1> SUFFICES ASSUME Init PROVE CardInv OBVIOUS
<1>1. Uncounted = {} BY DEF Init, Uncounted, NotPushing
<1> QED BY <1>1, FS_EmptySet DEF Init, CardInv

LEMMA NextCardInv == TypeInv /\ CardInv /\ [Next]_vars => CardInv'
<1> SUFFICES ASSUME TypeInv, CardInv, [Next]_vars PROVE CardInv' OBVIOUS
<1>0. begun \in Nat /\ pushed \in Nat BY DEF TypeInv, TypeOK
<1>1. CASE UNCHANGED vars BY <1>1 DEF vars, CardInv, Uncounted
<1>2. CASE AppPush
  <2>1. Uncounted' = Uncounted BY <1>2 DEF AppPush, Uncounted
  <2>2. Cardinality(Uncounted) \in Nat BY UncountedFinite, FS_CardinalityType
  <2>3. begun' = begun + 1 /\ pushed' = pushed + 1 BY <1>2 DEF AppPush
  <2> QED BY <1>0, <2>1, <2>2, <2>3 DEF CardInv
<1>3. ASSUME NEW p \in Producers, LowStep(p) PROVE CardInv'
  <2>1. \A q \in Producers \ {p} : low'[q] = low[q] BY <1>3, LowFacts
  <2>2. Cardinality(Uncounted) \in Nat BY UncountedFinite, FS_CardinalityType
  <2>3. CASE LowTakeSlot(p)
    <3>1. low[p].pc = "idle" /\ low'[p].pc = "slot" BY <2>3, LowMoves
    <3>2. Uncounted' = Uncounted \cup {p} /\ p \notin Uncounted
      BY <2>1, <3>1 DEF Uncounted
    <3>3. Cardinality(Uncounted') = Cardinality(Uncounted) + 1
      BY <3>2, UncountedFinite, FS_AddElement
    <3>4. begun' = begun + 1 /\ pushed' = pushed BY <2>3 DEF LowTakeSlot
    <3> QED BY <1>0, <2>2, <3>3, <3>4 DEF CardInv
  <2>4. CASE LowStoreCount(p)
    <3>1. low[p].pc = "loaded" /\ low'[p].pc = "counted" BY <2>4, LowMoves
    <3>2. Uncounted' = Uncounted \ {p} /\ p \in Uncounted
      BY <2>1, <3>1 DEF Uncounted
    <3>3. Cardinality(Uncounted') = Cardinality(Uncounted) - 1
      BY <3>2, UncountedFinite, FS_RemoveElement
    <3>4. begun' = begun /\ pushed' = pushed + 1 BY <2>4 DEF LowStoreCount
    <3> QED BY <1>0, <2>2, <3>3, <3>4 DEF CardInv
  <2>5. CASE LowLoadCount(p) \/ LowWriteRecord(p) \/ LowWrap(p)
    <3>1. low[p].pc \in {"slot", "loaded"} <=> low'[p].pc \in {"slot", "loaded"}
      BY <2>5, LowMoves
    <3>2. Uncounted' = Uncounted BY <2>1, <3>1 DEF Uncounted
    <3>3. begun' = begun /\ pushed' = pushed
      BY <2>5 DEF LowLoadCount, LowWriteRecord, LowWrap
    <3> QED BY <3>2, <3>3 DEF CardInv
  <2> QED BY <1>3, <2>3, <2>4, <2>5 DEF LowStep
<1>4. CASE LogTStep
  <2>1. UNCHANGED <<low, begun, pushed>>
    BY <1>4 DEF LogTStep, CopyRecord, NotStored, Stored, LoadCount, StoreCount, WrapReadptr
  <2> QED BY <2>1 DEF CardInv, Uncounted
<1> QED BY <1>1, <1>2, <1>3, <1>4 DEF Next

(***************************************************************************)
(* First in, first out.  R is where the next event to be popped stands, W  *)
(* where the next one will be put.  Going round the array is Turn, so that *)
(* no remainder has to be taken.  Event Popped + 1 + k has its place k     *)
(* elements from R, and is there unless its producer is yet to write it.   *)
(***************************************************************************)
Turn(x) == IF x >= LogT_BUFFLEN THEN x - LogT_BUFFLEN ELSE x
R == IF logT.pc \in {"stored", "loaded"} THEN readptr - 1 ELSE Wrap(readptr)
W == Wrap(writeptr)
Waiting == begun - Popped
Place(e) == Turn(R + (e - Popped - 1))
Missing(e) == \E p \in Producers : Unwritten(p) /\ low[p].ev = e

\* The counts of events and the two positions fit together.
Geometry ==
  /\ Popped <= begun /\ Waiting <= LogT_BUFFLEN
  /\ R \in Elements /\ W = Turn(R + Waiting) /\ writeptr <= LogT_BUFFLEN
  /\ logT.pc \in {"copied", "stored", "loaded"} =>
       Popped < begun /\ ~Missing(Popped + 1) /\ logT.rec = Popped + 1

\* A producer that has not written its record holds the place of its event.
Places ==
  /\ \A p \in Producers : Unwritten(p) =>
       /\ low[p].ev \in Nat /\ Popped < low[p].ev /\ low[p].ev <= begun
       /\ low[p].slot = Place(low[p].ev)
  /\ \A p, q \in Producers : Unwritten(p) /\ Unwritten(q) /\ low[p].ev = low[q].ev => p = q

Contents ==
  \A e \in Nat : Popped < e /\ e <= begun /\ ~Missing(e) => buf[Place(e)] = e

FifoInv == raced = {} => Geometry /\ Places /\ Contents /\ Fifo

LEMMA InitFifoInv == Init => FifoInv
<1> SUFFICES ASSUME Init PROVE Geometry /\ Places /\ Contents /\ Fifo BY DEF FifoInv
<1> USE BufflenType
<1>0. /\ writeptr = 0 /\ begun = 0 /\ Popped = 0 /\ logT.pc = "poll" /\ out = <<>>
      /\ readptr = 0
  BY DEF Init, Delayed, Popped
<1>1. R = 0 /\ W = 0 BY <1>0 DEF R, W, Wrap
<1>2. Geometry BY <1>0, <1>1 DEF Geometry, Turn, Elements, Waiting
<1>3. Places BY DEF Init, NotPushing, Places, Unwritten
<1>4. Contents /\ Fifo BY <1>0 DEF Contents, Fifo
<1> QED BY <1>2, <1>3, <1>4

\* The raced set only grows.
LEMMA RacedGrows == [Next]_vars => raced \subseteq raced'
  BY DEF Next, LowStep, LogTStep, AppPush, LowTakeSlot, LowLoadCount, LowStoreCount,
     LowWriteRecord, LowWrap, CopyRecord, NotStored, Stored, LoadCount, StoreCount,
     WrapReadptr, vars

LEMMA IntTypes ==
  ASSUME TypeInv
  PROVE  /\ Popped \in Nat /\ begun \in Nat /\ pushed \in Nat
         /\ readptr \in Nat /\ writeptr \in Nat /\ count \in Int
         /\ buf \in [Elements -> Events \cup {Junk}]
  BY BufflenType DEF TypeInv, TypeOK, Popped, Elements

\* Two events of the window have different places, all of them elements.
LEMMA PlacesDiffer ==
  ASSUME TypeInv, Geometry, NEW e \in Nat, NEW f \in Nat,
         Popped < e, e <= begun, Popped < f, f <= begun
  PROVE  /\ Place(e) \in Elements /\ (Place(e) = Place(f) => e = f)
<1> USE BufflenType, IntTypes
<1>1. R \in Nat /\ R < LogT_BUFFLEN /\ begun - Popped <= LogT_BUFFLEN
  BY DEF Geometry, Elements, Waiting
<1>2. ASSUME NEW x \in Nat, NEW y \in Nat, x < LogT_BUFFLEN, y < LogT_BUFFLEN
      PROVE  Turn(R + x) \in Elements /\ (Turn(R + x) = Turn(R + y) => x = y)
  BY <1>1, <1>2 DEF Turn, Elements
<1>3. /\ e - Popped - 1 \in Nat /\ e - Popped - 1 < LogT_BUFFLEN
      /\ f - Popped - 1 \in Nat /\ f - Popped - 1 < LogT_BUFFLEN
  BY <1>1
<1>4. Place(e) = Place(f) => e - Popped - 1 = f - Popped - 1 BY <1>2, <1>3 DEF Place
<1> QED BY <1>2, <1>3, <1>4 DEF Place

\* A push that begins takes the place of the event it brings.
LEMMA NextPlace ==
  ASSUME TypeInv, Geometry, writeptr \in Elements, Waiting < LogT_BUFFLEN
  PROVE  writeptr = Place(begun + 1) /\ Wrap(writeptr + 1) = Turn(R + Waiting + 1)
<1> USE BufflenType, IntTypes
<1>1. R \in Nat /\ R < LogT_BUFFLEN /\ Waiting \in Nat /\ Waiting <= LogT_BUFFLEN
  BY DEF Geometry, Elements, Waiting
<1>2. writeptr = Turn(R + Waiting) BY DEF Geometry, W, Wrap, Elements
<1>3. writeptr = Place(begun + 1)
  <2>1. begun + 1 - Popped - 1 = Waiting BY DEF Waiting
  <2> QED BY <1>2, <2>1 DEF Place
<1>4. Wrap(writeptr + 1) = Turn(R + Waiting + 1)
  <2>1. CASE R + Waiting + 1 < LogT_BUFFLEN BY <1>1, <1>2, <2>1 DEF Turn, Wrap
  <2>2. CASE R + Waiting + 1 >= LogT_BUFFLEN
    <3>1. R + Waiting < 2 * LogT_BUFFLEN BY <1>1
    <3> QED BY <1>1, <1>2, <2>2, <3>1 DEF Turn, Wrap
  <2> QED BY <1>1, <2>1, <2>2
<1> QED BY <1>3, <1>4

\* A push by App_Task_1, into a queue that is not full.
LEMMA AppPushFifo ==
  ASSUME TypeInv, FifoInv, AppPush, raced' = {}, raced = {}
  PROVE  Geometry' /\ Places' /\ Contents' /\ Fifo'
<1> USE BufflenType, IntTypes
<1>1. Geometry /\ Places /\ Contents /\ Fifo BY DEF FifoInv
<1>2. /\ UNCHANGED <<readptr, low, logT, out>>
      /\ begun' = begun + 1 /\ writeptr' = Wrap(writeptr + 1)
      /\ writeptr \in Elements /\ Waiting < LogT_BUFFLEN
      /\ buf' = [buf EXCEPT ![writeptr] = begun + 1]
  BY DEF AppPush, BeginRaces, Race, Full, Waiting, Put
<1>3. /\ R' = R /\ Popped' = Popped /\ Waiting' = Waiting + 1 /\ Waiting \in Nat
      /\ \A e : Missing(e)' <=> Missing(e)
      /\ \A e : Place(e)' = Place(e)
  BY <1>1, <1>2 DEF R, Popped, Waiting, Missing, Unwritten, Place, Geometry, Turn
<1>4. writeptr = Place(begun + 1) /\ writeptr' = Turn(R + Waiting + 1)
  BY <1>1, <1>2, NextPlace
<1>5. R \in Nat /\ R < LogT_BUFFLEN BY <1>1 DEF Geometry, Elements
<1>6. Geometry'
  <2>1. W' = Turn(R + Waiting)' /\ writeptr' <= LogT_BUFFLEN
    BY <1>2, <1>3, <1>4, <1>5 DEF W, Wrap, Turn, Elements
  <2> QED BY <1>1, <1>2, <1>3, <2>1 DEF Geometry
<1>7. Places' BY <1>1, <1>2, <1>3 DEF Places, Unwritten
<1>8. Contents'
  <2> SUFFICES ASSUME NEW e \in Nat, Popped < e, e <= begun + 1, ~Missing(e)
               PROVE  buf'[Place(e)] = e
    BY <1>2, <1>3 DEF Contents
  <2>1. CASE e = begun + 1 BY <1>2, <1>4, <2>1
  <2>2. CASE e <= begun
    <3>1. Place(e) \in Elements BY <1>1, <2>2, PlacesDiffer
    <3>2. Place(e) # writeptr
      BY <1>2, <1>4, <1>5, <2>2 DEF Place, Turn, Waiting
    <3> QED BY <1>1, <1>2, <2>2, <3>1, <3>2 DEF Contents
  <2> QED BY <2>1, <2>2
<1>9. Fifo' BY <1>1, <1>2 DEF Fifo
<1> QED BY <1>6, <1>7, <1>8, <1>9

\* The steps of a push by another producer.
LEMMA LowFifo ==
  ASSUME TypeInv, FifoInv, NEW p \in Producers, LowStep(p), raced' = {}, raced = {}
  PROVE  Geometry' /\ Places' /\ Contents' /\ Fifo'
<1> USE BufflenType, IntTypes
<1>1. Geometry /\ Places /\ Contents /\ Fifo BY DEF FifoInv
<1>2. /\ logT.pc \in {"poll", "copied"} /\ UNCHANGED <<readptr, logT, out>>
      /\ \A q \in Producers \ {p} : low'[q] = low[q]
  BY LowFacts
<1>3. /\ R' = R /\ R \in Nat /\ R < LogT_BUFFLEN /\ Popped' = Popped /\ Fifo'
      /\ \A e : Place(e)' = Place(e)
  BY <1>1, <1>2 DEF R, Popped, Fifo, Geometry, Elements, Place, Turn
<1>4. CASE LowTakeSlot(p)
  <2>1. /\ low[p].pc = "idle" /\ low'[p].pc = "slot" /\ low'[p].slot = writeptr
        /\ low'[p].ev = begun + 1
    BY <1>4, LowMoves
  <2>2. /\ begun' = begun + 1 /\ writeptr' = writeptr + 1 /\ writeptr \in Elements
        /\ UNCHANGED buf /\ Waiting < LogT_BUFFLEN
    BY <1>4 DEF LowTakeSlot, BeginRaces, Race, Full, Waiting
  <2>3. writeptr = Place(begun + 1) /\ Wrap(writeptr + 1) = Turn(R + Waiting + 1)
    BY <1>1, <2>2, NextPlace
  <2>4. Waiting' = Waiting + 1 /\ Waiting \in Nat /\ W' = Turn(R + Waiting)'
    BY <1>1, <1>3, <2>2, <2>3 DEF Waiting, Geometry, W, Wrap, Turn
  <2>5. \A q \in Producers : Unwritten(q)' <=> Unwritten(q) \/ q = p
    BY <1>2, <2>1 DEF Unwritten
  <2>6. ~Unwritten(p) BY <2>1 DEF Unwritten
  <2>7. \A e : Missing(e)' <=> Missing(e) \/ e = begun + 1
    BY <1>2, <2>1, <2>5, <2>6 DEF Missing
  <2>8. Geometry'
    <3>1. Popped' <= begun' /\ Waiting' <= LogT_BUFFLEN /\ writeptr' <= LogT_BUFFLEN
      BY <1>1, <1>3, <2>2, <2>4 DEF Geometry, Elements
    <3>2. logT.pc \in {"copied", "stored", "loaded"} => ~Missing(Popped + 1)'
      <4>1. Popped < begun => (Missing(Popped + 1)' <=> Missing(Popped + 1)) BY <1>3, <2>7
      <4> QED BY <1>1, <4>1 DEF Geometry
    <3> QED BY <1>1, <1>2, <1>3, <2>2, <2>4, <3>1, <3>2 DEF Geometry
  <2>9. Places'
    <3>1. \A q \in Producers : Unwritten(q) => q # p /\ low'[q] = low[q] BY <1>2, <2>6
    <3>2. \A q \in Producers : Unwritten(q)' =>
            /\ low'[q].ev \in Nat /\ Popped < low'[q].ev /\ low'[q].ev <= begun + 1
            /\ low'[q].slot = Place(low'[q].ev)
            /\ q # p => low'[q].ev <= begun
      <4> SUFFICES ASSUME NEW q \in Producers, Unwritten(q)'
                   PROVE  /\ low'[q].ev \in Nat /\ Popped < low'[q].ev
                          /\ low'[q].ev <= begun + 1
                          /\ low'[q].slot = Place(low'[q].ev)
                          /\ q # p => low'[q].ev <= begun
        OBVIOUS
      <4>1. CASE q = p BY <1>1, <2>1, <2>3, <4>1 DEF Geometry
      <4>2. CASE q # p
        <5>1. Unwritten(q) /\ low'[q] = low[q] BY <1>2, <2>5, <4>2
        <5> QED BY <1>1, <5>1 DEF Places
      <4> QED BY <4>1, <4>2
    <3>3. ASSUME NEW q \in Producers, NEW r \in Producers, Unwritten(q)', Unwritten(r)',
                 low'[q].ev = low'[r].ev
          PROVE  q = r
      <4>1. CASE q = p \/ r = p BY <2>1, <3>2, <3>3, <4>1
      <4>2. CASE q # p /\ r # p
        <5>1. Unwritten(q) /\ Unwritten(r) /\ low'[q] = low[q] /\ low'[r] = low[r]
          BY <1>2, <2>5, <3>3, <4>2
        <5> QED BY <1>1, <3>3, <5>1 DEF Places
      <4> QED BY <4>1, <4>2
    <3> QED BY <1>3, <2>2, <3>2, <3>3 DEF Places
  <2>10. Contents' BY <1>1, <1>3, <2>2, <2>7 DEF Contents
  <2> QED BY <1>3, <2>8, <2>9, <2>10
<1>5. ASSUME UNCHANGED <<buf, begun>>, W' = W, writeptr' <= LogT_BUFFLEN,
             Unwritten(p)' <=> Unwritten(p),
             Unwritten(p) => low'[p].ev = low[p].ev /\ low'[p].slot = low[p].slot
      PROVE  Geometry' /\ Places' /\ Contents' /\ Fifo'
  <2>1. /\ \A q \in Producers : Unwritten(q)' <=> Unwritten(q)
        /\ \A q \in Producers : Unwritten(q) =>
             low'[q].ev = low[q].ev /\ low'[q].slot = low[q].slot
    BY <1>2, <1>5 DEF Unwritten
  <2>2. \A e : Missing(e)' <=> Missing(e) BY <2>1 DEF Missing
  <2>3. Waiting' = Waiting BY <1>3, <1>5 DEF Waiting
  <2>4. Geometry' BY <1>1, <1>2, <1>3, <1>5, <2>2, <2>3 DEF Geometry, Turn
  <2>5. Places' BY <1>1, <1>3, <1>5, <2>1 DEF Places
  <2>6. Contents' BY <1>1, <1>3, <1>5, <2>2 DEF Contents
  <2> QED BY <1>3, <2>4, <2>5, <2>6
<1>6. CASE LowLoadCount(p)
  <2>1. UNCHANGED <<buf, begun, writeptr>> BY <1>6 DEF LowLoadCount
  <2> QED BY <1>1, <1>5, <1>6, <2>1, LowMoves DEF Unwritten, W, Geometry
<1>7. CASE LowStoreCount(p)
  <2>1. UNCHANGED <<buf, begun, writeptr>> BY <1>7 DEF LowStoreCount
  <2> QED BY <1>1, <1>5, <1>7, <2>1, LowMoves DEF Unwritten, W, Geometry
<1>8. CASE LowWrap(p)
  <2>1. UNCHANGED <<buf, begun>> /\ writeptr' = Wrap(writeptr) BY <1>8 DEF LowWrap
  <2>2. writeptr <= LogT_BUFFLEN BY <1>1 DEF Geometry
  <2>3. W' = W BY <2>1, <2>2 DEF W, Wrap
  <2>4. writeptr' <= LogT_BUFFLEN BY <2>1, <2>2 DEF Wrap
  <2> QED BY <1>5, <1>8, <2>1, <2>3, <2>4, LowMoves DEF Unwritten
<1>9. CASE LowWriteRecord(p)
  <2>1. /\ low[p].pc = "counted" /\ low'[p].pc = "written" BY <1>9, LowMoves
  <2>2. /\ UNCHANGED <<begun, writeptr>> /\ buf' = Put(low[p].slot, low[p].ev)
        /\ W' = W /\ Waiting' = Waiting
    BY <1>3, <1>9 DEF LowWriteRecord, W, Waiting
  <2>3. /\ Unwritten(p) /\ low[p].ev \in Nat /\ Popped < low[p].ev /\ low[p].ev <= begun
        /\ low[p].slot = Place(low[p].ev)
    BY <1>1, <2>1 DEF Unwritten, Places
  <2>4. low[p].slot \in Elements BY <1>1, <2>3, PlacesDiffer
  <2>5. buf' = [buf EXCEPT ![low[p].slot] = low[p].ev] BY <2>2, <2>4 DEF Put
  <2>6. /\ \A q \in Producers : Unwritten(q)' <=> Unwritten(q) /\ q # p
        /\ \A q \in Producers : Unwritten(q)' => low'[q] = low[q]
    BY <1>2, <2>1 DEF Unwritten
  <2>7. \A e \in Nat : Missing(e) => Missing(e)' \/ e = low[p].ev
    BY <2>6 DEF Missing
  <2>8. \A e \in Nat : Missing(e)' => Missing(e) BY <2>6 DEF Missing
  <2>9. Geometry' BY <1>1, <1>2, <1>3, <2>2, <2>8 DEF Geometry, Turn
  <2>10. Places' BY <1>1, <1>3, <2>2, <2>6 DEF Places
  <2>11. Contents'
    <3> SUFFICES ASSUME NEW e \in Nat, Popped < e, e <= begun, ~Missing(e)'
                 PROVE  buf'[Place(e)] = e
      BY <1>3, <2>2 DEF Contents
    <3>1. Place(e) \in Elements /\ (Place(e) = Place(low[p].ev) => e = low[p].ev)
      BY <1>1, <2>3, PlacesDiffer
    <3>2. CASE e = low[p].ev BY <2>3, <2>4, <2>5, <3>2
    <3>3. CASE e # low[p].ev
      <4>1. buf[Place(e)] = e BY <1>1, <2>7, <3>3 DEF Contents
      <4> QED BY <2>3, <2>5, <3>1, <3>3, <4>1
    <3> QED BY <3>2, <3>3
  <2> QED BY <1>3, <2>9, <2>10, <2>11
<1> QED BY <1>4, <1>6, <1>7, <1>8, <1>9 DEF LowStep

\* The steps of a pop.
LEMMA LogTFifo ==
  ASSUME TypeInv, CountInv, CardInv, FifoInv, LogTStep, raced' = {}, raced = {}
  PROVE  Geometry' /\ Places' /\ Contents' /\ Fifo'
<1> USE BufflenType, IntTypes
<1>1. Geometry /\ Places /\ Contents /\ Fifo BY DEF FifoInv
<1>2. UNCHANGED <<buf, writeptr, low, begun, pushed>>
  BY DEF LogTStep, CopyRecord, NotStored, Stored, LoadCount, StoreCount, WrapReadptr
<1>3. /\ W' = W /\ R \in Nat /\ R < LogT_BUFFLEN
      /\ \A q : Unwritten(q)' <=> Unwritten(q)
      /\ \A e : Missing(e)' <=> Missing(e)
  BY <1>1, <1>2 DEF W, Geometry, Elements, Unwritten, Missing
<1>4. ASSUME R' = R, out' = out,
             logT'.pc \in {"copied", "stored", "loaded"} =>
               Popped < begun /\ ~Missing(Popped + 1) /\ logT'.rec = Popped + 1
      PROVE  Geometry' /\ Places' /\ Contents' /\ Fifo'
  <2>1. /\ Popped' = Popped /\ Waiting' = Waiting /\ \A e : Place(e)' = Place(e)
    BY <1>2, <1>4 DEF Popped, Waiting, Place, Turn
  <2>2. Geometry' BY <1>1, <1>2, <1>3, <1>4, <2>1 DEF Geometry, Turn
  <2>3. Places' BY <1>1, <1>2, <1>3, <2>1 DEF Places
  <2>4. Contents' BY <1>1, <1>2, <1>3, <2>1 DEF Contents
  <2>5. Fifo' BY <1>1, <1>4 DEF Fifo
  <2> QED BY <2>2, <2>3, <2>4, <2>5
<1>5. CASE CopyRecord
  <2>1. /\ logT.pc = "poll" /\ count # 0 /\ UNCHANGED <<readptr, out>>
        /\ logT' = [pc |-> "copied", rec |-> buf[readptr], reg |-> 0]
    BY <1>5 DEF CopyRecord
  <2>2. \A p \in Producers : Unwritten(p) => low[p].slot # readptr
    BY <1>5 DEF CopyRecord, Race
  <2>3. R' = R /\ R = readptr BY <2>1 DEF R, Wrap, TypeInv, ReadptrOK, Elements
  <2>4. Popped < begun
    <3>1. Popped < pushed
      BY <2>1 DEF CountInv, CountNeverNegative, NeverOverstated, NeverUnderstated
    <3>2. Cardinality(Uncounted) \in Nat BY UncountedFinite, FS_CardinalityType
    <3> QED BY <3>1, <3>2 DEF CardInv
  <2>5. Place(Popped + 1) = readptr BY <1>3, <2>3 DEF Place, Turn
  <2>6. ~Missing(Popped + 1)
    BY <1>1, <2>2, <2>5 DEF Missing, Places
  <2>7. buf[readptr] = Popped + 1 BY <1>1, <2>4, <2>5, <2>6 DEF Contents
  <2> QED BY <1>4, <2>1, <2>3, <2>4, <2>6, <2>7
<1>6. CASE NotStored
  <2>1. R' = R /\ out' = out /\ logT'.pc = "poll"
    BY <1>6 DEF NotStored, Delayed, R
  <2> QED BY <1>4, <2>1
<1>7. CASE Stored
  <2>1. /\ logT.pc = "copied" /\ logT'.pc = "stored" /\ logT'.rec = logT.rec
        /\ readptr' = readptr + 1 /\ out' = out
    BY <1>7 DEF Stored, TypeInv, TypeOK
  <2>2. R' = R BY <2>1 DEF R, Wrap, TypeInv, ReadptrOK, Elements
  <2> QED BY <1>1, <1>4, <2>1, <2>2 DEF Geometry
<1>8. CASE LoadCount
  <2>1. /\ logT.pc = "stored" /\ logT'.pc = "loaded" /\ logT'.rec = logT.rec
        /\ readptr' = readptr /\ out' = out
    BY <1>8 DEF LoadCount, TypeInv, TypeOK
  <2>2. R' = R BY <2>1 DEF R
  <2> QED BY <1>1, <1>4, <2>1, <2>2 DEF Geometry
<1>9. CASE StoreCount
  <2>1. /\ logT.pc = "loaded" /\ logT'.pc = "wrap" /\ readptr' = readptr
        /\ out' = Append(out, logT.rec)
    BY <1>9 DEF StoreCount, TypeInv, TypeOK
  <2>2. /\ Popped' = Popped + 1 /\ Waiting' = Waiting - 1
        /\ R = readptr - 1 /\ R' = Turn(R + 1)
    BY <1>2, <1>3, <2>1 DEF Popped, Waiting, R, Wrap, Turn, TypeInv, TypeOK
  <2>3. /\ Popped < begun /\ logT.rec = Popped + 1 /\ W = Turn(R + Waiting)
        /\ ~Missing(Popped + 1)
        /\ Waiting <= LogT_BUFFLEN /\ Waiting >= 1 /\ Waiting \in Nat
    BY <1>1, <1>3, <2>1 DEF Geometry, Waiting
  <2>4. R' \in Elements BY <1>3, <2>2 DEF Turn, Elements
  <2>5. W' = Turn(R + Waiting)' BY <1>3, <2>2, <2>3 DEF Turn
  <2>6. Geometry'
    <3>1. begun' = begun /\ writeptr' = writeptr BY <1>9 DEF StoreCount
    <3>2. writeptr <= LogT_BUFFLEN BY <1>1 DEF Geometry
    <3>3. Popped' <= begun' BY <1>3, <2>2, <2>3, <3>1
    <3>4. Waiting' <= LogT_BUFFLEN BY <1>3, <2>2, <2>3
    <3>5. logT'.pc \notin {"copied", "stored", "loaded"} BY <2>1
    <3> QED BY <2>4, <2>5, <3>1, <3>2, <3>3, <3>4, <3>5 DEF Geometry
  <2>7. \A e \in Nat : Popped + 1 < e /\ e <= begun => Place(e)' = Place(e)
    BY <1>3, <2>2, <2>3 DEF Place, Turn, Waiting
  <2>8. \A p \in Producers : Unwritten(p) => low[p].ev # Popped + 1
    BY <2>3 DEF Missing
  <2>9. Places'
    <3>1. \A p \in Producers : Unwritten(p) =>
            /\ low[p].ev \in Nat /\ Popped + 1 < low[p].ev /\ low[p].ev <= begun
            /\ low[p].slot = Place(low[p].ev)
      <4> SUFFICES ASSUME NEW p \in Producers, Unwritten(p)
                   PROVE  /\ low[p].ev \in Nat /\ Popped + 1 < low[p].ev
                          /\ low[p].ev <= begun /\ low[p].slot = Place(low[p].ev)
        OBVIOUS
      <4>1. /\ low[p].ev \in Nat /\ Popped < low[p].ev
            /\ low[p].ev <= begun /\ low[p].slot = Place(low[p].ev)
        BY <1>1 DEF Places
      <4>2. low[p].ev # Popped + 1 BY <2>8
      <4> QED BY <4>1, <4>2
    <3>2. \A p \in Producers : Unwritten(p) => low[p].slot = Place(low[p].ev)'
      <4> SUFFICES ASSUME NEW p \in Producers, Unwritten(p)
                   PROVE  low[p].slot = Place(low[p].ev)'
        OBVIOUS
      <4>1. PICK e \in Nat : e = low[p].ev BY <3>1
      <4>2. Place(e)' = Place(e) BY <2>7, <3>1, <4>1
      <4>3. low'[p].ev = e BY <1>2, <4>1
      <4> QED BY <3>1, <4>1, <4>2, <4>3 DEF Place
    <3> QED BY <1>1, <1>2, <1>3, <2>2, <3>1, <3>2 DEF Places
  <2>10. Contents' BY <1>1, <1>2, <1>3, <2>2, <2>7 DEF Contents
  <2>11. Fifo'
    <3> SUFFICES ASSUME NEW i \in DOMAIN out' PROVE out'[i] = i BY DEF Fifo
    <3>1. CASE i = Popped + 1 BY <2>1, <2>3, <3>1 DEF Popped, TypeInv, TypeOK
    <3>2. CASE i \in DOMAIN out
      BY <1>1, <2>1, <3>2 DEF Fifo, TypeInv, TypeOK
    <3> QED BY <2>1, <3>1, <3>2 DEF Popped, TypeInv, TypeOK
  <2> QED BY <2>6, <2>9, <2>10, <2>11
<1>10. CASE WrapReadptr
  <2>1. R' = R /\ out' = out /\ logT'.pc = "poll"
    BY <1>10 DEF WrapReadptr, Delayed, R, Wrap
  <2> QED BY <1>4, <2>1
<1> QED BY <1>5, <1>6, <1>7, <1>8, <1>9, <1>10 DEF LogTStep

LEMMA NextFifoInv == TypeInv /\ CountInv /\ CardInv /\ FifoInv /\ [Next]_vars => FifoInv'
<1> SUFFICES ASSUME TypeInv, CountInv, CardInv, FifoInv, [Next]_vars, raced' = {}
             PROVE  Geometry' /\ Places' /\ Contents' /\ Fifo'
  BY DEF FifoInv
<1>1. raced = {} BY RacedGrows
<1>2. CASE UNCHANGED vars
  BY <1>1, <1>2 DEF vars, FifoInv, Geometry, Places, Contents, Fifo, R, W, Waiting,
     Popped, Turn, Place, Missing, Unwritten
<1> QED BY <1>1, <1>2, AppPushFifo, LowFifo, LogTFifo DEF Next

(***************************************************************************)
(* The races named are all there are: until one of them happens, the flash *)
(* gets every event once, whole and in the order of the calls, for a queue *)
(* of any length, any producers and whatever the interleaving.             *)
(***************************************************************************)
THEOREM FifoCorrect == Spec => []Fifo
<1>1. TypeInv /\ CountInv /\ FifoInv => Fifo BY DEF FifoInv, Fifo
<1>2. Init => FifoInv /\ CardInv BY InitFifoInv, InitCardInv
<1> QED BY <1>1, <1>2, CountInvariant, NextFifoInv, NextCardInv, PTL DEF Spec
=============================================================================
