--------------------------- MODULE R3kSerialProofs ---------------------------
(***************************************************************************)
(* Theorems about R3kSerial, for a ring of any length, any number of       *)
(* events and any set of producers.                                        *)
(***************************************************************************)
EXTENDS R3kSerial, FiniteSetTheorems, TLAPS

\* The mishaps of the ring, and those of the line.
RingMishaps == {"lostPush", "lostPop", "early", "overrun", "runoff"}
LineMishaps == {"late", "putback"}
Free(S)     == strayed \cap S = {}

LEMMA ConstantTypes ==
  ASSUME ConstantsAssumption
  PROVE  /\ R3KSERIALBUFFLEN \in Nat /\ R3KSERIALBUFFLEN >= 1
         /\ MaxEvents \in Nat /\ MaxLate \in Nat /\ MaxClears \in Nat
         /\ Producers \subseteq Nat /\ IsFiniteSet(Producers)
  BY DEF ConstantsAssumption

-----------------------------------------------------------------------------
(* Types.                                                                  *)

LEMMA InitTypeOK ==
  ASSUME ConstantsAssumption, Init
  PROVE  TypeOK
<1> USE ConstantTypes DEF Init
<1>1. NotPushing \in Push BY DEF Push, NotPushing, Records, Junk
<1>2. low \in [Producers -> Push] BY <1>1
<1>3. ring \in [Elements -> Records] /\ sent \in Records BY DEF Records, Junk
<1>4. clear \in [pc : {"idle", "loaded"}, bit : BOOLEAN, left : 0..MaxClears] OBVIOUS
<1>5. done \in Seq([ev : Records, sent : Records]) OBVIOUS
<1>6. st \in States /\ readptr \in Elements BY DEF States, Elements
<1>7. /\ writeptr = 0 /\ count = 0 /\ on \in BOOLEAN /\ console \in BOOLEAN
      /\ ack \in BOOLEAN /\ owed \in BOOLEAN /\ late = 0 /\ received = {}
  BY Zenon DEF Init
<1>8. begun = 0 /\ pushed = 0 /\ strayed = {} BY ONLY Init DEF Init
<1> QED
  BY ONLY ConstantTypes, ConstantsAssumption, <1>2, <1>3, <1>4, <1>5, <1>6, <1>7, <1>8 DEF TypeOK

\* A record is put in the ring or nowhere.
LEMMA PutType ==
  ASSUME TypeOK, NEW slot \in Nat, NEW e \in Records
  PROVE  Put(slot, e) \in [Elements -> Records]
  BY DEF Put, TypeOK

LEMMA MishapTypes ==
  /\ BeginMishaps \subseteq Mishaps
  /\ \A kind \in Mishaps, c \in BOOLEAN : Mishap(kind, c) \subseteq Mishaps
  BY DEF BeginMishaps, Mishap, Mishaps

LEMMA PushTypeOK ==
  ASSUME ConstantsAssumption, TypeOK, NEW p \in Producers, PushStep(p)
  PROVE  TypeOK'
<1> USE ConstantTypes DEF TypeOK, Moves
<1>0. low[p] \in Push /\ low \in [Producers -> Push] OBVIOUS
<1>1. CASE TakeSlot(p)
  <2>1. begun' = begun + 1 /\ begun + 1 \in Events /\ begun' \in 0..MaxEvents
    BY <1>1 DEF TakeSlot, Events
  <2>2. PICK locked \in BOOLEAN :
          low' = [low EXCEPT ![p] = [pc |-> "slot", slot |-> writeptr, reg |-> 0,
                                     ev |-> begun + 1, locked |-> locked]]
    BY <1>1 DEF TakeSlot
  <2>3. low' \in [Producers -> Push] BY <1>0, <2>1, <2>2 DEF Push, Records
  <2>4. strayed' \subseteq Mishaps BY <1>1, MishapTypes DEF TakeSlot
  <2>5. writeptr' \in Nat BY <1>1 DEF TakeSlot
  <2> QED BY <1>1, <2>1, <2>3, <2>4, <2>5 DEF TakeSlot, linkVars
<1>2. CASE PushLoads(p)
  <2>1. low' \in [Producers -> Push] BY <1>0, <1>2 DEF PushLoads, Push
  <2> QED BY <1>2, <2>1 DEF PushLoads, linkVars
<1>3. CASE PushStores(p)
  <2>1. low' \in [Producers -> Push]
    <3>1. low' = [low EXCEPT ![p].pc = "counted"] BY <1>3 DEF PushStores
    <3>2. [low[p] EXCEPT !.pc = "counted"] \in Push BY ONLY <1>0 DEF Push
    <3> QED BY ONLY <1>0, <3>1, <3>2
  <2>2. count' \in Int /\ pushed' \in Nat
    <3>1. count' = low[p].reg + 1 /\ pushed' = pushed + 1 BY ONLY <1>3 DEF PushStores
    <3>2. low[p].reg \in Int /\ pushed \in Nat BY ONLY TypeOK, <1>0 DEF TypeOK, Push
    <3> QED BY ONLY <3>1, <3>2
  <2>3. strayed' \subseteq Mishaps
    <3>1. strayed' = strayed \cup Mishap("lostPush", Counting(Producers \ {p}))
      BY ONLY <1>3 DEF PushStores
    <3>2. Mishap("lostPush", Counting(Producers \ {p})) \subseteq Mishaps
      BY ONLY TRUE DEF Mishap, Mishaps
    <3> QED BY <3>1, <3>2
  <2> QED BY <1>3, <2>1, <2>2, <2>3 DEF PushStores, linkVars
<1>4. CASE PushWrites(p)
  <2>1. low' \in [Producers -> Push] BY <1>0, <1>4 DEF PushWrites, Push
  <2>2. ring' \in [Elements -> Records] BY <1>0, <1>4, PutType DEF PushWrites, Push
  <2> QED BY <1>4, <2>1, <2>2 DEF PushWrites, linkVars
<1>5. CASE PushWraps(p)
  <2>0. NotPushing \in Push BY ONLY DEF Push, NotPushing, Junk, Records
  <2>1. low' \in [Producers -> Push] BY <1>0, <1>5, <2>0 DEF PushWraps
  <2>2. writeptr' \in Nat BY <1>5 DEF PushWraps, Wrap
  <2> QED BY <1>5, <2>1, <2>2 DEF PushWraps, linkVars
<1> QED BY <1>1, <1>2, <1>3, <1>4, <1>5 DEF PushStep

LEMMA AppPushTypeOK ==
  ASSUME ConstantsAssumption, TypeOK, AppPush
  PROVE  TypeOK'
<1> USE ConstantTypes DEF TypeOK
<1>1. strayed' \subseteq Mishaps
  <2>1. Mishap("lostPush", Counting(Producers)) \subseteq Mishaps BY DEF Mishap, Mishaps
  <2> QED BY <2>1, MishapTypes DEF AppPush
<1>2. writeptr' \in Nat BY DEF AppPush, Wrap
<1>3. begun + 1 \in Events BY DEF AppPush, Events
<1>4. ring' \in [Elements -> Records] BY <1>3, PutType DEF AppPush, Records
<1>5. begun' \in 0..MaxEvents BY DEF AppPush
<1> QED BY <1>1, <1>2, <1>4, <1>5 DEF AppPush, linkVars

\* A transmission given up leaves a late answer or none.
LEMMA GiveUpType ==
  ASSUME ConstantsAssumption, TypeOK, GiveUp
  PROVE  owed' = FALSE /\ late' \in 0..MaxLate
  BY ConstantTypes DEF GiveUp, TypeOK

LEMMA TransmitType ==
  ASSUME TypeOK, NEW rec \in Records, NEW got \in BOOLEAN, Transmit(rec, got)
  PROVE  sent' \in Records /\ owed' \in BOOLEAN /\ late' = late /\ received' \subseteq Records
  BY DEF Transmit, TypeOK

LEMMA LinkTypeOK ==
  ASSUME ConstantsAssumption, TypeOK, fsm_R3kSendCid
  PROVE  TypeOK'
<1>1. /\ ring[readptr] \in Records /\ Junk \in Records
      /\ {"WAITACK", "WAITACK06", "IDLE", "WAITCONSOLE"} \subseteq States
  BY DEF TypeOK, Records, States
<1>2. ASSUME NEW got \in BOOLEAN, SendEvent(got) PROVE TypeOK'
  <2>1. strayed' \subseteq Mishaps BY <1>2 DEF SendEvent, Mishap, Mishaps, TypeOK
  <2>2. /\ sent' \in Records /\ owed' \in BOOLEAN /\ late' = late
        /\ received' \subseteq Records
    BY <1>1, <1>2, TransmitType DEF SendEvent
  <2> QED BY <1>1, <1>2, <2>1, <2>2 DEF SendEvent, TypeOK, ringVars
<1>3. ASSUME NEW got \in BOOLEAN, SendPoke(got) PROVE TypeOK'
  <2>2. /\ sent' \in Records /\ owed' \in BOOLEAN /\ late' = late
        /\ received' \subseteq Records
    BY <1>1, <1>3, TransmitType DEF SendPoke
  <2> QED BY <1>1, <1>3, <2>2 DEF SendPoke, TypeOK, ringVars
<1>4. CASE TakeAck
  <2>1. owed' = FALSE /\ late' \in 0..MaxLate BY <1>4, GiveUpType DEF TakeAck
  <2>2. /\ readptr' \in Elements /\ count' \in Int /\ strayed' \subseteq Mishaps
        /\ done' \in Seq([ev : Records, sent : Records])
    <3>1. CASE count = 0 BY <1>4, <3>1 DEF TakeAck, TypeOK
    <3>2. CASE count # 0
      <4>1. readptr' \in Elements
        <5>1. readptr' = Wrap(readptr + 1) BY ONLY <1>4, <3>2 DEF TakeAck
        <5>2. readptr \in Elements /\ R3KSERIALBUFFLEN \in Nat /\ R3KSERIALBUFFLEN >= 1
          BY ConstantTypes DEF TypeOK
        <5> QED BY ONLY <5>1, <5>2 DEF Wrap, Elements
      <4>2. count' \in Int
        <5>1. count' = count - 1 BY ONLY <1>4, <3>2 DEF TakeAck
        <5>2. count \in Int BY DEF TypeOK
        <5> QED BY ONLY <5>1, <5>2
      <4>3. strayed' \subseteq Mishaps
        <5>1. strayed' = strayed \cup Mishap("lostPop", Counting(Producers))
                           \cup Mishap("early", Unwritten)
          BY ONLY <1>4, <3>2 DEF TakeAck
        <5>2. /\ Mishap("lostPop", Counting(Producers)) \subseteq Mishaps
              /\ Mishap("early", Unwritten) \subseteq Mishaps
          BY ONLY TRUE DEF Mishap, Mishaps
        <5> QED BY <5>1, <5>2 DEF TypeOK
      <4>4. done' = Append(done, [ev |-> ring[readptr], sent |-> sent])
        BY <1>4, <3>2 DEF TakeAck
      <4>5. [ev |-> ring[readptr], sent |-> sent] \in [ev : Records, sent : Records]
        BY <1>1 DEF TypeOK
      <4>6. done \in Seq([ev : Records, sent : Records]) BY DEF TypeOK
      <4> QED BY <4>1, <4>2, <4>3, <4>4, <4>5, <4>6
    <3> QED BY <3>1, <3>2
  <2> QED BY <1>1, <1>4, <2>1, <2>2 DEF TakeAck, TypeOK
<1>5. CASE WaitEnds
  <2>1. owed' = FALSE /\ late' \in 0..MaxLate BY <1>5, GiveUpType DEF WaitEnds
  <2> QED BY <1>1, <1>5, <2>1 DEF WaitEnds, TypeOK, ringVars
<1>6. CASE ToConsole
  <2>1. owed' = FALSE /\ late' \in 0..MaxLate BY <1>6, GiveUpType DEF ToConsole
  <2> QED BY <1>1, <1>6, <2>1 DEF ToConsole, TypeOK, ringVars
<1>7. CASE FromConsole BY <1>1, <1>7 DEF FromConsole, TypeOK, ringVars
<1> QED BY <1>2, <1>3, <1>4, <1>5, <1>6, <1>7 DEF fsm_R3kSendCid

LEMMA NextTypeOK ==
  ASSUME ConstantsAssumption, TypeOK, [Next]_vars
  PROVE  TypeOK'
<1>1. CASE UNCHANGED vars BY <1>1 DEF vars, ringVars, linkVars, TypeOK
<1>2. CASE Answer BY <1>2 DEF Answer, ringVars, TypeOK
<1>3. CASE LateAnswer
  <2>1. strayed' \subseteq Mishaps BY <1>3 DEF LateAnswer, TypeOK, Mishap, Mishaps
  <2>2. late' \in 0..MaxLate BY <1>3, ConstantTypes DEF LateAnswer, TypeOK
  <2> QED BY <1>3, <2>1, <2>2 DEF LateAnswer, ringVars, TypeOK
<1>4. CASE Console \/ SetMode BY <1>4 DEF Console, SetMode, ringVars, TypeOK
<1>5. CASE ClearLoads BY <1>5, ConstantTypes DEF ClearLoads, ringVars, TypeOK
<1>6. CASE ClearStores
  <2>1. strayed' \subseteq Mishaps BY <1>6 DEF ClearStores, TypeOK, Mishap, Mishaps
  <2> QED BY <1>6, <2>1 DEF ClearStores, ringVars, TypeOK
<1> QED
  BY <1>1, <1>2, <1>3, <1>4, <1>5, <1>6, AppPushTypeOK, PushTypeOK, LinkTypeOK DEF Next

(***************************************************************************)
(* The read position never leaves the ring, and everything else has its    *)
(* type, whatever the tasks, the console and the line do to each other.    *)
(***************************************************************************)
THEOREM TypeCorrect ==
  ASSUME ConstantsAssumption
  PROVE  Spec => []TypeOK
<1>1. Init => TypeOK BY InitTypeOK
<1>2. TypeOK /\ [Next]_vars => TypeOK' BY NextTypeOK
<1> QED BY <1>1, <1>2, PTL DEF Spec

-----------------------------------------------------------------------------
(***************************************************************************)
(* The line.  The flag of the acknowledgement is never up while the        *)
(* machine is idle, which is why a transmission need not clear it; and     *)
(* while it waits, the flag and the answer to come are both of what was    *)
(* last transmitted and has arrived.                                       *)
(***************************************************************************)
LineInv ==
  Free(LineMishaps) =>
    /\ st \in {"IDLE", "WAITCONSOLE"} => ~owed
    /\ st = "IDLE" => ~ack
    /\ owed => sent \in received
    /\ st = "WAITACK" /\ ack => sent \in received
    /\ \A i \in DOMAIN done : done[i].sent \in received

\* What is noted as a mishap stays noted.
LEMMA StrayedGrows == [Next]_vars => strayed \subseteq strayed'
  BY DEF Next, vars, fsm_R3kSendCid, PushStep, AppPush, TakeSlot, PushLoads, PushStores, PushWrites,
     PushWraps, SendEvent, SendPoke, TakeAck, WaitEnds, ToConsole, FromConsole, Answer,
     LateAnswer, Console, SetMode, ClearLoads, ClearStores

LEMMA NextLineInv ==
  ASSUME ConstantsAssumption, TypeOK, LineInv, [Next]_vars
  PROVE  LineInv'
<1> SUFFICES ASSUME Free(LineMishaps)'
             PROVE  /\ st' \in {"IDLE", "WAITCONSOLE"} => ~owed'
                    /\ st' = "IDLE" => ~ack'
                    /\ owed' => sent' \in received'
                    /\ st' = "WAITACK" /\ ack' => sent' \in received'
                    /\ \A i \in DOMAIN done' : done'[i].sent \in received'
  BY DEF LineInv
<1>1. Free(LineMishaps) BY StrayedGrows DEF Free
<1>2. /\ st \in {"IDLE", "WAITCONSOLE"} => ~owed
      /\ st = "IDLE" => ~ack
      /\ owed => sent \in received
      /\ st = "WAITACK" /\ ack => sent \in received
      /\ \A i \in DOMAIN done : done[i].sent \in received
  BY <1>1 DEF LineInv
<1>3. done \in Seq([ev : Records, sent : Records]) /\ st \in States /\ ack \in BOOLEAN
      /\ owed \in BOOLEAN
  BY DEF TypeOK
<1>4. CASE AppPush BY <1>2, <1>4 DEF AppPush, linkVars
<1>5. ASSUME NEW p \in Producers, PushStep(p)
      PROVE  UNCHANGED <<st, ack, sent, owed, received, done>>
  BY <1>5 DEF PushStep, TakeSlot, PushLoads, PushStores, PushWrites, PushWraps, linkVars
<1>6. ASSUME NEW got \in BOOLEAN, SendEvent(got) \/ SendPoke(got)
      PROVE  /\ st' \in {"WAITACK", "WAITACK06"} /\ ~ack' /\ owed' = got /\ done' = done
             /\ received' = IF got THEN received \cup {sent'} ELSE received
  BY <1>2, <1>6 DEF SendEvent, SendPoke, Transmit, ringVars
<1>7. CASE TakeAck
  <2>1. st' = "IDLE" /\ ~ack' /\ ~owed' /\ received' = received BY <1>7 DEF TakeAck, GiveUp
  <2>2. sent \in received BY <1>2, <1>7 DEF TakeAck
  <2>3. \A i \in DOMAIN done' : done'[i].sent \in received
    <3>1. CASE count = 0 BY <1>2, <1>7, <3>1 DEF TakeAck
    <3>2. CASE count # 0
      <4>1. done' = Append(done, [ev |-> ring[readptr], sent |-> sent])
        BY <1>7, <3>2 DEF TakeAck
      <4> SUFFICES ASSUME NEW i \in DOMAIN done' PROVE done'[i].sent \in received OBVIOUS
      <4>2. CASE i \in DOMAIN done
        <5>1. done'[i] = done[i] BY <1>3, <4>1, <4>2
        <5> QED BY <1>2, <4>2, <5>1
      <4>3. CASE i \notin DOMAIN done
        <5>1. done'[i] = [ev |-> ring[readptr], sent |-> sent] BY <1>3, <4>1, <4>3
        <5> QED BY <2>2, <5>1
      <4> QED BY <4>2, <4>3
    <3> QED BY <3>1, <3>2
  <2> QED BY <2>1, <2>3
<1>8. CASE WaitEnds \/ ToConsole
  <2>1. /\ st' \in {"IDLE", "WAITCONSOLE"} /\ ~owed' /\ received' = received /\ done' = done
        /\ st' = "IDLE" => ~ack'
    BY <1>8 DEF WaitEnds, ToConsole, GiveUp, ringVars
  <2> QED BY <1>2, <2>1
<1>9. CASE FromConsole BY <1>2, <1>9 DEF FromConsole, ringVars
<1>10. CASE Answer BY <1>2, <1>10 DEF Answer, ringVars
<1>11. CASE LateAnswer
  <2>1. console BY <1>11 DEF LateAnswer, Mishap, Free, LineMishaps
  <2>2. ack' = ack BY <1>3, <1>11, <2>1 DEF LateAnswer, TypeOK
  <2> QED BY <1>2, <1>11, <2>2 DEF LateAnswer, ringVars
<1>12. CASE Console \/ SetMode \/ ClearLoads
  BY <1>2, <1>12 DEF Console, SetMode, ClearLoads, ringVars
<1>13. CASE ClearStores
  <2>1. ack' = ack BY <1>13 DEF ClearStores, Mishap, Free, LineMishaps
  <2> QED BY <1>2, <1>13, <2>1 DEF ClearStores, ringVars
<1>14. CASE UNCHANGED vars BY <1>2, <1>14 DEF vars, ringVars, linkVars
<1>15. ASSUME NEW p \in Producers, PushStep(p)
       PROVE  /\ st' \in {"IDLE", "WAITCONSOLE"} => ~owed'
              /\ st' = "IDLE" => ~ack'
              /\ owed' => sent' \in received'
              /\ st' = "WAITACK" /\ ack' => sent' \in received'
              /\ \A i \in DOMAIN done' : done'[i].sent \in received'
  BY <1>2, <1>5, <1>15
<1>16. ASSUME NEW got \in BOOLEAN, SendEvent(got) \/ SendPoke(got)
       PROVE  /\ st' \in {"IDLE", "WAITCONSOLE"} => ~owed'
              /\ st' = "IDLE" => ~ack'
              /\ owed' => sent' \in received'
              /\ st' = "WAITACK" /\ ack' => sent' \in received'
              /\ \A i \in DOMAIN done' : done'[i].sent \in received'
  BY <1>2, <1>6, <1>16
<1> QED
  BY <1>4, <1>7, <1>8, <1>9, <1>10, <1>11, <1>12, <1>13, <1>14, <1>15, <1>16
  DEF Next, fsm_R3kSendCid

(***************************************************************************)
(* A record leaves the ring only after the R3K received it, through every  *)
(* timeout, console session and change of mode, until a 0x06 comes for a   *)
(* transmission that was given up or AutoprotectTask puts the flag back:   *)
(* for any number of late answers and clearings.                           *)
(***************************************************************************)
THEOREM ReadOutWasReceivedCorrect ==
  ASSUME ConstantsAssumption
  PROVE  Spec => []ReadOutWasReceived
<1>1. Init => LineInv BY DEF Init, LineInv
<1>2. TypeOK /\ LineInv /\ [Next]_vars => LineInv' BY NextLineInv
<1>3. LineInv => ReadOutWasReceived BY DEF LineInv, ReadOutWasReceived, Free, LineMishaps
<1> QED BY <1>1, <1>2, <1>3, TypeCorrect, PTL DEF Spec

-----------------------------------------------------------------------------
(* The ring.                                                               *)

\* The steps that leave the ring and what is read out alone.
LEMMA LineSteps ==
  ASSUME [Next]_vars,
         ~AppPush, \A p \in Producers : ~PushStep(p), \A got \in BOOLEAN : ~SendEvent(got), ~TakeAck
  PROVE  /\ UNCHANGED <<ring, writeptr, readptr, count, low, begun, pushed, done>>
         /\ st' = "WAITACK" => st = "WAITACK" /\ sent' = sent
  BY DEF Next, vars, ringVars, linkVars, fsm_R3kSendCid, SendPoke, WaitEnds, ToConsole, FromConsole,
     Answer, LateAnswer, Console, SetMode, ClearLoads, ClearStores

\* What a step of a producer does to the others and to the reader.
LEMMA PushFacts ==
  ASSUME TypeOK, NEW p \in Producers, PushStep(p)
  PROVE  /\ UNCHANGED <<readptr, linkVars, done>>
         /\ \A q \in Producers : q < p => low[q].pc = "idle"
         /\ \A q \in Producers \ {p} : low'[q] = low[q]
<1>1. low \in [Producers -> Push] BY DEF TypeOK
<1> QED BY <1>1 DEF PushStep, TakeSlot, PushLoads, PushStores, PushWrites, PushWraps, Moves

\* What each step of a producer does to itself.
LEMMA PushMoves ==
  ASSUME TypeOK, NEW p \in Producers
  PROVE  /\ TakeSlot(p) => /\ low[p].pc = "idle" /\ low'[p].pc = "slot"
                           /\ low'[p].slot = writeptr /\ low'[p].ev = begun + 1
         /\ PushLoads(p) => /\ low[p].pc = "slot" /\ low'[p].pc = "loaded"
                            /\ low'[p].reg = count /\ low'[p].slot = low[p].slot
                            /\ low'[p].ev = low[p].ev
         /\ PushStores(p) => /\ low[p].pc = "loaded" /\ low'[p].pc = "counted"
                             /\ low'[p].slot = low[p].slot /\ low'[p].ev = low[p].ev
         /\ PushWrites(p) => /\ low[p].pc = "counted" /\ low'[p].pc = "written"
                             /\ low'[p].slot = low[p].slot /\ low'[p].ev = low[p].ev
         /\ PushWraps(p) => low[p].pc = "written" /\ low'[p].pc = "idle"
<1>1. low \in [Producers -> Push] BY DEF TypeOK
<1> QED BY <1>1 DEF TakeSlot, PushLoads, PushStores, PushWrites, PushWraps, Moves, NotPushing, Push

LEMMA NatTypes ==
  ASSUME TypeOK
  PROVE  /\ Popped \in Nat /\ begun \in Nat /\ pushed \in Nat
         /\ writeptr \in Nat /\ readptr \in Elements /\ count \in Int
         /\ ring \in [Elements -> Records] /\ done \in Seq([ev : Records, sent : Records])
  BY DEF TypeOK, Popped

(***************************************************************************)
(* The count.  A producer that has loaded it has what it still is: whoever *)
(* changed it since is a mishap.                                           *)
(***************************************************************************)
LostUpdates == {"lostPush", "lostPop"}

CountInv ==
  Free(LostUpdates) =>
    /\ count = pushed - Popped /\ count >= 0
    /\ \A p \in Producers : low[p].pc = "loaded" => low[p].reg = count

LEMMA InitCountInv ==
  ASSUME Init
  PROVE  CountInv
<1>1. count = 0 /\ pushed = 0 /\ Popped = 0 BY DEF Init, Popped
<1>2. \A p \in Producers : low[p].pc = "idle" BY DEF Init, NotPushing
<1> QED BY <1>1, <1>2 DEF CountInv

LEMMA NextCountInv ==
  ASSUME TypeOK, CountInv, [Next]_vars
  PROVE  CountInv'
<1> SUFFICES ASSUME Free(LostUpdates)'
             PROVE  /\ count' = pushed' - Popped' /\ count' >= 0
                    /\ \A p \in Producers : low'[p].pc = "loaded" => low'[p].reg = count'
  BY DEF CountInv
<1>0. /\ count = pushed - Popped /\ count >= 0
      /\ \A p \in Producers : low[p].pc = "loaded" => low[p].reg = count
  BY StrayedGrows DEF CountInv, Free
<1>1. count \in Int /\ pushed \in Nat /\ Popped \in Nat BY NatTypes
<1>2. CASE AppPush
  <2>1. \A p \in Producers : low[p].pc # "loaded"
    BY <1>2 DEF AppPush, Mishap, Free, LostUpdates, Counting
  <2>2. count' = count + 1 /\ pushed' = pushed + 1 /\ Popped' = Popped /\ low' = low
    BY <1>2 DEF AppPush, Popped
  <2> QED BY <1>0, <1>1, <2>1, <2>2
<1>3. ASSUME NEW p \in Producers, PushStep(p)
      PROVE  /\ count' = pushed' - Popped' /\ count' >= 0
             /\ \A q \in Producers : low'[q].pc = "loaded" => low'[q].reg = count'
  <2>1. Popped' = Popped /\ \A q \in Producers \ {p} : low'[q] = low[q]
    BY <1>3, PushFacts DEF Popped
  <2>2. CASE PushStores(p)
    <3>1. low[p].pc = "loaded" /\ low'[p].pc = "counted" BY <2>2, PushMoves
    <3>2. count' = count + 1 /\ pushed' = pushed + 1 BY <1>0, <2>2, <3>1 DEF PushStores
    <3>3. \A q \in Producers \ {p} : low[q].pc # "loaded"
      BY <2>2 DEF PushStores, Mishap, Free, LostUpdates, Counting
    <3>4. \A q \in Producers : low'[q].pc # "loaded" BY <2>1, <3>1, <3>3
    <3> QED BY <1>0, <1>1, <2>1, <3>2, <3>4
  <2>3. CASE PushLoads(p)
    <3>1. UNCHANGED <<count, pushed>> BY <2>3 DEF PushLoads
    <3>2. low'[p].reg = count BY <2>3, PushMoves
    <3> QED BY <1>0, <1>1, <2>1, <3>1, <3>2
  <2>4. CASE TakeSlot(p) \/ PushWrites(p) \/ PushWraps(p)
    <3>1. UNCHANGED <<count, pushed>> BY <2>4 DEF TakeSlot, PushWrites, PushWraps
    <3>2. low'[p].pc # "loaded" BY <2>4, PushMoves
    <3> QED BY <1>0, <1>1, <2>1, <3>1, <3>2
  <2> QED BY <1>3, <2>2, <2>3, <2>4 DEF PushStep
<1>4. CASE TakeAck
  <2>1. UNCHANGED <<low, pushed>> BY <1>4 DEF TakeAck
  <2>2. CASE count = 0 BY <1>0, <1>4, <2>1, <2>2 DEF TakeAck, Popped
  <2>3. CASE count # 0
    <3>1. \A p \in Producers : low[p].pc # "loaded"
      BY <1>4, <2>3 DEF TakeAck, Mishap, Free, LostUpdates, Counting
    <3>2. count' = count - 1 /\ done' = Append(done, [ev |-> ring[readptr], sent |-> sent])
      BY <1>4, <2>3 DEF TakeAck
    <3>3. Popped' = Popped + 1 BY <3>2, NatTypes DEF Popped
    <3> QED BY <1>0, <1>1, <2>1, <2>3, <3>1, <3>2, <3>3
  <2> QED BY <2>2, <2>3
<1>5. ASSUME NEW got \in BOOLEAN, SendEvent(got)
      PROVE  UNCHANGED <<count, pushed, low, done>>
  BY <1>5 DEF SendEvent, ringVars
<1>6. ASSUME UNCHANGED <<count, pushed, low, done>>
      PROVE  /\ count' = pushed' - Popped' /\ count' >= 0
             /\ \A q \in Producers : low'[q].pc = "loaded" => low'[q].reg = count'
  BY <1>0, <1>6 DEF Popped
<1> QED BY <1>2, <1>3, <1>4, <1>5, <1>6, LineSteps

(***************************************************************************)
(* The count is that of the records pushed and not read out, until a push  *)
(* or a read-out falls into a producer's count++, for rings of any length. *)
(***************************************************************************)
THEOREM CountSoundCorrect ==
  ASSUME ConstantsAssumption
  PROVE  Spec => []CountSound
<1>1. Init => CountInv BY InitCountInv
<1>2. TypeOK /\ CountInv /\ [Next]_vars => CountInv' BY NextCountInv
<1>3. CountInv => CountSound BY DEF CountInv, CountSound, Free, LostUpdates
<1> QED BY <1>1, <1>2, <1>3, TypeCorrect, PTL DEF Spec

-----------------------------------------------------------------------------
\* Pushes begun and pushes counted differ by the producers in between.
Uncounted == {p \in Producers : low[p].pc \in {"slot", "loaded"}}
CardInv == pushed + Cardinality(Uncounted) = begun

LEMMA UncountedFacts ==
  ASSUME ConstantsAssumption
  PROVE  IsFiniteSet(Uncounted) /\ Cardinality(Uncounted) \in Nat
<1>1. IsFiniteSet(Uncounted) BY ConstantTypes, FS_Subset DEF Uncounted
<1> QED BY <1>1, FS_CardinalityType

LEMMA InitCardInv ==
  ASSUME Init
  PROVE  CardInv
<1>1. Uncounted = {} BY DEF Init, Uncounted, NotPushing
<1> QED BY <1>1, FS_EmptySet DEF Init, CardInv

LEMMA NextCardInv ==
  ASSUME ConstantsAssumption, TypeOK, CardInv, [Next]_vars
  PROVE  CardInv'
<1>0. begun \in Nat /\ pushed \in Nat BY NatTypes
<1>1. IsFiniteSet(Uncounted) /\ Cardinality(Uncounted) \in Nat BY UncountedFacts
<1>2. CASE AppPush
  <2>1. Uncounted' = Uncounted BY <1>2 DEF AppPush, Uncounted
  <2>2. begun' = begun + 1 /\ pushed' = pushed + 1 BY <1>2 DEF AppPush
  <2> QED BY <1>0, <1>1, <2>1, <2>2 DEF CardInv
<1>3. ASSUME NEW p \in Producers, PushStep(p) PROVE CardInv'
  <2>1. \A q \in Producers \ {p} : low'[q] = low[q] BY <1>3, PushFacts
  <2>2. CASE TakeSlot(p)
    <3>1. low[p].pc = "idle" /\ low'[p].pc = "slot" BY <2>2, PushMoves
    <3>2. Uncounted' = Uncounted \cup {p} /\ p \notin Uncounted BY <2>1, <3>1 DEF Uncounted
    <3>3. Cardinality(Uncounted') = Cardinality(Uncounted) + 1 BY <1>1, <3>2, FS_AddElement
    <3>4. begun' = begun + 1 /\ pushed' = pushed BY <2>2 DEF TakeSlot
    <3> QED BY <1>0, <1>1, <3>3, <3>4 DEF CardInv
  <2>3. CASE PushStores(p)
    <3>1. low[p].pc = "loaded" /\ low'[p].pc = "counted" BY <2>3, PushMoves
    <3>2. Uncounted' = Uncounted \ {p} /\ p \in Uncounted BY <2>1, <3>1 DEF Uncounted
    <3>3. Cardinality(Uncounted') = Cardinality(Uncounted) - 1 BY <1>1, <3>2, FS_RemoveElement
    <3>4. begun' = begun /\ pushed' = pushed + 1 BY <2>3 DEF PushStores
    <3> QED BY <1>0, <1>1, <3>3, <3>4 DEF CardInv
  <2>4. CASE PushLoads(p) \/ PushWrites(p) \/ PushWraps(p)
    <3>1. low[p].pc \in {"slot", "loaded"} <=> low'[p].pc \in {"slot", "loaded"}
      BY <2>4, PushMoves
    <3>2. Uncounted' = Uncounted BY <2>1, <3>1 DEF Uncounted
    <3>3. begun' = begun /\ pushed' = pushed BY <2>4 DEF PushLoads, PushWrites, PushWraps
    <3> QED BY <3>2, <3>3 DEF CardInv
  <2> QED BY <1>3, <2>2, <2>3, <2>4 DEF PushStep
<1>4. CASE UNCHANGED <<low, begun, pushed>> BY <1>4 DEF CardInv, Uncounted
<1>5. CASE TakeAck BY <1>4, <1>5 DEF TakeAck
<1>6. ASSUME NEW got \in BOOLEAN, SendEvent(got) PROVE CardInv'
  BY <1>4, <1>6 DEF SendEvent, ringVars
<1> QED BY <1>2, <1>3, <1>4, <1>5, <1>6, LineSteps

(***************************************************************************)
(* First in, first out.  Going round the ring is Turn, so that no          *)
(* remainder has to be taken.  Event Popped + 1 + k has its place k        *)
(* elements from the read position, and is there unless its producer is    *)
(* yet to write it.                                                        *)
(***************************************************************************)
Turn(x)    == IF x >= R3KSERIALBUFFLEN THEN x - R3KSERIALBUFFLEN ELSE x
Waiting    == begun - Popped
Place(e)   == Turn(readptr + (e - Popped - 1))
Writes(p)  == low[p].pc \in {"slot", "loaded", "counted"}
Missing(e) == \E p \in Producers : Writes(p) /\ low[p].ev = e

\* The counts of events and the two positions fit together.
Geometry ==
  /\ Popped <= begun /\ Waiting <= R3KSERIALBUFFLEN
  /\ writeptr <= R3KSERIALBUFFLEN /\ Wrap(writeptr) = Turn(readptr + Waiting)

\* A producer that has not written its record holds the place of its event.
Places ==
  /\ \A p \in Producers : Writes(p) =>
       /\ low[p].ev \in Nat /\ Popped < low[p].ev /\ low[p].ev <= begun
       /\ low[p].slot = Place(low[p].ev)
  /\ \A p, q \in Producers : Writes(p) /\ Writes(q) /\ low[p].ev = low[q].ev => p = q

Contents == \A e \in (Popped + 1)..begun : ~Missing(e) => ring[Place(e)] = e

\* What is waited for is the record at the read position; what is out is in order.
InOrder ==
  /\ st = "WAITACK" => sent = Popped + 1
  /\ \A i \in DOMAIN done : done[i] = [ev |-> i, sent |-> i]

RingSound == Geometry /\ Places /\ Contents /\ InOrder
RingInv   == Free(RingMishaps) => RingSound

LEMMA InitRingInv ==
  ASSUME ConstantsAssumption, Init
  PROVE  RingInv
<1> USE ConstantTypes
<1>1. /\ writeptr = 0 /\ begun = 0 /\ Popped = 0 /\ done = <<>> /\ readptr = 0 /\ st = "IDLE"
  BY DEF Init, Popped
<1>2. Geometry BY <1>1 DEF Geometry, Turn, Waiting, Wrap
<1>3. Places BY DEF Init, NotPushing, Places, Writes
<1>4. Contents /\ InOrder BY <1>1 DEF Contents, InOrder
<1> QED BY <1>2, <1>3, <1>4 DEF RingInv, RingSound

\* Two events of the window have different places, all of them elements.
LEMMA PlacesDiffer ==
  ASSUME ConstantsAssumption, TypeOK, Geometry, NEW e \in Nat, NEW f \in Nat,
         Popped < e, e <= begun, Popped < f, f <= begun
  PROVE  Place(e) \in Elements /\ (Place(e) = Place(f) => e = f)
<1>0. /\ R3KSERIALBUFFLEN \in Nat /\ R3KSERIALBUFFLEN >= 1
      /\ Popped \in Nat /\ begun \in Nat /\ writeptr \in Nat /\ readptr \in Elements
  BY ConstantTypes, NatTypes
<1> USE <1>0
<1>1. readptr \in Nat /\ readptr < R3KSERIALBUFFLEN /\ begun - Popped <= R3KSERIALBUFFLEN
  BY DEF Geometry, Elements, Waiting
<1>2. ASSUME NEW x \in Nat, NEW y \in Nat, x < R3KSERIALBUFFLEN, y < R3KSERIALBUFFLEN
      PROVE  /\ Turn(readptr + x) \in Elements
             /\ Turn(readptr + x) = Turn(readptr + y) => x = y
  BY <1>1, <1>2 DEF Turn, Elements
<1>3. /\ e - Popped - 1 \in Nat /\ e - Popped - 1 < R3KSERIALBUFFLEN
      /\ f - Popped - 1 \in Nat /\ f - Popped - 1 < R3KSERIALBUFFLEN
  BY <1>1
<1>4. Place(e) = Place(f) => e - Popped - 1 = f - Popped - 1 BY <1>2, <1>3 DEF Place
<1> QED BY <1>2, <1>3, <1>4 DEF Place

\* A push that begins takes the place of the event it brings.
LEMMA NextPlace ==
  ASSUME ConstantsAssumption, TypeOK, Geometry, writeptr \in Elements,
         Waiting < R3KSERIALBUFFLEN
  PROVE  /\ writeptr = Place(begun + 1)
         /\ Wrap(writeptr + 1) = Turn(readptr + Waiting + 1)
<1>0. /\ R3KSERIALBUFFLEN \in Nat /\ R3KSERIALBUFFLEN >= 1
      /\ Popped \in Nat /\ begun \in Nat /\ writeptr \in Nat /\ readptr \in Elements
  BY ConstantTypes, NatTypes
<1> USE <1>0
<1>1. /\ readptr \in Nat /\ readptr < R3KSERIALBUFFLEN
      /\ Waiting \in Nat /\ Waiting <= R3KSERIALBUFFLEN
  BY DEF Geometry, Elements, Waiting
<1>2. writeptr = Turn(readptr + Waiting) BY DEF Geometry, Wrap, Elements
<1>3. writeptr = Place(begun + 1)
  <2>1. begun + 1 - Popped - 1 = Waiting BY DEF Waiting
  <2> QED BY <1>2, <2>1 DEF Place
<1>4. Wrap(writeptr + 1) = Turn(readptr + Waiting + 1)
  <2>1. CASE readptr + Waiting + 1 < R3KSERIALBUFFLEN BY <1>1, <1>2, <2>1 DEF Turn, Wrap
  <2>2. CASE readptr + Waiting + 1 >= R3KSERIALBUFFLEN
    <3>1. readptr + Waiting < 2 * R3KSERIALBUFFLEN BY <1>1
    <3> QED BY <1>1, <1>2, <2>2, <3>1 DEF Turn, Wrap
  <2> QED BY <1>1, <2>1, <2>2
<1> QED BY <1>3, <1>4

\* A push by App_Task_1, into a ring that is not full.
LEMMA AppPushRing ==
  ASSUME ConstantsAssumption, TypeOK, RingSound, AppPush, Free(RingMishaps)'
  PROVE  RingSound'
<1>0. /\ R3KSERIALBUFFLEN \in Nat /\ R3KSERIALBUFFLEN >= 1
      /\ Popped \in Nat /\ begun \in Nat /\ writeptr \in Nat /\ readptr \in Elements
      /\ ring \in [Elements -> Records]
  BY ConstantTypes, NatTypes
<1> USE <1>0
<1>1. Geometry /\ Places /\ Contents /\ InOrder BY DEF RingSound
<1>2. /\ UNCHANGED <<readptr, low, done, st, sent>>
      /\ begun' = begun + 1 /\ writeptr' = Wrap(writeptr + 1)
      /\ writeptr \in Elements /\ Waiting < R3KSERIALBUFFLEN
      /\ ring' = [ring EXCEPT ![writeptr] = begun + 1]
  BY DEF AppPush, BeginMishaps, Mishap, Free, RingMishaps, Waiting, Put, linkVars
<1>3. /\ Popped' = Popped /\ Waiting' = Waiting + 1 /\ Waiting \in Nat
      /\ \A e : Missing(e)' <=> Missing(e)
      /\ \A e : Place(e)' = Place(e)
  BY <1>1, <1>2 DEF Popped, Waiting, Missing, Writes, Place, Geometry, Turn
<1>4. writeptr = Place(begun + 1) /\ writeptr' = Turn(readptr + Waiting + 1)
  BY <1>1, <1>2, NextPlace
<1>5. readptr \in Nat /\ readptr < R3KSERIALBUFFLEN BY DEF Elements
<1>6. Geometry'
  <2>1. Wrap(writeptr)' = Turn(readptr + Waiting)' /\ writeptr' <= R3KSERIALBUFFLEN
    BY <1>2, <1>3, <1>4, <1>5 DEF Wrap, Turn, Elements
  <2> QED BY <1>1, <1>2, <1>3, <2>1 DEF Geometry
<1>7. Places' BY <1>1, <1>2, <1>3 DEF Places, Writes
<1>8. Contents'
  <2> SUFFICES ASSUME NEW e \in Nat, Popped < e, e <= begun + 1, ~Missing(e)
               PROVE  ring'[Place(e)] = e
    BY <1>2, <1>3 DEF Contents
  <2>1. CASE e = begun + 1 BY <1>2, <1>4, <2>1
  <2>2. CASE e <= begun
    <3>1. Place(e) \in Elements BY <1>1, <2>2, PlacesDiffer
    <3>2. Place(e) # writeptr BY <1>2, <1>4, <1>5, <2>2 DEF Place, Turn, Waiting
    <3> QED BY <1>1, <1>2, <2>2, <3>1, <3>2 DEF Contents
  <2> QED BY <2>1, <2>2
<1>9. InOrder' BY <1>1, <1>2, <1>3 DEF InOrder
<1> QED BY <1>6, <1>7, <1>8, <1>9 DEF RingSound

\* A producer takes the place of its event.
LEMMA TakeSlotRing ==
  ASSUME ConstantsAssumption, TypeOK, RingSound, NEW p \in Producers, TakeSlot(p),
         Free(RingMishaps)'
  PROVE  RingSound'
<1>0. /\ R3KSERIALBUFFLEN \in Nat /\ R3KSERIALBUFFLEN >= 1
      /\ Popped \in Nat /\ begun \in Nat /\ writeptr \in Nat /\ readptr \in Elements
      /\ readptr \in Nat /\ readptr < R3KSERIALBUFFLEN
  BY ConstantTypes, NatTypes DEF Elements
<1> USE <1>0
<1>1. Geometry /\ Places /\ Contents /\ InOrder BY DEF RingSound
<1>2. /\ UNCHANGED <<readptr, done, st, sent>> /\ \A q \in Producers \ {p} : low'[q] = low[q]
  BY PushFacts DEF PushStep, linkVars
<1>3. Popped' = Popped /\ InOrder' /\ \A e : Place(e)' = Place(e)
  BY <1>1, <1>2 DEF Popped, InOrder, Place, Turn
<1>4. /\ low[p].pc = "idle" /\ low'[p].pc = "slot" /\ low'[p].slot = writeptr
      /\ low'[p].ev = begun + 1
  BY PushMoves
<1>5. /\ begun' = begun + 1 /\ writeptr' = writeptr + 1 /\ writeptr \in Elements
      /\ UNCHANGED ring /\ Waiting < R3KSERIALBUFFLEN
  BY DEF TakeSlot, BeginMishaps, Mishap, Free, RingMishaps, Waiting
<1>6. writeptr = Place(begun + 1) /\ Wrap(writeptr + 1) = Turn(readptr + Waiting + 1)
  BY <1>1, <1>5, NextPlace
<1>7. Waiting' = Waiting + 1 /\ Waiting \in Nat /\ Waiting <= R3KSERIALBUFFLEN
  BY <1>1, <1>3, <1>5 DEF Waiting, Geometry
<1>8. \A q \in Producers : Writes(q)' <=> Writes(q) \/ q = p BY <1>2, <1>4 DEF Writes
<1>9. ~Writes(p) BY <1>4 DEF Writes
<1>10. \A e : Missing(e)' <=> Missing(e) \/ e = begun + 1
  BY <1>2, <1>4, <1>8, <1>9 DEF Missing
<1>11. Geometry'
  <2>1. Popped' <= begun' /\ Waiting' <= R3KSERIALBUFFLEN /\ writeptr' <= R3KSERIALBUFFLEN
    BY <1>1, <1>3, <1>5, <1>7 DEF Geometry, Elements
  <2>2. Wrap(writeptr)' = Turn(readptr + Waiting)' BY <1>2, <1>5, <1>6, <1>7 DEF Wrap, Turn
  <2> QED BY <2>1, <2>2 DEF Geometry
<1>12. Places'
  <2>1. \A q \in Producers : Writes(q)' =>
          /\ low'[q].ev \in Nat /\ Popped < low'[q].ev /\ low'[q].ev <= begun + 1
          /\ low'[q].slot = Place(low'[q].ev)
          /\ q # p => low'[q].ev <= begun
    <3> SUFFICES ASSUME NEW q \in Producers, Writes(q)'
                 PROVE  /\ low'[q].ev \in Nat /\ Popped < low'[q].ev
                        /\ low'[q].ev <= begun + 1
                        /\ low'[q].slot = Place(low'[q].ev)
                        /\ q # p => low'[q].ev <= begun
      OBVIOUS
    <3>1. CASE q = p BY <1>1, <1>4, <1>6, <3>1 DEF Geometry
    <3>2. CASE q # p
      <4>1. Writes(q) /\ low'[q] = low[q] BY <1>2, <1>8, <3>2
      <4> QED BY <1>1, <4>1, <3>2 DEF Places
    <3> QED BY <3>1, <3>2
  <2>2. ASSUME NEW q \in Producers, NEW r \in Producers, Writes(q)', Writes(r)',
               low'[q].ev = low'[r].ev
        PROVE  q = r
    <3>1. CASE q = p \/ r = p BY <1>4, <2>1, <2>2, <3>1
    <3>2. CASE q # p /\ r # p
      <4>1. Writes(q) /\ Writes(r) /\ low'[q] = low[q] /\ low'[r] = low[r]
        BY <1>2, <1>8, <2>2, <3>2
      <4> QED BY <1>1, <2>2, <4>1 DEF Places
    <3> QED BY <3>1, <3>2
  <2> QED BY <1>3, <1>5, <2>1, <2>2 DEF Places
<1>13. Contents' BY <1>1, <1>3, <1>5, <1>10 DEF Contents
<1> QED BY <1>3, <1>11, <1>12, <1>13 DEF RingSound

\* A step of a push that leaves the records and the places as they are.
LEMMA SameRing ==
  ASSUME TypeOK, RingSound,
         UNCHANGED <<ring, begun, readptr, done, st, sent>>,
         Wrap(writeptr)' = Wrap(writeptr), writeptr' <= R3KSERIALBUFFLEN,
         \A q \in Producers : /\ Writes(q)' <=> Writes(q)
                              /\ Writes(q) => low'[q].ev = low[q].ev /\ low'[q].slot = low[q].slot
  PROVE  RingSound'
<1>1. Geometry /\ Places /\ Contents /\ InOrder BY DEF RingSound
<1>2. /\ Popped' = Popped /\ Waiting' = Waiting /\ \A e : Place(e)' = Place(e)
      /\ \A e : Missing(e)' <=> Missing(e)
  BY DEF Popped, Waiting, Place, Turn, Missing
<1>3. Geometry' BY <1>1, <1>2 DEF Geometry, Turn
<1>4. Places' BY <1>1, <1>2 DEF Places
<1>5. Contents' BY <1>1, <1>2 DEF Contents
<1>6. InOrder' BY <1>1, <1>2 DEF InOrder
<1> QED BY <1>3, <1>4, <1>5, <1>6 DEF RingSound

\* A producer writes its record.
LEMMA PushWritesRing ==
  ASSUME ConstantsAssumption, TypeOK, RingSound, NEW p \in Producers, PushWrites(p)
  PROVE  RingSound'
<1>0. Popped \in Nat /\ begun \in Nat /\ ring \in [Elements -> Records] BY NatTypes
<1>1. Geometry /\ Places /\ Contents /\ InOrder BY DEF RingSound
<1>2. /\ UNCHANGED <<readptr, done, st, sent>> /\ \A q \in Producers \ {p} : low'[q] = low[q]
  BY PushFacts DEF PushStep, linkVars
<1>3. Popped' = Popped /\ InOrder' /\ \A e : Place(e)' = Place(e)
  BY <1>1, <1>2 DEF Popped, InOrder, Place, Turn
<1>4. low[p].pc = "counted" /\ low'[p].pc = "written" BY PushMoves
<1>5. /\ UNCHANGED <<begun, writeptr>> /\ ring' = Put(low[p].slot, low[p].ev)
      /\ Waiting' = Waiting
  BY <1>3 DEF PushWrites, Waiting
<1>6. /\ Writes(p) /\ low[p].ev \in Nat /\ Popped < low[p].ev /\ low[p].ev <= begun
      /\ low[p].slot = Place(low[p].ev)
  BY <1>1, <1>4 DEF Writes, Places
<1>7. low[p].slot \in Elements BY <1>1, <1>6, PlacesDiffer
<1>8. ring' = [ring EXCEPT ![low[p].slot] = low[p].ev] BY <1>5, <1>7 DEF Put
<1>9. \A q \in Producers : (Writes(q)' <=> Writes(q) /\ q # p) /\ (Writes(q)' => low'[q] = low[q])
  BY <1>2, <1>4 DEF Writes
<1>10. \A e : /\ Missing(e) => Missing(e)' \/ e = low[p].ev
              /\ Missing(e)' => Missing(e)
  BY <1>9 DEF Missing
<1>11. Geometry' BY <1>1, <1>2, <1>3, <1>5 DEF Geometry, Turn, Wrap
<1>12. Places' BY <1>1, <1>3, <1>5, <1>9 DEF Places
<1>13. Contents'
  <2> SUFFICES ASSUME NEW e \in Nat, Popped < e, e <= begun, ~Missing(e)'
               PROVE  ring'[Place(e)] = e
    BY <1>0, <1>3, <1>5 DEF Contents
  <2>1. Place(e) \in Elements /\ (Place(e) = Place(low[p].ev) => e = low[p].ev)
    BY <1>1, <1>6, PlacesDiffer
  <2>2. CASE e = low[p].ev BY <1>0, <1>6, <1>7, <1>8, <2>2
  <2>3. CASE e # low[p].ev
    <3>1. ring[Place(e)] = e BY <1>0, <1>1, <1>10, <2>3 DEF Contents
    <3> QED BY <1>0, <1>6, <1>8, <2>1, <2>3, <3>1
  <2> QED BY <2>2, <2>3
<1> QED BY <1>3, <1>11, <1>12, <1>13 DEF RingSound

LEMMA PushRing ==
  ASSUME ConstantsAssumption, TypeOK, RingSound, NEW p \in Producers, PushStep(p),
         Free(RingMishaps)'
  PROVE  RingSound'
<1>1. /\ UNCHANGED <<readptr, done, st, sent>> /\ \A q \in Producers \ {p} : low'[q] = low[q]
  BY PushFacts DEF linkVars
<1>2. writeptr \in Nat /\ writeptr <= R3KSERIALBUFFLEN /\ R3KSERIALBUFFLEN \in Nat
  BY NatTypes, ConstantTypes DEF RingSound, Geometry
<1>3. CASE TakeSlot(p) BY <1>3, TakeSlotRing
<1>4. CASE PushLoads(p) \/ PushStores(p)
  <2>1. UNCHANGED <<ring, begun, writeptr>> BY <1>4 DEF PushLoads, PushStores
  <2>2. \A q \in Producers : /\ Writes(q)' <=> Writes(q)
                             /\ Writes(q) => low'[q].ev = low[q].ev /\ low'[q].slot = low[q].slot
    BY <1>1, <1>4, PushMoves DEF Writes
  <2>3. Wrap(writeptr)' = Wrap(writeptr) BY <2>1 DEF Wrap
  <2> QED BY <1>1, <1>2, <2>1, <2>2, <2>3, SameRing
<1>5. CASE PushWrites(p) BY <1>5, PushWritesRing
<1>6. CASE PushWraps(p)
  <2>1. UNCHANGED <<ring, begun>> /\ writeptr' = Wrap(writeptr) BY <1>6 DEF PushWraps
  <2>2. \A q \in Producers : /\ Writes(q)' <=> Writes(q)
                             /\ Writes(q) => low'[q].ev = low[q].ev /\ low'[q].slot = low[q].slot
    BY <1>1, <1>6, PushMoves DEF Writes
  <2>3. Wrap(writeptr)' = Wrap(writeptr) /\ writeptr' <= R3KSERIALBUFFLEN BY <1>2, <2>1 DEF Wrap
  <2> QED BY <1>1, <2>1, <2>2, <2>3, SameRing
<1> QED BY <1>3, <1>4, <1>5, <1>6 DEF PushStep

\* With something counted the record at the read position is the next event,
\* unless its producer is yet to write it.
LEMMA HeadIsNext ==
  ASSUME ConstantsAssumption, TypeOK, CountInv, CardInv, RingSound, Free(RingMishaps),
         count # 0, ~Unwritten
  PROVE  Popped < begun /\ ~Missing(Popped + 1) /\ ring[readptr] = Popped + 1
<1>0. /\ Popped \in Nat /\ begun \in Nat /\ pushed \in Nat /\ count \in Int
      /\ readptr \in Nat /\ readptr < R3KSERIALBUFFLEN /\ R3KSERIALBUFFLEN \in Nat
  BY NatTypes, ConstantTypes DEF Elements
<1>1. count = pushed - Popped /\ count >= 0
  BY DEF CountInv, Free, LostUpdates, RingMishaps
<1>2. Popped < begun
  <2>1. Popped < pushed BY <1>0, <1>1
  <2>2. Cardinality(Uncounted) \in Nat BY UncountedFacts
  <2> QED BY <1>0, <2>1, <2>2 DEF CardInv
<1>3. Place(Popped + 1) = readptr BY <1>0 DEF Place, Turn
<1>4. ~Missing(Popped + 1) BY <1>3 DEF RingSound, Missing, Places, Writes, Unwritten
<1> QED BY <1>0, <1>2, <1>3, <1>4 DEF RingSound, Contents

\* A record is read out.
LEMMA TakeAckRing ==
  ASSUME ConstantsAssumption, TypeOK, CountInv, CardInv, RingSound, Free(RingMishaps),
         TakeAck, count # 0, Free(RingMishaps)'
  PROVE  RingSound'
<1>0. /\ R3KSERIALBUFFLEN \in Nat /\ R3KSERIALBUFFLEN >= 1
      /\ Popped \in Nat /\ begun \in Nat /\ writeptr \in Nat /\ readptr \in Elements
      /\ readptr \in Nat /\ readptr < R3KSERIALBUFFLEN
      /\ done \in Seq([ev : Records, sent : Records])
  BY ConstantTypes, NatTypes DEF Elements
<1> USE <1>0
<1>1. Geometry /\ Places /\ Contents /\ InOrder BY DEF RingSound
<1>2. /\ UNCHANGED <<ring, writeptr, low, begun>> /\ readptr' = Wrap(readptr + 1)
      /\ done' = Append(done, [ev |-> ring[readptr], sent |-> sent])
      /\ st = "WAITACK" /\ st' = "IDLE"
  BY DEF TakeAck
<1>3. ~Unwritten BY DEF TakeAck, Mishap, Free, RingMishaps
<1>4. Popped < begun /\ ~Missing(Popped + 1) /\ ring[readptr] = Popped + 1 BY <1>3, HeadIsNext
<1>5. /\ Popped' = Popped + 1 /\ Waiting' = Waiting - 1 /\ readptr' = Turn(readptr + 1)
      /\ Waiting \in Nat /\ Waiting >= 1 /\ Waiting <= R3KSERIALBUFFLEN
  BY <1>1, <1>2, <1>4 DEF Popped, Waiting, Wrap, Turn, Geometry
<1>6. Geometry'
  <2>1. Wrap(writeptr) = Turn(readptr + Waiting) BY <1>1 DEF Geometry
  <2>2. Turn(readptr + Waiting) = Turn(readptr' + Waiting') BY <1>5 DEF Turn
  <2>3. Wrap(writeptr)' = Turn(readptr + Waiting)' BY <1>2, <2>1, <2>2 DEF Wrap, Turn
  <2>4. Popped' <= begun' /\ Waiting' <= R3KSERIALBUFFLEN /\ writeptr' <= R3KSERIALBUFFLEN
    BY <1>1, <1>2, <1>4, <1>5 DEF Geometry
  <2> QED BY <2>3, <2>4 DEF Geometry
<1>7. \A e \in Nat : Popped + 1 < e /\ e <= begun => Place(e)' = Place(e)
  BY <1>5 DEF Place, Turn, Waiting
<1>8. /\ \A q : Writes(q)' <=> Writes(q)
      /\ \A e : Missing(e)' <=> Missing(e)
  BY <1>2 DEF Writes, Missing
<1>9. Places'
  <2>1. \A p \in Producers : Writes(p) =>
          /\ low[p].ev \in Nat /\ Popped + 1 < low[p].ev /\ low[p].ev <= begun
          /\ low[p].slot = Place(low[p].ev)
    <3> SUFFICES ASSUME NEW p \in Producers, Writes(p)
                 PROVE  /\ low[p].ev \in Nat /\ Popped + 1 < low[p].ev
                        /\ low[p].ev <= begun /\ low[p].slot = Place(low[p].ev)
      OBVIOUS
    <3>1. /\ low[p].ev \in Nat /\ Popped < low[p].ev
          /\ low[p].ev <= begun /\ low[p].slot = Place(low[p].ev)
      BY <1>1 DEF Places
    <3>2. low[p].ev # Popped + 1 BY <1>4 DEF Missing
    <3> QED BY <3>1, <3>2
  <2>2. \A p \in Producers : Writes(p) => low'[p].slot = Place(low[p].ev)'
    <3> SUFFICES ASSUME NEW p \in Producers, Writes(p)
                 PROVE  low'[p].slot = Place(low[p].ev)'
      OBVIOUS
    <3>1. PICK e \in Nat : e = low[p].ev BY <2>1
    <3>2. Place(e)' = Place(e) BY <1>7, <2>1, <3>1
    <3>3. low'[p].ev = e /\ low'[p].slot = Place(e) BY <1>2, <2>1, <3>1
    <3> QED BY <3>2, <3>3 DEF Place
  <2> QED BY <1>1, <1>2, <1>5, <1>8, <2>1, <2>2 DEF Places
<1>10. Contents' BY <1>1, <1>2, <1>5, <1>7, <1>8 DEF Contents
<1>11. InOrder'
  <2>1. sent = Popped + 1 BY <1>1, <1>2 DEF InOrder
  <2> SUFFICES ASSUME NEW i \in DOMAIN done' PROVE done'[i] = [ev |-> i, sent |-> i]
    BY <1>2 DEF InOrder
  <2>2. CASE i = Popped + 1 BY <1>2, <1>4, <2>1, <2>2 DEF Popped
  <2>3. CASE i \in DOMAIN done BY <1>1, <1>2, <2>3 DEF InOrder
  <2> QED BY <1>2, <2>2, <2>3 DEF Popped
<1> QED BY <1>6, <1>9, <1>10, <1>11 DEF RingSound

LEMMA NextRingInv ==
  ASSUME ConstantsAssumption, TypeOK, CountInv, CardInv, RingInv, [Next]_vars
  PROVE  RingInv'
<1> SUFFICES ASSUME Free(RingMishaps)' PROVE RingSound' BY DEF RingInv
<1>1. Free(RingMishaps) /\ RingSound BY StrayedGrows DEF Free, RingInv
<1>2. writeptr <= R3KSERIALBUFFLEN BY <1>1 DEF RingSound, Geometry
<1>3. ASSUME UNCHANGED <<ring, writeptr, readptr, low, begun, done>>,
             st' = "WAITACK" => sent' = Popped + 1
      PROVE  RingSound'
  <2>1. Geometry /\ Places /\ Contents /\ InOrder BY <1>1 DEF RingSound
  <2>2. /\ Popped' = Popped /\ Waiting' = Waiting /\ \A e : Place(e)' = Place(e)
        /\ \A e : Missing(e)' <=> Missing(e)
        /\ \A q : Writes(q)' <=> Writes(q)
    BY <1>3 DEF Popped, Waiting, Place, Turn, Missing, Writes
  <2>3. Geometry' BY <1>3, <2>1, <2>2 DEF Geometry, Turn, Wrap
  <2>4. Places' BY <1>3, <2>1, <2>2 DEF Places
  <2>5. Contents' BY <1>3, <2>1, <2>2 DEF Contents
  <2>6. InOrder' BY <1>3, <2>1, <2>2 DEF InOrder
  <2> QED BY <2>3, <2>4, <2>5, <2>6 DEF RingSound
<1>4. st = "WAITACK" => sent = Popped + 1 BY <1>1 DEF RingSound, InOrder
<1>5. CASE AppPush BY <1>1, <1>5, AppPushRing
<1>6. ASSUME NEW p \in Producers, PushStep(p) PROVE RingSound' BY <1>1, <1>6, PushRing
<1>7. ASSUME NEW got \in BOOLEAN, SendEvent(got) PROVE RingSound'
  <2>1. UNCHANGED <<ring, writeptr, readptr, low, begun, done>> /\ count # 0
    BY <1>7 DEF SendEvent, ringVars
  <2>2. ~Unwritten BY <1>7 DEF SendEvent, Mishap, Free, RingMishaps
  <2>3. sent' = ring[readptr] BY <1>7 DEF SendEvent, Transmit
  <2>4. sent' = Popped + 1 BY <1>1, <2>1, <2>2, <2>3, HeadIsNext
  <2> QED BY <1>3, <2>1, <2>4
<1>8. CASE TakeAck
  <2>1. CASE count = 0
    <3>1. UNCHANGED <<ring, writeptr, readptr, low, begun, done>> /\ st' = "IDLE"
      BY <1>8, <2>1 DEF TakeAck
    <3> QED BY <1>3, <3>1
  <2>2. CASE count # 0 BY <1>1, <1>8, <2>2, TakeAckRing
  <2> QED BY <2>1, <2>2
<1>9. CASE /\ ~AppPush /\ ~TakeAck
           /\ \A p \in Producers : ~PushStep(p)
           /\ \A got \in BOOLEAN : ~SendEvent(got)
  <2>1. /\ UNCHANGED <<ring, writeptr, readptr, count, low, begun, pushed, done>>
        /\ st' = "WAITACK" => st = "WAITACK" /\ sent' = sent
    BY <1>9, LineSteps
  <2> QED BY <1>3, <1>4, <2>1
<1> QED BY <1>5, <1>6, <1>7, <1>8, <1>9

(***************************************************************************)
(* What is read out is what was transmitted up to ten seconds before, in   *)
(* the order of the pushes, for rings of any length and any producers,     *)
(* until one of the five mishaps of the ring.                              *)
(***************************************************************************)
THEOREM ReadOutWasSentCorrect ==
  ASSUME ConstantsAssumption
  PROVE  Spec => []ReadOutWasSent
<1>1. Init => CountInv /\ CardInv /\ RingInv
  <2>1. ASSUME Init PROVE CountInv BY <2>1, InitCountInv
  <2> QED BY <2>1, InitCardInv, InitRingInv
<1>2. TypeOK /\ CountInv /\ CardInv /\ RingInv /\ [Next]_vars => (CountInv /\ CardInv /\ RingInv)'
  BY NextCountInv, NextCardInv, NextRingInv
<1>3. RingInv => ReadOutWasSent
  BY DEF RingInv, RingSound, InOrder, ReadOutWasSent, Free, RingMishaps
<1> QED BY <1>1, <1>2, <1>3, TypeCorrect, PTL DEF Spec
=============================================================================
