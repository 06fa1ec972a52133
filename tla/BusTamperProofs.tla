------------------------- MODULE BusTamperProofs --------------------------
(***************************************************************************)
(* Theorems about BusTamper, for any modules of any kinds, any panels, any *)
(* delays and any number of clock settings and restarts.                   *)
(***************************************************************************)
EXTENDS BusTamper, SequenceTheorems, TLAPS

-----------------------------------------------------------------------------
(* What each machine does to the base in a pass.                           *)

LEMMA LargestOfThree ==
  ASSUME NEW a \in Nat, NEW b \in Nat, NEW c \in Nat
  PROVE  Max({a, b, c}) \in Nat /\ Max({a, b, c}) >= a
<1>1. \E x \in {a, b, c} : \A y \in {a, b, c} : x >= y
  OBVIOUS
<1> QED BY <1>1 DEF Max

\* The bit of the tamper is no panel's; a timer ends at a number of seconds.
LEMMA Numbers ==
  ASSUME ConstantsAssumption
  PROVE  /\ Rot943 \notin Panels
         /\ \A m \in Machines : Oldest(m) \in Nat /\ Oldest(m) > 0
<1>1. ASSUME NEW m \in Machines PROVE Oldest(m) \in Nat /\ Oldest(m) > 0
  <2>1. Patience[m] \in Nat /\ OffSecs \in Nat /\ SettleSecs \in Nat
    BY <1>1 DEF ConstantsAssumption, Patience, Machines
  <2> QED BY <2>1, LargestOfThree DEF Oldest
<1> QED BY <1>1 DEF ConstantsAssumption, Rot943

\* A pass sets timers to 0 or leaves them.
Aged(b, c) == \A m \in Machines : c.age[m] = 0 \/ c.age[m] = b.age[m]

\* The flags of the bus are computed again; the others keep what they are.
LEMMA Recomputes ==
  ASSUME trouble \subseteq Modules, ConstantsAssumption, NEW b \in Base
  PROVE  LET c == Recompute(b) IN
         /\ c \in Base /\ Aged(b, c)
         /\ c.mach = b.mach /\ c.power = b.power /\ c.flag1 = b.flag1
         /\ \A f \in {"NOZSCAN", "ROTEVO", "CIDRESET"} : f \in c.flags <=> f \in b.flags
<1> DEFINE T == UNION {Trips(m) : m \in trouble}
           F == (b.flags \ {"ROT485", "CID", "PTM", "RELE"}) \cup T
<1>1. T \subseteq {"ROT485", "CID", "PTM", "RELE"}
  <2>1. ASSUME NEW m \in Modules PROVE Kinds[m] \in {"cid", "rele", "ptm"}
    BY <2>1, ElementOfSeq, LenProperties DEF ConstantsAssumption, Modules
  <2>2. ASSUME NEW m \in Modules PROVE Trips(m) \subseteq {"ROT485", "CID", "PTM", "RELE"}
    BY <2>1 DEF Trips
  <2> QED BY <2>2
<1>2. Recompute(b) = [b EXCEPT !.flags = F]
  BY DEF Recompute
<1>3. F \in SUBSET Flags
  BY <1>1 DEF Base, Flags
<1>4. \A f \in {"NOZSCAN", "ROTEVO", "CIDRESET"} : f \in F <=> f \in b.flags
  BY <1>1
<1> HIDE DEF F
<1> QED BY <1>2, <1>3, <1>4 DEF Base, Aged

\* fsm_roturaRele485 touches neither the supply nor the flags.
LEMMA Rele ==
  ASSUME NEW b \in Base
  PROVE  LET c == RoturaRele485(b) IN
         /\ c \in Base /\ Aged(b, c)
         /\ c.mach["r485"] = b.mach["r485"] /\ c.mach["evo"] = b.mach["evo"]
         /\ c.power = b.power /\ c.flag1 = b.flag1 /\ c.flags = b.flags
<1> QED BY DEF RoturaRele485, StartTimer, Go, Base, Aged, Machines

\* What machine m, taking b to c, may do with the supply and NOZSCAN_FLAG: it
\* cuts the first with the second set, and in its cycle only; it gives the
\* supply back before it lets the zones be scanned.
Wet(b, c, m) ==
  /\ ~c.power => c.mach[m] = "PWAIT1" \/ (~b.power /\ b.mach[m] # "PWAIT1")
  /\ ~c.power /\ b.power =>
       "NOZSCAN" \in c.flags /\ ~InCycle(b, m) /\ c.mach[m] = "PWAIT1"
  /\ "NOZSCAN" \in c.flags => "NOZSCAN" \in b.flags \/ InCycle(c, m)
  /\ "NOZSCAN" \in b.flags => "NOZSCAN" \in c.flags \/ b.mach[m] = "PWAIT2"
  /\ InCycle(b, m) => InCycle(c, m) \/ "NOZSCAN" \notin c.flags
  /\ InCycle(c, m) /\ ~InCycle(b, m) => c.mach[m] = "PWAIT1"
  /\ c.mach[m] = "PWAIT2" => b.mach[m] = "PWAIT2" \/ c.power
  /\ c.mach[m] = "PWAIT2" /\ b.mach[m] = "PWAIT2" => c.power = b.power

\* The states of the cycle do that ...
LEMMA CycleMoves ==
  ASSUME NEW b \in Base, NEW m \in {"r485", "evo"}
  PROVE  LET c == Cycle(b, m) IN
         /\ c \in Base /\ Aged(b, c) /\ Wet(b, c, m)
         /\ \A n \in Machines \ {m} : c.mach[n] = b.mach[n]
         /\ c.flag1 = b.flag1 /\ ("ROTEVO" \in c.flags <=> "ROTEVO" \in b.flags)
         /\ c.mach[m] \in {"IDLE", "ROT", "ENTRY"} <=> b.mach[m] \in {"IDLE", "ROT", "ENTRY"}
         /\ c.mach[m] \in {"IDLE", "ROT", "ENTRY"} => c.mach[m] = b.mach[m]
<1> DEFINE c == Cycle(b, m)
<1>1. CASE b.mach[m] = "PWAIT1" /\ b.age[m] > OffSecs
  <2>1. c = GiveSupply(b, m)
    BY <1>1 DEF Cycle
  <2>2. CASE m = "r485"
    <3>1. /\ c = [b EXCEPT !.mach = [b.mach EXCEPT !["r485"] = "PWAIT2"],
                           !.age = [b.age EXCEPT !["r485"] = 0], !.power = TRUE,
                           !.flags = b.flags \cup {"CIDRESET"}]
          /\ b.power \in BOOLEAN
      BY <2>1, <2>2 DEF GiveSupply, StartTimer, Go, Base
    <3> HIDE DEF c
    <3>2. c \in Base /\ Aged(b, c)
      BY <3>1 DEF Base, Aged, Machines, Flags
    <3>3. /\ c.mach["r485"] = "PWAIT2" /\ c.power = TRUE /\ c.flag1 = b.flag1
          /\ c.mach["evo"] = b.mach["evo"] /\ c.mach["rele"] = b.mach["rele"]
          /\ c.flags = b.flags \cup {"CIDRESET"}
      BY <3>1 DEF Base
    <3>4. Wet(b, c, "r485")
      BY <1>1, <2>2, <3>3 DEF Wet, InCycle
    <3> QED BY <1>1, <2>2, <3>2, <3>3, <3>4 DEF c, Machines
  <2>3. CASE m = "evo"
    <3>1. /\ c = [b EXCEPT !.mach = [b.mach EXCEPT !["evo"] = "PWAIT2"],
                           !.age = [b.age EXCEPT !["evo"] = 0], !.power = TRUE,
                           !.flags = b.flags]
          /\ b.power \in BOOLEAN
      BY <2>1, <2>3 DEF GiveSupply, StartTimer, Go, Base
    <3> HIDE DEF c
    <3>2. c \in Base /\ Aged(b, c)
      BY <3>1 DEF Base, Aged, Machines, Flags
    <3>3. /\ c.mach["evo"] = "PWAIT2" /\ c.power = TRUE /\ c.flag1 = b.flag1
          /\ c.mach["r485"] = b.mach["r485"] /\ c.mach["rele"] = b.mach["rele"]
          /\ c.flags = b.flags
      BY <3>1 DEF Base
    <3>4. Wet(b, c, "evo")
      BY <1>1, <2>3, <3>3 DEF Wet, InCycle
    <3> QED BY <1>1, <2>3, <3>2, <3>3, <3>4 DEF c, Machines
  <2> QED BY <2>2, <2>3
<1>2. CASE b.mach[m] = "PWAIT2" /\ b.age[m] > SettleSecs
  <2>1. c = EndCycle(b, m)
    BY <1>2 DEF Cycle
  <2>2. CASE m = "r485"
    <3>1. /\ c = [b EXCEPT !.mach = [b.mach EXCEPT !["r485"] = "WAIT"],
                           !.age = [b.age EXCEPT !["r485"] = 0],
                           !.flags = b.flags \ {"NOZSCAN"}]
          /\ b.power \in BOOLEAN
      BY <2>1, <2>2 DEF EndCycle, StartTimer, Go, Base
    <3> HIDE DEF c
    <3>2. c \in Base /\ Aged(b, c)
      BY <3>1 DEF Base, Aged, Machines, Flags
    <3>3. /\ c.mach["r485"] = "WAIT" /\ c.power = b.power /\ c.flag1 = b.flag1
          /\ c.mach["evo"] = b.mach["evo"] /\ c.mach["rele"] = b.mach["rele"]
          /\ c.flags = b.flags \ {"NOZSCAN"}
      BY <3>1 DEF Base
    <3>4. Wet(b, c, "r485")
      BY <1>2, <2>2, <3>3 DEF Wet, InCycle
    <3> QED BY <1>2, <2>2, <3>2, <3>3, <3>4 DEF c, Machines
  <2>3. CASE m = "evo"
    <3>1. /\ c = [b EXCEPT !.mach = [b.mach EXCEPT !["evo"] = "WAIT"],
                           !.age = [b.age EXCEPT !["evo"] = 0],
                           !.flags = b.flags \ {"NOZSCAN"}]
          /\ b.power \in BOOLEAN
      BY <2>1, <2>3 DEF EndCycle, StartTimer, Go, Base
    <3> HIDE DEF c
    <3>2. c \in Base /\ Aged(b, c)
      BY <3>1 DEF Base, Aged, Machines, Flags
    <3>3. /\ c.mach["evo"] = "WAIT" /\ c.power = b.power /\ c.flag1 = b.flag1
          /\ c.mach["r485"] = b.mach["r485"] /\ c.mach["rele"] = b.mach["rele"]
          /\ c.flags = b.flags \ {"NOZSCAN"}
      BY <3>1 DEF Base
    <3>4. Wet(b, c, "evo")
      BY <1>2, <2>3, <3>3 DEF Wet, InCycle
    <3> QED BY <1>2, <2>3, <3>2, <3>3, <3>4 DEF c, Machines
  <2> QED BY <2>2, <2>3
<1>3. CASE c = b
  BY <1>3 DEF Base, Aged, Wet, InCycle, Machines
<1> QED BY <1>1, <1>2, <1>3 DEF Cycle

\* ... and so does the way into it, and each of the machines as a whole.
LEMMA Cuts ==
  ASSUME NEW b \in Base, NEW m \in {"r485", "evo"}, b.mach[m] = "IDLE"
  PROVE  LET c == CutSupply(b, m) IN
         /\ c \in Base /\ Aged(b, c) /\ Wet(b, c, m)
         /\ c.mach[m] = "PWAIT1"
         /\ \A n \in Machines \ {m} : c.mach[n] = b.mach[n]
         /\ c.flag1 = b.flag1 /\ ("ROTEVO" \in c.flags <=> "ROTEVO" \in b.flags)
<1>1. CASE m = "r485"
  BY <1>1 DEF CutSupply, StartTimer, Go, Base, Aged, Wet, InCycle, Machines, Flags
<1>2. CASE m = "evo"
  BY <1>2 DEF CutSupply, StartTimer, Go, Base, Aged, Wet, InCycle, Machines, Flags
<1> QED BY <1>1, <1>2

\* fsm_rotura485.
LEMMA Bus ==
  ASSUME NEW b \in Base
  PROVE  LET c == Rotura485(b) IN
         /\ c \in Base /\ Aged(b, c) /\ Wet(b, c, "r485")
         /\ c.mach["rele"] = b.mach["rele"] /\ c.mach["evo"] = b.mach["evo"]
         /\ c.flag1 = b.flag1 /\ ("ROTEVO" \in c.flags <=> "ROTEVO" \in b.flags)
<1> DEFINE c == Rotura485(b)
           st == b.mach["r485"]
           bad == "ROT485" \in b.flags
<1>1. CASE st = "IDLE" /\ bad /\ "CID" \in b.flags
  <2>1. c = CutSupply(b, "r485")
    BY <1>1 DEF Rotura485
  <2> QED BY <2>1, <1>1, Cuts DEF Machines
<1>2. CASE st = "IDLE" /\ bad /\ "CID" \notin b.flags
  BY <1>2 DEF Rotura485, StartTimer, Go, Base, Aged, Wet, InCycle, Machines
<1>3. CASE st \in {"WAIT", "ROT"} /\ ~bad
  BY <1>3 DEF Rotura485, Go, Base, Aged, Wet, InCycle, Machines
<1>4. CASE st = "WAIT" /\ bad /\ b.age["r485"] > CommSecs
  BY <1>4 DEF Rotura485, Go, Base, Aged, Wet, InCycle, Machines
<1>5. CASE st = "ROT" /\ bad
  BY <1>5 DEF Rotura485, Go, Base, Aged, Wet, InCycle, Machines
<1>6. CASE c = Cycle(b, "r485")
  BY <1>6, CycleMoves DEF Machines
<1> QED BY <1>1, <1>2, <1>3, <1>4, <1>5, <1>6 DEF Rotura485

\* fsm_roturaEVO, which changes its bit of FSM_FLAG_1 when it enters ROT from
\* WAIT and when it leaves ROT.
LEMMA Evo ==
  ASSUME NEW b \in Base, NEW rotu \in BOOLEAN, hist1 \in Bytes,
         b.mach["evo"] = "ENTRY" => Rot943 \notin hist1
  PROVE  LET c == RoturaEVO(b, rotu) IN
         /\ c \in Base /\ Aged(b, c) /\ Wet(b, c, "evo")
         /\ c.mach["rele"] = b.mach["rele"] /\ c.mach["r485"] = b.mach["r485"]
         /\ "ROTEVO" \in c.flags <=> "ROTEVO" \in b.flags
         /\ c.mach["evo"] # "ENTRY"
         /\ c.flag1 = IF b.mach["evo"] = "ENTRY" THEN hist1
                      ELSE IF b.mach["evo"] = "WAIT" /\ c.mach["evo"] = "ROT"
                           THEN b.flag1 \cup {Rot943}
                      ELSE IF b.mach["evo"] = "ROT" /\ c.mach["evo"] = "IDLE"
                           THEN b.flag1 \ {Rot943}
                      ELSE b.flag1
<1> DEFINE c == RoturaEVO(b, rotu)
           st == b.mach["evo"]
           bad == "ROTEVO" \in b.flags
<1>1. CASE st = "ENTRY"
  <2> DEFINE al == b.alarm \/ rotu \/ Rot943 \in hist1
             read == [b EXCEPT !.flag1 = hist1, !.alarm = al, !.mach["evo"] = "ENTRY"]
  <2>1. al \in BOOLEAN /\ c = Go(read, "evo", "IDLE")
    BY <1>1 DEF RoturaEVO, Evo943, ReadHistory, Base
  <2> HIDE DEF al
  <2>2. c = [b EXCEPT !.flag1 = hist1, !.alarm = al, !.mach = [b.mach EXCEPT !["evo"] = "IDLE"]]
    BY <2>1 DEF Go, Base
  <2> HIDE DEF c
  <2>m. [b.mach EXCEPT !["evo"] = "IDLE"] \in
          [rele : {"IDLE", "WAIT", "ROT"}, r485 : {"IDLE", "PWAIT1", "PWAIT2", "WAIT", "ROT"},
           evo  : {"ENTRY", "IDLE", "PWAIT1", "PWAIT2", "WAIT", "ROT"}]
    BY DEF Base
  <2>3. c \in Base /\ c.age = b.age
    BY <2>1, <2>2, <2>m DEF Base, Bytes
  <2>a. Aged(b, c)
    BY <2>3 DEF Aged
  <2>4. /\ c.mach["evo"] = "IDLE" /\ c.flag1 = hist1 /\ c.flags = b.flags /\ c.power = b.power
        /\ c.mach["rele"] = b.mach["rele"] /\ c.mach["r485"] = b.mach["r485"]
    BY <2>2 DEF Base
  <2>5. Wet(b, c, "evo")
    BY <1>1, <2>4 DEF Wet, InCycle
  <2> QED BY <1>1, <2>3, <2>a, <2>4, <2>5 DEF c
<1>2. CASE st = "IDLE" /\ Rot943 \in b.flag1
  BY <1>2 DEF RoturaEVO, Go, Base, Aged, Wet, InCycle, Machines
<1>3. CASE st = "IDLE" /\ Rot943 \notin b.flag1 /\ bad
  <2>1. c = CutSupply(b, "evo")
    BY <1>3 DEF RoturaEVO
  <2> QED BY <1>3, <2>1, Cuts DEF Machines
<1>4. CASE st = "WAIT" /\ ~bad
  BY <1>4 DEF RoturaEVO, Go, Base, Aged, Wet, InCycle, Machines
<1>5. CASE st = "WAIT" /\ bad /\ b.age["evo"] > EvoSecs
  BY <1>5 DEF RoturaEVO, Go, Base, Aged, Wet, InCycle, Machines
<1>6. CASE st = "ROT" /\ ~bad
  BY <1>6 DEF RoturaEVO, Go, Base, Aged, Wet, InCycle, Machines
<1>7. CASE st = "ROT" /\ bad
  BY <1>7 DEF RoturaEVO, Go, Base, Aged, Wet, InCycle, Machines
<1>8. CASE c = Cycle(b, "evo") /\ st \notin {"ENTRY", "ROT"}
           /\ ~(st = "WAIT" /\ bad /\ b.age["evo"] > EvoSecs)
  <2>1. c \in Base /\ Aged(b, c) /\ Wet(b, c, "evo") /\ c.flag1 = b.flag1
        /\ c.mach["rele"] = b.mach["rele"] /\ c.mach["r485"] = b.mach["r485"]
        /\ ("ROTEVO" \in c.flags <=> "ROTEVO" \in b.flags)
        /\ c.mach["evo"] \notin {"ROT", "ENTRY"}
    BY <1>8, CycleMoves DEF Machines
  <2> QED BY <1>8, <2>1
<1> QED BY <1>1, <1>2, <1>3, <1>4, <1>5, <1>6, <1>7, <1>8 DEF RoturaEVO

\* fsm_deteccion_rotura only takes the request.
LEMMA Deteccion ==
  ASSUME NEW b \in Base
  PROVE  LET c == DeteccionRotura(b) IN
         /\ c \in Base /\ c.age = b.age /\ c.mach = b.mach /\ c.power = b.power
         /\ c.flags = b.flags /\ c.flag1 = b.flag1
<1> QED BY DEF DeteccionRotura, Base

-----------------------------------------------------------------------------
(* The types, and what a pass amounts to.                                  *)

\* The entry of fsm_roturaEVO is left before any tamper can be in flash: its
\* branch for one that is there is never taken.
EntryClean ==
  base.mach["evo"] = "ENTRY" => Rot943 \notin hist1 \cup base.flag1 \cup lan.byte

\* FSM_FLAG_1 is changed for a panel that exists, and COMM_TROUBLE, the state
\* and the record for a module that does.
Named ==
  /\ lan.pc \in {"wordthen", "byte"} => lan.who \in Panels /\ lan.flag = "ROTEVO"
  /\ lan.pc \in {"wordwait", "flag", "wait", "fill", "ptm"} => lan.who \in Modules
  /\ lan.pc = "wordwait" => lan.flag = "CIDRESET"

\* The inductive invariant of the types.
Sound == TypeOK /\ EntryClean /\ Named

\* A pass by way of the bases its machines leave, with what each of them did.
PassVia(rele, one, two) ==
  /\ rele.mach["r485"] = base.mach["r485"] /\ rele.mach["evo"] = base.mach["evo"]
  /\ rele.power = base.power /\ rele.flag1 = base.flag1
  /\ "NOZSCAN" \in rele.flags <=> "NOZSCAN" \in base.flags
  /\ "ROTEVO" \in rele.flags <=> "ROTEVO" \in base.flags
  /\ Wet(rele, one, "r485") /\ Wet(one, two, "evo")
  /\ one.mach["evo"] = rele.mach["evo"] /\ two.mach["r485"] = one.mach["r485"]
  /\ one.flag1 = rele.flag1
  /\ "ROTEVO" \in two.flags <=> "ROTEVO" \in rele.flags
  /\ two.mach["evo"] # "ENTRY"
  /\ two.flag1 = IF one.mach["evo"] = "ENTRY" THEN hist1
             ELSE IF one.mach["evo"] = "WAIT" /\ two.mach["evo"] = "ROT"
                  THEN one.flag1 \cup {Rot943}
             ELSE IF one.mach["evo"] = "ROT" /\ two.mach["evo"] = "IDLE"
                  THEN one.flag1 \ {Rot943}
             ELSE one.flag1
  /\ base' \in Base /\ Aged(base, base')
  /\ base'.mach = two.mach /\ base'.power = two.power
  /\ base'.flags = two.flags /\ base'.flag1 = two.flag1
  /\ PassTo(rele, one, two)

LEMMA PassMoves ==
  ASSUME ConstantsAssumption, TypeOK, EntryClean, Pass
  PROVE  \E rele, one, two \in Base : PassVia(rele, one, two)
<1>1. PICK rotu \in BOOLEAN :
        PassTo(RoturaRele485(Recompute(base)), Rotura485(RoturaRele485(Recompute(base))),
               RoturaEVO(Rotura485(RoturaRele485(Recompute(base))), rotu))
  BY DEF Pass
<1> DEFINE clean == Recompute(base)
           rele == RoturaRele485(clean)
           one == Rotura485(rele)
           two == RoturaEVO(one, rotu)
<1>2. /\ clean \in Base /\ Aged(base, clean)
      /\ clean.mach = base.mach /\ clean.power = base.power /\ clean.flag1 = base.flag1
      /\ "NOZSCAN" \in clean.flags <=> "NOZSCAN" \in base.flags
      /\ "ROTEVO" \in clean.flags <=> "ROTEVO" \in base.flags
  BY Recomputes DEF TypeOK
<1>3. /\ rele \in Base /\ Aged(clean, rele)
      /\ rele.mach["r485"] = clean.mach["r485"] /\ rele.mach["evo"] = clean.mach["evo"]
      /\ rele.power = clean.power /\ rele.flag1 = clean.flag1 /\ rele.flags = clean.flags
  BY <1>2, Rele
<1>4. /\ one \in Base /\ Aged(rele, one) /\ Wet(rele, one, "r485")
      /\ one.mach["evo"] = rele.mach["evo"]
      /\ one.flag1 = rele.flag1 /\ ("ROTEVO" \in one.flags <=> "ROTEVO" \in rele.flags)
  BY <1>3, Bus
<1>5. one.mach["evo"] = "ENTRY" => Rot943 \notin hist1
  BY <1>2, <1>3, <1>4 DEF EntryClean
<1>6. /\ two \in Base /\ Aged(one, two) /\ Wet(one, two, "evo")
      /\ two.mach["r485"] = one.mach["r485"]
      /\ "ROTEVO" \in two.flags <=> "ROTEVO" \in one.flags
      /\ two.mach["evo"] # "ENTRY"
      /\ two.flag1 = IF one.mach["evo"] = "ENTRY" THEN hist1
                      ELSE IF one.mach["evo"] = "WAIT" /\ two.mach["evo"] = "ROT"
                           THEN one.flag1 \cup {Rot943}
                      ELSE IF one.mach["evo"] = "ROT" /\ two.mach["evo"] = "IDLE"
                           THEN one.flag1 \ {Rot943}
                      ELSE one.flag1
  <2>1. hist1 \in Bytes
    BY DEF TypeOK
  <2> HIDE DEF one
  <2> QED BY <1>4, <1>5, <2>1, Evo
<1>7. PassTo(rele, one, two)
  BY <1>1
<1> HIDE DEF clean, rele, one, two
<1>8. base' = DeteccionRotura(two)
  BY <1>7 DEF PassTo
<1>9. /\ base' \in Base /\ base'.age = two.age /\ base'.mach = two.mach
      /\ base'.power = two.power /\ base'.flags = two.flags /\ base'.flag1 = two.flag1
  BY <1>6, <1>8, Deteccion
<1>10. Aged(base, base')
  BY <1>2, <1>3, <1>4, <1>6, <1>9 DEF Aged
<1>11. PassVia(rele, one, two)
  BY <1>2, <1>3, <1>4, <1>6, <1>7, <1>9, <1>10 DEF PassVia
<1> QED BY <1>3, <1>4, <1>6, <1>11

\* A race that is watched is noted, and stays noted.
LEMMA Noted ==
  ASSUME NEW kind, NEW cond
  PROVE  /\ Race(kind, cond) \subseteq {kind}
         /\ cond /\ kind \in Watched => kind \in Race(kind, cond)
<1> QED BY DEF Race

LEMMA RacedGrows ==
  ASSUME [Next]_vars PROVE raced \subseteq raced'
<1>1. CASE Pass
  <2>1. \E rele, one, two : PassTo(rele, one, two)
    BY <1>1 DEF Pass
  <2> QED BY <2>1 DEF PassTo
<1>2. CASE Lan
  BY <1>2 DEF Lan, SendEcho, GivenUp, SetTrouble, Answers, BeginWait, Recovers, FillPtmHistory,
    LanStores, StoreWord, StoreByte, WriteHistory, WritePtmHistory, PanelEntry, PanelLost,
    PanelBack, PanelNight
<1>3. CASE Tick \/ AlarmReset \/ SetClock \/ Reboot \/ UNCHANGED vars
  BY <1>3 DEF Tick, AlarmReset, SetClock, Reboot, vars
<1> QED BY <1>1, <1>2, <1>3 DEF Next

-----------------------------------------------------------------------------
(* Every action keeps the types.                                           *)

\* A timer that was set or left is in its range.
LEMMA BaseKeeps ==
  ASSUME ConstantsAssumption, TypeOK, NEW c \in Base, Aged(base, c)
  PROVE  \A m \in Machines : c.age[m] <= Oldest(m)
<1> SUFFICES ASSUME NEW m \in Machines PROVE c.age[m] <= Oldest(m)
  OBVIOUS
<1>1. Oldest(m) \in Nat /\ Oldest(m) > 0
  BY Numbers
<1>2. base.age[m] <= Oldest(m) /\ c.age[m] \in Nat /\ base.age[m] \in Nat
  BY DEF TypeOK, Base
<1>3. c.age[m] = 0 \/ c.age[m] = base.age[m]
  BY DEF Aged
<1> QED BY <1>1, <1>2, <1>3

\* The steps of LAN485_Task that load the word of flags.
LEMMA Loads ==
  ASSUME TypeOK, NEW flag \in {"ROT491", "CIDRESET", "ROTEVO"}, NEW on \in BOOLEAN,
         NEW next \in {"word", "wordthen", "wordwait"}, NEW w \in Panels \cup Modules \cup {0},
         next = "wordthen" => w \in Panels /\ flag = "ROTEVO",
         next = "wordwait" => w \in Modules /\ flag = "CIDRESET",
         LoadWord(base.flags, flag, on, next, w)
  PROVE  /\ lan' \in Steps /\ Named'
         /\ lan'.pc = next /\ lan'.flag = flag /\ lan'.on = on /\ lan'.who = w
         /\ lan'.word = base.flags /\ lan'.byte = {}
<1>1. lan' = [pc |-> next, flag |-> flag, on |-> on, who |-> w, word |-> base.flags,
              byte |-> {}, rec |-> [ng |-> {}, rot |-> FALSE]]
  BY DEF LoadWord, Idle
<1>2. base.flags \in SUBSET Flags
  BY DEF TypeOK, Base
<1> QED BY <1>1, <1>2 DEF Steps, Bytes, Records, Named

LEMMA Rests == Idle \in Steps /\ Idle.pc = "poll" /\ Idle.byte = {}
<1> QED BY DEF Idle, Steps, Bytes, Records

\* It turns to a module.
LEMMA Starts ==
  ASSUME NEW m \in Modules, NEW next \in {"flag", "wait", "fill"},
         lan' = [Idle EXCEPT !.pc = next, !.who = m]
  PROVE  lan' \in Steps /\ Named' /\ lan'.pc = next /\ lan'.who = m /\ lan'.byte = {}
<1> DEFINE none == {}
           r == Idle.rec
<1>1. /\ none \in SUBSET Flags /\ none \in Bytes /\ r \in Records
      /\ lan' = [pc |-> next, flag |-> "ROT491", on |-> FALSE, who |-> m, word |-> none,
                 byte |-> none, rec |-> r]
  BY DEF Idle, Records, Bytes
<1> HIDE DEF none, r
<1>2. lan'.pc = next /\ lan'.who = m /\ lan'.byte = none /\ lan'.flag = "ROT491"
  BY ONLY <1>1
<1>3. m \in Modules /\ next \in {"flag", "wait", "fill"}
  OBVIOUS
<1>4. lan' \in Steps
  BY ONLY <1>1, <1>3 DEF Steps
<1> QED BY ONLY <1>2, <1>3, <1>4 DEF Named, none

\* What becomes of a module touches neither the flags nor FSM_FLAG_1.
ModuleStep ==
  \/ \E m \in Modules : GivenUp(m) \/ Answers(m) \/ Recovers(m)
  \/ SetTrouble \/ BeginWait \/ FillPtmHistory

LEMMA ModuleMoves ==
  ASSUME TypeOK, Named, ModuleStep
  PROVE  /\ UNCHANGED <<base, panel, hist1, histPtm, resets, raced>>
         /\ ng' \subseteq Modules /\ trouble' \subseteq Modules
         /\ lan' \in Steps /\ Named' /\ (lan'.byte = {} \/ lan'.byte = lan.byte)
         /\ lan.pc \in {"poll", "flag", "wait", "fill"}
         /\ lan'.pc \in {"poll", "wordwait", "flag", "wait", "fill", "ptm"}
<1>0. /\ ng \subseteq Modules /\ trouble \subseteq Modules /\ lan \in Steps
      /\ base.mach["r485"] \in {"IDLE", "PWAIT1", "PWAIT2", "WAIT", "ROT"}
  BY DEF TypeOK, Base
<1> DEFINE Done == /\ UNCHANGED <<base, panel, hist1, histPtm, resets, raced>>
                   /\ ng' \subseteq Modules /\ trouble' \subseteq Modules
                   /\ lan' \in Steps /\ Named' /\ (lan'.byte = {} \/ lan'.byte = lan.byte)
                   /\ lan.pc \in {"poll", "flag", "wait", "fill"}
                   /\ lan'.pc \in {"poll", "wordwait", "flag", "wait", "fill", "ptm"}
<1>1. ASSUME NEW m \in Modules, GivenUp(m) \/ Recovers(m) PROVE Done
  <2>1. \E next \in {"flag", "fill"} : lan' = [Idle EXCEPT !.pc = next, !.who = m]
    BY <1>1 DEF GivenUp, Recovers
  <2>2. lan' \in Steps /\ Named' /\ lan'.pc \in {"flag", "fill"} /\ lan'.byte = {}
    BY <2>1, Starts
  <2> QED BY <1>0, <1>1, <2>2 DEF GivenUp, Recovers
<1>2. ASSUME NEW m \in Modules, Answers(m) PROVE Done
  <2>1. CASE "CIDRESET" \in base.flags
    <3>1. LoadWord(base.flags, "CIDRESET", FALSE, "wordwait", m)
      BY <1>2, <2>1 DEF Answers
    <3>2. lan' \in Steps /\ Named' /\ lan'.pc = "wordwait" /\ lan'.byte = {}
      BY <3>1, Loads
    <3> QED BY <1>0, <1>2, <3>2 DEF Answers
  <2>2. CASE "CIDRESET" \notin base.flags
    <3>1. lan' = [Idle EXCEPT !.pc = "wait", !.who = m]
      BY <1>2, <2>2 DEF Answers
    <3>2. lan' \in Steps /\ Named' /\ lan'.pc = "wait" /\ lan'.byte = {}
      BY <3>1, Starts
    <3> QED BY <1>0, <1>2, <3>2 DEF Answers
  <2> QED BY <2>1, <2>2
<1>3. CASE SetTrouble
  <2>1. lan.who \in Modules /\ lan' = [lan EXCEPT !.pc = "fill"]
    BY <1>3 DEF SetTrouble, Named
  <2>2. lan' \in Steps /\ Named' /\ lan'.pc = "fill" /\ lan'.byte = lan.byte
    BY <1>0, <2>1 DEF Steps, Named
  <2> QED BY <1>0, <1>3, <2>1, <2>2 DEF SetTrouble
<1>4. CASE BeginWait
  <2>1. lan' \in Steps /\ Named' /\ lan'.pc = "poll" /\ lan'.byte = {}
    BY <1>4, Rests DEF BeginWait, Named
  <2> QED BY <1>0, <1>4, <2>1 DEF BeginWait
<1>5. CASE FillPtmHistory
  <2> DEFINE r == [ng |-> ng, rot |-> base.mach["r485"] = "ROT"]
  <2>1. r \in Records /\ lan.who \in Modules /\ lan' = [lan EXCEPT !.pc = "ptm", !.rec = r]
    BY <1>0, <1>5 DEF FillPtmHistory, Named, Records
  <2> HIDE DEF r
  <2>2. lan' \in Steps /\ Named' /\ lan'.pc = "ptm" /\ lan'.byte = lan.byte
    BY <1>0, <2>1 DEF Steps, Named
  <2> QED BY <1>0, <1>5, <2>2 DEF FillPtmHistory
<1> QED BY <1>1, <1>2, <1>3, <1>4, <1>5 DEF ModuleStep

\* FSM_ReadHistory replaces FSM_FLAG_1, and may take fsm_roturaEVO to ROT.
LEMMA Reads ==
  ASSUME TypeOK, NEW rotu \in BOOLEAN
  PROVE  LET c == ReadHistory(base, rotu) IN
         /\ c \in Base /\ c.age = base.age /\ c.power = base.power /\ c.flags = base.flags
         /\ c.flag1 = hist1
         /\ c.mach = [base.mach EXCEPT !["evo"] = IF Rot943 \in hist1 THEN "ROT" ELSE @]
<1> DEFINE c == ReadHistory(base, rotu)
           al == base.alarm \/ rotu \/ Rot943 \in hist1
           ma == [base.mach EXCEPT !["evo"] = IF Rot943 \in hist1 THEN "ROT" ELSE @]
<1>1. al \in BOOLEAN
  BY DEF TypeOK, Base
<1>2. c = [base EXCEPT !.flag1 = hist1, !.alarm = al, !.mach = ma]
  BY DEF ReadHistory, TypeOK, Base
<1>3. ma \in [rele : {"IDLE", "WAIT", "ROT"},
              r485 : {"IDLE", "PWAIT1", "PWAIT2", "WAIT", "ROT"},
              evo  : {"ENTRY", "IDLE", "PWAIT1", "PWAIT2", "WAIT", "ROT"}]
  BY DEF TypeOK, Base
<1> HIDE DEF al, ma, c
<1>4. /\ c \in Base /\ c.age = base.age /\ c.power = base.power /\ c.flags = base.flags
      /\ c.flag1 = hist1 /\ c.mach = ma
  BY <1>1, <1>2, <1>3 DEF TypeOK, Base, Bytes
<1> QED BY <1>4 DEF ma, c

LEMMA SoundInit == ASSUME ConstantsAssumption, Init PROVE Sound
<1>1. base \in Base
  BY DEF Init, Base, Bytes
<1>2. \A m \in Machines : base.age[m] <= Oldest(m)
  BY Numbers DEF Init
<1>3. TypeOK
  BY <1>1, <1>2, Rests DEF Init, TypeOK, Bytes, Records, ConstantsAssumption
<1> QED BY <1>3, Rests DEF Sound, EntryClean, Named, Init

LEMMA SoundPass == ASSUME ConstantsAssumption, Sound, Pass PROVE Sound'
<1> USE DEF Sound
<1>p. PICK rele, one, two \in Base : PassVia(rele, one, two)
  BY PassMoves
<1>1. /\ rele.flag1 = base.flag1 /\ one.flag1 = rele.flag1
      /\ rele.mach["evo"] = base.mach["evo"] /\ one.mach["evo"] = rele.mach["evo"]
      /\ two.mach["evo"] # "ENTRY"
      /\ base' \in Base /\ Aged(base, base')
      /\ base'.mach = two.mach
      /\ PassTo(rele, one, two)
  BY <1>p DEF PassVia
<1>2. \A m \in Machines : base'.age[m] <= Oldest(m)
  BY <1>1, BaseKeeps
<1>3. hist1' \in Bytes
  BY <1>1 DEF PassTo, TypeOK, Base, Bytes
<1>4. histPtm' \in Records
  BY <1>1 DEF PassTo, TypeOK, Records
<1>5. raced' \subseteq Races
  BY <1>1 DEF PassTo, TypeOK, Race, Races
<1>6. UNCHANGED <<lanVars, resets>>
  BY <1>1 DEF PassTo
<1>7. TypeOK'
  BY <1>1, <1>2, <1>3, <1>4, <1>5, <1>6 DEF TypeOK, lanVars
<1>8. EntryClean' /\ Named'
  BY <1>1, <1>6 DEF EntryClean, Named, lanVars
<1> QED BY <1>7, <1>8

LEMMA SoundLan == ASSUME ConstantsAssumption, Sound, Lan PROVE Sound'
<1> USE DEF Sound
<1>1. ASSUME SendEcho PROVE Sound'
  <2>1. lan' \in Steps /\ Named' /\ lan'.byte = {}
    BY <1>1, Loads DEF SendEcho
  <2> QED BY <1>1, <2>1 DEF SendEcho, TypeOK, EntryClean
<1>2. ASSUME ModuleStep PROVE Sound'
  BY <1>2, ModuleMoves DEF TypeOK, EntryClean
<1>4. ASSUME StoreWord PROVE Sound'
  <2> DEFINE F == Changed(lan.word, lan.flag, lan.on)
  <2>1. F \in SUBSET Flags
    BY DEF Changed, TypeOK, Steps, Flags
  <2>2. base' = [base EXCEPT !.flags = F]
    BY <1>4 DEF StoreWord
  <2> HIDE DEF F
  <2>3. base' \in Base /\ base'.age = base.age /\ base'.mach = base.mach /\ base'.flag1 = base.flag1
    BY <2>1, <2>2 DEF TypeOK, Base
  <2>4. /\ lan' \in Steps /\ Named'
        /\ lan'.byte \subseteq base.flag1
    <3>1. CASE lan.pc = "word"
      BY <1>4, <3>1, Rests DEF StoreWord, Named
    <3>2. CASE lan.pc = "wordthen"
      <4>1. lan' = [lan EXCEPT !.pc = "byte", !.word = {}, !.byte = base.flag1]
        BY <1>4, <3>2 DEF StoreWord
      <4>2. base.flag1 \in Bytes
        BY DEF TypeOK, Base, Bytes
      <4> QED BY <3>2, <4>1, <4>2 DEF TypeOK, Steps, Named
    <3>3. CASE lan.pc = "wordwait"
      BY <1>4, <3>3, Starts DEF StoreWord, Named
    <3> QED BY <1>4, <3>1, <3>2, <3>3 DEF StoreWord
  <2>5. raced' \subseteq Races
    BY <1>4 DEF StoreWord, TypeOK, Race, Races
  <2>6. UNCHANGED <<ng, trouble, panel, hist1, histPtm, resets>>
    BY <1>4 DEF StoreWord
  <2> QED BY <2>3, <2>4, <2>5, <2>6 DEF TypeOK, EntryClean
<1>5. ASSUME StoreByte PROVE Sound'
  <2> DEFINE B == ChangedByte(lan.byte, lan.who, lan.on)
  <2>1. B \in Bytes /\ (Rot943 \notin lan.byte => Rot943 \notin B)
    BY <1>5, Numbers DEF StoreByte, ChangedByte, TypeOK, Steps, Bytes, Named
  <2>2. base' = [base EXCEPT !.flag1 = B] /\ lan' = [lan EXCEPT !.pc = "saving", !.byte = B]
    BY <1>5 DEF StoreByte
  <2> HIDE DEF B
  <2>3. base' \in Base /\ base'.age = base.age /\ base'.mach = base.mach /\ base'.flag1 = B
    BY <2>1, <2>2 DEF TypeOK, Base, Bytes
  <2>4. lan' \in Steps /\ Named' /\ lan'.byte = B
    BY <2>1, <2>2 DEF TypeOK, Steps, Named
  <2>5. raced' \subseteq Races
    BY <1>5 DEF StoreByte, TypeOK, Race, Races
  <2>6. UNCHANGED <<ng, trouble, panel, hist1, histPtm, resets>>
    BY <1>5 DEF StoreByte
  <2> QED BY <2>1, <2>3, <2>4, <2>5, <2>6 DEF TypeOK, EntryClean
<1>6. ASSUME WriteHistory PROVE Sound'
  <2>1. lan' \in Steps /\ Named' /\ lan'.byte = {} /\ hist1' = lan.byte
    BY <1>6, Rests DEF WriteHistory, Named
  <2>2. raced' \subseteq Races
    BY <1>6 DEF WriteHistory, TypeOK, Race, Races
  <2> QED BY <1>6, <2>1, <2>2 DEF WriteHistory, TypeOK, EntryClean, Steps
<1>7. ASSUME WritePtmHistory PROVE Sound'
  <2>1. lan' \in Steps /\ Named' /\ lan'.byte = {} /\ histPtm' = lan.rec
    BY <1>7, Rests DEF WritePtmHistory, Named
  <2>2. raced' \subseteq Races
    BY <1>7 DEF WritePtmHistory, TypeOK, Race, Races
  <2> QED BY <1>7, <2>1, <2>2 DEF WritePtmHistory, TypeOK, EntryClean, Steps
<1>8. ASSUME NEW p \in Panels, PanelEntry(p) PROVE Sound'
  <2>1. PICK rotu \in BOOLEAN : base' = ReadHistory(base, rotu)
    BY <1>8 DEF PanelEntry
  <2>2. /\ base' \in Base /\ base'.age = base.age /\ base'.flag1 = hist1
        /\ base'.mach = [base.mach EXCEPT !["evo"] = IF Rot943 \in hist1 THEN "ROT" ELSE @]
    BY <2>1, Reads
  <2>3. lan' \in Steps /\ Named' /\ (lan'.byte = {} \/ lan'.byte = lan.byte)
    <3>1. CASE p \in hist1 \/ Rot943 \in hist1
      BY <1>8, <3>1, Loads DEF PanelEntry
    <3>2. CASE ~(p \in hist1 \/ Rot943 \in hist1)
      BY <1>8, <3>2 DEF PanelEntry, Named, TypeOK
    <3> QED BY <3>1, <3>2
  <2>4. panel' \in [Panels -> {"ENTRY", "IDLE", "ALARM"}]
    BY <1>8 DEF PanelEntry, TypeOK
  <2>5. raced' \subseteq Races
    BY <1>8 DEF PanelEntry, TypeOK, Race, Races
  <2>6. base'.mach["evo"] = "ENTRY" => base.mach["evo"] = "ENTRY" /\ Rot943 \notin hist1
    BY <2>2 DEF TypeOK, Base
  <2>7. UNCHANGED <<ng, trouble, hist1, histPtm, resets>>
    BY <1>8 DEF PanelEntry
  <2> QED BY <2>2, <2>3, <2>4, <2>5, <2>6, <2>7 DEF TypeOK, EntryClean
<1>9. ASSUME NEW p \in Panels, PanelLost(p) \/ PanelBack(p) \/ PanelNight(p) PROVE Sound'
  <2>1. lan' \in Steps /\ Named' /\ lan'.byte = {}
    BY <1>9, Loads DEF PanelLost, PanelBack, PanelNight
  <2>2. panel' \in [Panels -> {"ENTRY", "IDLE", "ALARM"}]
    BY <1>9 DEF PanelLost, PanelBack, PanelNight, TypeOK
  <2>3. raced' \subseteq Races
    BY <1>9 DEF PanelLost, PanelBack, PanelNight, TypeOK, Race, Races
  <2>4. UNCHANGED <<base, ng, trouble, hist1, histPtm, resets>>
    BY <1>9 DEF PanelLost, PanelBack, PanelNight
  <2> QED BY <2>1, <2>2, <2>3, <2>4 DEF TypeOK, EntryClean
<1> QED BY <1>1, <1>2, <1>4, <1>5, <1>6, <1>7, <1>8, <1>9 DEF Lan, LanStores, ModuleStep

LEMMA SoundRest ==
  ASSUME ConstantsAssumption, Sound, Tick \/ AlarmReset \/ SetClock \/ Reboot \/ UNCHANGED vars
  PROVE  Sound'
<1> USE DEF Sound
<1>1. ASSUME Tick PROVE Sound'
  <2> DEFINE A == [m \in Machines |-> IF Timing(m) THEN base.age[m] + 1 ELSE base.age[m]]
  <2>1. A \in [Machines -> Nat] /\ \A m \in Machines : A[m] <= Oldest(m)
    BY Numbers DEF TypeOK, Base, Timing
  <2>2. base' = [base EXCEPT !.age = A]
    BY <1>1 DEF Tick
  <2> HIDE DEF A
  <2>3. base' \in Base /\ base'.age = A /\ base'.mach = base.mach /\ base'.flag1 = base.flag1
    BY <2>1, <2>2 DEF TypeOK, Base
  <2> QED BY <1>1, <2>1, <2>3 DEF Tick, TypeOK, EntryClean, Named, lanVars
<1>2. ASSUME AlarmReset PROVE Sound'
  <2>1. /\ base' \in Base /\ base'.age = base.age /\ base'.mach = base.mach
        /\ base'.flag1 = base.flag1
    BY <1>2 DEF AlarmReset, TypeOK, Base
  <2> QED BY <1>2, <2>1 DEF AlarmReset, TypeOK, EntryClean, Named, lanVars
<1>3. ASSUME SetClock PROVE Sound'
  <2>1. PICK flags \in {base.flags, base.flags \ {"ROTEVO"}},
             age \in {base.age, [m \in Machines |-> 0], [m \in Machines |-> Oldest(m)]} :
          base' = [base EXCEPT !.flags = flags, !.age = age]
    BY <1>3 DEF SetClock
  <2>2. flags \in SUBSET Flags
    BY DEF TypeOK, Base
  <2>3. age \in [Machines -> Nat] /\ \A m \in Machines : age[m] <= Oldest(m)
    BY Numbers DEF TypeOK, Base
  <2>4. base' \in Base /\ base'.age = age /\ base'.mach = base.mach /\ base'.flag1 = base.flag1
    BY <2>1, <2>2, <2>3 DEF TypeOK, Base
  <2>5. panel' \in [Panels -> {"ENTRY", "IDLE", "ALARM"}] /\ resets' \in 0..MaxResets
    BY <1>3 DEF SetClock, TypeOK, ConstantsAssumption
  <2>6. raced' \subseteq Races
    BY <1>3 DEF SetClock, TypeOK, Race, Races
  <2> QED BY <1>3, <2>3, <2>4, <2>5, <2>6 DEF SetClock, TypeOK, EntryClean, Named
<1>4. ASSUME Reboot PROVE Sound'
  <2>1. ng' \subseteq Modules /\ trouble' \subseteq Modules
    BY <1>4 DEF Reboot, TypeOK, Records
  <2>2. /\ base' \in Base /\ base'.age = [m \in Machines |-> 0] /\ base'.flag1 = hist1
        /\ base'.mach["evo"] = "ENTRY" => Rot943 \notin hist1
    BY <1>4 DEF Reboot, TypeOK, Base, Bytes, Flags
  <2>3. \A m \in Machines : base'.age[m] <= Oldest(m)
    BY <2>2, Numbers
  <2>4. panel' \in [Panels -> {"ENTRY", "IDLE", "ALARM"}] /\ resets' \in 0..MaxResets
    BY <1>4 DEF Reboot, TypeOK, ConstantsAssumption
  <2>5. raced' \subseteq Races
    BY <1>4 DEF Reboot, TypeOK, Race, Races
  <2> QED BY <1>4, <2>1, <2>2, <2>3, <2>4, <2>5, Rests DEF Reboot, TypeOK, EntryClean, Named
<1>5. ASSUME UNCHANGED vars PROVE Sound'
  BY <1>5 DEF vars, lanVars, TypeOK, EntryClean, Named
<1> QED BY <1>1, <1>2, <1>3, <1>4, <1>5

LEMMA SoundNext == ASSUME ConstantsAssumption, Sound, [Next]_vars PROVE Sound'
<1> QED BY SoundPass, SoundLan, SoundRest DEF Next

-----------------------------------------------------------------------------
(* What the steps other than a pass do to the base.                        *)

\* fsm_rotEVO_state only moves to ROT, and not out of its cycle unnoticed.
Moved ==
  base'.mach["evo"] # base.mach["evo"] =>
    base'.mach["evo"] = "ROT" /\ (InCycle(base, "evo") /\ "torn" \in Watched => "torn" \in raced')

\* Rot485_flag is left, loses ROTEVO_FLAG to a clock setting, or is stored.
Reflagged ==
  \/ base'.flags = base.flags
  \/ base'.flags = base.flags \ {"ROTEVO"} /\ ("clock" \in Watched => "clock" \in raced')
  \/ /\ lan.pc \in {"word", "wordthen", "wordwait"}
     /\ base'.flags = Changed(lan.word, lan.flag, lan.on)
     /\ lan.word # base.flags /\ "word" \in Watched => "word" \in raced'

LEMMA LanMoves ==
  ASSUME Sound, Lan
  PROVE  /\ base'.power = base.power /\ base'.mach["r485"] = base.mach["r485"]
         /\ base'.mach["rele"] = base.mach["rele"] /\ Moved
         /\ Reflagged
<1> USE DEF Sound
<1>1. CASE StoreWord
  <2>1. base' = [base EXCEPT !.flags = Changed(lan.word, lan.flag, lan.on)]
        /\ lan.pc \in {"word", "wordthen", "wordwait"}
    BY <1>1 DEF StoreWord
  <2>2. lan.word # base.flags /\ "word" \in Watched => "word" \in raced'
    BY <1>1, Noted DEF StoreWord
  <2>3. /\ base'.power = base.power /\ base'.mach = base.mach
        /\ base'.flags = Changed(lan.word, lan.flag, lan.on)
    BY <2>1 DEF TypeOK, Base
  <2> QED BY <2>1, <2>2, <2>3 DEF Moved, Reflagged
<1>2. CASE StoreByte
  BY <1>2 DEF StoreByte, Moved, Reflagged, TypeOK, Base
<1>3. ASSUME NEW p \in Panels, PanelEntry(p)
      PROVE  /\ base'.power = base.power /\ base'.mach["r485"] = base.mach["r485"]
             /\ base'.mach["rele"] = base.mach["rele"] /\ Moved /\ Reflagged
  <2>1. PICK rotu \in BOOLEAN : base' = ReadHistory(base, rotu)
    BY <1>3 DEF PanelEntry
  <2>2. /\ base'.power = base.power /\ base'.flags = base.flags
        /\ base'.mach = [base.mach EXCEPT !["evo"] = IF Rot943 \in hist1 THEN "ROT" ELSE @]
    BY <2>1, Reads
  <2>3. Rot943 \in hist1 /\ InCycle(base, "evo") /\ "torn" \in Watched => "torn" \in raced'
    BY <1>3, Noted DEF PanelEntry
  <2> QED BY <2>2, <2>3 DEF Moved, Reflagged, TypeOK, Base
<1>4. CASE base' = base
  BY <1>4 DEF Moved, Reflagged
<1> QED BY <1>1, <1>2, <1>3, <1>4, ModuleMoves DEF Lan, LanStores, ModuleStep, SendEcho,
      WriteHistory, WritePtmHistory, PanelLost, PanelBack, PanelNight

LEMMA RestMoves ==
  ASSUME Sound, Tick \/ AlarmReset \/ SetClock \/ UNCHANGED vars
  PROVE  /\ base'.power = base.power /\ base'.mach = base.mach /\ base'.flag1 = base.flag1
         /\ \/ base'.flags = base.flags
            \/ base'.flags = base.flags \ {"ROTEVO"} /\ ("clock" \in Watched => "clock" \in raced')
<1> USE DEF Sound
<1>1. CASE Tick
  BY <1>1 DEF Tick, TypeOK, Base
<1>2. CASE AlarmReset
  BY <1>2 DEF AlarmReset, TypeOK, Base
<1>3. CASE SetClock
  <2>1. "clock" \in Watched => "clock" \in raced'
    BY <1>3, Noted DEF SetClock
  <2>2. \E flags \in {base.flags, base.flags \ {"ROTEVO"}} : \E age :
          base' = [base EXCEPT !.flags = flags, !.age = age]
    BY <1>3 DEF SetClock
  <2> QED BY <2>1, <2>2 DEF TypeOK, Base
<1>4. CASE UNCHANGED vars
  BY <1>4 DEF vars
<1> QED BY <1>1, <1>2, <1>3, <1>4

LEMMA RebootMoves ==
  ASSUME Sound, Reboot
  PROVE  /\ base'.power /\ "NOZSCAN" \notin base'.flags /\ lan'.pc = "poll"
         /\ base'.flag1 = hist1 /\ hist1' = hist1 /\ histPtm' = histPtm
         /\ ng' = histPtm.ng /\ trouble' = histPtm.ng
         /\ base'.mach["r485"] = "ROT" <=> histPtm.rot
         /\ "ROTEVO" \in base'.flags => Rot943 \in hist1
         /\ panel' = [q \in Panels |-> "ENTRY"]
<1>1. histPtm.rot \in BOOLEAN
  BY DEF Sound, TypeOK, Records
<1> QED BY <1>1, Rests DEF Reboot

-----------------------------------------------------------------------------
(* The supply.                                                             *)

\* While there is none, the zones are not scanned and no machine waits for the
\* peripherals to start: its next step would let the zones be scanned.
Blind ==
  ~base.power =>
    \/ "NOZSCAN" \in base.flags /\ base.mach["r485"] # "PWAIT2" /\ base.mach["evo"] # "PWAIT2"
    \/ raced \cap {"overlap", "word"} # {}

\* The inductive invariant of the supply.
Supply == SupplyOwned /\ Blind /\ BlindOwned

LEMMA CuttingIs ==
  ASSUME Sound
  PROVE  /\ Cutting <=> base.mach["r485"] = "PWAIT1" \/ base.mach["evo"] = "PWAIT1"
         /\ Cycling <=> InCycle(base, "r485") \/ InCycle(base, "evo")
<1> QED BY DEF Cutting, Cycling, InCycle, Machines, Sound, TypeOK, Base

LEMMA SupplyInit == ASSUME Init PROVE Supply
<1> QED BY DEF Init, Supply, SupplyOwned, Blind, BlindOwned

LEMMA SupplyPass ==
  ASSUME ConstantsAssumption, {"torn", "word", "overlap"} \subseteq Watched,
         Sound, Sound', Supply, Pass
  PROVE  Supply'
<1>p. PICK rele, one, two \in Base : PassVia(rele, one, two)
  BY PassMoves DEF Sound
<1>0. raced \subseteq raced'
  BY RacedGrows DEF Next
<1>1. SupplyOwned'
  <2>1. ~base'.power => base'.mach["r485"] = "PWAIT1" \/ base'.mach["evo"] = "PWAIT1"
                          \/ "torn" \in raced
    BY <1>p, CuttingIs DEF PassVia, Wet, Supply, SupplyOwned
  <2>2. Cutting' <=> base'.mach["r485"] = "PWAIT1" \/ base'.mach["evo"] = "PWAIT1"
    BY CuttingIs DEF Cutting, Sound, TypeOK, Base, Machines
  <2> QED BY <1>0, <2>1, <2>2 DEF SupplyOwned
<1>2. BlindOwned'
  <2>1. "NOZSCAN" \in base'.flags =>
          InCycle(two, "r485") \/ InCycle(two, "evo") \/ raced \cap {"word", "torn"} # {}
    BY <1>p, CuttingIs DEF PassVia, Wet, Supply, BlindOwned, InCycle
  <2>2. Cycling' <=> InCycle(two, "r485") \/ InCycle(two, "evo")
    BY <1>p DEF PassVia, Cycling, Sound, TypeOK, Base, Machines, InCycle
  <2> QED BY <1>0, <1>p, <2>1, <2>2 DEF BlindOwned
<1>3. Blind'
  <2> SUFFICES ASSUME ~base'.power, raced' \cap {"overlap", "word"} = {}
               PROVE  "NOZSCAN" \in base'.flags /\ base'.mach["r485"] # "PWAIT2"
                        /\ base'.mach["evo"] # "PWAIT2"
    BY DEF Blind
  <2>1. ~\E m, n \in {"r485", "evo"} :
           m # n /\ ~InCycle(rele, m) /\ InCycle(two, m) /\ (InCycle(rele, n) \/ InCycle(two, n))
    BY <1>p, Noted DEF PassVia, PassTo
  <2>2. /\ ~InCycle(rele, "r485") /\ InCycle(two, "r485") =>
              ~InCycle(rele, "evo") /\ ~InCycle(two, "evo")
        /\ ~InCycle(rele, "evo") /\ InCycle(two, "evo") =>
              ~InCycle(rele, "r485") /\ ~InCycle(two, "r485")
    BY <2>1
  <2>3. ~base.power => "NOZSCAN" \in base.flags /\ base.mach["r485"] # "PWAIT2"
                         /\ base.mach["evo"] # "PWAIT2"
    BY <1>0 DEF Supply, Blind
  <2>4. /\ rele.mach["r485"] = base.mach["r485"] /\ rele.mach["evo"] = base.mach["evo"]
        /\ one.mach["evo"] = rele.mach["evo"] /\ two.mach["r485"] = one.mach["r485"]
        /\ rele.power = base.power /\ ("NOZSCAN" \in rele.flags <=> "NOZSCAN" \in base.flags)
        /\ ~two.power /\ base'.flags = two.flags /\ base'.mach = two.mach
        /\ Wet(rele, one, "r485") /\ Wet(one, two, "evo")
    BY <1>p DEF PassVia
  <2>5. CASE ~base.power
    BY <2>2, <2>3, <2>4, <2>5 DEF Wet, InCycle
  <2>6. CASE base.power /\ ~one.power
    BY <2>2, <2>4, <2>6 DEF Wet, InCycle
  <2>7. CASE one.power
    BY <2>2, <2>4, <2>7 DEF Wet, InCycle
  <2> QED BY <2>5, <2>6, <2>7
<1> QED BY <1>1, <1>2, <1>3 DEF Supply

LEMMA SupplyOthers ==
  ASSUME ConstantsAssumption, {"torn", "word", "overlap"} \subseteq Watched,
         Sound, Sound', Supply, Lan \/ Tick \/ AlarmReset \/ SetClock \/ UNCHANGED vars
  PROVE  Supply'
<1>0. raced \subseteq raced'
  BY RacedGrows DEF Next
<1>1. /\ base'.power = base.power /\ base'.mach["r485"] = base.mach["r485"]
      /\ Moved
  BY LanMoves, RestMoves DEF Moved
<1>2. "word" \in raced' \/ ("NOZSCAN" \in base'.flags <=> "NOZSCAN" \in base.flags)
  <2>1. CASE Lan
    <3>1. Reflagged /\ lan.flag \in {"ROT491", "CIDRESET", "ROTEVO"}
      BY <2>1, LanMoves DEF Sound, TypeOK, Steps
    <3> QED BY <3>1 DEF Reflagged, Changed
  <2>2. CASE ~Lan
    BY <2>2, RestMoves
  <2> QED BY <2>1, <2>2
<1>3. /\ Cutting' <=> base'.mach["r485"] = "PWAIT1" \/ base'.mach["evo"] = "PWAIT1"
      /\ Cycling' <=> InCycle(base, "r485") \/ InCycle(base', "evo")
  BY <1>1 DEF Cutting, Cycling, InCycle, Machines, Sound, TypeOK, Base
<1>4. /\ Cutting <=> base.mach["r485"] = "PWAIT1" \/ base.mach["evo"] = "PWAIT1"
      /\ Cycling <=> InCycle(base, "r485") \/ InCycle(base, "evo")
  BY CuttingIs
<1>5. InCycle(base, "evo") => InCycle(base', "evo") \/ "torn" \in raced'
  BY <1>1 DEF Moved, InCycle
<1>6. base'.mach["evo"] \in {"PWAIT1", "PWAIT2"} => base'.mach["evo"] = base.mach["evo"]
  BY <1>1 DEF Moved
<1>7. SupplyOwned'
  BY <1>0, <1>1, <1>3, <1>4 DEF Supply, SupplyOwned, Moved, InCycle
<1>8. Blind'
  BY <1>0, <1>1, <1>2, <1>6 DEF Supply, Blind
<1>9. BlindOwned'
  BY <1>0, <1>2, <1>3, <1>4, <1>5 DEF Supply, BlindOwned
<1> QED BY <1>7, <1>8, <1>9 DEF Supply

LEMMA SupplyNext ==
  ASSUME ConstantsAssumption, {"torn", "word", "overlap"} \subseteq Watched,
         Sound, Sound', Supply, [Next]_vars
  PROVE  Supply'
<1>1. CASE Reboot
  BY <1>1, RebootMoves DEF Supply, SupplyOwned, Blind, BlindOwned
<1> QED BY <1>1, SupplyPass, SupplyOthers DEF Next

-----------------------------------------------------------------------------
(* The record of the modules.                                              *)

\* The inductive invariant of the record: the buffer PTM485NG_HistoryWrite has
\* filled says who is given up, as the flash is about to; a module given up has
\* COMM_TROUBLE but for the step in which it is set.
Recorded ==
  /\ (histPtm.rot <=> base.mach["r485"] = "ROT") \/ "record" \in raced
  /\ ng \subseteq trouble \cup (IF lan.pc = "flag" THEN {lan.who} ELSE {})
  /\ lan.pc = "ptm" => lan.rec.ng = ng
  /\ ng \ InHand \subseteq histPtm.ng /\ histPtm.ng \subseteq trouble \cup InHand

LEMMA RecordedInit == ASSUME Init PROVE Recorded
<1> QED BY DEF Init, Recorded, InHand, Idle

LEMMA RecordedNext ==
  ASSUME ConstantsAssumption, "record" \in Watched, Sound, Sound', Recorded, [Next]_vars
  PROVE  Recorded'
<1>0. raced \subseteq raced' /\ lan \in Steps
  BY RacedGrows DEF Sound, TypeOK
<1>1. CASE Pass
  <2>p. PICK rele, one, two \in Base : PassVia(rele, one, two)
    BY <1>1, PassMoves DEF Sound
  <2>1. /\ rele.mach["r485"] = base.mach["r485"] /\ base'.mach["r485"] = one.mach["r485"]
        /\ UNCHANGED <<ng, trouble, lan>>
        /\ histPtm' = IF SaveTamper(rele, one.mach["r485"] = "ROT")
                      THEN [ng |-> ng, rot |-> one.mach["r485"] = "ROT"] ELSE histPtm
    BY <2>p DEF PassVia, PassTo, lanVars
  <2>2. CASE SaveTamper(rele, one.mach["r485"] = "ROT")
    <3>1. histPtm'.ng = ng /\ (histPtm'.rot <=> base'.mach["r485"] = "ROT")
      BY <2>1, <2>2
    <3> QED BY <2>1, <3>1 DEF Recorded, InHand
  <2>3. CASE ~SaveTamper(rele, one.mach["r485"] = "ROT")
    BY <1>0, <2>1, <2>3 DEF Recorded, InHand, SaveTamper
  <2> QED BY <2>2, <2>3
<1>2. CASE WritePtmHistory
  <2>1. (lan.rec.rot # (base.mach["r485"] = "ROT")) => "record" \in raced'
    BY <1>2, Noted DEF WritePtmHistory
  <2>2. lan.rec.rot \in BOOLEAN
    BY <1>0 DEF Steps, Records
  <2>3. /\ lan.pc = "ptm" /\ lan' = Idle /\ histPtm' = lan.rec
        /\ UNCHANGED <<base, ng, trouble>>
    BY <1>2 DEF WritePtmHistory
  <2> QED BY <2>1, <2>2, <2>3, Rests DEF Recorded, InHand
\* The steps of a module leave the flash and the machine alone.
<1>3. ASSUME ModuleStep,
             /\ ng' \subseteq trouble' \cup (IF lan'.pc = "flag" THEN {lan'.who} ELSE {})
             /\ lan'.pc = "ptm" => lan'.rec.ng = ng'
             /\ ng' \ InHand' \subseteq ng \ InHand
             /\ trouble \cup InHand \subseteq trouble' \cup InHand'
      PROVE  Recorded'
  <2>1. UNCHANGED <<base, histPtm, raced>>
    BY <1>3, ModuleMoves DEF Sound
  <2> QED BY <1>3, <2>1 DEF Recorded
<1>4. ASSUME NEW m \in Modules, GivenUp(m) PROVE Recorded'
  <2>1. /\ lan.pc = "poll" /\ ng' = ng \cup {m} /\ trouble' = trouble
        /\ lan'.pc = "flag" /\ lan'.who = m
    BY <1>4 DEF GivenUp, Idle
  <2> QED BY <1>3, <1>4, <2>1 DEF ModuleStep, Recorded, InHand
<1>5. ASSUME NEW m \in Modules, Answers(m) PROVE Recorded'
  <2>1. /\ lan.pc = "poll" /\ ng' = ng /\ trouble' = trouble
        /\ lan'.pc \in {"wordwait", "wait"}
    BY <1>5 DEF Answers, LoadWord, Idle
  <2> QED BY <1>3, <1>5, <2>1 DEF ModuleStep, Recorded, InHand
<1>6. ASSUME NEW m \in Modules, Recovers(m) PROVE Recorded'
  <2>1. /\ lan.pc = "poll" /\ ng' = ng /\ trouble' = trouble \ {m} /\ m \notin ng
        /\ lan'.pc = "fill" /\ lan'.who = m
    BY <1>6 DEF Recovers, Idle
  <2> QED BY <1>3, <1>6, <2>1 DEF ModuleStep, Recorded, InHand
<1>7. CASE SetTrouble
  <2>1. /\ lan.pc = "flag" /\ ng' = ng /\ trouble' = trouble \cup {lan.who}
        /\ lan'.pc = "fill" /\ lan'.who = lan.who
    BY <1>0, <1>7 DEF SetTrouble, Steps
  <2> QED BY <1>3, <1>7, <2>1 DEF ModuleStep, Recorded, InHand
<1>8. CASE BeginWait
  <2>1. /\ lan.pc = "wait" /\ ng' = ng \ {lan.who} /\ trouble' = trouble /\ lan'.pc = "poll"
    BY <1>8, Rests DEF BeginWait
  <2> QED BY <1>3, <1>8, <2>1 DEF ModuleStep, Recorded, InHand
<1>9. CASE FillPtmHistory
  <2>1. /\ lan.pc = "fill" /\ ng' = ng /\ trouble' = trouble
        /\ lan'.pc = "ptm" /\ lan'.who = lan.who /\ lan'.rec.ng = ng
    BY <1>0, <1>9 DEF FillPtmHistory, Steps
  <2> QED BY <1>3, <1>9, <2>1 DEF ModuleStep, Recorded, InHand
<1>10. CASE Reboot
  <2>1. lan'.pc = "poll" /\ ng' = histPtm.ng /\ trouble' = histPtm.ng /\ histPtm' = histPtm
        /\ (base'.mach["r485"] = "ROT" <=> histPtm.rot)
    BY <1>10, RebootMoves
  <2> QED BY <2>1 DEF Recorded, InHand
<1>11. CASE Tick \/ AlarmReset \/ SetClock \/ UNCHANGED vars
  <2>1. UNCHANGED <<ng, trouble, lan, histPtm>>
    BY <1>11 DEF Tick, AlarmReset, SetClock, lanVars, vars
  <2> QED BY <1>0, <1>11, <2>1, RestMoves DEF Recorded, InHand
<1>12. CASE \/ SendEcho \/ StoreWord \/ StoreByte \/ WriteHistory
            \/ \E p \in Panels : PanelEntry(p) \/ PanelLost(p) \/ PanelBack(p) \/ PanelNight(p)
  <2> DEFINE Away == {"poll", "word", "wordthen", "wordwait", "byte", "saving", "wait"}
  <2>1. UNCHANGED <<ng, trouble, histPtm>> /\ lan.pc \in Away /\ lan'.pc \in Away
    <3>1. CASE SendEcho \/ \E p \in Panels : PanelLost(p) \/ PanelBack(p) \/ PanelNight(p)
      BY <3>1 DEF SendEcho, PanelLost, PanelBack, PanelNight, LoadWord, Idle
    <3>2. CASE \E p \in Panels : PanelEntry(p)
      BY <3>2 DEF PanelEntry, LoadWord, Idle
    <3>3. CASE StoreWord \/ StoreByte \/ WriteHistory
      BY <1>0, <3>3, Rests DEF StoreWord, StoreByte, WriteHistory, Steps, Idle
    <3> QED BY <1>12, <3>1, <3>2, <3>3
  <2>2. base'.mach["r485"] = base.mach["r485"]
    BY <1>12, LanMoves DEF Lan, LanStores
  <2> QED BY <1>0, <2>1, <2>2 DEF Recorded, InHand
<1>13. CASE Lan
  BY <1>2, <1>4, <1>5, <1>6, <1>7, <1>8, <1>9, <1>12, <1>13 DEF Lan, LanStores
<1> QED BY <1>1, <1>10, <1>11, <1>13 DEF Next

-----------------------------------------------------------------------------
(* ROTEVO_FLAG and the panels in alarm.                                    *)

\* LAN485_Task is about to store ROTEVO_FLAG.
Flagging == lan.pc \in {"word", "wordthen"} /\ lan.flag = "ROTEVO"

\* What the store does to ROTEVO_FLAG, if the word had not changed meanwhile.
LEMMA FlagStored ==
  ASSUME Sound, StoreWord, "word" \in Watched, "word" \notin raced'
  PROVE  /\ UNCHANGED <<ng, trouble, panel, hist1, histPtm, resets>>
         /\ ~Flagging' /\ base'.flag1 = base.flag1
         /\ IF Flagging THEN "ROTEVO" \in base'.flags <=> lan.on
            ELSE "ROTEVO" \in base'.flags <=> "ROTEVO" \in base.flags
         /\ lan.pc = "word" => lan' = Idle
         /\ lan.pc = "wordthen" => /\ lan'.pc = "byte" /\ lan'.who = lan.who
                                   /\ lan'.on = lan.on /\ lan'.byte = base.flag1
         /\ lan.pc = "wordwait" => lan'.pc = "wait"
         /\ lan.pc \in {"word", "wordthen", "wordwait"}
<1>1. /\ lan.pc \in {"word", "wordthen", "wordwait"}
      /\ UNCHANGED <<ng, trouble, panel, hist1, histPtm, resets>>
      /\ base' = [base EXCEPT !.flags = Changed(lan.word, lan.flag, lan.on)]
      /\ lan.word = base.flags
  BY Noted DEF StoreWord
<1>2. base'.flags = Changed(base.flags, lan.flag, lan.on) /\ base'.flag1 = base.flag1
  BY <1>1 DEF Sound, TypeOK, Base
<1>3. /\ lan.flag \in {"ROT491", "CIDRESET", "ROTEVO"} /\ lan.on \in BOOLEAN
      /\ lan.pc = "wordwait" => lan.flag = "CIDRESET"
  BY DEF Sound, TypeOK, Steps, Named
<1>4. lan.pc = "wordthen" => /\ lan'.pc = "byte" /\ lan'.who = lan.who
                             /\ lan'.on = lan.on /\ lan'.byte = base.flag1
  BY DEF StoreWord, Sound, TypeOK, Steps
<1>5. lan.pc = "word" => lan' = Idle
  BY DEF StoreWord
<1>6. lan.pc = "wordwait" => lan'.pc = "wait"
  BY DEF StoreWord, Idle
<1> QED BY <1>1, <1>2, <1>3, <1>4, <1>5, <1>6, Rests DEF Flagging, Changed

\* No pass touches it.
LEMMA PassKeepsFlag ==
  ASSUME ConstantsAssumption, Sound, Pass
  PROVE  UNCHANGED <<panel, lan>> /\ ("ROTEVO" \in base'.flags <=> "ROTEVO" \in base.flags)
<1>p. PICK rele, one, two \in Base : PassVia(rele, one, two)
  BY PassMoves DEF Sound
<1> QED BY <1>p DEF PassVia, PassTo, lanVars

-----------------------------------------------------------------------------
\* The inductive invariant of the flag: it is there or about to be stored.
Kept ==
  (\E p \in Panels : panel[p] = "ALARM") =>
    \/ IF Flagging THEN lan.on ELSE "ROTEVO" \in base.flags
    \/ raced \cap {"shared", "clock", "word"} # {}

LEMMA KeptInit == ASSUME Init PROVE Kept
<1> QED BY DEF Init, Kept

LEMMA KeptNext ==
  ASSUME ConstantsAssumption, {"shared", "clock", "word"} \subseteq Watched,
         Sound, Sound', Kept, [Next]_vars
  PROVE  Kept'
<1>0. raced \subseteq raced'
  BY RacedGrows
<1> SUFFICES ASSUME raced' \cap {"shared", "clock", "word"} = {},
                    NEW q \in Panels, panel'[q] = "ALARM"
             PROVE  IF Flagging' THEN lan'.on ELSE "ROTEVO" \in base'.flags
  BY DEF Kept
<1>a. (\E p \in Panels : panel[p] = "ALARM") =>
        IF Flagging THEN lan.on ELSE "ROTEVO" \in base.flags
  BY <1>0 DEF Kept
<1>1. CASE Pass
  BY <1>a, <1>1, PassKeepsFlag DEF Flagging
<1>2. CASE StoreWord
  BY <1>a, <1>2, FlagStored
<1>3. CASE SendEcho \/ ModuleStep
  <2>1. ~Flagging /\ ~Flagging' /\ UNCHANGED <<panel, base>>
    BY <1>3, ModuleMoves DEF Sound, SendEcho, LoadWord, Idle, Flagging
  <2> QED BY <1>a, <2>1
<1>4. CASE StoreByte \/ WriteHistory \/ WritePtmHistory
  <2>1. ~Flagging /\ ~Flagging' /\ UNCHANGED panel
    BY <1>4, Rests DEF StoreByte, WriteHistory, WritePtmHistory, Flagging, Sound, TypeOK, Steps
  <2>2. base'.flags = base.flags
    BY <1>4 DEF StoreByte, WriteHistory, WritePtmHistory, Sound, TypeOK, Base
  <2> QED BY <1>a, <2>1, <2>2
<1>5. ASSUME NEW p \in Panels, PanelEntry(p)
      PROVE  IF Flagging' THEN lan'.on ELSE "ROTEVO" \in base'.flags
  <2>1. CASE p \in hist1 \/ Rot943 \in hist1
    BY <1>5, <2>1 DEF PanelEntry, LoadWord, Idle, Flagging
  <2>2. CASE ~(p \in hist1 \/ Rot943 \in hist1)
    <3>1. ~Flagging /\ ~Flagging' /\ panel[q] = "ALARM"
      BY <1>5, <2>2 DEF PanelEntry, Flagging, Sound, TypeOK
    <3>2. base'.flags = base.flags
      BY <1>5, Reads DEF PanelEntry, Sound
    <3> QED BY <1>a, <3>1, <3>2
  <2> QED BY <2>1, <2>2
<1>6. ASSUME NEW p \in Panels, PanelLost(p) \/ PanelNight(p)
      PROVE  IF Flagging' THEN lan'.on ELSE "ROTEVO" \in base'.flags
  BY <1>6 DEF PanelLost, PanelNight, LoadWord, Idle, Flagging
<1>7. ASSUME NEW p \in Panels, PanelBack(p) PROVE FALSE
  <2>1. q # p /\ panel[q] = "ALARM"
    BY <1>7 DEF PanelBack, Sound, TypeOK
  <2>2. "shared" \in raced'
    BY <1>7, <2>1, Noted DEF PanelBack
  <2> QED BY <2>2
<1>8. CASE Lan
  BY <1>2, <1>3, <1>4, <1>5, <1>6, <1>7, <1>8 DEF Lan, LanStores, ModuleStep
<1>9. CASE Tick \/ AlarmReset \/ UNCHANGED vars
  <2>1. UNCHANGED <<panel, lan>>
    BY <1>9 DEF Tick, AlarmReset, lanVars, vars
  <2>2. base'.flags = base.flags
    BY <1>9 DEF Tick, AlarmReset, vars, Sound, TypeOK, Base
  <2> QED BY <1>a, <2>1, <2>2 DEF Flagging
<1>10. CASE SetClock
  <2>1. "clock" \in raced'
    BY <1>10, Noted DEF SetClock
  <2> QED BY <2>1
<1>11. CASE Reboot
  BY <1>11, RebootMoves
<1> QED BY <1>1, <1>8, <1>9, <1>10, <1>11 DEF Next

-----------------------------------------------------------------------------
(* FSM_FLAG_1 and its copy in flash.                                       *)

\* LAN485_Task has put panel p in its new state and not yet its bit.
Changing(p) == lan.pc \in {"wordthen", "byte"} /\ p = lan.who

\* Flash and memory agree on every panel but for the change under way: the flash
\* is as FSM_FLAG_1, or about to be; a panel whose watchdog is past its entry
\* is marked as it stands, and one at its entry is marked alike in both.
PanelsWritten ==
  /\ lan.pc # "saving" => base.flag1 = hist1
  /\ \A p \in Panels : panel[p] = "ENTRY" =>
       /\ p \in base.flag1 <=> p \in hist1
       /\ lan.pc = "saving" => (p \in lan.byte <=> p \in hist1)
  /\ \A p \in Panels : panel[p] # "ENTRY" /\ ~Changing(p) =>
       (p \in (IF lan.pc = "saving" THEN lan.byte ELSE hist1) <=> panel[p] = "ALARM")
  /\ lan.pc \in {"wordthen", "byte"} => panel[lan.who] = IF lan.on THEN "ALARM" ELSE "IDLE"

\* The inductive invariant of FSM_FLAG_1.
Written == PanelsWritten \/ raced \cap {"clock", "flag1", "byte"} # {}

LEMMA WrittenInit == ASSUME Init PROVE Written
<1> QED BY DEF Init, Written, PanelsWritten, Idle, Changing

LEMMA WrittenPass ==
  ASSUME ConstantsAssumption, Sound, PanelsWritten, Pass
  PROVE  PanelsWritten'
<1>p. PICK rele, one, two \in Base : PassVia(rele, one, two)
  BY PassMoves DEF Sound
<1>1. /\ UNCHANGED <<panel, lan>>
      /\ base'.flag1 = two.flag1
      /\ hist1' = IF SaveByte(one, two) THEN two.flag1 ELSE hist1
      /\ one.flag1 = base.flag1
      /\ two.flag1 = IF one.mach["evo"] = "ENTRY" THEN hist1
                     ELSE IF one.mach["evo"] = "WAIT" /\ two.mach["evo"] = "ROT"
                          THEN one.flag1 \cup {Rot943}
                     ELSE IF one.mach["evo"] = "ROT" /\ two.mach["evo"] = "IDLE"
                          THEN one.flag1 \ {Rot943}
                     ELSE one.flag1
  BY <1>p DEF PassVia, PassTo, lanVars
<1>2. Rot943 \notin Panels
  BY Numbers
<1>3. CASE SaveByte(one, two)
  <2>1. base'.flag1 = hist1' /\ \A p \in Panels : p \in hist1' <=> p \in base.flag1
    BY <1>1, <1>2, <1>3 DEF SaveByte
  <2> QED BY <1>1, <2>1 DEF PanelsWritten, Changing
<1>4. CASE ~SaveByte(one, two)
  <2>1. hist1' = hist1 /\ (base'.flag1 = hist1 \/ base'.flag1 = base.flag1)
    BY <1>1, <1>4 DEF SaveByte
  <2> QED BY <1>1, <2>1 DEF PanelsWritten, Changing
<1> QED BY <1>3, <1>4

LEMMA WrittenLan ==
  ASSUME ConstantsAssumption, {"flag1", "byte"} \subseteq Watched,
         Sound, PanelsWritten, Lan, raced' \cap {"flag1", "byte"} = {}
  PROVE  PanelsWritten'
<1>1. CASE SendEcho
  BY <1>1 DEF SendEcho, LoadWord, Idle, PanelsWritten, Changing
<1>2. CASE ModuleStep
  BY <1>2, ModuleMoves DEF Sound, PanelsWritten, Changing
<1>3. CASE StoreWord
  <2>1. /\ lan.pc \in {"word", "wordthen", "wordwait"} /\ UNCHANGED <<panel, hist1>>
        /\ base'.flag1 = base.flag1
    BY <1>3 DEF StoreWord, Sound, TypeOK, Base
  <2>2. CASE lan.pc = "word"
    <3>1. lan' = Idle
      BY <1>3, <2>2 DEF StoreWord
    <3> QED BY <2>1, <2>2, <3>1, Rests DEF PanelsWritten, Changing
  <2>3. CASE lan.pc = "wordthen"
    <3>1. lan'.pc = "byte" /\ lan'.who = lan.who /\ lan'.on = lan.on
      BY <1>3, <2>3 DEF StoreWord, Sound, TypeOK, Steps
    <3> QED BY <2>1, <2>3, <3>1 DEF PanelsWritten, Changing
  <2>4. CASE lan.pc = "wordwait"
    <3>1. lan'.pc = "wait"
      BY <1>3, <2>4 DEF StoreWord, Idle
    <3> QED BY <2>1, <2>4, <3>1 DEF PanelsWritten, Changing
  <2> QED BY <2>1, <2>2, <2>3, <2>4
<1>4. CASE StoreByte
  <2>1. /\ lan.pc = "byte" /\ UNCHANGED <<panel, hist1>> /\ lan.byte = base.flag1
        /\ lan'.pc = "saving" /\ lan'.byte = ChangedByte(base.flag1, lan.who, lan.on)
        /\ base'.flag1 = lan'.byte
    BY <1>4, Noted DEF StoreByte, Sound, TypeOK, Base, Steps
  <2>2. base.flag1 = hist1 /\ panel[lan.who] = (IF lan.on THEN "ALARM" ELSE "IDLE")
        /\ lan.on \in BOOLEAN
    BY <2>1 DEF PanelsWritten, Sound, TypeOK, Steps
  <2> QED BY <2>1, <2>2 DEF PanelsWritten, Changing, ChangedByte
<1>5. CASE WriteHistory
  <2>1. /\ lan.pc = "saving" /\ UNCHANGED <<panel, base>> /\ lan.byte = base.flag1
        /\ hist1' = lan.byte /\ lan'.pc = "poll"
    BY <1>5, Noted, Rests DEF WriteHistory
  <2> QED BY <2>1 DEF PanelsWritten, Changing
<1>6. CASE WritePtmHistory
  <2>1. lan.pc = "ptm" /\ UNCHANGED <<panel, base, hist1>> /\ lan'.pc = "poll"
    BY <1>6, Rests DEF WritePtmHistory
  <2> QED BY <2>1 DEF PanelsWritten, Changing
<1>7. ASSUME NEW p \in Panels, PanelEntry(p) PROVE PanelsWritten'
  <2>1. /\ lan.pc = "poll" /\ lan'.pc \in {"poll", "word"} /\ UNCHANGED hist1
        /\ panel' = [panel EXCEPT ![p] = IF p \in hist1 THEN "ALARM" ELSE "IDLE"]
    BY <1>7 DEF PanelEntry, LoadWord, Idle
  <2>2. base'.flag1 = hist1
    BY <1>7, Reads DEF PanelEntry, Sound
  <2> QED BY <2>1, <2>2 DEF PanelsWritten, Changing, Sound, TypeOK
<1>8. ASSUME NEW p \in Panels, PanelLost(p) \/ PanelBack(p) PROVE PanelsWritten'
  <2>1. /\ lan.pc = "poll" /\ lan'.pc = "wordthen" /\ lan'.who = p /\ UNCHANGED <<base, hist1>>
        /\ panel[p] # "ENTRY" /\ panel' = [panel EXCEPT ![p] = IF lan'.on THEN "ALARM" ELSE "IDLE"]
    BY <1>8 DEF PanelLost, PanelBack, LoadWord, Idle
  <2> QED BY <2>1 DEF PanelsWritten, Changing, Sound, TypeOK
<1>9. ASSUME NEW p \in Panels, PanelNight(p) PROVE PanelsWritten'
  <2>1. lan.pc = "poll" /\ lan'.pc = "word" /\ UNCHANGED <<base, hist1, panel>>
    BY <1>9 DEF PanelNight, LoadWord, Idle
  <2> QED BY <2>1 DEF PanelsWritten, Changing
<1> QED BY <1>1, <1>2, <1>3, <1>4, <1>5, <1>6, <1>7, <1>8, <1>9 DEF Lan, LanStores, ModuleStep

LEMMA WrittenNext ==
  ASSUME ConstantsAssumption, {"clock", "flag1", "byte"} \subseteq Watched,
         Sound, Sound', Written, [Next]_vars
  PROVE  Written'
<1>0. raced \subseteq raced'
  BY RacedGrows
<1> SUFFICES ASSUME raced' \cap {"clock", "flag1", "byte"} = {} PROVE PanelsWritten'
  BY DEF Written
<1>a. PanelsWritten
  BY <1>0 DEF Written
<1>1. CASE Tick \/ AlarmReset \/ UNCHANGED vars
  <2>1. UNCHANGED <<panel, lan, hist1>>
    BY <1>1 DEF Tick, AlarmReset, lanVars, vars
  <2>2. base'.flag1 = base.flag1
    BY <1>1, RestMoves
  <2> QED BY <1>a, <2>1, <2>2 DEF PanelsWritten, Changing
<1>2. CASE SetClock
  <2>1. "clock" \in raced'
    BY <1>2, Noted DEF SetClock
  <2> QED BY <2>1
<1>3. CASE Reboot
  <2>1. /\ lan'.pc = "poll" /\ base'.flag1 = hist1 /\ hist1' = hist1
        /\ panel' = [q \in Panels |-> "ENTRY"]
    BY <1>3, RebootMoves
  <2> QED BY <2>1 DEF PanelsWritten, Changing
<1> QED BY <1>a, <1>1, <1>2, <1>3, WrittenPass, WrittenLan DEF Next

-----------------------------------------------------------------------------
(* The panel behind ROTEVO_FLAG.                                           *)

\* A panel is in alarm, or its entry will find it so in flash.
Claim == \E p \in Panels : panel[p] = "ALARM" \/ (panel[p] = "ENTRY" /\ p \in hist1)

\* The inductive invariant of the claim.
Claimed ==
  (IF Flagging THEN lan.on ELSE "ROTEVO" \in base.flags) =>
    Claim \/ raced \cap {"word", "clock", "orphan", "flag1", "byte"} # {}

LEMMA ClaimedInit == ASSUME Init PROVE Claimed
<1> QED BY DEF Init, Claimed, Flagging, Idle

LEMMA ClaimedNext ==
  ASSUME ConstantsAssumption, {"word", "clock", "orphan", "flag1", "byte"} \subseteq Watched,
         Sound, Sound', Written, Claimed, [Next]_vars
  PROVE  Claimed'
<1>0. raced \subseteq raced'
  BY RacedGrows
<1> SUFFICES ASSUME raced' \cap {"word", "clock", "orphan", "flag1", "byte"} = {},
                    IF Flagging' THEN lan'.on ELSE "ROTEVO" \in base'.flags
             PROVE  Claim'
  BY DEF Claimed
<1>a. (IF Flagging THEN lan.on ELSE "ROTEVO" \in base.flags) => Claim
  BY <1>0 DEF Claimed
<1>b. PanelsWritten
  BY <1>0 DEF Written
<1>1. CASE Pass
  <2>p. PICK rele, one, two \in Base : PassVia(rele, one, two)
    BY <1>1, PassMoves DEF Sound
  <2>1. UNCHANGED <<panel, lan>> /\ ("ROTEVO" \in base'.flags <=> "ROTEVO" \in base.flags)
    BY <1>1, PassKeepsFlag
  <2>2. PanelsWritten'
    BY <1>1, <1>b, WrittenPass
  <2>3. \A q \in Panels : panel[q] = "ENTRY" => (q \in hist1' <=> q \in hist1)
    <3>1. /\ base'.flag1 = two.flag1 /\ one.flag1 = base.flag1
          /\ hist1' = IF SaveByte(one, two) THEN two.flag1 ELSE hist1
          /\ two.flag1 = IF one.mach["evo"] = "ENTRY" THEN hist1
                         ELSE IF one.mach["evo"] = "WAIT" /\ two.mach["evo"] = "ROT"
                              THEN one.flag1 \cup {Rot943}
                         ELSE IF one.mach["evo"] = "ROT" /\ two.mach["evo"] = "IDLE"
                              THEN one.flag1 \ {Rot943}
                         ELSE one.flag1
      BY <2>p DEF PassVia, PassTo
    <3>2. Rot943 \notin Panels
      BY Numbers
    <3>3. \A q \in Panels : q \in two.flag1 <=> q \in (IF one.mach["evo"] = "ENTRY" THEN hist1 ELSE base.flag1)
      BY <3>1, <3>2
    <3> QED BY <1>b, <3>1, <3>3 DEF PanelsWritten
  <2> QED BY <1>a, <2>1, <2>3 DEF Claim, Flagging
<1>2. CASE StoreWord
  <2>1. Claim
    BY <1>a, <1>2, FlagStored
  <2>2. UNCHANGED <<panel, hist1>>
    BY <1>2 DEF StoreWord
  <2> QED BY <2>1, <2>2 DEF Claim
<1>3. CASE SendEcho \/ ModuleStep
  <2>1. ~Flagging /\ ~Flagging' /\ UNCHANGED <<panel, base, hist1>>
    BY <1>3, ModuleMoves DEF Sound, SendEcho, LoadWord, Idle, Flagging
  <2> QED BY <1>a, <2>1 DEF Claim
<1>4. CASE StoreByte \/ WriteHistory \/ WritePtmHistory
  <2>1. ~Flagging /\ ~Flagging' /\ UNCHANGED panel
    BY <1>4, Rests DEF StoreByte, WriteHistory, WritePtmHistory, Flagging, Sound, TypeOK, Steps
  <2>2. base'.flags = base.flags
    BY <1>4 DEF StoreByte, WriteHistory, WritePtmHistory, Sound, TypeOK, Base
  <2>3. \A q \in Panels : panel[q] = "ENTRY" => (q \in hist1' <=> q \in hist1)
    BY <1>4, <1>b DEF StoreByte, WriteHistory, WritePtmHistory, PanelsWritten
  <2> QED BY <1>a, <2>1, <2>2, <2>3 DEF Claim
<1>5. ASSUME NEW p \in Panels, PanelEntry(p) PROVE Claim'
  <2>1. /\ lan.pc = "poll" /\ hist1' = hist1 /\ ~Flagging
        /\ panel' = [panel EXCEPT ![p] = IF p \in hist1 THEN "ALARM" ELSE "IDLE"]
        /\ panel \in [Panels -> {"ENTRY", "IDLE", "ALARM"}]
    BY <1>5 DEF PanelEntry, Flagging, Sound, TypeOK
  <2>2. CASE Claim
    BY <1>5, <2>1, <2>2 DEF Claim, PanelEntry
  <2>3. CASE ~Claim /\ (p \in hist1 \/ Rot943 \in hist1)
    <3>1. PICK q \in Panels : q \in hist1
      BY <1>5, <2>3, Noted DEF PanelEntry
    <3>2. panel[q] # "ENTRY" => panel[q] = "ALARM"
      BY <1>b, <2>1, <3>1 DEF PanelsWritten, Changing
    <3> QED BY <2>1, <2>3, <3>1, <3>2 DEF Claim
  <2>4. CASE ~Claim /\ ~(p \in hist1 \/ Rot943 \in hist1)
    <3>1. lan' = lan /\ base'.flags = base.flags
      BY <1>5, <2>4, Reads DEF PanelEntry, Sound
    <3> QED BY <1>a, <2>1, <2>4, <3>1 DEF Flagging
  <2> QED BY <2>2, <2>3, <2>4
<1>6. ASSUME NEW p \in Panels, PanelLost(p) \/ PanelNight(p) PROVE Claim'
  BY <1>6 DEF PanelLost, PanelNight, Claim, Sound, TypeOK
<1>7. ASSUME NEW p \in Panels, PanelBack(p) PROVE FALSE
  <2>1. Flagging' /\ ~lan'.on
    BY <1>7 DEF PanelBack, LoadWord, Idle, Flagging
  <2> QED BY <2>1
<1>8. CASE Lan
  BY <1>2, <1>3, <1>4, <1>5, <1>6, <1>7, <1>8 DEF Lan, LanStores, ModuleStep
<1>9. CASE Tick \/ AlarmReset \/ UNCHANGED vars
  <2>1. UNCHANGED <<panel, lan, hist1>>
    BY <1>9 DEF Tick, AlarmReset, lanVars, vars
  <2>2. base'.flags = base.flags
    BY <1>9 DEF Tick, AlarmReset, vars, Sound, TypeOK, Base
  <2> QED BY <1>a, <2>1, <2>2 DEF Claim, Flagging
<1>10. CASE SetClock
  <2>1. "clock" \in raced'
    BY <1>10, Noted DEF SetClock
  <2> QED BY <2>1
<1>11. CASE Reboot
  <2>1. /\ lan'.pc = "poll" /\ hist1' = hist1 /\ panel' = [q \in Panels |-> "ENTRY"]
        /\ "ROTEVO" \in base'.flags => Rot943 \in hist1
    BY <1>11, RebootMoves
  <2>2. ~Flagging' /\ Rot943 \in hist1
    BY <2>1 DEF Flagging
  <2>3. Rot943 \in hist1 /\ hist1 \cap Panels = {} => "orphan" \in raced'
    BY <1>11, Noted DEF Reboot
  <2>4. PICK q \in Panels : q \in hist1
    BY <2>2, <2>3
  <2> QED BY <2>1, <2>4 DEF Claim
<1> QED BY <1>1, <1>8, <1>9, <1>10, <1>11 DEF Next

-----------------------------------------------------------------------------
(* The theorems.                                                           *)

(***************************************************************************)
(* Every variable keeps its type: the timers of the machines stay within   *)
(* their longest wait, and no store of LAN485_Task takes a word out of its *)
(* flags.                                                                  *)
(***************************************************************************)
THEOREM TypeCorrect ==
  ASSUME ConstantsAssumption
  PROVE  Spec => []TypeOK
<1> DEFINE Inv == Sound
<1>1. Init => Inv BY SoundInit
<1>2. Inv /\ [Next]_vars => Inv' BY SoundNext
<1>3. Inv => TypeOK BY DEF Sound
<1> QED BY <1>1, <1>2, <1>3, PTL DEF Spec

(***************************************************************************)
(* The peripherals are without supply only while one of the two machines   *)
(* that share PERIFPWR counts its seconds; the zones are not scanned       *)
(* meanwhile, and go unscanned only while one is in its cycle.  But for a  *)
(* panel that reads an old tamper from flash, cycles that overlap and an   *)
(* old word of flags put back, this holds for any delays.                  *)
(***************************************************************************)
THEOREM SupplySafeCorrect ==
  ASSUME ConstantsAssumption, {"torn", "word", "overlap"} \subseteq Watched
  PROVE  Spec => []SupplySafe
<1> DEFINE Inv == Sound /\ Supply
<1>1. Init => Inv BY SoundInit, SupplyInit
<1>2. Inv /\ [Next]_vars => Inv' BY SoundNext, SupplyNext
<1>3. Inv => SupplySafe BY DEF Supply, Blind, NoBlindScan, SupplySafe
<1> QED BY <1>1, <1>2, <1>3, PTL DEF Spec

(***************************************************************************)
(* What the flash says of the tamper of the bus is what its machine is in, *)
(* unless that moved between the filling of the record and its writing.    *)
(* It names every module given up but the one in hand, and apart from that *)
(* one only modules with COMM_TROUBLE: a restart takes a module in its     *)
(* wait for well, never one that is well for given up.                     *)
(***************************************************************************)
THEOREM TamperSavedCorrect ==
  ASSUME ConstantsAssumption, "record" \in Watched
  PROVE  Spec => []TamperSaved
<1> DEFINE Inv == Sound /\ Recorded
<1>1. Init => Inv BY SoundInit, RecordedInit
<1>2. Inv /\ [Next]_vars => Inv' BY SoundNext, RecordedNext
<1>3. Inv => TamperSaved BY DEF Recorded, TamperSaved
<1> QED BY <1>1, <1>2, <1>3, PTL DEF Spec

(***************************************************************************)
(* A panel in alarm keeps ROTEVO_FLAG set, unless another that shares it   *)
(* came back, the clock was set, or an old word of flags was put back.     *)
(***************************************************************************)
THEOREM AlarmKeepsFlagCorrect ==
  ASSUME ConstantsAssumption, {"shared", "clock", "word"} \subseteq Watched
  PROVE  Spec => []AlarmKeepsFlag
<1> DEFINE Inv == Sound /\ Kept
<1>1. Init => Inv BY SoundInit, KeptInit
<1>2. Inv /\ [Next]_vars => Inv' BY SoundNext, KeptNext
<1>3. Inv => AlarmKeepsFlag BY DEF Kept, AlarmKeepsFlag, Flagging
<1> QED BY <1>1, <1>2, <1>3, PTL DEF Spec

(***************************************************************************)
(* What the flash says of each panel is what its watchdog is in, through   *)
(* passes and restarts, unless the clock was set or FSM_FLAG_1 or its copy *)
(* was written back with an old value.                                     *)
(***************************************************************************)
THEOREM PanelSavedCorrect ==
  ASSUME ConstantsAssumption, {"clock", "flag1", "byte"} \subseteq Watched
  PROVE  Spec => []PanelSaved
<1> DEFINE Inv == Sound /\ Written
<1>1. Init => Inv BY SoundInit, WrittenInit
<1>2. Inv /\ [Next]_vars => Inv' BY SoundNext, WrittenNext
<1>3. Inv => PanelSaved BY DEF Written, PanelsWritten, PanelSaved, Changing
<1> QED BY <1>1, <1>2, <1>3, PTL DEF Spec

(***************************************************************************)
(* ROTEVO_FLAG has a panel in alarm behind it, or one whose alarm is still *)
(* to be read from flash, unless one of the races left there, or in the    *)
(* word of flags, what is not so.                                          *)
(***************************************************************************)
THEOREM FlagHasPanelCorrect ==
  ASSUME ConstantsAssumption, {"word", "clock", "orphan", "flag1", "byte"} \subseteq Watched
  PROVE  Spec => []FlagHasPanel
<1> DEFINE Inv == Sound /\ Written /\ Claimed
<1>1. Init => Inv BY SoundInit, WrittenInit, ClaimedInit
<1>2. Inv /\ [Next]_vars => Inv' BY SoundNext, WrittenNext, ClaimedNext
<1>3. Inv => FlagHasPanel BY DEF Claimed, Claim, FlagHasPanel, Flagging
<1> QED BY <1>1, <1>2, <1>3, PTL DEF Spec

(***************************************************************************)
(* The four together, when all of their races are told apart: what the     *)
(* flag and the flash say of the modules and of the panels is so.          *)
(***************************************************************************)
THEOREM TampersKeptCorrect ==
  ASSUME ConstantsAssumption,
         {"record", "shared", "clock", "word", "flag1", "byte", "orphan"} \subseteq Watched
  PROVE  Spec => []TampersKept
<1>1. Spec => []TamperSaved BY TamperSavedCorrect
<1>2. Spec => []PanelSaved BY PanelSavedCorrect
<1>3. Spec => []AlarmKeepsFlag BY AlarmKeepsFlagCorrect
<1>4. Spec => []FlagHasPanel BY FlagHasPanelCorrect
<1>5. TamperSaved /\ PanelSaved /\ AlarmKeepsFlag /\ FlagHasPanel => TampersKept BY DEF TampersKept
<1> QED BY <1>1, <1>2, <1>3, <1>4, <1>5, PTL
=============================================================================
