---------------------------- MODULE MCLiveAlarm -----------------------------
(***************************************************************************)
(* What an alarm and its events must come to, for TLC: ZoneAlarm,          *)
(* RabbitLink and MacroHold under their fairness.  A behaviour is one of a *)
(* single part; the variables of each part are in the order of its module. *)
(***************************************************************************)
EXTENDS Integers, Sequences, FiniteSets, TLC

VARIABLES
  part, \* which part the behaviour is of
  z1, z2, z3, z4, z5, z6, z7, z8, z9, z10, z11, z12, z13, z14, z15, \* those of ZoneAlarm
  s1, s2, s3, s4, s5, s6, s7, s8, s9, s10, s11, s12, s13, s14, \* those of RabbitLink
  g1, g2, g3, g4, g5, g6, g7, g8, g9, g10, g11, g12, g13, g14, g15, g16, g17, g18, g19, g20 \* those of MacroHold

zoneHeld == <<z1, z2, z3, z4, z5, z6, z7, z8, z9, z10, z11, z12, z13, z14, z15>>
stationHeld == <<s1, s2, s3, s4, s5, s6, s7, s8, s9, s10, s11, s12, s13, s14>>
guardHeld == <<g1, g2, g3, g4, g5, g6, g7, g8, g9, g10, g11, g12, g13, g14, g15, g16, g17,
               g18, g19, g20>>
all == <<part, zoneHeld, stationHeld, guardHeld>>

\* One kind of alarm.
Zone == INSTANCE ZoneAlarm WITH
  Kinds <- {"ASAL"}, nmax <- 1, NTop <- 3, Confirmed <- TRUE, MaxRequests <- 1,
  MaxMeddles <- 0, MaxBoots <- 0, zone <- z1, gen <- z2, alarm <- z3, alarm1 <- z4,
  det <- z5, auto <- z6, pass <- z7, hist <- z8, saved <- z9, lan <- z10, fresh <- z11,
  used <- z12, reported <- z13, asked <- z14, raced <- z15

\* One station, which answers in the end, and a report.
Station == INSTANCE RabbitLink WITH
  Monitors <- {"m0"}, SecMax <- 2, Licensed <- TRUE, ShortAcks <- TRUE, SevenBis <- TRUE,
  MaxEvents <- 2, MaxReports <- 1, MaxLosses <- 0, link <- s1, st <- s2, flags <- s3,
  sec <- s4, logged <- s5, read <- s6, force <- s7, e606 <- s8, toServer <- s9, acks <- s10,
  delivered <- s11, usedFor <- s12, reports <- s13, losses <- s14

\* A guard machine with two partitions.
Guards == INSTANCE MacroHold WITH
  Second <- TRUE, RingLen <- 3, MaxEvents <- 2, MaxOther <- 1, word <- g1, wptr <- g2,
  rptr <- g3, cnt <- g4, n <- g5, lpc <- g6, lmacro <- g7, st <- g8, due <- g9, apc <- g10,
  areg <- g11, awp <- g12, todo <- g13, wreg <- g14, oreg <- g15, nother <- g16,
  owed <- g17, closed <- g18, unseen <- g19, mishaps <- g20

ASSUME ConstantsFit ==
  /\ Zone!ConstantsAssumption
  /\ Station!ConstantsAssumption
  /\ Guards!MacroAssumption

\* The variables of the other parts rest where they begin.
Init ==
  /\ part \in {"zone", "station", "guard"}
  /\ Zone!Init /\ Station!Init /\ Guards!HoldInit
ZoneStep == part = "zone" /\ Zone!Next /\ UNCHANGED <<part, stationHeld, guardHeld>>
StationStep == part = "station" /\ Station!Next /\ UNCHANGED <<part, zoneHeld, guardHeld>>
GuardStep == part = "guard" /\ Guards!HoldNext /\ UNCHANGED <<part, zoneHeld, stationHeld>>
Next == ZoneStep \/ StationStep \/ GuardStep
Spec == Init /\ [][Next]_all

-----------------------------------------------------------------------------
(* The properties of the parts, under the fairness of their modules.       *)

\* ZoneAlarm: whoever asks for an alarm gets it, unless its flag was lost in a
\* read-modify-write or a restart; and once its zone is quiet the alarm ends.
AskedIsGiven == part = "zone" /\ Zone!Fairness => Zone!AskedIsGiven /\ Zone!AlarmEnds

\* RabbitLink: neither heartbeats nor reports nor broken exchanges keep an event
\* in the ring for ever.  MacroHold: nor does the Macro's guard, which sends or
\* drops in the end what it holds.
EveryEventIsRead ==
  /\ part = "station" /\ Station!Fairness => Station!EveryEventIsRead
  /\ part = "guard" /\ Guards!HoldFairness => Guards!Decided
=============================================================================
