---------------------------- MODULE ConfigCopies ----------------------------
(***************************************************************************)
(* The address of a monitoring station is kept twice, in the EEPROM and in *)
(* the DataFlash, each copy with a checksum of one byte.  The console      *)
(* writes the four cells and a mark one after the other (con_server1 in    *)
(* src/Console/console.c); start-up chooses a copy (GetServerAdd in        *)
(* src/Connection/rabbit.c) and later copies the EEPROM to the flash if    *)
(* the mark is gone (check_fidu_dflash in src/Application/main.c).  The    *)
(* power may be cut between two writes or in the middle of one: a write of *)
(* the flash cut in two leaves the page erased, with every cell and the    *)
(* mark; one of the EEPROM leaves something else in the cell.              *)
(*                                                                         *)
(* One station stands for the two, which have cells of their own.  The     *)
(* bits beside the mark (DF_FIDUDT_OFFSET) read as ones from an erased     *)
(* page and are only set: the branch that copies single fields is never    *)
(* taken, and is left out with them.  It is assumed that what an erased    *)
(* cell adds up to is not the checksum beside it; the code adds on until   *)
(* it meets a zero.                                                        *)
(***************************************************************************)
EXTENDS Naturals, Sequences

CONSTANTS
    Names,      \* the addresses, as numbers from 2 up
    Sum,        \* [Names -> Nat]: their checksums; two may be equal
    MaxSets,    \* bound: addresses set at the console
    MaxCuts     \* bound: power cuts

ConfigCopiesAssumption ==
    /\ Names \subseteq Nat \ {0, 1} /\ Sum \in [Names -> Nat]
    /\ MaxSets \in Nat /\ MaxCuts \in Nat

\* What a cell of text may hold besides an address: bytes with no end, and
\* something left by a write cut in two that ends like an address.
Void == 0
Torn == 1
Texts == Names \cup {Void, Torn}

\* Checksums that no address has, nor the texts each other.
NoSum == 1000
SumOf(n) == CASE n = Void -> NoSum [] n = Torn -> NoSum + 1 [] OTHER -> Sum[n]
ErasedChk == NoSum + 2
TornChk == NoSum + 3

Cells == {"e2p_name", "e2p_chk", "df_name", "df_chk", "mark"}
Eeprom == {"e2p_name", "e2p_chk"}

VARIABLES
    cell,    \* [Cells -> Nat]
    job,     \* the writes still to be made: records [at |-> cell, val |-> Nat]
    setting, \* the address being set, Void for start-up's own copying
    on,      \* the program runs
    used,    \* Monitoreo[].ServerName, Void for none
    old,     \* history: the last address that was set without a cut
    tried,   \* history: the addresses whose setting a cut interrupted since
    gap,     \* history: a cut came between the flash's name and its checksum
    since,   \* history: cuts since the two copies were last whole; one copy counts as one
    sets, cuts

vars == <<cell, job, setting, on, used, old, tried, gap, since, sets, cuts>>

At(c, v) == [at |-> c, val |-> v]

-----------------------------------------------------------------------------
\* The writes of pgm_server1, which con_server1 makes too.  Bytes with no end are
\* longer than an address may be.
pgm_server(n) ==
    IF n = Void THEN <<>>
    ELSE << At("e2p_name", n), At("e2p_chk", SumOf(n)), At("df_name", n), At("df_chk", SumOf(n)) >>

con_server(n) == pgm_server(n) \o << At("mark", 1) >>

\* Mutant: the mark is written before the copy.
check_fidu_MarkFirst ==
    IF cell["mark"] = 1 THEN <<>> ELSE << At("mark", 1) >> \o pgm_server(cell["e2p_name"])

\* check_fidu_dflash: what it writes.  The checksum is read back from the EEPROM
\* after pgm_server1 has renewed it.
check_fidu ==
    LET n == cell["e2p_name"] IN
    IF cell["mark"] = 1 THEN <<>>
    ELSE pgm_server(n)
         \o << At("df_chk", IF n = Void THEN cell["e2p_chk"] ELSE SumOf(n)), At("mark", 1) >>

\* Mutant: the checksum is handed over for the name.
GetServerAdd_Unset == cell["df_chk"]
\* Mutant: the EEPROM is not asked for when the flash is bad.
GetServerAdd_FlashOnly ==
    IF SumOf(cell["df_name"]) = cell["df_chk"] THEN cell["df_name"] ELSE Void
\* Mutant: the EEPROM is taken without looking at its checksum.
GetServerAdd_Trusting ==
    IF SumOf(cell["df_name"]) = cell["df_chk"] THEN cell["df_name"] ELSE cell["e2p_name"]

\* When the copies agree and the flash's checksum is wrong, the EEPROM's is not
\* looked at and no address is taken.
GetServerAdd ==
    LET dfSum == SumOf(cell["df_name"])
        e2pSum == SumOf(cell["e2p_name"]) IN
    CASE dfSum = cell["df_chk"] -> cell["df_name"]
      [] dfSum # e2pSum /\ dfSum # cell["df_chk"] /\ e2pSum = cell["e2p_chk"] -> cell["e2p_name"]
      [] OTHER -> Void

\* "los checksum dieron todos bien": the first branch of GetServerAdd.
AllRightBranch ==
    /\ SumOf(cell["df_name"]) = SumOf(cell["e2p_name"])
    /\ SumOf(cell["e2p_name"]) = cell["df_chk"]

-----------------------------------------------------------------------------
\* From the factory: an address in the EEPROM, nothing in the flash.
Init ==
    /\ \E n \in Names :
           /\ cell = [c \in Cells |->
                         CASE c = "e2p_name" -> n
                           [] c = "e2p_chk" -> SumOf(n)
                           [] c = "df_chk" -> ErasedChk
                           [] OTHER -> 0]
           /\ old = n
    /\ job = <<>> /\ setting = Void /\ on = FALSE /\ used = Void
    /\ tried = {} /\ gap = FALSE /\ since = 1
    /\ sets = 0 /\ cuts = 0

\* main: the address is chosen first, the flash is put in order afterwards.
Boot ==
    /\ ~on
    /\ on' = TRUE
    /\ used' = GetServerAdd
    /\ job' = check_fidu
    /\ UNCHANGED <<cell, setting, old, tried, gap, since, sets, cuts>>

\* "set server1" at the console.
SetServer(n) ==
    /\ on /\ job = <<>> /\ sets < MaxSets
    /\ sets' = sets + 1
    /\ job' = con_server(n)
    /\ setting' = n
    /\ UNCHANGED <<cell, on, used, old, tried, gap, since, cuts>>

\* One write.  The last one of an address makes it the one to be used; after the
\* last of all the copies are whole, if there was anything to copy.
Write ==
    /\ on /\ job # <<>>
    /\ cell' = [cell EXCEPT ![Head(job).at] = Head(job).val]
    /\ job' = Tail(job)
    /\ gap' = (gap /\ Head(job).at # "df_chk")
    /\ IF Len(job) = 1
         THEN /\ setting' = Void
              /\ old' = IF setting = Void THEN old ELSE setting
              /\ tried' = IF setting = Void THEN tried ELSE {}
              /\ since' = IF cell["df_name"] = cell["e2p_name"] /\ cell["df_name"] \in Names
                          THEN 0 ELSE since
         ELSE UNCHANGED <<setting, old, tried, since>>
    /\ UNCHANGED <<on, used, sets, cuts>>

\* A page that is erased takes all its cells with it.
Erased ==
    [c \in Cells |-> CASE c \in Eeprom -> cell[c]
                       [] c = "df_chk" -> ErasedChk
                       [] OTHER -> 0]

PowerOff ==
    /\ on /\ cuts < MaxCuts
    /\ on' = FALSE /\ used' = Void /\ job' = <<>> /\ setting' = Void
    /\ tried' = tried \cup ({setting} \ {Void})
    /\ cuts' = cuts + 1 /\ since' = since + 1
    /\ UNCHANGED <<old, sets>>

\* The power goes between two writes.
Cut ==
    /\ PowerOff
    /\ gap' = (gap \/ (job # <<>> /\ Head(job).at = "df_chk" /\ cell["df_chk"] # Head(job).val))
    /\ UNCHANGED cell

\* The power goes in the middle of a write; there may always be one to the page,
\* for another field of it.
CutInWrite ==
    /\ PowerOff
    /\ IF job # <<>> /\ Head(job).at \in Eeprom
         THEN /\ gap' = gap
              /\ \E v \in IF Head(job).at = "e2p_name" THEN {Void, Torn} ELSE {TornChk} :
                     cell' = [cell EXCEPT ![Head(job).at] = v]
         ELSE cell' = Erased /\ gap' = FALSE

Next == Boot \/ (\E n \in Names : SetServer(n)) \/ Write \/ Cut \/ CutInWrite

Spec == Init /\ [][Next]_vars

\* The program starts and makes its writes.
Fairness == WF_vars(Boot) /\ WF_vars(Write)
FairSpec == Spec /\ Fairness

-----------------------------------------------------------------------------
(* Properties. *)

\* The variables keep their types.
TypeOK ==
    /\ DOMAIN cell = Cells
    /\ cell["e2p_name"] \in Texts /\ cell["df_name"] \in Texts /\ cell["mark"] \in {0, 1}
    /\ Len(job) <= 6 /\ \A i \in DOMAIN job : job[i].at \in Cells
    /\ setting \in Names \cup {Void} /\ on \in BOOLEAN /\ used \in Texts /\ old \in Names
    /\ tried \subseteq Names /\ gap \in BOOLEAN
    /\ since \in 0 .. MaxCuts + 1 /\ sets \in 0 .. MaxSets /\ cuts \in 0 .. MaxCuts

\* An address that start-up takes is the last one set, or one whose setting a cut
\* interrupted since, as long as no more than two cuts came since the copies were
\* whole: never an earlier one, never what a torn write left (GetServerAdd).  With
\* three a torn name may have been copied and given a checksum of its own.
TakesOldOrTried == ~on /\ on' /\ since <= 2 => used' \in {old, Void} \cup tried
OldOrTried == [][TakesOldOrTried]_vars

\* One cut alone does not lose the address, wherever it comes, but for the one
\* place between the two writes of the flash (GetServerAdd, pgm_server1).
KnowsAfterOneCut == ~on /\ on' /\ since <= 1 /\ ~gap => used' # Void
OneCutKnown == [][KnowsAfterOneCut]_vars

\* An erased page is filled again from the EEPROM in the end, if there is
\* anything to fill it with, and the copy has its own checksum (check_fidu_dflash).
Refilled ==
    cell["df_name"] = Void /\ cell["mark"] = 0
        ~> \/ cell["e2p_name"] = Void
           \/ cell["df_name"] = cell["e2p_name"] /\ cell["df_chk"] = SumOf(cell["df_name"])

\* What the comment of the first branch says: there, all the checksums are right
\* (rabbit.c:73).
AllRight == ~on /\ AllRightBranch => cell["e2p_chk"] = SumOf(cell["e2p_name"])
=============================================================================
