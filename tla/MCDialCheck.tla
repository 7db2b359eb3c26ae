----------------------------- MODULE MCDialCheck -----------------------------
(***************************************************************************)
(* Data for model checking DialCheck with the tables of CallingWindows: a  *)
(* DNC file with every kind of line, and the payloads of the runs.         *)
(***************************************************************************)
EXTENDS CallingWindows

(***************************************************************************)
(* Every area code of the routing table, and 999, which it lacks.          *)
(***************************************************************************)
TestedCodes == ListedCodes \cup {999}

\* A host whose tz database lacks a zone of the table.
PatchyOffsets ==
    [z \in DOMAIN StandardHours \ {"Pacific/Saipan"} |-> Offsets2026[z]]

(***************************************************************************)
(* Every full hour around a winter and a summer day, where all windows     *)
(* open or close, one second before it, and half past twelve on the two    *)
(* days the clocks move.                                                   *)
(***************************************************************************)
BoundaryInstants ==
    {At(d, h, 0, 0) - s : d \in {MidJanuary, MidJuly}, h \in -3..33, s \in {0, 1}}
    \cup {At(SpringForward, 12, 30, 0), At(FallBack, 12, 30, 0)}

Number(c, a, l) == [country |-> c, area |-> a, line |-> l]

Even == 5550100
Odd  == 5550101
Bare == 5550200   \* listed as ten digits
Full == 5550300   \* listed in E.164

ListFile ==
    <<BlankLine, Number(TRUE, 212, Full), BlankLine,
      Number(FALSE, 212, Bare), Number(FALSE, 850, Odd)>>

Call(id, n, consent, type, t) ==
    [call_id |-> id, destination_number |-> n, consent_type_held |-> consent,
     call_type |-> type, timestamp |-> t]

MCCallIds == {"c1", "c2"}

Noon == At(MidJuly, 18, 0, 0)   \* inside every mainland window

(***************************************************************************)
(* Inputs of the rules run, one half: the plain case, states with an early *)
(* cutoff in their own and in another zone, zones without daylight saving, *)
(* one across the date line, the missing zone and an unknown code, at the  *)
(* hours where a window of theirs opens or closes, with every kind of      *)
(* line; and every consent with every call type.                           *)
(***************************************************************************)
RuleAreas == {212, 203, 305, 850, 219, 415, 602, 671, 670, 999}

RuleInstants ==
    {t \in BoundaryInstants :
        LET h == ((t + 1) % DaySeconds) \div 3600 IN
        h \in (0..5) \cup (11..16) \cup {22}}

RuleCalls ==
    {Call("c1", Number(TRUE, a, l), "NONE", "TELEMARKETING", t) :
        a \in RuleAreas, l \in {Even, Odd, Bare, Full}, t \in RuleInstants}
    \cup {Call("c1", Number(TRUE, 212, l), consent, type, Noon) :
        l \in {Even, Full}, consent \in ConsentTypes, type \in CallTypes}

Good(id)     == Call(id, Number(TRUE, 212, Even), "PEWC", "AI_VOICE_BOT", Noon)
OnList(id)   == Call(id, Number(TRUE, 212, Bare), "NONE", "TELEMARKETING", Noon)
TooLate(id)  == Call(id, Number(TRUE, 305, Odd), "NONE", "TELEMARKETING",
                     At(MidJuly, 1, 0, 0))
AllWrong(id) == Call(id, Number(TRUE, 850, Odd), "NONE", "TELEMARKETING",
                     At(MidJuly, 1, 0, 0))
NoConsent(id) == Call(id, Number(TRUE, 212, Even), "VERBAL", "AI_VOICE_BOT", Noon)

\* A dialer that reuses a call_id, for the same and for another call.
FaultCalls      == {Good("c1"), TooLate("c1"), AllWrong("c1"), NoConsent("c2")}
RestartCalls    == {Good("c1"), OnList("c1"), Good("c2")}
ContentionCalls == {Good("c1"), NoConsent("c1")}

\* The other half: every code of the table at the first and last second of
\* its window and at the seconds next to them, in both seasons.
NanpaCalls ==
    UNION {LET opens  == At(d, OpensUtc(a, At(d, 0, 0, 0)), 0, 0)
               closes == opens + 3600 * HoursOpen(a)
           IN  {Call("c1", Number(TRUE, a, Even), "NONE", "TELEMARKETING", t) :
                   t \in {opens - 1, opens, closes - 1, closes}} :
           <<a, d>> \in ListedCodes \X {MidJanuary, MidJuly}}

RuleMatrix == RuleCalls \cup NanpaCalls

-----------------------------------------------------------------------------
(***************************************************************************)
(* What the cfg files substitute for the constants.  TLC evaluates the     *)
(* body of a substituted definition at every use, and the definitions it   *)
(* names only once.                                                        *)
(***************************************************************************)
MCInstants       == BoundaryInstants
MCUtcOffset      == Offsets2026
PatchyUtcOffset  == PatchyOffsets
MCStateRules     == SeededRules
MCDncFile        == ListFile
MCAreas          == TestedCodes
RuleInputs       == RuleMatrix
FaultInputs      == FaultCalls
RestartInputs    == RestartCalls
ContentionInputs == ContentionCalls
MCAreaCodeMap    == AreaCodeTable

\* Every run is one of the gateway with its own tables.
ASSUME RunsShippedTables == ShippedTables

=============================================================================
