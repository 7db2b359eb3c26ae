--------------------------- MODULE CallingWindows ----------------------------
(***************************************************************************)
(* The gateway with the tables it ships: the routing table, the seeded     *)
(* rules and, from outside, the tz database of 2026.  Next to them stands  *)
(* another reading of the calling windows to compare the code with.        *)
(***************************************************************************)
EXTENDS DialCheck, AreaCodes

\* UTC seconds since the start of 2026.
At(day, h, m, s) == day * DaySeconds + h * 3600 + m * 60 + s

MidJanuary    == 14    \* standard time
SpringForward == 66    \* 8 March: DST begins at 02:00 local
MidJuly       == 195   \* daylight saving time
FallBack      == 304   \* 1 November: DST ends at 02:00 local

Zones == {e[1] : e \in Entries}

StandardHours ==
    [z \in Zones |->
        CASE z = "America/New_York"                           -> -5
          [] z = "America/Chicago"                            -> -6
          [] z \in {"America/Denver", "America/Phoenix"}      -> -7
          [] z = "America/Los_Angeles"                        -> -8
          [] z = "America/Anchorage"                          -> -9
          [] z = "Pacific/Honolulu"                           -> -10
          [] z \in {"America/Puerto_Rico", "America/St_Thomas"} -> -4
          [] z \in {"Pacific/Guam", "Pacific/Saipan"}         -> 10
          [] z = "Pacific/Pago_Pago"                          -> -11]

ObservesDst == {"America/New_York", "America/Chicago", "America/Denver",
                "America/Los_Angeles", "America/Anchorage"}

DaylightSaving(z, t) ==
    /\ z \in ObservesDst
    /\ t >= At(SpringForward, 2 - StandardHours[z], 0, 0)
    /\ t <  At(FallBack, 1 - StandardHours[z], 0, 0)

Offsets2026 ==
    [z \in DOMAIN StandardHours |-> [t \in Instants |->
        3600 * (StandardHours[z] + IF DaylightSaving(z, t) THEN 1 ELSE 0)]]

\* _SEED_STATE_RULES
SeededRules ==
    [s \in {"US", "FL", "CT"} |->
        [start_time |-> 8 * 3600,
         end_time   |-> IF s = "US" THEN 21 * 3600 ELSE 20 * 3600]]

\* The tables the gateway runs with are those it ships.  The host's tz
\* database may lack zones, but those it has are right.
ShippedTables ==
    /\ AREA_CODE_MAP = AreaCodeTable
    /\ StateRules = SeededRules
    /\ DOMAIN UtcOffset \subseteq Zones
    /\ \A z \in DOMAIN UtcOffset : UtcOffset[z] = Offsets2026[z]

-----------------------------------------------------------------------------
(***************************************************************************)
(* An independent reading of the calling windows: which codes have the     *)
(* early cutoff, code by code, and the hours of a code from its state and  *)
(* the exceptions noted at the top of timezone_maps.py, UTC-5 unless a     *)
(* state or a code says otherwise.  Only the state, and only where it      *)
(* decides on the hours, comes from the routing table.                     *)
(***************************************************************************)
FloridaCodes     == {239, 305, 321, 352, 386, 407, 561, 689, 727, 754, 772, 786,
                     813, 850, 863, 904, 941, 954}
ConnecticutCodes == {203, 475, 860, 959}

\* Calls to these end at 20:00.
EarlyCodes == FloridaCodes \cup ConnecticutCodes

CentralStates  == {"AL", "AR", "IL", "IA", "KS", "LA", "MN", "MS", "MO", "NE",
                   "ND", "OK", "SD", "TN", "TX", "WI"}
MountainStates == {"AZ", "CO", "ID", "MT", "NM", "UT", "WY"}
PacificStates  == {"CA", "NV", "OR", "WA"}
NoDstStates    == {"AZ", "HI", "PR", "VI", "GU", "MP", "AS"}

StateOf(a) == IF a \in ListedCodes THEN AreaCodeTable[a].state_code ELSE "US"

UtcHours(a) ==
    CASE a \in {850, 219, 270, 364} -> -6
      [] a \in {423, 865}           -> -5
      [] a = 915                    -> -7
      [] OTHER -> LET s == StateOf(a) IN
            CASE s \in CentralStates  -> -6
              [] s \in MountainStates -> -7
              [] s \in PacificStates  -> -8
              [] s \in {"PR", "VI"}   -> -4
              [] s = "AK"             -> -9
              [] s = "HI"             -> -10
              [] s = "AS"             -> -11
              [] s \in {"GU", "MP"}   -> 10
              [] OTHER                -> -5

Summer(t) == t >= At(SpringForward, 12, 0, 0) /\ t < At(FallBack, 12, 0, 0)

OpensUtc(a, t) ==
    8 - UtcHours(a) - IF Summer(t) /\ StateOf(a) \notin NoDstStates THEN 1 ELSE 0

HoursOpen(a) == IF a \in EarlyCodes THEN 12 ELSE 13

SecondsOpen(a, t) == (t - 3600 * OpensUtc(a, t)) % DaySeconds

StatuteAllows(a, t) == SecondsOpen(a, t) < 3600 * HoursOpen(a)

\* _check_time_window and the routing table agree with the statute's hours
\* at every boundary, in both seasons and on the days the clocks change: a
\* call is never allowed outside the window of its state and zone and never
\* refused inside it.
MatchesStatuteTable ==
    \A r \in Requests :
        (answer[r] # NoAnswer /\ ZoneKnown(payload[r].destination_number)) =>
            LET inside == StatuteAllows(payload[r].destination_number.area,
                                        payload[r].timestamp) IN
            /\ answer[r] = Allow => inside
            /\ answer[r].block_reason = STATE_WINDOW => ~inside

=============================================================================
