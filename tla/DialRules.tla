------------------------------ MODULE DialRules ------------------------------
(***************************************************************************)
(* The pure part of the compliance engine: what a dial request is, how a   *)
(* destination number is resolved, and the consent, DNC, calling-window    *)
(* and RND rules of app/services/compliance_engine.py.                     *)
(*                                                                         *)
(* A telephone number is a record: whether it carries the country code 1,  *)
(* its three-digit area code and the seven remaining digits as a natural.  *)
(* Instants are UTC seconds, times of day are seconds after midnight.      *)
(* The lookup tables are data: AREA_CODE_MAP, the tz database and the      *)
(* rows of state_dialing_rules are constants that an MC module fills in.   *)
(***************************************************************************)
EXTENDS Integers, Sequences

CONSTANTS
    CallIds,        \* identifiers a dialer may put in call_id
    Areas,          \* area codes that occur in numbers
    Instants,       \* UTC instants that occur as request timestamps
    AREA_CODE_MAP,  \* area code -> [state_code, timezone]
    UtcOffset,      \* the tz database: zone -> instant -> offset in seconds
    StateRules,     \* state_dialing_rules: state_code -> [start_time, end_time]
    NoReason        \* Python's None, as the block_reason of an ALLOW

FEDERAL_FALLBACK == [state_code |-> "US", timezone |-> "America/New_York"]

DaySeconds == 86400

ASSUME TablesAssumption ==
    /\ Instants \subseteq Nat
    /\ \A z \in DOMAIN UtcOffset : UtcOffset[z] \in [Instants -> Int]
    /\ \A s \in DOMAIN StateRules :
          StateRules[s] \in [start_time : Nat, end_time : Nat]

-----------------------------------------------------------------------------
(***************************************************************************)
(* Payloads and decisions.                                                 *)
(***************************************************************************)
ConsentTypes == {"PEWC", "EXPRESS_WRITTEN", "VERBAL", "NONE"}
CallTypes    == {"AI_VOICE_BOT", "TELEMARKETING", "INFORMATIONAL"}

Phone == [country : BOOLEAN, area : Areas, line : Nat]

\* The schema admits only +1 and ten digits as a destination.
E164USPhone == [country : {TRUE}, area : Areas, line : Nat]

DialIngestion == [call_id            : CallIds,
                  destination_number : E164USPhone,
                  consent_type_held  : ConsentTypes,
                  call_type          : CallTypes,
                  timestamp          : Instants]

DNC              == "ERR_NATIONAL_DNC_MATCH"
STATE_WINDOW     == "ERR_STATE_WINDOW_VIOLATION"
AI_REQUIRES_PEWC == "ERR_AI_REQUIRES_PEWC_CONSENT"
RND_REASSIGNED   == "ERR_RND_REASSIGNED"
REGISTRY_TIMEOUT == "ERR_REGISTRY_TIMEOUT_FAIL_SAFE"
SYSTEM_FAULT     == "ERR_SYSTEM_FAULT"

BlockReasons == {DNC, STATE_WINDOW, AI_REQUIRES_PEWC, RND_REASSIGNED,
                 REGISTRY_TIMEOUT, SYSTEM_FAULT}

ASSUME NoReasonAssumption == NoReason \notin BlockReasons

Allow     == [decision |-> "ALLOW", block_reason |-> NoReason]
Block(br) == [decision |-> "BLOCK", block_reason |-> br]

Decisions == {Allow} \cup {Block(br) : br \in BlockReasons}

\* What a check returns: "passed" or the reason it failed.
Passed == "passed"
CheckResult == BlockReasons \cup {Passed}

-----------------------------------------------------------------------------
(***************************************************************************)
(* The consent gate, which runs before any other check.                    *)
(***************************************************************************)
\* Mutant: any written consent will do.
ConsentGateTakesWritten(p) ==
    /\ p.call_type = "AI_VOICE_BOT"
    /\ p.consent_type_held \notin {"PEWC", "EXPRESS_WRITTEN"}

ConsentGateBlocks(p) ==
    p.call_type = "AI_VOICE_BOT" /\ p.consent_type_held # "PEWC"

(***************************************************************************)
(* The DNC lookup.  _normalize_for_dnc strips punctuation and a leading    *)
(* country code, so "+1 (212) 555-0100" and "2125550100" are one entry.    *)
(***************************************************************************)
NormalizeForDnc(n) == <<n.area, n.line>>

CheckDnc(n, cache) == IF NormalizeForDnc(n) \in cache THEN DNC ELSE Passed

(***************************************************************************)
(* The calling window: area code -> state and zone -> local time of day,   *)
(* compared with the state's row or, failing that, the federal row.  A     *)
(* zone the tz database lacks and an empty rule table are system faults.   *)
(***************************************************************************)
ResolvePhone(n) ==
    IF n.area \in DOMAIN AREA_CODE_MAP THEN AREA_CODE_MAP[n.area]
                                       ELSE FEDERAL_FALLBACK

ZoneKnown(n) == ResolvePhone(n).timezone \in DOMAIN UtcOffset

LocalTime(n, t) ==
    (t + UtcOffset[ResolvePhone(n).timezone][t]) % DaySeconds

\* The states whose row the query loop would accept, in order of preference.
RuleState(n) ==
    IF ResolvePhone(n).state_code \in DOMAIN StateRules
    THEN ResolvePhone(n).state_code
    ELSE "US"

\* Mutant: the end of the window is inclusive.
InWindowInclusive(n, t) ==
    LET rule == StateRules[RuleState(n)] IN
    /\ rule.start_time <= LocalTime(n, t)
    /\ LocalTime(n, t) <= rule.end_time

InWindow(n, t) ==
    LET rule == StateRules[RuleState(n)] IN
    /\ rule.start_time <= LocalTime(n, t)
    /\ LocalTime(n, t) < rule.end_time

CheckTimeWindow(n, t) ==
    IF ~ZoneKnown(n) \/ RuleState(n) \notin DOMAIN StateRules
    THEN SYSTEM_FAULT
    ELSE IF InWindow(n, t) THEN Passed ELSE STATE_WINDOW

(***************************************************************************)
(* The RND mock: an odd last digit means the number was reassigned.        *)
(***************************************************************************)
CheckRnd(n) == IF n.line % 2 # 0 THEN RND_REASSIGNED ELSE Passed

(***************************************************************************)
(* The verdict: the first failure in the fixed order DNC, window, RND,     *)
(* whatever order the three checks finished in.                            *)
(***************************************************************************)
\* Mutant: a check that could not do its work comes before one that failed.
VerdictFaultFirst(dnc, tw, rnd) ==
    IF SYSTEM_FAULT \in {dnc, tw, rnd} THEN Block(SYSTEM_FAULT)
    ELSE IF dnc # Passed THEN Block(dnc)
    ELSE IF tw # Passed THEN Block(tw)
    ELSE IF rnd # Passed THEN Block(rnd)
    ELSE Allow

Verdict(dnc, tw, rnd) ==
    IF dnc # Passed THEN Block(dnc)
    ELSE IF tw # Passed THEN Block(tw)
    ELSE IF rnd # Passed THEN Block(rnd)
    ELSE Allow

-----------------------------------------------------------------------------
(***************************************************************************)
(* Ledger rows.  SHA-256 is taken to be collision-free, so a hash is the   *)
(* tuple of the fields it covers.                                          *)
(***************************************************************************)
RecordHash(call_id, destination, decision, timestamp) ==
    <<call_id, destination, decision, timestamp>>

Row == [call_id      : CallIds,
        destination  : E164USPhone,
        decision     : {"ALLOW", "BLOCK"},
        block_reason : BlockReasons \cup {NoReason},
        record_hash  : CallIds \X E164USPhone \X {"ALLOW", "BLOCK"} \X Instants]

\* Mutant: decision and reason change places.
RowForSwapped(p, a) ==
    [call_id      |-> p.call_id,
     destination  |-> p.destination_number,
     decision     |-> a.block_reason,
     block_reason |-> a.decision,
     record_hash  |-> RecordHash(p.call_id, p.destination_number,
                                 a.decision, p.timestamp)]

\* The row append_audit_record builds from a payload and its decision.
RowFor(p, a) ==
    [call_id      |-> p.call_id,
     destination  |-> p.destination_number,
     decision     |-> a.decision,
     block_reason |-> a.block_reason,
     record_hash  |-> RecordHash(p.call_id, p.destination_number,
                                 a.decision, p.timestamp)]

VerifyRecordHash(row, timestamp) ==
    row.record_hash = RecordHash(row.call_id, row.destination,
                                 row.decision, timestamp)

=============================================================================
