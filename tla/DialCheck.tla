------------------------------ MODULE DialCheck ------------------------------
(***************************************************************************)
(* POST /api/v1/dial-check as it runs in one worker process: several       *)
(* handler coroutines on one event loop, sharing the in-memory DNC set, a  *)
(* bounded pool of SQLite connections, SQLite's single write lock and the  *)
(* audit ledger, which alone survives a crash.                             *)
(*                                                                         *)
(* A request's program counter pc[r] names the await its handler stands    *)
(* at; everything between two awaits is one action:                        *)
(*                                                                         *)
(*   idle -> gather -> evaluated -> staged -> replying -> done             *)
(*                        |           |          ^                         *)
(*                        +-> undo <--+          |                         *)
(*                              +----------------+                         *)
(*                                                                         *)
(* and a crash of the process sends every request in flight to "lost".     *)
(***************************************************************************)
EXTENDS DialRules, FiniteSets

CONSTANTS
    Requests,     \* HTTP requests the dialer may send, each at most once
    Inputs,       \* the payloads they may carry
    DncFile,      \* the lines of the DNC CSV, its header first
    BlankLine,    \* a line without a digit in it
    PoolSize,     \* connections the pool may have checked out at once
    RndOutcomes,  \* how the registry may end: a subset of RndEndings
    Faults,       \* what may go wrong: a subset of FaultKinds
    NoPayload,    \* a request that has not been sent
    NoOne         \* nobody holds the write lock

RndEndings == {"answer", "timeout", "error"}

(***************************************************************************)
(* The faults the code has a path for:                                     *)
(*   load   reading the DNC file stops early or never starts               *)
(*   pool   a checkout from the pool gives up after its timeout            *)
(*   lock   a statement gives up waiting for the write lock                *)
(*   db     a statement or a commit fails for any other reason             *)
(*   crash  the process dies and is started again                          *)
(*   power  the machine dies: commits the WAL has not synced may be gone   *)
(***************************************************************************)
FaultKinds == {"load", "pool", "lock", "db", "crash", "power"}

ASSUME DialCheckAssumption ==
    /\ Inputs \subseteq DialIngestion
    /\ DncFile \in Seq(Phone \cup {BlankLine})
    /\ BlankLine \notin Phone
    /\ PoolSize \in Nat \ {0}
    /\ RndOutcomes \subseteq RndEndings
    /\ Faults \subseteq FaultKinds
    /\ NoPayload \notin DialIngestion
    /\ NoOne \notin Requests

VARIABLES
    up,        \* the lifespan start-up has finished and the app serves
    cache,     \* _dnc_cache
    ledger,    \* committed rows of compliance_audit_ledger, oldest first
    synced,    \* how many of them a checkpoint has made durable
    pc,        \* where each request's handler stands
    payload,   \* the request body
    checks,    \* results of the three gathered checks; once evaluate_dial has
               \* returned, the history of what gather() gave it, which only
               \* the properties read
    answer,    \* what evaluate_dial returned
    audit,     \* what became of the request's ledger write
    conns,     \* requests whose session has a connection checked out
    writer     \* the request whose transaction holds the write lock

vars == <<up, cache, ledger, synced, pc, payload, checks, answer, audit,
          conns, writer>>

process  == <<up, cache>>
store    == <<ledger, synced>>
database == <<ledger, synced, conns, writer>>

PcStates    == {"idle", "gather", "evaluated", "staged", "undo", "replying",
                "done", "lost"}
AuditStates == {"unwritten", "recorded", "duplicate", "failed"}
InFlight    == {"gather", "evaluated", "staged", "undo", "replying"}

NoChecks == [dnc |-> "pending", tw |-> "pending", rnd |-> "pending"]
NoAnswer == [decision |-> "none", block_reason |-> NoReason]

-----------------------------------------------------------------------------
\* The unique index on call_id already has this identifier.
HasRow(call_id) == \E i \in DOMAIN ledger : ledger[i].call_id = call_id

-----------------------------------------------------------------------------
(***************************************************************************)
(* Start-up.  load_dnc_cache skips the header and publishes whatever it    *)
(* had read when it stopped, which is everything unless reading failed.    *)
(***************************************************************************)
LoadedFrom(k) ==
    {NormalizeForDnc(DncFile[i]) :
        i \in {j \in 2..k : DncFile[j] # BlankLine}}

LinesRead == IF "load" \in Faults THEN 0..Len(DncFile) ELSE {Len(DncFile)}

\* Mutant: the app serves before the list is there.
StartupBeforeLoading ==
    /\ ~up
    /\ up' = TRUE
    /\ UNCHANGED <<cache, database, pc, payload, checks, answer, audit>>

Startup ==
    /\ ~up
    /\ up' = TRUE
    /\ \E k \in LinesRead : cache' = LoadedFrom(k)
    /\ UNCHANGED <<database, pc, payload, checks, answer, audit>>

-----------------------------------------------------------------------------
(***************************************************************************)
(* evaluate_dial.                                                          *)
(***************************************************************************)
\* The requests the dialer has not sent yet.
Idle == {r \in Requests : pc[r] = "idle"}

\* The consent gate answers at once, before anything else is looked at.
RejectAtConsentGate(r, p) ==
    /\ up
    /\ r \in Idle
    /\ ConsentGateBlocks(p)
    /\ pc' = [pc EXCEPT ![r] = "evaluated"]
    /\ payload' = [payload EXCEPT ![r] = p]
    /\ answer' = [answer EXCEPT ![r] = Block(AI_REQUIRES_PEWC)]
    /\ UNCHANGED <<process, database, checks, audit>>

\* Otherwise gather() starts the three checks.
ForkChecks(r, p) ==
    /\ up
    /\ r \in Idle
    /\ ~ConsentGateBlocks(p)
    /\ pc' = [pc EXCEPT ![r] = "gather"]
    /\ payload' = [payload EXCEPT ![r] = p]
    /\ UNCHANGED <<process, database, checks, answer, audit>>

Pending(r, check) == pc[r] = "gather" /\ checks[r][check] = "pending"

Settle(r, check, result) == checks' = [checks EXCEPT ![r][check] = result]

\* Tasks start in creation order and this one never suspends, so it has
\* finished before either of the others takes a step.
LookupDnc(r) ==
    /\ Pending(r, "dnc")
    /\ Settle(r, "dnc", CheckDnc(payload[r].destination_number, cache))
    /\ UNCHANGED <<process, database, pc, payload, answer, audit>>

Started(r, check) == Pending(r, check) /\ ~Pending(r, "dnc")

\* A zone the tz database lacks fails the check before it opens a session.
RejectUnknownZone(r) ==
    /\ Started(r, "tw")
    /\ ~ZoneKnown(payload[r].destination_number)
    /\ Settle(r, "tw", SYSTEM_FAULT)
    /\ UNCHANGED <<process, database, pc, payload, answer, audit>>

\* The session takes a connection when it first needs one: for the rule
\* query, or for the audit row if the query never ran or never got one.
NeedsConnection(r) ==
    /\ r \notin conns
    /\ \/ Started(r, "tw") /\ ZoneKnown(payload[r].destination_number)
       \/ pc[r] = "evaluated"

Connect(r) ==
    /\ NeedsConnection(r)
    /\ Cardinality(conns) < PoolSize
    /\ conns' = conns \cup {r}
    /\ UNCHANGED <<process, store, writer, pc, payload, checks, answer, audit>>

QueryWindow(r) ==
    /\ Started(r, "tw")
    /\ r \in conns
    /\ Settle(r, "tw", CheckTimeWindow(payload[r].destination_number,
                                       payload[r].timestamp))
    /\ UNCHANGED <<process, database, pc, payload, answer, audit>>

\* The check has no handler of its own: a failed query, or a checkout that
\* timed out, is an exception that gather() will pass on.
QueryRaises(r) ==
    /\ "db" \in Faults
    /\ Started(r, "tw")
    /\ r \in conns
    /\ Settle(r, "tw", "raised")
    /\ UNCHANGED <<process, database, pc, payload, answer, audit>>

CheckoutRaises(r) ==
    /\ "pool" \in Faults
    /\ Started(r, "tw")
    /\ NeedsConnection(r)
    /\ Cardinality(conns) >= PoolSize
    /\ Settle(r, "tw", "raised")
    /\ UNCHANGED <<process, database, pc, payload, answer, audit>>

\* The registry answers in time, or the two-second budget runs out, or it
\* fails in some other way; the check turns all three into a result.
RegistryAnswers(r) ==
    /\ "answer" \in RndOutcomes
    /\ Started(r, "rnd")
    /\ Settle(r, "rnd", CheckRnd(payload[r].destination_number))
    /\ UNCHANGED <<process, database, pc, payload, answer, audit>>

RegistryTimesOut(r) ==
    /\ "timeout" \in RndOutcomes
    /\ Started(r, "rnd")
    /\ Settle(r, "rnd", REGISTRY_TIMEOUT)
    /\ UNCHANGED <<process, database, pc, payload, answer, audit>>

RegistryFails(r) ==
    /\ "error" \in RndOutcomes
    /\ Started(r, "rnd")
    /\ Settle(r, "rnd", SYSTEM_FAULT)
    /\ UNCHANGED <<process, database, pc, payload, answer, audit>>

\* The end of evaluate_dial, which got these results out of gather().
Evaluated(r, results, decision) ==
    /\ pc' = [pc EXCEPT ![r] = "evaluated"]
    /\ checks' = [checks EXCEPT ![r] = results]
    /\ answer' = [answer EXCEPT ![r] = decision]
    /\ UNCHANGED <<process, database, payload, audit>>

\* Mutant: the first check to fail decides, not the first in the list.
GatherReturnsEarly(r) ==
    /\ pc[r] = "gather"
    /\ \E c \in {"dnc", "tw", "rnd"} :
          /\ checks[r][c] \in BlockReasons
          /\ Evaluated(r, checks[r], Block(checks[r][c]))

GatherReturns(r) ==
    /\ pc[r] = "gather"
    /\ \A c \in {"dnc", "tw", "rnd"} : checks[r][c] \in CheckResult
    /\ Evaluated(r, checks[r], Verdict(checks[r].dnc, checks[r].tw, checks[r].rnd))

Raised == [NoChecks EXCEPT !.tw = "raised"]

\* Mutant: the exception handler lets the call through.
GatherRaisesOpen(r) ==
    /\ pc[r] = "gather"
    /\ checks[r].tw = "raised"
    /\ Evaluated(r, Raised, Allow)

\* Mutant: the exception handler makes do with the results that are in.
GatherRaisesWithArrived(r) ==
    /\ pc[r] = "gather"
    /\ checks[r].tw = "raised"
    /\ Evaluated(r, Raised,
                 IF checks[r].dnc = DNC THEN Block(DNC) ELSE Block(SYSTEM_FAULT))

\* gather() does not wait for the others once one of them has raised: their
\* results, also those that are in, are lost with the exception, and a
\* registry query still under way is left to finish with nobody listening.
GatherRaises(r) ==
    /\ pc[r] = "gather"
    /\ checks[r].tw = "raised"
    /\ Evaluated(r, Raised, Block(SYSTEM_FAULT))

-----------------------------------------------------------------------------
(***************************************************************************)
(* dial_check: the audit write and the reply.                              *)
(***************************************************************************)
\* The INSERT opens a transaction, which needs the write lock whether or
\* not the unique index will accept the row.
CanInsert(r) == pc[r] = "evaluated" /\ r \in conns /\ writer = NoOne

\* Mutant: a SELECT for the call_id in place of the unique index.
StageRowUnlocked(r) ==
    /\ pc[r] = "evaluated"
    /\ r \in conns
    /\ ~HasRow(payload[r].call_id)
    /\ writer' = r
    /\ pc' = [pc EXCEPT ![r] = "staged"]
    /\ UNCHANGED <<process, store, conns, payload, checks, answer, audit>>

\* Mutant: the flush is already visible to everyone (autocommit).
StageRowAutocommit(r) ==
    /\ CanInsert(r)
    /\ ~HasRow(payload[r].call_id)
    /\ writer' = r
    /\ ledger' = Append(ledger, RowFor(payload[r], answer[r]))
    /\ pc' = [pc EXCEPT ![r] = "staged"]
    /\ UNCHANGED <<process, synced, conns, payload, checks, answer, audit>>

StageRow(r) ==
    /\ CanInsert(r)
    /\ ~HasRow(payload[r].call_id)
    /\ writer' = r
    /\ pc' = [pc EXCEPT ![r] = "staged"]
    /\ UNCHANGED <<process, store, conns, payload, checks, answer, audit>>

\* Mutant: INSERT OR REPLACE.
StageDuplicateReplaces(r) ==
    /\ CanInsert(r)
    /\ HasRow(payload[r].call_id)
    /\ ledger' = [i \in DOMAIN ledger |->
                    IF ledger[i].call_id = payload[r].call_id
                    THEN RowFor(payload[r], answer[r]) ELSE ledger[i]]
    /\ writer' = r
    /\ pc' = [pc EXCEPT ![r] = "undo"]
    /\ audit' = [audit EXCEPT ![r] = "recorded"]
    /\ UNCHANGED <<process, synced, conns, payload, checks, answer>>

\* IntegrityError: the lock goes with the rollback that follows.
StageDuplicate(r) ==
    /\ CanInsert(r)
    /\ HasRow(payload[r].call_id)
    /\ writer' = r
    /\ pc' = [pc EXCEPT ![r] = "undo"]
    /\ audit' = [audit EXCEPT ![r] = "duplicate"]
    /\ UNCHANGED <<process, store, conns, payload, checks, answer>>

AuditFails(r) ==
    /\ pc' = [pc EXCEPT ![r] = "undo"]
    /\ audit' = [audit EXCEPT ![r] = "failed"]
    /\ UNCHANGED <<process, database, payload, checks, answer>>

\* Any other failure of the write: no connection, no lock, or the statement.
StageFails(r) ==
    /\ pc[r] = "evaluated"
    /\ \/ /\ "pool" \in Faults
          /\ r \notin conns
          /\ Cardinality(conns) >= PoolSize
       \/ /\ "lock" \in Faults
          /\ r \in conns
          /\ writer # NoOne
       \/ /\ "db" \in Faults
          /\ r \in conns
    /\ AuditFails(r)

CommitFails(r) ==
    /\ "db" \in Faults
    /\ pc[r] = "staged"
    /\ AuditFails(r)

\* Mutant: the connection goes back with its transaction still open.
ReleaseConnectionOnly(r) == conns' = conns \ {r} /\ UNCHANGED writer

\* Commit and rollback end the transaction: the lock is free and the
\* connection is back in the pool.
ReleaseSession(r) ==
    /\ conns' = conns \ {r}
    /\ writer' = IF writer = r THEN NoOne ELSE writer

\* Mutant: the session is never closed.
CommitRowKeepsConnection(r) ==
    /\ pc[r] = "staged"
    /\ ledger' = Append(ledger, RowFor(payload[r], answer[r]))
    /\ audit' = [audit EXCEPT ![r] = "recorded"]
    /\ pc' = [pc EXCEPT ![r] = "replying"]
    /\ writer' = NoOne
    /\ UNCHANGED <<process, synced, conns, payload, checks, answer>>

\* Mutant: the handler forgets to commit.
CommitRowForgotten(r) ==
    /\ pc[r] = "staged"
    /\ audit' = [audit EXCEPT ![r] = "recorded"]
    /\ pc' = [pc EXCEPT ![r] = "replying"]
    /\ ReleaseSession(r)
    /\ UNCHANGED <<process, store, payload, checks, answer>>

CommitRow(r) ==
    /\ pc[r] = "staged"
    /\ ledger' = Append(ledger, RowFor(payload[r], answer[r]))
    /\ audit' = [audit EXCEPT ![r] = "recorded"]
    /\ pc' = [pc EXCEPT ![r] = "replying"]
    /\ ReleaseSession(r)
    /\ UNCHANGED <<process, synced, payload, checks, answer>>

\* Mutant: an except branch without its rollback.
RollbackForgotten(r) ==
    /\ pc[r] = "undo"
    /\ pc' = [pc EXCEPT ![r] = "replying"]
    /\ UNCHANGED <<process, database, payload, checks, answer, audit>>

Rollback(r) ==
    /\ pc[r] = "undo"
    /\ pc' = [pc EXCEPT ![r] = "replying"]
    /\ ReleaseSession(r)
    /\ UNCHANGED <<process, store, payload, checks, answer, audit>>

\* Mutant: the reply does not wait for the commit.
ReplyEarly(r) ==
    /\ pc[r] \in {"staged", "replying"}
    /\ pc' = [pc EXCEPT ![r] = "done"]
    /\ UNCHANGED <<process, database, payload, checks, answer, audit>>

\* The decision goes out whatever became of the audit row.
Reply(r) ==
    /\ pc[r] = "replying"
    /\ pc' = [pc EXCEPT ![r] = "done"]
    /\ UNCHANGED <<process, database, payload, checks, answer, audit>>

-----------------------------------------------------------------------------
(***************************************************************************)
(* Crashes.  Memory, connections and open transactions are gone; a dialer  *)
(* that sees its connection drop may send the payload again as another     *)
(* request.                                                                *)
(***************************************************************************)
Die ==
    /\ up
    /\ up' = FALSE
    /\ cache' = {}
    /\ pc' = [r \in Requests |-> IF pc[r] \in InFlight THEN "lost" ELSE pc[r]]
    /\ checks' = [r \in Requests |->
                    IF pc[r] = "gather" THEN NoChecks ELSE checks[r]]
    /\ conns' = {}
    /\ writer' = NoOne
    /\ UNCHANGED <<payload, answer, audit>>

Crash ==
    /\ "crash" \in Faults
    /\ Die
    /\ UNCHANGED store

\* Mutant: synchronous=OFF.
PowerLossUnsynced ==
    /\ "power" \in Faults
    /\ Die
    /\ \E k \in 0..Len(ledger) : ledger' = SubSeq(ledger, 1, k)
    /\ synced' = 0

\* synchronous=NORMAL in WAL mode: commits since the last checkpoint are
\* not synced, and any suffix of them may be missing after power comes back.
PowerLoss ==
    /\ "power" \in Faults
    /\ Die
    /\ \E k \in synced..Len(ledger) : ledger' = SubSeq(ledger, 1, k)
    /\ UNCHANGED synced

Checkpoint ==
    /\ "power" \in Faults
    /\ up
    /\ synced < Len(ledger)
    /\ synced' = Len(ledger)
    /\ UNCHANGED <<process, ledger, conns, writer, pc, payload, checks,
                   answer, audit>>

-----------------------------------------------------------------------------
Init ==
    /\ up = FALSE
    /\ cache = {}
    /\ ledger = <<>>
    /\ synced = 0
    /\ pc = [r \in Requests |-> "idle"]
    /\ payload = [r \in Requests |-> NoPayload]
    /\ checks = [r \in Requests |-> NoChecks]
    /\ answer = [r \in Requests |-> NoAnswer]
    /\ audit = [r \in Requests |-> "unwritten"]
    /\ conns = {}
    /\ writer = NoOne

\* The handler's own steps, evaluate_dial first and then the audit write.
Handler(r) ==
    \/ LookupDnc(r) \/ RejectUnknownZone(r) \/ Connect(r) \/ QueryWindow(r)
    \/ RegistryAnswers(r) \/ RegistryTimesOut(r) \/ RegistryFails(r)
    \/ GatherReturns(r) \/ GatherRaises(r)
    \/ StageRow(r) \/ StageDuplicate(r) \/ CommitRow(r) \/ Rollback(r)
    \/ Reply(r)

DatabaseFault(r) ==
    \/ QueryRaises(r) \/ CheckoutRaises(r) \/ StageFails(r) \/ CommitFails(r)

\* Every request has been dealt with; the server waits for more.
Quiescent ==
    /\ up
    /\ \A r \in Requests : pc[r] \in {"done", "lost"}
    /\ UNCHANGED vars

Next ==
    \/ Startup
    \/ \E r \in Idle, p \in Inputs :
          RejectAtConsentGate(r, p) \/ ForkChecks(r, p)
    \/ \E r \in Requests : Handler(r) \/ DatabaseFault(r)
    \/ Crash \/ PowerLoss \/ Checkpoint
    \/ Quiescent

(***************************************************************************)
(* The event loop runs every ready coroutine, asyncio.timeout bounds the   *)
(* registry, and SQLite statements return: a handler that can take a step  *)
(* of its own sooner or later does.  Arrivals, faults and restarts need    *)
(* never happen.                                                           *)
(***************************************************************************)
Fairness == \A r \in Requests : WF_vars(Handler(r))

Spec     == Init /\ [][Next]_vars
FairSpec == Spec /\ Fairness

-----------------------------------------------------------------------------
(***************************************************************************)
(* Properties.                                                             *)
(***************************************************************************)
Answers == Decisions \cup {NoAnswer}

CheckRecord == [dnc : CheckResult \cup {"pending"},
                tw  : CheckResult \cup {"pending", "raised"},
                rnd : CheckResult \cup {"pending"}]

\* Every variable has its type: the shape of the cache, of the ledger rows
\* and of what the handlers of dial_check keep between two awaits.
TypeOK ==
    /\ up \in BOOLEAN
    /\ cache \subseteq (Areas \X Nat)
    /\ ledger \in Seq(Row)
    /\ synced \in 0..Len(ledger)
    /\ pc \in [Requests -> PcStates]
    /\ payload \in [Requests -> DialIngestion \cup {NoPayload}]
    /\ checks \in [Requests -> CheckRecord]
    /\ answer \in [Requests -> Answers]
    /\ audit \in [Requests -> AuditStates]
    /\ conns \subseteq Requests
    /\ writer \in Requests \cup {NoOne}

\* The number is in the DNC file, in either format, below the header.
OnDncFile(n) ==
    \E i \in 2..Len(DncFile) :
        /\ DncFile[i] # BlankLine
        /\ DncFile[i].area = n.area
        /\ DncFile[i].line = n.line

GateOpen(p) == p.call_type = "AI_VOICE_BOT" => p.consent_type_held = "PEWC"

WindowOf(p) == CheckTimeWindow(p.destination_number, p.timestamp)

OddNumber(p) == p.destination_number.line % 2 = 1

MayMissListed == "load" \in Faults

\* evaluate_dial allows a call only if all four rules hold for its payload:
\* consent, calling window, registry and, unless the DNC file could not be
\* read, the DNC list.  No interleaving, fault or restart turns a failed
\* check into an ALLOW.
AllowIsCompliant ==
    \A r \in Requests : answer[r] = Allow =>
        LET p == payload[r] IN
        /\ GateOpen(p)
        /\ WindowOf(p) = Passed
        /\ ~OddNumber(p)
        /\ OnDncFile(p.destination_number) => MayMissListed

\* The reason of a BLOCK is true of the payload, and it is the first in the
\* order consent, DNC, window, registry: every rule that ranks higher had
\* passed, also when the reason is the registry's timeout or a system fault.
\* One thing overrules that order: a rule query that raised makes gather()
\* raise, and then the reason is SYSTEM_FAULT even of a listed number,
\* whatever the other checks had found.
BlockIsJustified ==
    \A r \in Requests : answer[r].decision = "BLOCK" =>
        LET p  == payload[r]
            br == answer[r].block_reason
            raised    == checks[r].tw = "raised"
            NotListed == OnDncFile(p.destination_number) => MayMissListed IN
        /\ (br = AI_REQUIRES_PEWC) <=> ~GateOpen(p)
        /\ raised => br = SYSTEM_FAULT
        /\ br = DNC => OnDncFile(p.destination_number)
        /\ br = STATE_WINDOW => NotListed /\ WindowOf(p) = STATE_WINDOW
        /\ br = RND_REASSIGNED =>
              NotListed /\ WindowOf(p) = Passed /\ OddNumber(p)
        /\ br = REGISTRY_TIMEOUT =>
              /\ NotListed /\ WindowOf(p) = Passed
              /\ checks[r].rnd = REGISTRY_TIMEOUT
        /\ br = SYSTEM_FAULT /\ ~raised =>
              /\ NotListed
              /\ \/ WindowOf(p) = SYSTEM_FAULT
                 \/ WindowOf(p) = Passed /\ checks[r].rnd = SYSTEM_FAULT

Definitive(a) ==
    a # NoAnswer /\ a.block_reason \notin {REGISTRY_TIMEOUT, SYSTEM_FAULT}

\* A payload evaluated twice, say by a dialer that retries after a crash,
\* gets the same decision and the same reason both times unless one of them
\* was a fail-safe block.
RetryAgrees ==
    \A q, r \in Requests :
        (/\ payload[q] = payload[r]
         /\ Definitive(answer[q])
         /\ Definitive(answer[r])
         /\ ~MayMissListed) => answer[q] = answer[r]

\* append_audit_record never gives a call_id a second row: the unique index,
\* the write lock and the commit order see to it between racing duplicates.
OneRowPerCall ==
    \A i, j \in DOMAIN ledger :
        ledger[i].call_id = ledger[j].call_id => i = j

Recorded(r) == RowFor(payload[r], answer[r])

\* Every row of the ledger is the row of some request's own payload and
\* decision, committed by that request, and verify_record_hash accepts it
\* with that request's timestamp: rolled-back rows never show up.
RowsAreGenuine ==
    \A i \in DOMAIN ledger : \E r \in Requests :
        /\ audit[r] = "recorded"
        /\ ledger[i] = Recorded(r)
        /\ VerifyRecordHash(ledger[i], payload[r].timestamp)

\* The handler is right about what became of its audit row: "recorded" means
\* the row is there, "duplicate" that another request with this call_id has
\* committed one, "failed" that a fault the code handles occurred, and no
\* request is answered before one of the three is known.
AuditOutcomeHonest ==
    \A r \in Requests :
        /\ audit[r] = "recorded" =>
              "power" \in Faults \/ \E i \in DOMAIN ledger : ledger[i] = Recorded(r)
        /\ audit[r] = "duplicate" =>
              \E q \in Requests \ {r} :
                  /\ audit[q] = "recorded"
                  /\ payload[q].call_id = payload[r].call_id
        /\ audit[r] = "failed" => Faults \cap {"pool", "lock", "db"} # {}
        /\ pc[r] = "done" => audit[r] # "unwritten"

\* No path through the handler, the failing ones included, keeps a pooled
\* connection or the write lock beyond the end of its transaction, and
\* whoever holds the lock has a connection and never waits for one.
NothingLeaks ==
    /\ \A r \in conns : pc[r] \in InFlight \ {"replying"}
    /\ writer # NoOne => writer \in conns /\ pc[writer] \in {"staged", "undo"}
    /\ ~up => conns = {}

\* The handler waits for the pool, or has a connection and waits for the lock.
Waiting(r) ==
    \/ NeedsConnection(r) /\ Cardinality(conns) >= PoolSize
    \/ pc[r] = "evaluated" /\ r \in conns /\ writer # NoOne

\* The pool and the write lock never close a circle: while some handler of
\* dial_check waits for either, one that has a connection waits for neither,
\* and is on its way to giving it back.
NoCircularWait ==
    \A r \in Requests : Waiting(r) =>
        \E q \in conns : pc[q] \in InFlight \ {"replying"} /\ ~Waiting(q)

\* The ledger is append-only: no step changes or removes a committed row,
\* not even a crash of the process.
LedgerAppendOnly ==
    [][/\ Len(ledger) <= Len(ledger')
       /\ \A i \in DOMAIN ledger : ledger'[i] = ledger[i]]_vars

\* Every call that dial_check has begun to handle is answered or cut off by
\* a crash: nobody waits for ever for a connection, a lock or a check.
EveryCallAnswered ==
    \A r \in Requests : (pc[r] \in InFlight) ~> (pc[r] \in {"done", "lost"})

\* Every call that is handled and not cut off ends up with a row under its
\* call_id, though under a reused call_id it need not be its own decision,
\* or its handler knows that the audit write failed.
EveryCallRecorded ==
    \A r \in Requests :
        (pc[r] \in InFlight) ~>
            \/ \E i \in DOMAIN ledger :
                   payload[r] # NoPayload /\ ledger[i].call_id = payload[r].call_id
            \/ audit[r] = "failed"
            \/ pc[r] = "lost"

\* The gateway keeps the promises of Gatekeeper.  A request counts as
\* decided there once evaluate_dial has returned.
AbstractPhase(s) ==
    IF s \in {"idle", "gather"} THEN "waiting"
    ELSE IF s = "done" THEN "answered"
    ELSE IF s = "lost" THEN "lost"
    ELSE "decided"

Promise == INSTANCE Gatekeeper WITH
    Listed  <- LoadedFrom(Len(DncFile)),
    phase   <- [r \in Requests |-> AbstractPhase(pc[r])],
    call    <- [r \in Requests |->
                  IF answer[r] = NoAnswer THEN NoPayload ELSE payload[r]],
    verdict <- answer,
    rows    <- {ledger[i] : i \in DOMAIN ledger},
    kept    <- {ledger[i] : i \in 1..synced},
    PowerMayFail <- "power" \in Faults

\* The detailed gateway implements Gatekeeper, step for step, whatever fails:
\* a checkpoint of the WAL keeps the rows committed before it.
KeepsPromise == Promise!Spec

-----------------------------------------------------------------------------
(***************************************************************************)
(* The inductive invariant behind TypeOK, NothingLeaks, OneRowPerCall and  *)
(* AllowIsCompliant.                                                       *)
(***************************************************************************)
\* What a handler has at hand at each stage; none runs while the app is down.
HandlerState ==
    \A r \in Requests :
        /\ pc[r] \in InFlight => up /\ payload[r] \in DialIngestion
        /\ pc[r] \in {"idle", "gather"} => answer[r] = NoAnswer
        /\ pc[r] \in InFlight \ {"gather"} => answer[r] \in Decisions
        /\ pc[r] = "idle" => checks[r] = NoChecks

\* A staged row holds the lock, and no committed row has its call_id.
StagedIsFresh ==
    \A r \in Requests :
        pc[r] = "staged" => writer = r /\ ~HasRow(payload[r].call_id)

\* A serving process whose load cannot fail has every listed number.
CacheComplete ==
    up /\ ~MayMissListed => cache = LoadedFrom(Len(DncFile))

\* A check that passed is passed by the payload.
ChecksAreSound ==
    \A r \in Requests : pc[r] = "gather" =>
        LET p == payload[r] IN
        /\ GateOpen(p)
        /\ checks[r].dnc = Passed =>
              (OnDncFile(p.destination_number) => MayMissListed)
        /\ checks[r].tw = Passed => WindowOf(p) = Passed
        /\ checks[r].rnd = Passed => ~OddNumber(p)

\* The database side: who holds what, and which rows may be committed.
LedgerInv ==
    TypeOK /\ NothingLeaks /\ HandlerState /\ StagedIsFresh /\ OneRowPerCall

\* The verdict side: from the cache over the checks to the decision.
VerdictInv == CacheComplete /\ ChecksAreSound /\ AllowIsCompliant

\* Inductive: every step of the gateway, from any state that satisfies it,
\* leads to one that does.  It strengthens OneRowPerCall, NothingLeaks and
\* AllowIsCompliant of dial_check with what holds between two awaits.
IInv == LedgerInv /\ VerdictInv

-----------------------------------------------------------------------------
(***************************************************************************)
(* What the documentation claims and the code does not do.                 *)
(***************************************************************************)
\* README.md:370, "Every evaluated call produces a SHA-256 record": a call
\* that has been answered has a row of its own decision.
EveryEvaluationRecorded ==
    \A r \in Requests : pc[r] = "done" =>
        \E i \in DOMAIN ledger : ledger[i] = Recorded(r)

\* compliance_engine.py:99, a failed load is logged as "engine starting with
\* empty cache": a process serves with the whole list or with none of it.
CacheWholeOrEmpty == up => cache \in {{}, LoadedFrom(Len(DncFile))}

=============================================================================
