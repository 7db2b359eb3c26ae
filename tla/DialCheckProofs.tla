--------------------------- MODULE DialCheckProofs ---------------------------
(***************************************************************************)
(* Proofs about DialCheck for every set of requests, payloads, DNC file,   *)
(* rule table, tz database, pool size and combination of faults.           *)
(***************************************************************************)
EXTENDS DialCheck, FiniteSetTheorems, SequenceTheorems, TLAPS

-----------------------------------------------------------------------------
(***************************************************************************)
(* The pure rules return what their callers expect.                        *)
(***************************************************************************)
LEMMA CheckResults ==
    ASSUME NEW n \in E164USPhone, NEW t \in Instants, NEW S
    PROVE  /\ CheckDnc(n, S) \in CheckResult
           /\ CheckTimeWindow(n, t) \in CheckResult
           /\ CheckRnd(n) \in CheckResult
  BY DEF CheckDnc, CheckTimeWindow, CheckRnd, CheckResult, BlockReasons,
         Passed, DNC, STATE_WINDOW, SYSTEM_FAULT, RND_REASSIGNED

LEMMA VerdictIsDecision ==
    ASSUME NEW dnc \in CheckResult, NEW tw \in CheckResult, NEW rnd \in CheckResult
    PROVE  Verdict(dnc, tw, rnd) \in Decisions
  BY DEF Verdict, CheckResult, Decisions

LEMMA BlockIsDecision ==
    ASSUME NEW br \in BlockReasons
    PROVE  Block(br) \in Decisions
  BY DEF Decisions

LEMMA DecisionFields ==
    ASSUME NEW a \in Decisions
    PROVE  /\ a.decision \in {"ALLOW", "BLOCK"}
           /\ a.block_reason \in BlockReasons \cup {NoReason}
  BY DEF Decisions, Allow, Block

\* The row of a real payload and decision is a row of the ledger table.
LEMMA RowForType ==
    ASSUME NEW p \in DialIngestion, NEW a \in Decisions
    PROVE  RowFor(p, a) \in Row
  BY DecisionFields DEF RowFor, Row, RecordHash, DialIngestion

LEMMA LoadedType ==
    ASSUME NEW k \in 0..Len(DncFile)
    PROVE  LoadedFrom(k) \subseteq Areas \X Nat
  <1>1. DncFile \in Seq(Phone \cup {BlankLine})
    BY DialCheckAssumption
  <1>2. ASSUME NEW i \in 2..k, DncFile[i] # BlankLine
        PROVE  NormalizeForDnc(DncFile[i]) \in Areas \X Nat
    <2>1. i \in 1..Len(DncFile)
      BY <1>1
    <2>2. DncFile[i] \in Phone
      BY <1>1, <1>2, <2>1
    <2>. QED
      BY <2>2 DEF NormalizeForDnc, Phone
  <1>. QED
    BY <1>2 DEF LoadedFrom

-----------------------------------------------------------------------------
(***************************************************************************)
(* Type correctness, together with what a handler has at hand.             *)
(***************************************************************************)
LEMMA InitTyped == Init => TypeOK /\ HandlerState
  <1> SUFFICES ASSUME Init PROVE TypeOK /\ HandlerState
    OBVIOUS
  <1>1. ledger \in Seq(Row) /\ synced \in 0..Len(ledger)
    BY DEF Init
  <1>2. NoChecks \in CheckRecord
    BY DEF NoChecks, CheckRecord
  <1>3. TypeOK
    BY <1>1, <1>2 DEF Init, TypeOK, PcStates, AuditStates, Answers
  <1>4. HandlerState
    BY DEF Init, HandlerState, InFlight
  <1>. QED
    BY <1>3, <1>4

LEMMA SettleType ==
    ASSUME TypeOK, NEW r \in Requests, NEW c \in {"dnc", "tw", "rnd"},
           NEW res \in CheckResult \cup {"raised"},
           res = "raised" => c = "tw",
           Settle(r, c, res)
    PROVE  checks' \in [Requests -> CheckRecord]
  <1>1. checks[r] \in CheckRecord
    BY DEF TypeOK, CheckRecord
  <1>2. [checks[r] EXCEPT ![c] = res] \in CheckRecord
    BY <1>1 DEF CheckRecord
  <1>3. checks' = [checks EXCEPT ![r] = [checks[r] EXCEPT ![c] = res]]
    BY DEF Settle
  <1>. QED
    BY <1>2, <1>3 DEF TypeOK

LEMMA TypeStep == TypeOK /\ HandlerState /\ [Next]_vars => TypeOK'
  <1> SUFFICES ASSUME TypeOK, HandlerState, [Next]_vars PROVE TypeOK'
    OBVIOUS
  <1> USE DEF process, store, database
  <1>1. CASE Startup
    <2>1. cache' \subseteq Areas \X Nat
      BY <1>1, LoadedType, DialCheckAssumption DEF Startup, LinesRead
    <2>. QED
      BY <1>1, <2>1 DEF TypeOK, Startup
  <1>2. ASSUME NEW r \in Requests, NEW p \in Inputs,
               RejectAtConsentGate(r, p)
        PROVE  TypeOK'
    <2>1. p \in DialIngestion /\ Block(AI_REQUIRES_PEWC) \in Answers
      BY DialCheckAssumption, BlockIsDecision DEF BlockReasons, Answers
    <2>. QED
      BY <1>2, <2>1 DEF TypeOK, RejectAtConsentGate, Idle, PcStates
  <1>3. ASSUME NEW r \in Requests, NEW p \in Inputs, ForkChecks(r, p)
        PROVE  TypeOK'
    <2>1. p \in DialIngestion
      BY DialCheckAssumption
    <2>. QED
      BY <1>3, <2>1 DEF TypeOK, ForkChecks, Idle, PcStates
  <1>4. ASSUME NEW r \in Requests, Handler(r) PROVE TypeOK'
    <2> DEFINE p == payload[r]
    <2>1. pc[r] = "gather" => /\ p.destination_number \in E164USPhone
                              /\ p.timestamp \in Instants
      BY DEF HandlerState, InFlight, DialIngestion
    <2>2. ASSUME NEW c \in {"dnc", "tw", "rnd"}, NEW res \in CheckResult,
                 Settle(r, c, res),
                 UNCHANGED <<process, database, pc, payload, answer, audit>>
          PROVE  TypeOK'
      <3>1. checks' \in [Requests -> CheckRecord]
        BY <2>2, SettleType DEF CheckResult, BlockReasons, DNC, STATE_WINDOW,
           AI_REQUIRES_PEWC, RND_REASSIGNED, REGISTRY_TIMEOUT, SYSTEM_FAULT,
           Passed
      <3>. QED
        BY <2>2, <3>1 DEF TypeOK
    <2>3. CASE LookupDnc(r)
      BY <2>1, <2>2, <2>3, CheckResults DEF LookupDnc, Pending
    <2>4. CASE RejectUnknownZone(r)
      BY <2>2, <2>4 DEF RejectUnknownZone, CheckResult, BlockReasons
    <2>5. CASE Connect(r)
      BY <2>5 DEF TypeOK, Connect
    <2>6. CASE QueryWindow(r)
      BY <2>1, <2>2, <2>6, CheckResults DEF QueryWindow, Started, Pending
    <2>7. CASE RegistryAnswers(r)
      <3>1. CheckRnd(p.destination_number) \in CheckResult
        BY DEF CheckRnd, CheckResult, BlockReasons
      <3>. QED
        BY <2>2, <2>7, <3>1 DEF RegistryAnswers
    <2>8. CASE RegistryTimesOut(r)
      BY <2>2, <2>8 DEF RegistryTimesOut, CheckResult, BlockReasons
    <2>9. CASE RegistryFails(r)
      BY <2>2, <2>9 DEF RegistryFails, CheckResult, BlockReasons
    <2>10. ASSUME NEW d \in Decisions, NEW res \in CheckRecord, Evaluated(r, res, d)
           PROVE  TypeOK'
      BY <2>10 DEF TypeOK, Evaluated, PcStates, Answers
    <2>11. CASE GatherReturns(r)
      <3>1. checks[r] \in CheckRecord
        BY DEF TypeOK, CheckRecord
      <3>. QED
        BY <2>10, <2>11, <3>1, VerdictIsDecision DEF GatherReturns
    <2>12. CASE GatherRaises(r)
      <3>1. Raised \in CheckRecord
        BY DEF Raised, NoChecks, CheckRecord
      <3>. QED
        BY <2>10, <2>12, <3>1, BlockIsDecision DEF GatherRaises, BlockReasons
    <2>13. CASE StageRow(r)
      BY <2>13 DEF TypeOK, StageRow, PcStates
    <2>14. CASE StageDuplicate(r)
      BY <2>14 DEF TypeOK, StageDuplicate, PcStates, AuditStates
    <2>15. CASE CommitRow(r)
      <3>1. p \in DialIngestion /\ answer[r] \in Decisions
        BY <2>15 DEF CommitRow, HandlerState, InFlight
      <3>2. RowFor(p, answer[r]) \in Row
        BY <3>1, RowForType
      <3>3. ledger' \in Seq(Row) /\ Len(ledger') = Len(ledger) + 1
        BY <2>15, <3>2 DEF CommitRow, TypeOK
      <3>4. synced' \in 0..Len(ledger')
        BY <2>15, <3>3 DEF CommitRow, TypeOK
      <3>5. conns' \subseteq Requests /\ writer' \in Requests \cup {NoOne}
        BY <2>15 DEF CommitRow, ReleaseSession, TypeOK
      <3>. QED
        BY <2>15, <3>3, <3>4, <3>5 DEF TypeOK, CommitRow, PcStates, AuditStates
    <2>16. CASE Rollback(r)
      BY <2>16 DEF TypeOK, Rollback, ReleaseSession, PcStates
    <2>17. CASE Reply(r)
      BY <2>17 DEF TypeOK, Reply, PcStates
    <2>. QED
      BY <1>4, <2>3, <2>4, <2>5, <2>6, <2>7, <2>8, <2>9, <2>11, <2>12, <2>13,
         <2>14, <2>15, <2>16, <2>17 DEF Handler
  <1>5. ASSUME NEW r \in Requests, DatabaseFault(r) PROVE TypeOK'
    <2>1. ASSUME Settle(r, "tw", "raised"),
                 UNCHANGED <<process, database, pc, payload, answer, audit>>
          PROVE  TypeOK'
      <3>1. checks' \in [Requests -> CheckRecord]
        BY <2>1, SettleType
      <3>. QED
        BY <2>1, <3>1 DEF TypeOK
    <2>2. CASE QueryRaises(r)
      BY <2>1, <2>2 DEF QueryRaises
    <2>3. CASE CheckoutRaises(r)
      BY <2>1, <2>3 DEF CheckoutRaises
    <2>4. CASE StageFails(r)
      BY <2>4 DEF TypeOK, StageFails, AuditFails, PcStates, AuditStates
    <2>5. CASE CommitFails(r)
      BY <2>5 DEF TypeOK, CommitFails, AuditFails, PcStates, AuditStates
    <2>. QED
      BY <1>5, <2>2, <2>3, <2>4, <2>5 DEF DatabaseFault
  <1>6. ASSUME Die, ledger' \in Seq(Row), synced' \in 0..Len(ledger')
        PROVE  TypeOK'
    <2>1. NoChecks \in CheckRecord
      BY DEF NoChecks, CheckRecord
    <2>. QED
      BY <1>6, <2>1 DEF TypeOK, Die, PcStates
  <1>7. CASE Crash
    BY <1>6, <1>7 DEF Crash, TypeOK
  <1>8. CASE PowerLoss
    <2>1. PICK k \in synced..Len(ledger) : ledger' = SubSeq(ledger, 1, k)
      BY <1>8 DEF PowerLoss
    <2>2. synced \in Nat /\ k \in 0..Len(ledger) /\ ledger \in Seq(Row)
      BY DEF TypeOK
    <2>3. ledger' \in Seq(Row) /\ Len(ledger') = k
      BY <2>1, <2>2, SubSeqProperties
    <2>. QED
      BY <1>6, <1>8, <2>2, <2>3 DEF PowerLoss
  <1>9. CASE Checkpoint
    <2>1. Len(ledger) \in Nat
      BY DEF TypeOK
    <2>. QED
      BY <1>9, <2>1 DEF TypeOK, Checkpoint
  <1>10. CASE UNCHANGED vars
    BY <1>10 DEF TypeOK, vars
  <1>. QED
    BY <1>1, <1>2, <1>3, <1>4, <1>5, <1>7, <1>8, <1>9, <1>10 DEF Next, Idle, Quiescent

LEMMA HandlerStep == TypeOK /\ HandlerState /\ [Next]_vars => HandlerState'
  <1> SUFFICES ASSUME TypeOK, HandlerState, [Next]_vars PROVE HandlerState'
    OBVIOUS
  <1> USE DEF process, store, database, InFlight
  <1>1. CASE UNCHANGED <<up, pc, payload, answer, checks>>
    BY <1>1 DEF HandlerState
  <1>2. CASE Startup
    BY <1>2 DEF Startup, HandlerState
  <1>settles. ASSUME NEW r \in Requests, pc[r] = "gather",
                NEW c \in {"dnc", "tw", "rnd"}, NEW res, Settle(r, c, res),
                UNCHANGED <<up, pc, payload, answer>>
         PROVE  HandlerState'
    BY <1>settles DEF HandlerState, TypeOK, Settle
  <1>3. ASSUME NEW r \in Requests, NEW p \in Inputs, RejectAtConsentGate(r, p)
        PROVE  HandlerState'
    <2>1. p \in DialIngestion /\ Block(AI_REQUIRES_PEWC) \in Decisions
      BY DialCheckAssumption, BlockIsDecision DEF BlockReasons
    <2>. QED
      BY <1>3, <2>1 DEF RejectAtConsentGate, Idle, HandlerState, TypeOK
  <1>4. ASSUME NEW r \in Requests, NEW p \in Inputs, ForkChecks(r, p)
        PROVE  HandlerState'
    <2>1. p \in DialIngestion
      BY DialCheckAssumption
    <2>. QED
      BY <1>4, <2>1 DEF ForkChecks, Idle, HandlerState, TypeOK
  <1>5. ASSUME NEW r \in Requests, NEW res, NEW d \in Decisions, pc[r] = "gather",
               Evaluated(r, res, d)
        PROVE  HandlerState'
    BY <1>5 DEF Evaluated, HandlerState, TypeOK
  <1>6. ASSUME NEW r \in Requests, NEW s \in PcStates,
               pc[r] \in InFlight \ {"gather"}, s \notin {"idle", "gather"},
               pc' = [pc EXCEPT ![r] = s],
               UNCHANGED <<up, payload, answer, checks>>
        PROVE  HandlerState'
    BY <1>6 DEF HandlerState, TypeOK, PcStates
  <1>7. ASSUME NEW r \in Requests, Handler(r) PROVE HandlerState'
    <2>1. CASE \/ LookupDnc(r) \/ RejectUnknownZone(r) \/ QueryWindow(r)
               \/ RegistryAnswers(r) \/ RegistryTimesOut(r)
               \/ RegistryFails(r)
      BY <1>settles, <2>1 DEF LookupDnc, RejectUnknownZone, QueryWindow,
         RegistryAnswers, RegistryTimesOut, RegistryFails, Started, Pending
    <2>connects. CASE Connect(r)
      BY <1>1, <2>connects DEF Connect
    <2>2. CASE GatherReturns(r)
      BY <1>5, <2>2, VerdictIsDecision DEF GatherReturns
    <2>3. CASE GatherRaises(r)
      BY <1>5, <2>3, BlockIsDecision DEF GatherRaises, BlockReasons
    <2>4. CASE StageRow(r)
      BY <1>6, <2>4 DEF StageRow, CanInsert, PcStates
    <2>5. CASE StageDuplicate(r)
      BY <1>6, <2>5 DEF StageDuplicate, CanInsert, PcStates
    <2>6. CASE CommitRow(r)
      BY <1>6, <2>6 DEF CommitRow, PcStates
    <2>7. CASE Rollback(r)
      BY <1>6, <2>7 DEF Rollback, PcStates
    <2>8. CASE Reply(r)
      BY <1>6, <2>8 DEF Reply, PcStates
    <2>. QED
      BY <1>7, <2>1, <2>2, <2>3, <2>4, <2>5, <2>6, <2>7, <2>8, <2>connects DEF Handler
  <1>8. ASSUME NEW r \in Requests, DatabaseFault(r) PROVE HandlerState'
    <2>1. CASE QueryRaises(r) \/ CheckoutRaises(r)
      BY <1>settles, <2>1 DEF QueryRaises, CheckoutRaises, Started, Pending
    <2>2. CASE StageFails(r)
      BY <1>6, <2>2 DEF StageFails, AuditFails, PcStates
    <2>3. CASE CommitFails(r)
      BY <1>6, <2>3 DEF CommitFails, AuditFails, PcStates
    <2>. QED
      BY <1>8, <2>1, <2>2, <2>3 DEF DatabaseFault
  <1>9. CASE Crash \/ PowerLoss
    BY <1>9 DEF Crash, PowerLoss, Die, HandlerState, TypeOK
  <1>10. CASE Checkpoint
    BY <1>1, <1>10 DEF Checkpoint
  <1>11. CASE UNCHANGED vars
    BY <1>1, <1>11 DEF vars
  <1>. QED
    BY <1>2, <1>3, <1>4, <1>7, <1>8, <1>9, <1>10, <1>11 DEF Next, Idle, Quiescent

\* Every variable of the gateway keeps its type, whatever the constants are.
THEOREM TypeCorrect == Spec => []TypeOK
  <1>1. TypeOK /\ HandlerState /\ [Next]_vars => (TypeOK /\ HandlerState)'
    BY TypeStep, HandlerStep
  <1>. QED
    BY <1>1, InitTyped, PTL DEF Spec

-----------------------------------------------------------------------------
(***************************************************************************)
(* Connections and the write lock.                                         *)
(***************************************************************************)
LEMMA NothingLeaksStep ==
    TypeOK /\ HandlerState /\ NothingLeaks /\ [Next]_vars => NothingLeaks'
  <1> SUFFICES ASSUME TypeOK, HandlerState, NothingLeaks, [Next]_vars
               PROVE  NothingLeaks'
    OBVIOUS
  <1> USE DEF process, store, database, InFlight
  <1>0. NoOne \notin Requests
    BY DialCheckAssumption
  <1>1. CASE UNCHANGED <<up, pc, conns, writer>>
    BY <1>1 DEF NothingLeaks
  <1>2. CASE Startup
    BY <1>2 DEF Startup, NothingLeaks
  <1>3. ASSUME NEW r \in Requests, NEW p \in Inputs,
               RejectAtConsentGate(r, p) \/ ForkChecks(r, p)
        PROVE  NothingLeaks'
    BY <1>3 DEF RejectAtConsentGate, Idle, ForkChecks, NothingLeaks, TypeOK
  \* A request that stays in a transaction neither takes nor gives anything.
  <1>4. ASSUME NEW r \in Requests, NEW s \in {"evaluated", "staged", "undo"},
               pc[r] \in {"gather", "evaluated", "staged"},
               pc[r] = "staged" => s = "undo",
               pc' = [pc EXCEPT ![r] = s], UNCHANGED <<up, conns, writer>>
        PROVE  NothingLeaks'
    BY <1>4 DEF NothingLeaks, TypeOK
  \* One that ends its transaction gives back what it has.
  <1>5. ASSUME NEW r \in Requests, NEW s \in PcStates,
               pc' = [pc EXCEPT ![r] = s], ReleaseSession(r), UNCHANGED up
        PROVE  NothingLeaks'
    BY <1>0, <1>5 DEF NothingLeaks, ReleaseSession, TypeOK
  <1>6. ASSUME NEW r \in Requests, Handler(r) PROVE NothingLeaks'
    <2>1. CASE \/ LookupDnc(r) \/ RejectUnknownZone(r)
               \/ QueryWindow(r) \/ RegistryAnswers(r) \/ RegistryTimesOut(r)
               \/ RegistryFails(r)
      BY <1>1, <2>1 DEF LookupDnc, RejectUnknownZone, QueryWindow,
         RegistryAnswers, RegistryTimesOut, RegistryFails
    <2>2. CASE Connect(r)
      <3>1. pc[r] \in {"gather", "evaluated"}
        BY <2>2 DEF Connect, NeedsConnection, Started, Pending
      <3>2. up
        BY <3>1 DEF HandlerState
      <3>. QED
        BY <2>2, <3>1, <3>2 DEF Connect, NothingLeaks
    <2>3. CASE GatherReturns(r) \/ GatherRaises(r)
      BY <1>4, <2>3 DEF GatherReturns, GatherRaises, Evaluated
    <2>4. CASE StageRow(r) \/ StageDuplicate(r)
      BY <2>4 DEF StageRow, StageDuplicate, CanInsert, NothingLeaks, TypeOK
    <2>5. CASE CommitRow(r) \/ Rollback(r)
      BY <1>5, <2>5 DEF CommitRow, Rollback, PcStates
    <2>6. CASE Reply(r)
      BY <2>6 DEF Reply, NothingLeaks, TypeOK
    <2>. QED
      BY <1>6, <2>1, <2>2, <2>3, <2>4, <2>5, <2>6 DEF Handler
  <1>7. ASSUME NEW r \in Requests, DatabaseFault(r) PROVE NothingLeaks'
    <2>1. CASE QueryRaises(r) \/ CheckoutRaises(r)
      BY <1>1, <2>1 DEF QueryRaises, CheckoutRaises
    <2>2. CASE StageFails(r) \/ CommitFails(r)
      BY <1>4, <2>2 DEF StageFails, CommitFails, AuditFails
    <2>. QED
      BY <1>7, <2>1, <2>2 DEF DatabaseFault
  <1>8. CASE Crash \/ PowerLoss
    BY <1>8 DEF Crash, PowerLoss, Die, NothingLeaks
  <1>9. CASE Checkpoint
    BY <1>1, <1>9 DEF Checkpoint
  <1>10. CASE UNCHANGED vars
    BY <1>1, <1>10 DEF vars
  <1>. QED
    BY <1>2, <1>3, <1>6, <1>7, <1>8, <1>9, <1>10 DEF Next, Idle, Quiescent

-----------------------------------------------------------------------------
(***************************************************************************)
(* The ledger: one row per call_id.  A row is staged only under the lock   *)
(* and after the unique index has found its call_id free; the lock keeps   *)
(* every other commit out until it is committed or rolled back.            *)
(***************************************************************************)
LEMMA OneRowStep ==
    LedgerInv /\ [Next]_vars => (StagedIsFresh /\ OneRowPerCall)'
  <1> SUFFICES ASSUME LedgerInv, [Next]_vars
               PROVE  StagedIsFresh' /\ OneRowPerCall'
    OBVIOUS
  <1> USE DEF process, store, database, LedgerInv
  <1>1. CASE UNCHANGED <<ledger, pc, payload, writer>>
    BY <1>1 DEF StagedIsFresh, OneRowPerCall, HasRow
  <1>2. CASE Startup
    BY <1>1, <1>2 DEF Startup
  \* Steps of a handler that leave the ledger and the lock alone.
  <1>3. ASSUME NEW r \in Requests, NEW s \in PcStates \ {"staged"},
               pc' = [pc EXCEPT ![r] = s], UNCHANGED <<ledger, writer>>,
               \A q \in Requests \ {r} : payload'[q] = payload[q]
        PROVE  StagedIsFresh' /\ OneRowPerCall'
    BY <1>3 DEF StagedIsFresh, OneRowPerCall, HasRow, TypeOK
  <1>4. ASSUME NEW r \in Requests, NEW p \in Inputs,
               RejectAtConsentGate(r, p) \/ ForkChecks(r, p)
        PROVE  StagedIsFresh' /\ OneRowPerCall'
    <2>1. \A q \in Requests \ {r} : payload'[q] = payload[q]
      BY <1>4 DEF RejectAtConsentGate, Idle, ForkChecks, TypeOK
    <2>. QED
      BY <1>3, <1>4, <2>1 DEF RejectAtConsentGate, Idle, ForkChecks, PcStates
  <1>5. ASSUME NEW r \in Requests, Handler(r)
        PROVE  StagedIsFresh' /\ OneRowPerCall'
    <2>1. CASE \/ LookupDnc(r) \/ RejectUnknownZone(r) \/ Connect(r)
               \/ QueryWindow(r) \/ RegistryAnswers(r) \/ RegistryTimesOut(r)
               \/ RegistryFails(r)
      BY <1>1, <2>1 DEF LookupDnc, RejectUnknownZone, Connect, QueryWindow,
         RegistryAnswers, RegistryTimesOut, RegistryFails
    <2>2. CASE GatherReturns(r) \/ GatherRaises(r)
      BY <1>3, <2>2 DEF GatherReturns, GatherRaises, Evaluated, PcStates
    <2>3. CASE StageRow(r)
      BY <2>3, DialCheckAssumption
         DEF StageRow, CanInsert, StagedIsFresh, OneRowPerCall, HasRow, TypeOK
    <2>4. CASE StageDuplicate(r)
      BY <2>4, DialCheckAssumption DEF StageDuplicate, CanInsert,
         StagedIsFresh, OneRowPerCall, HasRow, TypeOK
    <2>5. CASE CommitRow(r)
      <3>1. writer = r /\ ~HasRow(payload[r].call_id)
        BY <2>5 DEF CommitRow, StagedIsFresh
      <3>2. /\ ledger \in Seq(Row)
            /\ ledger' = Append(ledger, RowFor(payload[r], answer[r]))
            /\ RowFor(payload[r], answer[r]).call_id = payload[r].call_id
        BY <2>5 DEF CommitRow, TypeOK, RowFor
      <3>3. OneRowPerCall'
        BY <3>1, <3>2 DEF OneRowPerCall, HasRow
      <3>4. \A q \in Requests : pc'[q] # "staged"
        BY <2>5, <3>1 DEF CommitRow, StagedIsFresh, TypeOK
      <3>. QED
        BY <3>3, <3>4 DEF StagedIsFresh
    <2>6. CASE Rollback(r)
      BY <2>6 DEF Rollback, ReleaseSession, StagedIsFresh, OneRowPerCall,
         HasRow, TypeOK
    <2>7. CASE Reply(r)
      BY <1>3, <2>7 DEF Reply, PcStates
    <2>. QED
      BY <1>5, <2>1, <2>2, <2>3, <2>4, <2>5, <2>6, <2>7 DEF Handler
  <1>6. ASSUME NEW r \in Requests, DatabaseFault(r)
        PROVE  StagedIsFresh' /\ OneRowPerCall'
    <2>1. CASE QueryRaises(r) \/ CheckoutRaises(r)
      BY <1>1, <2>1 DEF QueryRaises, CheckoutRaises
    <2>2. CASE StageFails(r) \/ CommitFails(r)
      BY <1>3, <2>2 DEF StageFails, CommitFails, AuditFails, PcStates
    <2>. QED
      BY <1>6, <2>1, <2>2 DEF DatabaseFault
  <1>7. CASE Crash \/ PowerLoss
    <2>1. \A q \in Requests : pc'[q] # "staged"
      BY <1>7 DEF Crash, PowerLoss, Die, InFlight
    <2>2. \A i \in DOMAIN ledger' : i \in DOMAIN ledger /\ ledger'[i] = ledger[i]
      <3>1. CASE Crash
        BY <3>1 DEF Crash
      <3>2. CASE PowerLoss
        <4>1. PICK k \in synced..Len(ledger) : ledger' = SubSeq(ledger, 1, k)
          BY <3>2 DEF PowerLoss
        <4>. QED
          BY <4>1, SubSeqProperties DEF TypeOK
      <3>. QED
        BY <1>7, <3>1, <3>2
    <2>. QED
      BY <2>1, <2>2 DEF StagedIsFresh, OneRowPerCall
  <1>8. CASE Checkpoint
    BY <1>1, <1>8 DEF Checkpoint
  <1>9. CASE UNCHANGED vars
    BY <1>1, <1>9 DEF vars
  <1>. QED
    BY <1>2, <1>4, <1>5, <1>6, <1>7, <1>8, <1>9 DEF Next, Idle, Quiescent

LEMMA InitLedgerInv == Init => LedgerInv
  <1> SUFFICES ASSUME Init PROVE LedgerInv
    OBVIOUS
  <1>1. NothingLeaks
    BY DEF Init, NothingLeaks
  <1>2. StagedIsFresh /\ OneRowPerCall
    BY DEF Init, StagedIsFresh, OneRowPerCall
  <1>. QED
    BY <1>1, <1>2, InitTyped DEF LedgerInv

LEMMA LedgerInvariant == Spec => []LedgerInv
  <1>1. LedgerInv /\ [Next]_vars => LedgerInv'
    BY TypeStep, HandlerStep, NothingLeaksStep, OneRowStep DEF LedgerInv
  <1>. QED
    BY <1>1, InitLedgerInv, PTL DEF Spec

\* However many requests race with the same call_id, crash and come back,
\* the audit ledger never has two rows for it.
THEOREM UniqueCallIds == Spec => []OneRowPerCall
  <1>1. LedgerInv => OneRowPerCall
    BY DEF LedgerInv
  <1>. QED
    BY <1>1, LedgerInvariant, PTL

\* No path through dial_check keeps a connection or the write lock.
THEOREM ResourcesReturned == Spec => []NothingLeaks
  <1>1. LedgerInv => NothingLeaks
    BY DEF LedgerInv
  <1>. QED
    BY <1>1, LedgerInvariant, PTL

\* However small the pool and however many requests there are, handlers of
\* dial_check never wait for each other in a circle: whoever has the lock waits
\* for nothing, and if nobody has it, nobody with a connection waits.
THEOREM NoDeadlock == Spec => []NoCircularWait
  <1>1. LedgerInv => NoCircularWait
    <2> SUFFICES ASSUME LedgerInv, NEW r \in Requests, Waiting(r)
                 PROVE  \E q \in conns : /\ pc[q] \in InFlight \ {"replying"}
                                         /\ ~Waiting(q)
      BY DEF NoCircularWait
    <2>1. /\ \A q \in conns : pc[q] \in InFlight \ {"replying"}
          /\ writer # NoOne => writer \in conns /\ pc[writer] \in {"staged", "undo"}
      BY DEF LedgerInv, NothingLeaks
    <2>2. conns # {}
      <3>1. Cardinality({}) = 0
        BY FS_EmptySet
      <3>2. PoolSize \in Nat \ {0}
        BY DialCheckAssumption
      <3>3. conns = {} => ~(Cardinality(conns) >= PoolSize)
        BY <3>1, <3>2
      <3>. QED
        BY <3>3 DEF Waiting
    <2>3. CASE writer # NoOne
      <3>1. ~Waiting(writer)
        BY <2>1, <2>3 DEF Waiting, NeedsConnection
      <3>. QED
        BY <2>1, <2>3, <3>1
    <2>4. CASE writer = NoOne
      <3>1. PICK q \in conns : TRUE
        BY <2>2
      <3>2. ~Waiting(q)
        BY <2>4 DEF Waiting, NeedsConnection
      <3>. QED
        BY <2>1, <3>2
    <2>. QED
      BY <2>3, <2>4
  <1>. QED
    BY <1>1, LedgerInvariant, PTL

\* The only steps that touch the ledger: a commit appends to it and a power
\* failure cuts it off somewhere above the last checkpoint.
LEMMA LedgerSteps ==
    ASSUME TypeOK, [Next]_vars
    PROVE  \/ UNCHANGED ledger
           \/ \E row : ledger' = Append(ledger, row)
           \/ /\ "power" \in Faults
              /\ \E k \in synced..Len(ledger) : ledger' = SubSeq(ledger, 1, k)
  <1> USE DEF process, store, database
  <1>1. ASSUME NEW r \in Requests, Handler(r)
        PROVE  UNCHANGED ledger \/ \E row : ledger' = Append(ledger, row)
    BY <1>1 DEF Handler, LookupDnc, RejectUnknownZone, Connect, QueryWindow,
       RegistryAnswers, RegistryTimesOut, RegistryFails, GatherReturns,
       GatherRaises, Evaluated, StageRow, StageDuplicate, CommitRow, Rollback,
       Reply
  <1>2. ASSUME NEW r \in Requests, DatabaseFault(r) PROVE UNCHANGED ledger
    BY <1>2 DEF DatabaseFault, QueryRaises, CheckoutRaises, StageFails,
       CommitFails, AuditFails
  <1>. QED
    BY <1>1, <1>2 DEF Next, Startup, RejectAtConsentGate, Idle, ForkChecks, Crash,
       PowerLoss, Checkpoint, Quiescent, vars

\* No step of the gateway changes or removes a committed row, as long as the
\* machine keeps its power: rollback, retry and crash all leave it alone.
THEOREM AppendOnly ==
    ASSUME "power" \notin Faults
    PROVE  Spec => LedgerAppendOnly
  <1> DEFINE Grows == /\ Len(ledger) <= Len(ledger')
                      /\ \A i \in DOMAIN ledger : ledger'[i] = ledger[i]
  <1>1. ASSUME TypeOK, [Next]_vars PROVE Grows
    <2>1. ledger \in Seq(Row)
      BY <1>1 DEF TypeOK
    <2>2. CASE UNCHANGED ledger
      BY <2>1, <2>2
    <2>3. ASSUME NEW row, ledger' = Append(ledger, row) PROVE Grows
      BY <2>1, <2>3
    <2>. QED
      BY <1>1, <2>2, <2>3, LedgerSteps
  <1>. QED
    BY <1>1, TypeCorrect, PTL DEF Spec, LedgerAppendOnly

-----------------------------------------------------------------------------
(***************************************************************************)
(* The verdict: what it takes to be allowed.                               *)
(***************************************************************************)
\* The DNC lookup finds a number however the file writes it.
LEMMA ListedIsLoaded ==
    ASSUME NEW n \in E164USPhone, OnDncFile(n)
    PROVE  NormalizeForDnc(n) \in LoadedFrom(Len(DncFile))
  BY DEF OnDncFile, NormalizeForDnc, LoadedFrom

\* A check's result is sound when it is taken from a complete cache.
LEMMA PassedDnc ==
    ASSUME NEW n \in E164USPhone,
           ~MayMissListed => cache = LoadedFrom(Len(DncFile)),
           CheckDnc(n, cache) = Passed
    PROVE  OnDncFile(n) => MayMissListed
  BY ListedIsLoaded DEF CheckDnc, DNC, Passed

LEMMA PassedRnd ==
    ASSUME NEW p \in DialIngestion, CheckRnd(p.destination_number) = Passed
    PROVE  ~OddNumber(p)
  BY DEF CheckRnd, OddNumber, RND_REASSIGNED, Passed, DialIngestion, E164USPhone

LEMMA AllowMeansAllPassed ==
    ASSUME NEW dnc \in CheckResult, NEW tw \in CheckResult,
           NEW rnd \in CheckResult, Verdict(dnc, tw, rnd) = Allow
    PROVE  dnc = Passed /\ tw = Passed /\ rnd = Passed
  BY DEF Verdict, Allow, Block

LEMMA BlockIsNotAllow ==
    ASSUME NEW br \in BlockReasons
    PROVE  Block(br) # Allow /\ NoAnswer # Allow
  BY DEF Block, Allow, NoAnswer

LEMMA VerdictStep == IInv /\ [Next]_vars => VerdictInv'
  <1> SUFFICES ASSUME IInv, [Next]_vars PROVE VerdictInv'
    OBVIOUS
  <1> USE DEF process, store, database, IInv, LedgerInv, VerdictInv
  <1>1. CASE UNCHANGED <<up, cache, pc, payload, checks, answer>>
    BY <1>1 DEF CacheComplete, ChecksAreSound, AllowIsCompliant
  <1>2. CASE Startup
    <2>1. ~MayMissListed => cache' = LoadedFrom(Len(DncFile))
      BY <1>2 DEF Startup, LinesRead, MayMissListed
    <2>. QED
      BY <1>2, <2>1 DEF Startup, CacheComplete, ChecksAreSound, AllowIsCompliant
  <1>3. ASSUME NEW r \in Requests, NEW p \in Inputs, RejectAtConsentGate(r, p)
        PROVE  VerdictInv'
    <2>1. Block(AI_REQUIRES_PEWC) # Allow
      BY BlockIsNotAllow DEF BlockReasons
    <2>. QED
      BY <1>3, <2>1 DEF RejectAtConsentGate, Idle, CacheComplete, ChecksAreSound,
         AllowIsCompliant, TypeOK
  <1>4. ASSUME NEW r \in Requests, NEW p \in Inputs, ForkChecks(r, p)
        PROVE  VerdictInv'
    <2>1. GateOpen(p)
      BY <1>4 DEF ForkChecks, Idle, ConsentGateBlocks, GateOpen
    <2>2. checks[r] = NoChecks /\ answer[r] = NoAnswer
      BY <1>4 DEF ForkChecks, Idle, HandlerState
    <2>3. NoAnswer # Allow
      BY DEF Allow, NoAnswer
    <2>. QED
      BY <1>4, <2>1, <2>2, <2>3 DEF ForkChecks, Idle, CacheComplete, ChecksAreSound,
         AllowIsCompliant, TypeOK, NoChecks, Passed
  \* A settled check keeps ChecksAreSound if its own result is sound.
  <1>5. ASSUME NEW r \in Requests, pc[r] = "gather",
               NEW c \in {"dnc", "tw", "rnd"}, NEW res, Settle(r, c, res),
               c = "dnc" /\ res = Passed =>
                  (OnDncFile(payload[r].destination_number) => MayMissListed),
               c = "tw" /\ res = Passed => WindowOf(payload[r]) = Passed,
               c = "rnd" /\ res = Passed => ~OddNumber(payload[r]),
               UNCHANGED <<process, pc, payload, answer>>
        PROVE  VerdictInv'
    <2>1. /\ \A q \in Requests \ {r} : checks'[q] = checks[q]
          /\ \A d \in {"dnc", "tw", "rnd"} :
                checks'[r][d] = IF d = c THEN res ELSE checks[r][d]
      BY <1>5 DEF Settle, TypeOK, CheckRecord
    <2>2. ChecksAreSound'
      BY <1>5, <2>1 DEF ChecksAreSound, WindowOf, MayMissListed
    <2>. QED
      BY <1>5, <2>2 DEF CacheComplete, AllowIsCompliant
  <1>6. ASSUME NEW r \in Requests, pc[r] = "gather", NEW d \in Decisions,
               NEW res, Evaluated(r, res, d),
               d = Allow => /\ checks[r].dnc = Passed
                            /\ checks[r].tw = Passed
                            /\ checks[r].rnd = Passed
        PROVE  VerdictInv'
    <2>1. AllowIsCompliant'
      BY <1>6 DEF Evaluated, AllowIsCompliant, ChecksAreSound, TypeOK,
         MayMissListed
    <2>2. ChecksAreSound'
      BY <1>6 DEF Evaluated, ChecksAreSound, TypeOK, MayMissListed
    <2>. QED
      BY <1>6, <2>1, <2>2 DEF Evaluated, CacheComplete
  \* What happens after the verdict does not touch it.
  <1>7. ASSUME NEW r \in Requests, NEW s \in PcStates \ {"gather"},
               pc' = [pc EXCEPT ![r] = s],
               UNCHANGED <<process, payload, checks, answer>>
        PROVE  VerdictInv'
    BY <1>7 DEF CacheComplete, ChecksAreSound, AllowIsCompliant, TypeOK
  <1>8. ASSUME NEW r \in Requests, Handler(r) PROVE VerdictInv'
    <2> DEFINE p == payload[r]
    <2>1. pc[r] = "gather" => /\ p \in DialIngestion
                              /\ p.destination_number \in E164USPhone
                              /\ ~MayMissListed =>
                                    cache = LoadedFrom(Len(DncFile))
      BY DEF HandlerState, InFlight, DialIngestion, CacheComplete
    <2>2. CASE LookupDnc(r)
      BY <1>5, <2>1, <2>2, PassedDnc DEF LookupDnc, Pending
    <2>3. CASE RejectUnknownZone(r)
      BY <1>5, <2>3 DEF RejectUnknownZone, Started, Pending, SYSTEM_FAULT, Passed
    <2>4. CASE Connect(r)
      BY <1>1, <2>4 DEF Connect
    <2>5. CASE QueryWindow(r)
      BY <1>5, <2>5 DEF QueryWindow, Started, Pending, WindowOf
    <2>6. CASE RegistryAnswers(r)
      BY <1>5, <2>1, <2>6, PassedRnd DEF RegistryAnswers, Started, Pending
    <2>7. CASE RegistryTimesOut(r) \/ RegistryFails(r)
      BY <1>5, <2>7 DEF RegistryTimesOut, RegistryFails, Started, Pending,
         SYSTEM_FAULT, REGISTRY_TIMEOUT, Passed
    <2>8. CASE GatherReturns(r)
      BY <1>6, <2>8, AllowMeansAllPassed, VerdictIsDecision DEF GatherReturns
    <2>9. CASE GatherRaises(r)
      BY <1>6, <2>9, BlockIsDecision, BlockIsNotAllow
         DEF GatherRaises, BlockReasons
    <2>10. CASE \/ StageRow(r) \/ StageDuplicate(r) \/ CommitRow(r)
                \/ Rollback(r) \/ Reply(r)
      BY <1>7, <2>10 DEF StageRow, StageDuplicate, CommitRow, Rollback, Reply,
         PcStates
    <2>. QED
      BY <1>8, <2>2, <2>3, <2>4, <2>5, <2>6, <2>7, <2>8, <2>9, <2>10 DEF Handler
  <1>9. ASSUME NEW r \in Requests, DatabaseFault(r) PROVE VerdictInv'
    <2>1. CASE QueryRaises(r) \/ CheckoutRaises(r)
      BY <1>5, <2>1 DEF QueryRaises, CheckoutRaises, Started, Pending, Passed
    <2>2. CASE StageFails(r) \/ CommitFails(r)
      BY <1>7, <2>2 DEF StageFails, CommitFails, AuditFails, PcStates
    <2>. QED
      BY <1>9, <2>1, <2>2 DEF DatabaseFault
  <1>10. CASE Crash \/ PowerLoss
    BY <1>10 DEF Crash, PowerLoss, Die, CacheComplete, ChecksAreSound,
       AllowIsCompliant, InFlight
  <1>11. CASE Checkpoint
    BY <1>1, <1>11 DEF Checkpoint
  <1>12. CASE UNCHANGED vars
    BY <1>1, <1>12 DEF vars
  <1>. QED
    BY <1>2, <1>3, <1>4, <1>8, <1>9, <1>10, <1>11, <1>12 DEF Next, Idle, Quiescent

\* IInv is an inductive invariant of the gateway.
THEOREM Invariant == Spec => []IInv
  <1>1. Init => VerdictInv
    BY DEF Init, VerdictInv, CacheComplete, ChecksAreSound, AllowIsCompliant,
       Allow, NoAnswer
  <1>2. IInv /\ [Next]_vars => IInv'
    BY TypeStep, HandlerStep, NothingLeaksStep, OneRowStep, VerdictStep
       DEF IInv, LedgerInv
  <1>. QED
    BY <1>1, <1>2, InitLedgerInv, PTL DEF Spec, IInv

\* The gateway never allows a call that consent, window, registry or, when
\* the list could be read, the DNC list forbids: not for any payload, in any
\* interleaving, after any fault or restart.
THEOREM NoUnlawfulAllow == Spec => []AllowIsCompliant
  <1>1. IInv => AllowIsCompliant
    BY DEF IInv, VerdictInv
  <1>. QED
    BY <1>1, Invariant, PTL

-----------------------------------------------------------------------------
(***************************************************************************)
(* How far a request has come.  With NoDeadlock this is why handlers end:  *)
(* no step takes a request back, and each of its own takes it on.          *)
(***************************************************************************)
Bit(b) == IF b THEN 1 ELSE 0

Rank(r) ==
    IF pc[r] = "idle" THEN 0
    ELSE IF pc[r] = "gather"
         THEN 1 + Bit(checks[r].dnc # "pending") + Bit(checks[r].tw # "pending")
                + Bit(checks[r].rnd # "pending") + Bit(r \in conns)
    ELSE IF pc[r] = "evaluated" THEN 6 + Bit(r \in conns)
    ELSE IF pc[r] = "staged" THEN 8
    ELSE IF pc[r] = "undo" THEN 9
    ELSE IF pc[r] = "replying" THEN 10
    ELSE 11

OwnStep(r) == Handler(r) \/ DatabaseFault(r)

Advances == \A r \in Requests : /\ Rank(r)' >= Rank(r)
                                /\ OwnStep(r) => Rank(r)' > Rank(r)

LEMMA RankBound ==
    ASSUME NEW r PROVE Rank(r) \in 0..11 /\ Rank(r)' \in 0..11
  <1>1. \A b : Bit(b) \in {0, 1}
    BY DEF Bit
  <1>. QED
    BY <1>1 DEF Rank

LEMMA SameRank ==
    ASSUME NEW q, pc'[q] = pc[q], checks'[q] = checks[q],
           q \in conns' <=> q \in conns
    PROVE  Rank(q)' = Rank(q)
  BY DEF Rank, Bit

\* A check that gather waits for has no result yet and then has one.
LEMMA SettleRises ==
    ASSUME TypeOK, NEW r \in Requests, NEW c \in {"dnc", "tw", "rnd"},
           NEW res, res # "pending",
           Pending(r, c), Settle(r, c, res), UNCHANGED <<pc, conns>>
    PROVE  /\ Rank(r)' > Rank(r)
           /\ \A q \in Requests \ {r} : Rank(q)' = Rank(q)
  <1>1. /\ \A q \in Requests \ {r} : checks'[q] = checks[q]
        /\ \A d \in {"dnc", "tw", "rnd"} :
              checks'[r][d] = IF d = c THEN res ELSE checks[r][d]
    BY DEF Settle, TypeOK, CheckRecord
  <1>2. pc[r] = "gather" /\ pc'[r] = "gather" /\ checks[r][c] = "pending"
    BY DEF Pending
  <1>3. \A b : Bit(b) \in {0, 1}
    BY DEF Bit
  <1>4. /\ Bit(checks'[r][c] # "pending") = 1
        /\ Bit(checks[r][c] # "pending") = 0
    BY <1>1, <1>2 DEF Bit
  <1>5. Rank(r)' > Rank(r)
    BY <1>1, <1>2, <1>3, <1>4 DEF Rank
  <1>. QED
    BY <1>1, <1>5, SameRank

\* A handler that moves on to a later stage, with or without its connection.
LEMMA StageRises ==
    ASSUME TypeOK, NEW r \in Requests, NEW s \in PcStates,
           pc' = [pc EXCEPT ![r] = s],
           \A q \in Requests \ {r} : /\ checks'[q] = checks[q]
                                     /\ q \in conns' <=> q \in conns,
           \/ pc[r] = "gather" /\ s = "evaluated"
           \/ pc[r] = "evaluated" /\ s \in {"staged", "undo"}
           \/ pc[r] = "staged" /\ s \in {"undo", "replying"}
           \/ pc[r] = "undo" /\ s = "replying"
           \/ pc[r] = "replying" /\ s = "done"
    PROVE  /\ Rank(r)' > Rank(r)
           /\ \A q \in Requests \ {r} : Rank(q)' = Rank(q)
  <1>1. pc'[r] = s /\ \A q \in Requests \ {r} : pc'[q] = pc[q]
    BY DEF TypeOK
  <1>2. \A b : Bit(b) \in {0, 1}
    BY DEF Bit
  <1>3. Rank(r)' > Rank(r)
    BY <1>1, <1>2 DEF Rank
  <1>. QED
    BY <1>1, <1>3, SameRank

LEMMA OwnStepRises ==
    ASSUME TypeOK, NEW r \in Requests, OwnStep(r)
    PROVE  /\ Rank(r)' > Rank(r)
           /\ \A q \in Requests \ {r} : Rank(q)' = Rank(q)
  <1> DEFINE Goal == /\ Rank(r)' > Rank(r)
                     /\ \A q \in Requests \ {r} : Rank(q)' = Rank(q)
  <1> SUFFICES Goal
    OBVIOUS
  <1> USE DEF process, store, database
  <1>1. CASE LookupDnc(r)
    BY <1>1, SettleRises DEF LookupDnc, CheckDnc, DNC, Passed
  <1>2. CASE RejectUnknownZone(r)
    BY <1>2, SettleRises DEF RejectUnknownZone, Started, SYSTEM_FAULT
  <1>3. CASE QueryWindow(r)
    <2>1. CheckTimeWindow(payload[r].destination_number,
                          payload[r].timestamp) # "pending"
      BY DEF CheckTimeWindow, STATE_WINDOW, SYSTEM_FAULT, Passed
    <2>. QED
      BY <1>3, <2>1, SettleRises DEF QueryWindow, Started
  <1>4. CASE RegistryAnswers(r)
    <2>1. CheckRnd(payload[r].destination_number) # "pending"
      BY DEF CheckRnd, RND_REASSIGNED, Passed
    <2>. QED
      BY <1>4, <2>1, SettleRises DEF RegistryAnswers, Started
  <1>5. CASE RegistryTimesOut(r) \/ RegistryFails(r)
    BY <1>5, SettleRises DEF RegistryTimesOut, RegistryFails, Started,
       REGISTRY_TIMEOUT, SYSTEM_FAULT
  <1>6. CASE QueryRaises(r) \/ CheckoutRaises(r)
    BY <1>6, SettleRises DEF QueryRaises, CheckoutRaises, Started
  <1>7. CASE Connect(r)
    <2>1. /\ pc[r] \in {"gather", "evaluated"} /\ r \notin conns
          /\ r \in conns' /\ UNCHANGED <<pc, checks>>
          /\ \A q \in Requests \ {r} : q \in conns' <=> q \in conns
      BY <1>7 DEF Connect, NeedsConnection, Started, Pending
    <2>2. \A b : Bit(b) \in {0, 1}
      BY DEF Bit
    <2>3. Bit(r \in conns') = 1 /\ Bit(r \in conns) = 0
      BY <2>1 DEF Bit
    <2>4. Rank(r)' > Rank(r)
      BY <2>1, <2>2, <2>3 DEF Rank
    <2>. QED
      BY <2>1, <2>4, SameRank
  <1>8. CASE GatherReturns(r) \/ GatherRaises(r)
    <2>1. /\ pc[r] = "gather" /\ pc' = [pc EXCEPT ![r] = "evaluated"]
          /\ UNCHANGED conns
          /\ \E res : checks' = [checks EXCEPT ![r] = res]
      BY <1>8 DEF GatherReturns, GatherRaises, Evaluated
    <2>2. \A q \in Requests \ {r} : checks'[q] = checks[q]
      BY <2>1 DEF TypeOK
    <2>. QED
      BY <2>1, <2>2, StageRises DEF PcStates
  <1>9. CASE StageRow(r) \/ StageDuplicate(r) \/ StageFails(r)
    BY <1>9, StageRises DEF StageRow, StageDuplicate, StageFails, AuditFails,
       CanInsert, PcStates
  <1>10. CASE CommitRow(r) \/ CommitFails(r)
    BY <1>10, StageRises DEF CommitRow, CommitFails, AuditFails,
       ReleaseSession, PcStates
  <1>11. CASE Rollback(r) \/ Reply(r)
    BY <1>11, StageRises DEF Rollback, Reply, ReleaseSession, PcStates
  <1>. QED
    BY <1>1, <1>2, <1>3, <1>4, <1>5, <1>6, <1>7, <1>8, <1>9, <1>10, <1>11
       DEF OwnStep, Handler, DatabaseFault

\* Every request of dial_check is handled in at most eleven steps of its own,
\* whatever the others, the faults and the restarts do in between: nobody's
\* step takes it back, and each step of its handler, a failing one included,
\* takes it further.
THEOREM StepsAdvance == Spec => [][Advances]_vars
  <1>1. ASSUME TypeOK, HandlerState, [Next]_vars PROVE Advances
    <2> SUFFICES ASSUME NEW q \in Requests PROVE Rank(q)' >= Rank(q)
      BY <1>1, OwnStepRises DEF Advances
    <2>1. Rank(q) \in 0..11 /\ Rank(q)' \in 0..11
      BY RankBound
    <2> USE DEF process, store, database
    <2>2. CASE UNCHANGED <<pc, checks, conns>>
      BY <2>1, <2>2, SameRank
    <2>3. ASSUME NEW r \in Requests, OwnStep(r) PROVE Rank(q)' >= Rank(q)
      BY <1>1, <2>1, <2>3, OwnStepRises
    <2>4. ASSUME NEW r \in Idle, NEW p \in Inputs,
                 RejectAtConsentGate(r, p) \/ ForkChecks(r, p)
          PROVE  Rank(q)' >= Rank(q)
      <3>1. /\ pc[r] = "idle" /\ UNCHANGED <<checks, conns>>
            /\ \A s \in Requests \ {r} : pc'[s] = pc[s]
        BY <1>1, <2>4 DEF RejectAtConsentGate, ForkChecks, Idle, TypeOK
      <3>2. CASE q = r
        BY <2>1, <3>1, <3>2 DEF Rank
      <3>3. CASE q # r
        BY <2>1, <3>1, <3>3, SameRank
      <3>. QED
        BY <3>2, <3>3
    <2>5. CASE Crash \/ PowerLoss
      <3>1. pc'[q] = IF pc[q] \in InFlight THEN "lost" ELSE pc[q]
        BY <2>5 DEF Crash, PowerLoss, Die
      <3>2. CASE pc[q] \in InFlight
        <4>1. Rank(q)' = 11
          BY <3>1, <3>2 DEF Rank
        <4>. QED
          BY <2>1, <4>1
      <3>3. CASE pc[q] \notin InFlight
        <4>1. Rank(q)' = Rank(q)
          BY <1>1, <3>1, <3>3 DEF Rank, InFlight, TypeOK, PcStates
        <4>. QED
          BY <2>1, <4>1
      <3>. QED
        BY <3>2, <3>3
    <2>6. CASE Startup \/ Checkpoint \/ UNCHANGED vars
      BY <2>2, <2>6 DEF Startup, Checkpoint, vars
    <2>. QED
      BY <1>1, <2>3, <2>4, <2>5, <2>6 DEF Next, OwnStep, Quiescent
  <1>2. Init => TypeOK /\ HandlerState
    BY InitTyped
  <1>3. TypeOK /\ HandlerState /\ [Next]_vars => (TypeOK /\ HandlerState)'
    BY TypeStep, HandlerStep
  <1>. QED
    BY <1>1, <1>2, <1>3, PTL DEF Spec

=============================================================================
