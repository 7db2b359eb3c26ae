---------------------------- MODULE DecisionProofs ----------------------------
(***************************************************************************)
(* Proofs about the decisions of DialCheck, the reason of a BLOCK and the  *)
(* answer a retry gets, and about the rows of the ledger they end up in.   *)
(***************************************************************************)
EXTENDS DialCheckProofs

\* Nothing is in the cache that is not in the file.
CacheIsListed == cache \subseteq LoadedFrom(Len(DncFile))

\* Every result of a gathered check is the one the payload calls for, unless
\* the check ended in a way its code has a path for.
ResultsAreTrue ==
    \A r \in Requests : pc[r] = "gather" =>
        LET p == payload[r] IN
        /\ p \in Inputs
        /\ checks[r].dnc \in {"pending", Passed, DNC}
        /\ checks[r].dnc = DNC => OnDncFile(p.destination_number)
        /\ checks[r].tw \in {"pending", "raised", WindowOf(p)}
        /\ checks[r].rnd \in {"pending", CheckRnd(p.destination_number),
                              REGISTRY_TIMEOUT, SYSTEM_FAULT}

\* A decision is about a payload that was sent.
AnswersInputs == \A r \in Requests : answer[r] # NoAnswer => payload[r] \in Inputs

\* Inductive together with IInv.
DecisionInv == CacheIsListed /\ ResultsAreTrue /\ AnswersInputs /\ BlockIsJustified

-----------------------------------------------------------------------------
(***************************************************************************)
(* The checks, one by one.                                                 *)
(***************************************************************************)
LEMMA LoadedIsListed ==
    ASSUME NEW n \in E164USPhone, NormalizeForDnc(n) \in LoadedFrom(Len(DncFile))
    PROVE  OnDncFile(n)
  BY DEF OnDncFile, NormalizeForDnc, LoadedFrom

LEMMA LoadedGrows ==
    ASSUME NEW k \in LinesRead
    PROVE  LoadedFrom(k) \subseteq LoadedFrom(Len(DncFile))
  <1>1. DncFile \in Seq(Phone \cup {BlankLine})
    BY DialCheckAssumption
  <1>2. k \in 0..Len(DncFile)
    BY <1>1 DEF LinesRead
  <1>3. 2..k \subseteq 2..Len(DncFile)
    BY <1>1, <1>2
  <1>. QED
    BY <1>3 DEF LoadedFrom

LEMMA DncResult ==
    ASSUME NEW n \in E164USPhone, CacheIsListed
    PROVE  /\ CheckDnc(n, cache) \in {Passed, DNC}
           /\ CheckDnc(n, cache) = DNC => OnDncFile(n)
  BY LoadedIsListed DEF CheckDnc, CacheIsListed, DNC, Passed

LEMMA WindowResult ==
    ASSUME NEW p
    PROVE  WindowOf(p) \in {Passed, STATE_WINDOW, SYSTEM_FAULT}
  BY DEF WindowOf, CheckTimeWindow

LEMMA RndResult ==
    ASSUME NEW p \in DialIngestion
    PROVE  /\ CheckRnd(p.destination_number) \in {Passed, RND_REASSIGNED}
           /\ CheckRnd(p.destination_number) = RND_REASSIGNED => OddNumber(p)
  BY DEF CheckRnd, OddNumber, RND_REASSIGNED, Passed, DialIngestion, E164USPhone

LEMMA InitDecision == Init => DecisionInv
  BY DEF Init, DecisionInv, CacheIsListed, ResultsAreTrue, AnswersInputs,
     BlockIsJustified, NoAnswer

-----------------------------------------------------------------------------
\* What BlockIsJustified says of one decision.
Justified(p, c, a) ==
    LET br        == a.block_reason
        raised    == c.tw = "raised"
        NotListed == OnDncFile(p.destination_number) => MayMissListed
    IN  a.decision = "BLOCK" =>
            /\ (br = AI_REQUIRES_PEWC) <=> ~GateOpen(p)
            /\ raised => br = SYSTEM_FAULT
            /\ br = DNC => OnDncFile(p.destination_number)
            /\ br = STATE_WINDOW => NotListed /\ WindowOf(p) = STATE_WINDOW
            /\ br = RND_REASSIGNED =>
                  NotListed /\ WindowOf(p) = Passed /\ OddNumber(p)
            /\ br = REGISTRY_TIMEOUT =>
                  /\ NotListed /\ WindowOf(p) = Passed
                  /\ c.rnd = REGISTRY_TIMEOUT
            /\ br = SYSTEM_FAULT /\ ~raised =>
                  /\ NotListed
                  /\ \/ WindowOf(p) = SYSTEM_FAULT
                     \/ WindowOf(p) = Passed /\ c.rnd = SYSTEM_FAULT

LEMMA JustifiedAll ==
    BlockIsJustified <=>
        \A r \in Requests : Justified(payload[r], checks[r], answer[r])
  BY DEF BlockIsJustified, Justified

\* The verdict over three true results is justified: its reason is true, and
\* every check that ranks higher had passed.
LEMMA VerdictJustified ==
    ASSUME NEW r \in Requests, pc[r] = "gather", IInv, DecisionInv,
           \A c \in {"dnc", "tw", "rnd"} : checks[r][c] \in CheckResult
    PROVE  Justified(payload[r], checks[r],
                     Verdict(checks[r].dnc, checks[r].tw, checks[r].rnd))
  <1> DEFINE p == payload[r]
             dnc == checks[r].dnc
             tw == checks[r].tw
             rnd == checks[r].rnd
  <1> USE DEF DNC, STATE_WINDOW, AI_REQUIRES_PEWC, RND_REASSIGNED,
              REGISTRY_TIMEOUT, SYSTEM_FAULT, Passed
  <1>1. p \in DialIngestion
    BY DialCheckAssumption DEF DecisionInv, ResultsAreTrue
  <1>2. /\ GateOpen(p)
        /\ dnc = Passed => (OnDncFile(p.destination_number) => MayMissListed)
    BY DEF IInv, VerdictInv, ChecksAreSound
  <1>3. /\ dnc \in {Passed, DNC}
        /\ dnc = DNC => OnDncFile(p.destination_number)
        /\ tw = WindowOf(p)
        /\ rnd \in {CheckRnd(p.destination_number), REGISTRY_TIMEOUT, SYSTEM_FAULT}
    BY DEF DecisionInv, ResultsAreTrue, CheckResult, BlockReasons
  <1>4. tw \in {Passed, STATE_WINDOW, SYSTEM_FAULT}
    BY <1>3, WindowResult
  <1>5. CASE dnc # Passed
    BY <1>2, <1>3, <1>4, <1>5 DEF Verdict, Block, Justified
  <1>6. CASE dnc = Passed /\ tw # Passed
    BY <1>2, <1>3, <1>4, <1>6 DEF Verdict, Block, Justified
  <1>7. CASE dnc = Passed /\ tw = Passed /\ rnd # Passed
    BY <1>1, <1>2, <1>3, <1>7, RndResult DEF Verdict, Block, Justified
  <1>8. CASE dnc = Passed /\ tw = Passed /\ rnd = Passed
    BY <1>8 DEF Verdict, Allow, Justified
  <1>. QED
    BY <1>5, <1>6, <1>7, <1>8

LEMMA DecisionStep == IInv /\ DecisionInv /\ [Next]_vars => DecisionInv'
  <1> SUFFICES ASSUME IInv, DecisionInv, [Next]_vars PROVE DecisionInv'
    OBVIOUS
  <1> USE DEF process, store, database
  <1>0. /\ TypeOK /\ HandlerState
        /\ CacheIsListed /\ ResultsAreTrue /\ AnswersInputs
        /\ \A r \in Requests : Justified(payload[r], checks[r], answer[r])
    BY JustifiedAll DEF IInv, LedgerInv, DecisionInv
  <1>suffices. ASSUME CacheIsListed', ResultsAreTrue', AnswersInputs',
                      \A r \in Requests :
                         Justified(payload'[r], checks'[r], answer'[r])
               PROVE  DecisionInv'
    <2>1. BlockIsJustified'
      BY <1>suffices DEF BlockIsJustified, Justified
    <2>. QED
      BY <1>suffices, <2>1 DEF DecisionInv
  <1>1. CASE UNCHANGED <<cache, pc, payload, checks, answer>>
    BY <1>0, <1>1, <1>suffices DEF CacheIsListed, ResultsAreTrue, AnswersInputs
  <1>2. CASE Startup
    <2>1. CacheIsListed'
      BY <1>2, LoadedGrows DEF Startup, CacheIsListed
    <2>. QED
      BY <1>0, <1>2, <1>suffices, <2>1 DEF Startup, ResultsAreTrue, AnswersInputs
  \* A result that is true keeps ResultsAreTrue.
  <1>3. ASSUME NEW r \in Requests, pc[r] = "gather",
               NEW c \in {"dnc", "tw", "rnd"}, NEW res, Settle(r, c, res),
               c = "dnc" => /\ res \in {Passed, DNC}
                            /\ res = DNC => OnDncFile(payload[r].destination_number),
               c = "tw" => res \in {"raised", WindowOf(payload[r])},
               c = "rnd" => res \in {CheckRnd(payload[r].destination_number),
                                     REGISTRY_TIMEOUT, SYSTEM_FAULT},
               UNCHANGED <<cache, pc, payload, answer>>
        PROVE  DecisionInv'
    <2>1. /\ \A q \in Requests \ {r} : checks'[q] = checks[q]
          /\ \A d \in {"dnc", "tw", "rnd"} :
                checks'[r][d] = IF d = c THEN res ELSE checks[r][d]
      BY <1>0, <1>3 DEF Settle, TypeOK, CheckRecord
    <2>2. WindowOf(payload[r]) # "raised"
      BY WindowResult DEF Passed, STATE_WINDOW, SYSTEM_FAULT
    <2>3. ASSUME NEW q \in Requests \ {r}
          PROVE  checks'[q] = checks[q] /\ payload'[q] = payload[q] /\ pc'[q] = pc[q]
      BY <1>3, <2>1
    <2>4. ResultsAreTrue'
      BY <1>0, <1>3, <2>1, <2>2, <2>3 DEF ResultsAreTrue, WindowOf
    \* Nothing is decided while gather() waits.
    <2>5. ASSUME NEW q \in Requests
          PROVE  Justified(payload'[q], checks'[q], answer'[q])
      <3>1. CASE q = r
        <4>1. answer'[r].decision # "BLOCK"
          BY <1>0, <1>3 DEF HandlerState, NoAnswer
        <4>. QED
          BY <3>1, <4>1 DEF Justified
      <3>. QED
        BY <1>0, <1>3, <2>3, <3>1
    <2>. QED
      BY <1>0, <1>3, <1>suffices, <2>4, <2>5 DEF CacheIsListed, AnswersInputs
  \* A decision that is justified keeps the rest.
  <1>4. ASSUME NEW r \in Requests, NEW p \in Inputs, NEW d \in Decisions,
               Justified(p, checks'[r], d),
               payload' = [payload EXCEPT ![r] = p],
               answer' = [answer EXCEPT ![r] = d],
               pc' = [pc EXCEPT ![r] = "evaluated"],
               \A q \in Requests \ {r} : checks'[q] = checks[q],
               UNCHANGED cache
        PROVE  DecisionInv'
    <2>1. \A q \in Requests : /\ payload'[q] = IF q = r THEN p ELSE payload[q]
                              /\ answer'[q] = IF q = r THEN d ELSE answer[q]
                              /\ pc'[q] = IF q = r THEN "evaluated" ELSE pc[q]
      BY <1>0, <1>4 DEF TypeOK
    <2>2. ResultsAreTrue'
      BY <1>0, <1>4, <2>1 DEF ResultsAreTrue, WindowOf
    <2>3. AnswersInputs'
      BY <1>0, <1>4, <2>1 DEF AnswersInputs
    <2>4. \A q \in Requests : Justified(payload'[q], checks'[q], answer'[q])
      BY <1>0, <1>4, <2>1
    <2>. QED
      BY <1>0, <1>4, <1>suffices, <2>2, <2>3, <2>4 DEF CacheIsListed
  \* What happens after the verdict does not touch it.
  <1>5. ASSUME NEW r \in Requests, NEW s \in PcStates \ {"gather"},
               pc' = [pc EXCEPT ![r] = s],
               UNCHANGED <<cache, payload, checks, answer>>
        PROVE  DecisionInv'
    <2>1. ResultsAreTrue'
      BY <1>0, <1>5 DEF ResultsAreTrue, TypeOK
    <2>. QED
      BY <1>0, <1>5, <1>suffices, <2>1 DEF CacheIsListed, AnswersInputs
  <1>6. ASSUME NEW r \in Requests, NEW p \in Inputs, RejectAtConsentGate(r, p)
        PROVE  DecisionInv'
    <2>1. checks'[r] = NoChecks /\ UNCHANGED checks
      BY <1>0, <1>6 DEF RejectAtConsentGate, Idle, HandlerState
    <2>3. Justified(p, checks'[r], Block(AI_REQUIRES_PEWC))
      BY <1>6, <2>1 DEF RejectAtConsentGate, ConsentGateBlocks, GateOpen, Justified,
         NoChecks, Block, DNC, STATE_WINDOW, AI_REQUIRES_PEWC, RND_REASSIGNED,
         REGISTRY_TIMEOUT, SYSTEM_FAULT
    <2>2. Block(AI_REQUIRES_PEWC) \in Decisions
      BY BlockIsDecision DEF BlockReasons
    <2>. QED
      BY <1>4, <1>6, <2>1, <2>2, <2>3 DEF RejectAtConsentGate, Idle
  <1>7. ASSUME NEW r \in Requests, NEW p \in Inputs, ForkChecks(r, p)
        PROVE  DecisionInv'
    <2>1. /\ checks[r] = NoChecks /\ answer[r] = NoAnswer
          /\ \A q \in Requests : /\ payload'[q] = IF q = r THEN p ELSE payload[q]
                                 /\ pc'[q] = IF q = r THEN "gather" ELSE pc[q]
          /\ UNCHANGED <<cache, checks, answer>>
      BY <1>0, <1>7 DEF ForkChecks, Idle, HandlerState, TypeOK
    <2>2. ResultsAreTrue'
      BY <1>0, <2>1 DEF ResultsAreTrue, NoChecks, WindowOf, DNC
    <2>3. Justified(p, checks[r], NoAnswer)
      BY DEF Justified, NoAnswer
    <2>. QED
      BY <1>0, <1>suffices, <2>1, <2>2, <2>3 DEF CacheIsListed, AnswersInputs
  <1>8. ASSUME NEW r \in Requests, Handler(r) PROVE DecisionInv'
    <2> DEFINE p == payload[r]
    <2>1. pc[r] = "gather" => /\ p \in Inputs
                              /\ p \in DialIngestion
                              /\ p.destination_number \in E164USPhone
      BY <1>0, DialCheckAssumption DEF ResultsAreTrue, DialIngestion
    <2>2. CASE LookupDnc(r)
      BY <1>0, <1>3, <2>1, <2>2, DncResult DEF LookupDnc, Pending
    <2>3. CASE RejectUnknownZone(r)
      <3>1. WindowOf(p) = SYSTEM_FAULT
        BY <2>3 DEF RejectUnknownZone, WindowOf, CheckTimeWindow
      <3>. QED
        BY <1>3, <2>3, <3>1 DEF RejectUnknownZone, Started, Pending
    <2>4. CASE Connect(r)
      BY <1>1, <2>4 DEF Connect
    <2>5. CASE QueryWindow(r)
      BY <1>3, <2>5 DEF QueryWindow, Started, Pending, WindowOf
    <2>6. CASE RegistryAnswers(r) \/ RegistryTimesOut(r) \/ RegistryFails(r)
      BY <1>3, <2>6 DEF RegistryAnswers, RegistryTimesOut, RegistryFails,
         Started, Pending
    <2>7. ASSUME NEW d \in Decisions, pc[r] = "gather",
                 NEW res, Evaluated(r, res, d), Justified(p, res, d)
          PROVE  DecisionInv'
      <3>1. payload' = [payload EXCEPT ![r] = p]
        BY <1>0, <2>7 DEF Evaluated, TypeOK
      <3>2. /\ \A q \in Requests \ {r} : checks'[q] = checks[q]
            /\ checks'[r] = res
        BY <1>0, <2>7 DEF Evaluated, TypeOK
      <3>. QED
        BY <1>4, <2>1, <2>7, <3>1, <3>2 DEF Evaluated
    <2>8. CASE GatherReturns(r)
      BY <2>7, <2>8, VerdictIsDecision, VerdictJustified DEF GatherReturns
    <2>9. CASE GatherRaises(r)
      <3>1. GateOpen(p)
        BY <2>9 DEF GatherRaises, IInv, VerdictInv, ChecksAreSound
      <3>2. Justified(p, Raised, Block(SYSTEM_FAULT))
        BY <3>1 DEF Justified, Raised, NoChecks, Block, DNC, STATE_WINDOW, AI_REQUIRES_PEWC,
           RND_REASSIGNED, REGISTRY_TIMEOUT, SYSTEM_FAULT
      <3>. QED
        BY <2>7, <2>9, <3>2, BlockIsDecision DEF GatherRaises, BlockReasons
    <2>10. CASE \/ StageRow(r) \/ StageDuplicate(r) \/ CommitRow(r)
                \/ Rollback(r) \/ Reply(r)
      BY <1>5, <2>10 DEF StageRow, StageDuplicate, CommitRow, Rollback, Reply,
         PcStates
    <2>. QED
      BY <1>8, <2>2, <2>3, <2>4, <2>5, <2>6, <2>8, <2>9, <2>10 DEF Handler
  <1>9. ASSUME NEW r \in Requests, DatabaseFault(r) PROVE DecisionInv'
    <2>1. CASE QueryRaises(r) \/ CheckoutRaises(r)
      BY <1>3, <2>1 DEF QueryRaises, CheckoutRaises, Started, Pending
    <2>2. CASE StageFails(r) \/ CommitFails(r)
      BY <1>5, <2>2 DEF StageFails, CommitFails, AuditFails, PcStates
    <2>. QED
      BY <1>9, <2>1, <2>2 DEF DatabaseFault
  <1>10. CASE Crash \/ PowerLoss
    <2>1. /\ cache' = {} /\ UNCHANGED <<payload, answer>>
          /\ \A q \in Requests : pc'[q] # "gather"
      BY <1>10 DEF Crash, PowerLoss, Die, InFlight
    <2>2. ASSUME NEW q \in Requests
          PROVE  Justified(payload'[q], checks'[q], answer'[q])
      <3>1. CASE pc[q] = "gather"
        <4>1. answer'[q].decision # "BLOCK"
          BY <1>0, <2>1, <3>1 DEF HandlerState, NoAnswer
        <4>. QED
          BY <4>1 DEF Justified
      <3>2. CASE pc[q] # "gather"
        BY <1>0, <1>10, <2>1, <3>2 DEF Crash, PowerLoss, Die
      <3>. QED
        BY <3>1, <3>2
    <2>. QED
      BY <1>0, <1>suffices, <2>1, <2>2 DEF CacheIsListed, ResultsAreTrue, AnswersInputs
  <1>. QED
    BY <1>1, <1>2, <1>6, <1>7, <1>8, <1>9, <1>10
       DEF Next, Idle, Checkpoint, Quiescent, vars

LEMMA DecisionInvariant == Spec => []DecisionInv
  BY InitDecision, DecisionStep, Invariant, PTL DEF Spec

-----------------------------------------------------------------------------
\* The reason of every BLOCK is true of its payload, and every rule that comes
\* before it in the fixed order had passed, in whatever order the gathered
\* checks finish: a timeout and a system fault are ranked like a broken rule,
\* except the fault of a rule query that raised, which is always the reason.
THEOREM TrueReasons == Spec => []BlockIsJustified
  <1>1. DecisionInv => BlockIsJustified
    BY DEF DecisionInv
  <1>. QED
    BY <1>1, DecisionInvariant, PTL

\* Two definitive decisions about one payload are the same: whichever rule
\* the payload breaks first is the same for both.
THEOREM RetriesAgree == Spec => []RetryAgrees
  <1>1. IInv /\ DecisionInv => RetryAgrees
    <2> SUFFICES ASSUME IInv, DecisionInv,
                        NEW q \in Requests, NEW r \in Requests,
                        payload[q] = payload[r], ~MayMissListed,
                        Definitive(answer[q]), Definitive(answer[r])
                 PROVE  answer[q] = answer[r]
      BY DEF RetryAgrees
    <2> DEFINE p == payload[r]
               Rule(a) == a = Allow \/ \E br \in {DNC, STATE_WINDOW,
                              AI_REQUIRES_PEWC, RND_REASSIGNED} : a = Block(br)
    <2> USE DEF DNC, STATE_WINDOW, AI_REQUIRES_PEWC, RND_REASSIGNED,
                REGISTRY_TIMEOUT, SYSTEM_FAULT, Passed
    <2>1. ASSUME NEW s \in {q, r}
          PROVE  /\ Rule(answer[s])
                 /\ \E c : Justified(p, c, answer[s])
                 /\ answer[s] = Allow => /\ GateOpen(p)
                                         /\ WindowOf(p) = Passed
                                         /\ ~OddNumber(p)
                                         /\ ~OnDncFile(p.destination_number)
      <3>1. answer[s] \in Decisions
        BY DEF IInv, LedgerInv, TypeOK, Answers, Definitive
      <3>2. Rule(answer[s])
        BY <3>1 DEF Decisions, BlockReasons, Definitive, Block
      <3>3. Justified(p, checks[s], answer[s])
        BY JustifiedAll DEF DecisionInv
      <3>4. answer[s] = Allow => /\ GateOpen(p)
                                 /\ WindowOf(p) = Passed
                                 /\ ~OddNumber(p)
                                 /\ ~OnDncFile(p.destination_number)
        BY DEF IInv, VerdictInv, AllowIsCompliant
      <3>. QED
        BY <3>2, <3>3, <3>4
    <2>. QED
      BY <2>1 DEF Justified, Allow, Block
  <1>. QED
    BY <1>1, Invariant, DecisionInvariant, PTL

-----------------------------------------------------------------------------
(***************************************************************************)
(* The audit trail: the rows of the ledger and the handlers' idea of what  *)
(* became of their own.                                                    *)
(***************************************************************************)
\* When a handler knows what became of its audit write.
OutcomeKnown ==
    \A r \in Requests :
        /\ pc[r] \in {"idle", "gather", "evaluated", "staged"} =>
              audit[r] = "unwritten"
        /\ pc[r] \in {"undo", "replying", "done"} => audit[r] # "unwritten"

\* Inductive together with IInv.
AuditInv == OutcomeKnown /\ RowsAreGenuine /\ AuditOutcomeHonest

\* A row that append_audit_record has built verifies.
LEMMA FreshRowVerifies ==
    ASSUME NEW p, NEW a
    PROVE  VerifyRecordHash(RowFor(p, a), p.timestamp)
  BY DEF VerifyRecordHash, RowFor, RecordHash

LEMMA InitAudit == Init => AuditInv
  BY DEF Init, AuditInv, OutcomeKnown, RowsAreGenuine, AuditOutcomeHonest

-----------------------------------------------------------------------------
(***************************************************************************)
(* A step keeps AuditInv.  The argument goes by what the step does to the  *)
(* trail: nothing, moving a handler that has not written yet, learning     *)
(* that a write has failed, or committing a row.                           *)
(***************************************************************************)
LEMMA AuditStep == IInv /\ AuditInv /\ [Next]_vars => AuditInv'
  <1> SUFFICES ASSUME IInv, AuditInv, [Next]_vars PROVE AuditInv'
    OBVIOUS
  <1> USE DEF process, store, database, IInv, LedgerInv, AuditInv
  <1>1. CASE UNCHANGED <<ledger, pc, payload, answer, audit>>
    BY <1>1 DEF OutcomeKnown, RowsAreGenuine, AuditOutcomeHonest, Recorded
  \* A handler on its way to the audit write.
  <1>2. ASSUME NEW r \in Requests, NEW s \in {"gather", "evaluated", "staged"},
               audit[r] = "unwritten",
               pc' = [pc EXCEPT ![r] = s], UNCHANGED <<ledger, audit>>,
               \A q \in Requests \ {r} :
                  payload'[q] = payload[q] /\ answer'[q] = answer[q]
        PROVE  AuditInv'
    <2>1. OutcomeKnown'
      BY <1>2 DEF OutcomeKnown, TypeOK
    <2>2. \A q \in Requests : audit[q] = "recorded" =>
             payload'[q] = payload[q] /\ answer'[q] = answer[q]
      BY <1>2
    <2>3. RowsAreGenuine'
      BY <1>2, <2>2 DEF RowsAreGenuine, Recorded
    <2>4. AuditOutcomeHonest'
      <3>1. \A q \in Requests : pc'[q] = "done" => q # r /\ pc[q] = "done"
        BY <1>2 DEF TypeOK
      <3> SUFFICES ASSUME NEW q \in Requests
                   PROVE  /\ audit[q] = "recorded" =>
                                "power" \in Faults \/
                                \E i \in DOMAIN ledger : ledger[i] = Recorded(q)'
                          /\ audit[q] = "duplicate" =>
                                \E o \in Requests \ {q} :
                                   /\ audit[o] = "recorded"
                                   /\ payload'[o].call_id = payload'[q].call_id
                          /\ audit[q] = "failed" =>
                                Faults \cap {"pool", "lock", "db"} # {}
                          /\ pc'[q] = "done" => audit[q] # "unwritten"
        BY <1>2 DEF AuditOutcomeHonest
      <3>2. CASE audit[q] = "recorded"
        BY <1>2, <2>2, <3>2 DEF AuditOutcomeHonest, Recorded
      <3>3. CASE audit[q] = "duplicate"
        BY <1>2, <2>2, <3>3 DEF AuditOutcomeHonest
      <3>4. CASE audit[q] \notin {"recorded", "duplicate"}
        BY <3>1, <3>4 DEF AuditOutcomeHonest
      <3>. QED
        BY <3>2, <3>3, <3>4
    <2>. QED
      BY <2>1, <2>3, <2>4
  \* A write that did not succeed.
  <1>3. ASSUME NEW r \in Requests, NEW a \in {"duplicate", "failed"},
               audit[r] = "unwritten",
               a = "duplicate" => HasRow(payload[r].call_id),
               a = "failed" => Faults \cap {"pool", "lock", "db"} # {},
               pc' = [pc EXCEPT ![r] = "undo"],
               audit' = [audit EXCEPT ![r] = a],
               UNCHANGED <<ledger, payload, answer>>
        PROVE  AuditInv'
    <2>1. \A q \in Requests : audit[q] = "recorded" <=> audit'[q] = "recorded"
      BY <1>3 DEF TypeOK
    <2>2. OutcomeKnown'
      BY <1>3 DEF OutcomeKnown, TypeOK
    <2>3. RowsAreGenuine'
      BY <1>3, <2>1 DEF RowsAreGenuine, Recorded
    <2>4. a = "duplicate" =>
             \E q \in Requests \ {r} : /\ audit[q] = "recorded"
                                       /\ payload[q].call_id = payload[r].call_id
      BY <1>3 DEF HasRow, RowsAreGenuine, Recorded, RowFor
    <2>5. AuditOutcomeHonest'
      BY <1>3, <2>1, <2>4 DEF AuditOutcomeHonest, Recorded, TypeOK
    <2>. QED
      BY <2>2, <2>3, <2>5
  \* A handler that has its outcome.
  <1>4. ASSUME NEW r \in Requests, NEW s \in {"replying", "done"},
               pc[r] \in {"undo", "replying"},
               pc' = [pc EXCEPT ![r] = s],
               UNCHANGED <<ledger, payload, answer, audit>>
        PROVE  AuditInv'
    <2>1. OutcomeKnown'
      BY <1>4 DEF OutcomeKnown, TypeOK
    <2>2. RowsAreGenuine'
      BY <1>4 DEF RowsAreGenuine, Recorded
    <2>3. AuditOutcomeHonest'
      BY <1>4 DEF AuditOutcomeHonest, Recorded, OutcomeKnown, TypeOK
    <2>. QED
      BY <2>1, <2>2, <2>3
  <1>5. ASSUME NEW r \in Requests, CommitRow(r) PROVE AuditInv'
    <2>1. /\ ledger \in Seq(Row)
          /\ ledger' = Append(ledger, Recorded(r))
          /\ audit' = [audit EXCEPT ![r] = "recorded"]
          /\ pc' = [pc EXCEPT ![r] = "replying"]
          /\ UNCHANGED <<payload, answer>>
          /\ audit[r] = "unwritten"
      BY <1>5 DEF CommitRow, Recorded, OutcomeKnown, TypeOK
    <2>2. OutcomeKnown'
      BY <2>1 DEF OutcomeKnown, TypeOK
    <2>3. /\ \A i \in DOMAIN ledger : i \in DOMAIN ledger' /\ ledger'[i] = ledger[i]
          /\ \A i \in DOMAIN ledger' : i \in DOMAIN ledger \/ ledger'[i] = Recorded(r)
          /\ \E i \in DOMAIN ledger' : ledger'[i] = Recorded(r)
      BY <2>1
    <2>4. \A q \in Requests : Recorded(q)' = Recorded(q)
      BY <2>1 DEF Recorded
    <2>5. \A q \in Requests :
             audit'[q] = IF q = r THEN "recorded" ELSE audit[q]
      BY <2>1 DEF TypeOK
    <2>6. RowsAreGenuine'
      <3> SUFFICES ASSUME NEW i \in DOMAIN ledger'
                   PROVE  \E q \in Requests :
                             /\ audit'[q] = "recorded"
                             /\ ledger'[i] = Recorded(q)'
                             /\ VerifyRecordHash(ledger'[i], payload'[q].timestamp)
        BY DEF RowsAreGenuine
      <3>1. CASE i \in DOMAIN ledger
        BY <2>1, <2>3, <2>4, <2>5, <3>1 DEF RowsAreGenuine
      <3>2. CASE ledger'[i] = Recorded(r)
        <4>1. VerifyRecordHash(Recorded(r), payload[r].timestamp)
          BY FreshRowVerifies DEF Recorded
        <4>. QED
          BY <2>1, <2>4, <2>5, <3>2, <4>1
      <3>. QED
        BY <2>3, <3>1, <3>2
    <2>7. AuditOutcomeHonest'
      <3> SUFFICES ASSUME NEW q \in Requests
                   PROVE  /\ audit'[q] = "recorded" =>
                                \/ "power" \in Faults
                                \/ \E i \in DOMAIN ledger' : ledger'[i] = Recorded(q)'
                          /\ audit'[q] = "duplicate" =>
                                \E s \in Requests \ {q} :
                                   /\ audit'[s] = "recorded"
                                   /\ payload'[s].call_id = payload'[q].call_id
                          /\ audit'[q] = "failed" =>
                                Faults \cap {"pool", "lock", "db"} # {}
                          /\ pc'[q] = "done" => audit'[q] # "unwritten"
        BY DEF AuditOutcomeHonest
      <3>1. audit'[q] = "recorded" =>
               \/ "power" \in Faults
               \/ \E i \in DOMAIN ledger' : ledger'[i] = Recorded(q)'
        BY <2>3, <2>4, <2>5 DEF AuditOutcomeHonest
      <3>2. audit'[q] = "duplicate" =>
               \E s \in Requests \ {q} :
                  /\ audit'[s] = "recorded"
                  /\ payload'[s].call_id = payload'[q].call_id
        BY <2>1, <2>5 DEF AuditOutcomeHonest
      <3>. QED
        BY <2>1, <2>5, <3>1, <3>2 DEF AuditOutcomeHonest, TypeOK
    <2>. QED
      BY <2>2, <2>6, <2>7
  \* A crash keeps every outcome, a power failure takes the latest rows.
  <1>6. CASE Crash \/ PowerLoss
    <2>1. /\ UNCHANGED <<payload, answer, audit>>
          /\ \A q \in Requests : pc'[q] = IF pc[q] \in InFlight THEN "lost" ELSE pc[q]
      BY <1>6 DEF Crash, PowerLoss, Die
    <2>2. \A i \in DOMAIN ledger' : i \in DOMAIN ledger /\ ledger'[i] = ledger[i]
      <3>1. CASE Crash
        BY <3>1 DEF Crash
      <3>2. CASE PowerLoss
        <4>1. PICK k \in synced..Len(ledger) : ledger' = SubSeq(ledger, 1, k)
          BY <3>2 DEF PowerLoss
        <4>. QED
          BY <4>1, SubSeqProperties DEF TypeOK
      <3>. QED
        BY <1>6, <3>1, <3>2
    <2>3. UNCHANGED ledger \/ "power" \in Faults
      BY <1>6 DEF Crash, PowerLoss
    <2>4. OutcomeKnown'
      BY <2>1 DEF OutcomeKnown, InFlight, TypeOK
    <2>5. RowsAreGenuine'
      BY <2>1, <2>2 DEF RowsAreGenuine, Recorded
    <2>6. AuditOutcomeHonest'
      BY <2>1, <2>3 DEF AuditOutcomeHonest, Recorded, InFlight, TypeOK
    <2>. QED
      BY <2>4, <2>5, <2>6
  <1>7. ASSUME NEW r \in Requests, NEW p \in Inputs,
               RejectAtConsentGate(r, p) \/ ForkChecks(r, p)
        PROVE  AuditInv'
    <2>1. /\ audit[r] = "unwritten"
          /\ \A q \in Requests \ {r} :
                payload'[q] = payload[q] /\ answer'[q] = answer[q]
      BY <1>7 DEF RejectAtConsentGate, ForkChecks, Idle, OutcomeKnown, TypeOK
    <2>. QED
      BY <1>2, <1>7, <2>1 DEF RejectAtConsentGate, ForkChecks, Idle
  <1>8. ASSUME NEW r \in Requests, Handler(r) PROVE AuditInv'
    <2>1. CASE \/ LookupDnc(r) \/ RejectUnknownZone(r) \/ Connect(r)
               \/ QueryWindow(r) \/ RegistryAnswers(r) \/ RegistryTimesOut(r)
               \/ RegistryFails(r)
      BY <1>1, <2>1 DEF LookupDnc, RejectUnknownZone, Connect, QueryWindow,
         RegistryAnswers, RegistryTimesOut, RegistryFails
    <2>2. CASE GatherReturns(r) \/ GatherRaises(r) \/ StageRow(r)
      <3>1. /\ audit[r] = "unwritten"
            /\ \A q \in Requests \ {r} :
                  payload'[q] = payload[q] /\ answer'[q] = answer[q]
        BY <2>2 DEF GatherReturns, GatherRaises, StageRow, CanInsert,
           Evaluated, OutcomeKnown, TypeOK
      <3>. QED
        BY <1>2, <2>2, <3>1 DEF GatherReturns, GatherRaises, StageRow, Evaluated
    <2>3. CASE StageDuplicate(r)
      <3>1. audit[r] = "unwritten"
        BY <2>3 DEF StageDuplicate, CanInsert, OutcomeKnown
      <3>. QED
        BY <1>3, <2>3, <3>1 DEF StageDuplicate
    <2>4. CASE CommitRow(r)
      BY <1>5, <2>4
    <2>5. CASE Rollback(r) \/ Reply(r)
      BY <1>4, <2>5 DEF Rollback, Reply
    <2>. QED
      BY <1>8, <2>1, <2>2, <2>3, <2>4, <2>5 DEF Handler
  <1>9. ASSUME NEW r \in Requests, DatabaseFault(r) PROVE AuditInv'
    <2>1. CASE QueryRaises(r) \/ CheckoutRaises(r)
      BY <1>1, <2>1 DEF QueryRaises, CheckoutRaises
    <2>2. CASE StageFails(r) \/ CommitFails(r)
      <3>1. /\ audit[r] = "unwritten"
            /\ Faults \cap {"pool", "lock", "db"} # {}
            /\ AuditFails(r)
        BY <2>2 DEF StageFails, CommitFails, OutcomeKnown
      <3>. QED
        BY <1>3, <3>1 DEF AuditFails
    <2>. QED
      BY <1>9, <2>1, <2>2 DEF DatabaseFault
  <1>. QED
    BY <1>1, <1>6, <1>7, <1>8, <1>9
       DEF Next, Idle, Startup, Checkpoint, Quiescent, vars

LEMMA AuditInvariant == Spec => []AuditInv
  <1>. QED
    BY InitAudit, AuditStep, Invariant, PTL DEF Spec

-----------------------------------------------------------------------------
\* Every committed row is the row of a decision its request really took, and
\* verify_record_hash accepts it: no rollback, crash or power failure leaves
\* another.
THEOREM GenuineRows == Spec => []RowsAreGenuine
  <1>1. AuditInv => RowsAreGenuine
    BY DEF AuditInv
  <1>. QED
    BY <1>1, AuditInvariant, PTL

\* dial_check is right about its audit write: recorded, duplicate or failed,
\* it never answers before it knows, and it never blames a duplicate that is
\* not there.
THEOREM HonestOutcomes == Spec => []AuditOutcomeHonest
  <1>1. AuditInv => AuditOutcomeHonest
    BY DEF AuditInv
  <1>. QED
    BY <1>1, AuditInvariant, PTL

\* An answered call has a row under its call_id, or a fault has cost it the row
\* and the handler knows.
Accounted ==
    \A r \in Requests : pc[r] = "done" =>
        \/ HasRow(payload[r].call_id)
        \/ audit[r] = "failed" /\ Faults \cap {"pool", "lock", "db"} # {}

\* What EveryCallRecorded says of the calls that have been answered: unless
\* power may fail, the ledger of dial_check has no silent gap.
THEOREM NoSilentGap ==
    ASSUME "power" \notin Faults
    PROVE  Spec => []Accounted
  <1>1. TypeOK /\ AuditInv => Accounted
    <2> SUFFICES ASSUME TypeOK, AuditInv, NEW r \in Requests, pc[r] = "done"
                 PROVE  \/ HasRow(payload[r].call_id)
                        \/ /\ audit[r] = "failed"
                           /\ Faults \cap {"pool", "lock", "db"} # {}
      BY DEF Accounted
    <2>1. ASSUME NEW q \in Requests, audit[q] = "recorded"
          PROVE  HasRow(payload[q].call_id)
      <3>1. PICK i \in DOMAIN ledger : ledger[i] = Recorded(q)
        BY <2>1 DEF AuditInv, AuditOutcomeHonest
      <3>2. Recorded(q).call_id = payload[q].call_id
        BY DEF Recorded, RowFor
      <3>. QED
        BY <3>1, <3>2 DEF HasRow
    <2>2. audit[r] \in {"recorded", "duplicate", "failed"}
      BY DEF AuditInv, AuditOutcomeHonest, TypeOK, AuditStates
    <2>3. CASE audit[r] = "duplicate"
      BY <2>1, <2>3 DEF AuditInv, AuditOutcomeHonest
    <2>4. CASE audit[r] = "failed"
      BY <2>4 DEF AuditInv, AuditOutcomeHonest
    <2>. QED
      BY <2>1, <2>2, <2>3, <2>4
  <1>2. IInv => TypeOK
    BY DEF IInv, LedgerInv
  <1>. QED
    BY <1>1, <1>2, Invariant, AuditInvariant, PTL

=============================================================================
