---------------------------- MODULE PromiseProofs ----------------------------
(***************************************************************************)
(* Proof that DialCheck implements Gatekeeper: every step of the gateway,  *)
(* seen through the refinement mapping of Promise, is one step of          *)
(* Gatekeeper or no step at all.                                           *)
(***************************************************************************)
EXTENDS DecisionProofs

\* The rules Gatekeeper instantiates are those of the gateway.
LEMMA SameRules ==
    /\ Promise!Decisions = Decisions
    /\ Promise!Allow = Allow
    /\ Promise!NoAnswer = NoAnswer
    /\ Promise!Passed = Passed
    /\ Promise!AI_REQUIRES_PEWC = AI_REQUIRES_PEWC
    /\ Promise!DNC = DNC
    /\ Promise!STATE_WINDOW = STATE_WINDOW
    /\ Promise!RND_REASSIGNED = RND_REASSIGNED
    /\ Promise!REGISTRY_TIMEOUT = REGISTRY_TIMEOUT
    /\ Promise!SYSTEM_FAULT = SYSTEM_FAULT
    /\ \A p : Promise!ConsentGateBlocks(p) <=> ConsentGateBlocks(p)
    /\ \A n : Promise!NormalizeForDnc(n) = NormalizeForDnc(n)
    /\ \A n : Promise!CheckRnd(n) = CheckRnd(n)
    /\ \A p : Promise!Window(p) = WindowOf(p)
    /\ \A p, a : Promise!RowFor(p, a) = RowFor(p, a)
  <1> USE DEF Promise!Passed, Passed, Promise!AI_REQUIRES_PEWC, AI_REQUIRES_PEWC,
              Promise!DNC, DNC, Promise!STATE_WINDOW, STATE_WINDOW,
              Promise!RND_REASSIGNED, RND_REASSIGNED, Promise!REGISTRY_TIMEOUT,
              REGISTRY_TIMEOUT, Promise!SYSTEM_FAULT, SYSTEM_FAULT
  <1>1. Promise!Decisions = Decisions /\ Promise!Allow = Allow
    BY DEF Promise!Decisions, Decisions, Promise!Allow, Allow, Promise!Block, Block,
       Promise!BlockReasons, BlockReasons
  <1>2. Promise!NoAnswer = NoAnswer
    BY DEF Promise!NoAnswer, NoAnswer
  <1>3. ASSUME NEW p PROVE Promise!ConsentGateBlocks(p) <=> ConsentGateBlocks(p)
    BY DEF Promise!ConsentGateBlocks, ConsentGateBlocks
  <1>4. ASSUME NEW n PROVE /\ Promise!NormalizeForDnc(n) = NormalizeForDnc(n)
                           /\ Promise!CheckRnd(n) = CheckRnd(n)
    BY DEF Promise!NormalizeForDnc, NormalizeForDnc, Promise!CheckRnd, CheckRnd
  <1>5. ASSUME NEW p PROVE Promise!Window(p) = WindowOf(p)
    BY DEF Promise!Window, WindowOf, Promise!CheckTimeWindow, CheckTimeWindow,
       Promise!ZoneKnown, ZoneKnown, Promise!RuleState, RuleState,
       Promise!InWindow, InWindow, Promise!LocalTime, LocalTime,
       Promise!ResolvePhone, ResolvePhone, Promise!FEDERAL_FALLBACK,
       FEDERAL_FALLBACK, Promise!DaySeconds, DaySeconds
  <1>6. ASSUME NEW p, NEW a PROVE Promise!RowFor(p, a) = RowFor(p, a)
    BY DEF Promise!RowFor, RowFor, Promise!RecordHash, RecordHash
  <1>. QED
    BY <1>1, <1>2, <1>3, <1>4, <1>5, <1>6

-----------------------------------------------------------------------------
(***************************************************************************)
(* The decisions the gateway takes are permitted.                          *)
(***************************************************************************)
\* To be on the DNC file is to be on the abstract list.
LEMMA OnListMeansListed ==
    ASSUME NEW p \in DialIngestion
    PROVE  Promise!OnList(p) <=> OnDncFile(p.destination_number)
  <1>1. p.destination_number \in E164USPhone
    BY DEF DialIngestion
  <1>2. OnDncFile(p.destination_number) =>
           NormalizeForDnc(p.destination_number) \in LoadedFrom(Len(DncFile))
    BY <1>1, ListedIsLoaded
  <1>. QED
    BY <1>1, <1>2, LoadedIsListed, SameRules DEF Promise!OnList

\* The consent gate's block.
LEMMA GateBlockPermitted ==
    ASSUME NEW p \in DialIngestion, ConsentGateBlocks(p)
    PROVE  Block(AI_REQUIRES_PEWC) \in Promise!Permitted(p)
  <1>1. Block(AI_REQUIRES_PEWC) \in Decisions
    BY BlockIsDecision DEF BlockReasons
  <1>2. Block(AI_REQUIRES_PEWC) # Allow
    BY DEF Block, Allow
  <1>. QED
    BY <1>1, <1>2, SameRules DEF Promise!Permitted, Promise!MayBlock, Block

\* The block for an exception in gather().
LEMMA FaultBlockPermitted ==
    ASSUME NEW p \in DialIngestion, GateOpen(p)
    PROVE  Block(SYSTEM_FAULT) \in Promise!Permitted(p)
  <1>1. Block(SYSTEM_FAULT) \in Decisions
    BY BlockIsDecision DEF BlockReasons
  <1>2. Block(SYSTEM_FAULT) # Allow /\ ~ConsentGateBlocks(p)
    BY DEF Block, Allow, GateOpen, ConsentGateBlocks
  <1>. QED
    BY <1>1, <1>2, SameRules DEF Promise!Permitted, Promise!MayBlock, Block

\* The verdict over the results of the three checks.
LEMMA VerdictPermitted ==
    ASSUME NEW r \in Requests, pc[r] = "gather", IInv, DecisionInv,
           \A c \in {"dnc", "tw", "rnd"} : checks[r][c] \in CheckResult
    PROVE  Verdict(checks[r].dnc, checks[r].tw, checks[r].rnd)
             \in Promise!Permitted(payload[r])
  <1> DEFINE p == payload[r]
             d == Verdict(checks[r].dnc, checks[r].tw, checks[r].rnd)
  <1>1. p \in DialIngestion /\ d \in Decisions
    BY DialCheckAssumption, VerdictIsDecision DEF DecisionInv, ResultsAreTrue
  <1>2. GateOpen(p) /\ ~ConsentGateBlocks(p)
    BY DEF IInv, VerdictInv, ChecksAreSound, GateOpen, ConsentGateBlocks
  <1>3. CASE d = Allow
    <2>1. checks[r].dnc = Passed /\ checks[r].tw = Passed /\ checks[r].rnd = Passed
      BY <1>3, AllowMeansAllPassed
    <2>2. /\ OnDncFile(p.destination_number) => MayMissListed
          /\ WindowOf(p) = Passed
          /\ ~OddNumber(p)
      BY <2>1 DEF IInv, VerdictInv, ChecksAreSound
    <2>3. CheckRnd(p.destination_number) = Passed
      BY <1>1, <2>2, RndResult DEF CheckRnd, OddNumber
    <2>. QED
      BY <1>1, <1>2, <1>3, <2>2, <2>3, OnListMeansListed, SameRules
         DEF Promise!Permitted, Promise!MayAllow
  <1>4. CASE d # Allow
    <2>1. d.decision = "BLOCK" /\ d.block_reason \in BlockReasons
      <3> HIDE DEF d
      <3>1. PICK br \in BlockReasons : d = Block(br)
        BY <1>1, <1>4 DEF Decisions
      <3>. QED
        BY <3>1 DEF Block
    <2>2. Justified(p, checks[r], d)
      BY VerdictJustified
    <2>3. d.block_reason = RND_REASSIGNED =>
             CheckRnd(p.destination_number) = RND_REASSIGNED
      BY <1>1, <2>1, <2>2 DEF Justified, CheckRnd, OddNumber, RND_REASSIGNED,
         AI_REQUIRES_PEWC, DNC, STATE_WINDOW, REGISTRY_TIMEOUT, SYSTEM_FAULT,
         DialIngestion, E164USPhone
    <2>4. Promise!MayBlock(p, d.block_reason)
      BY <1>1, <1>2, <2>1, <2>2, <2>3, OnListMeansListed, SameRules
         DEF Promise!MayBlock, Justified, BlockReasons
    <2>. QED
      BY <1>1, <1>4, <2>4, SameRules DEF Promise!Permitted
  <1>. QED
    BY <1>3, <1>4

-----------------------------------------------------------------------------
\* A gateway that has just started has promised nothing.
LEMMA PromiseInit == Init => Promise!Init
  <1> SUFFICES ASSUME Init PROVE Promise!Init
    OBVIOUS
  <1>1. /\ {ledger[i] : i \in DOMAIN ledger} = {}
        /\ {ledger[i] : i \in 1..synced} = {}
    BY DEF Init
  <1>. QED
    BY <1>1, SameRules DEF Init, Promise!Init, AbstractPhase

\* Each step is a step of Gatekeeper or leaves what it sees unchanged.
LEMMA PromiseStep ==
    IInv /\ DecisionInv /\ [Next]_vars => [Promise!Next]_(Promise!vars)
  <1> SUFFICES ASSUME IInv, DecisionInv, [Next]_vars
               PROVE  [Promise!Next]_(Promise!vars)
    OBVIOUS
  <1> USE DEF process, store, database
  <1> DEFINE Sees(r) == AbstractPhase(pc[r])
             Call(r) == IF answer[r] = NoAnswer THEN NoPayload ELSE payload[r]
             Rows == {ledger[i] : i \in DOMAIN ledger}
             Kept == {ledger[i] : i \in 1..synced}
  <1>0. TypeOK /\ HandlerState /\ StagedIsFresh /\ NoAnswer \notin Decisions
    BY DEF IInv, LedgerInv, NoAnswer, Decisions, Allow, Block
  \* Nothing that Gatekeeper sees has changed.
  <1>1. ASSUME UNCHANGED <<ledger, synced, answer>>,
               \A r \in Requests : Sees(r)' = Sees(r) /\ Call(r)' = Call(r)
        PROVE  UNCHANGED Promise!vars
    BY <1>1 DEF Promise!vars
  <1>2. ASSUME UNCHANGED <<ledger, synced, pc, payload, answer>>
        PROVE  UNCHANGED Promise!vars
    BY <1>1, <1>2 DEF AbstractPhase
  <1>3. ASSUME NEW r \in Requests, NEW s \in PcStates,
               pc' = [pc EXCEPT ![r] = s],
               AbstractPhase(s) = AbstractPhase(pc[r]),
               UNCHANGED <<ledger, synced, payload, answer>>
        PROVE  UNCHANGED Promise!vars
    <2>1. \A q \in Requests : pc'[q] = IF q = r THEN s ELSE pc[q]
      BY <1>0, <1>3 DEF TypeOK
    <2>. QED
      BY <1>1, <1>3, <2>1
  \* A permitted decision.
  <1>4. ASSUME NEW r \in Requests, NEW p \in Inputs,
               NEW d \in Promise!Permitted(p),
               pc[r] \in {"idle", "gather"},
               pc' = [pc EXCEPT ![r] = "evaluated"],
               payload' = [payload EXCEPT ![r] = p],
               answer' = [answer EXCEPT ![r] = d],
               UNCHANGED <<ledger, synced>>
        PROVE  Promise!Next
    <2>1. d \in Decisions /\ d # NoAnswer
      BY <1>0, SameRules DEF Promise!Permitted
    <2>2. \A q \in Requests :
             /\ Sees(q)' = IF q = r THEN "decided" ELSE Sees(q)
             /\ Call(q)' = IF q = r THEN p ELSE Call(q)
      BY <1>0, <1>4, <2>1 DEF TypeOK, AbstractPhase
    <2>3. Sees(r) = "waiting"
      BY <1>4 DEF AbstractPhase
    <2>4. Promise!Decide(r, p)
      BY <1>4, <2>2, <2>3 DEF Promise!Decide
    <2>. QED
      BY <2>4 DEF Promise!Next
  <1>5. ASSUME NEW r \in Requests, NEW p \in Inputs, RejectAtConsentGate(r, p)
        PROVE  Promise!Next
    <2>1. p \in DialIngestion
      BY DialCheckAssumption
    <2>2. Block(AI_REQUIRES_PEWC) \in Promise!Permitted(p)
      BY <1>5, <2>1, GateBlockPermitted DEF RejectAtConsentGate
    <2>. QED
      BY <1>4, <1>5, <2>2 DEF RejectAtConsentGate, Idle
  \* A request that has been read but not decided is still waiting.
  <1>6. ASSUME NEW r \in Requests, NEW p \in Inputs, ForkChecks(r, p)
        PROVE  UNCHANGED Promise!vars
    <2>1. \A q \in Requests :
             /\ pc'[q] = IF q = r THEN "gather" ELSE pc[q]
             /\ payload'[q] = IF q = r THEN p ELSE payload[q]
      BY <1>0, <1>6 DEF ForkChecks, TypeOK
    <2>2. pc[r] = "idle" /\ answer[r] = NoAnswer /\ UNCHANGED <<ledger, synced, answer>>
      BY <1>0, <1>6 DEF ForkChecks, Idle, HandlerState
    <2>. QED
      BY <1>1, <2>1, <2>2 DEF AbstractPhase
  <1>7. ASSUME NEW r \in Requests, Handler(r)
        PROVE  Promise!Next \/ UNCHANGED Promise!vars
    <2>1. ASSUME NEW d \in Promise!Permitted(payload[r]), pc[r] = "gather",
                 NEW res, Evaluated(r, res, d)
          PROVE  Promise!Next
      <3>1. payload[r] \in Inputs
        BY <2>1 DEF DecisionInv, ResultsAreTrue
      <3>2. payload' = [payload EXCEPT ![r] = payload[r]]
        BY <1>0, <2>1 DEF Evaluated, TypeOK
      <3>. QED
        BY <1>4, <2>1, <3>1, <3>2 DEF Evaluated
    <2>2. CASE \/ LookupDnc(r) \/ RejectUnknownZone(r) \/ Connect(r)
               \/ QueryWindow(r) \/ RegistryAnswers(r) \/ RegistryTimesOut(r)
               \/ RegistryFails(r)
      BY <1>2, <2>2 DEF LookupDnc, RejectUnknownZone, Connect, QueryWindow,
         RegistryAnswers, RegistryTimesOut, RegistryFails
    <2>3. CASE GatherReturns(r)
      BY <2>1, <2>3, VerdictPermitted DEF GatherReturns
    <2>4. CASE GatherRaises(r)
      <3>1. payload[r] \in DialIngestion /\ GateOpen(payload[r])
        BY <2>4, DialCheckAssumption
           DEF GatherRaises, DecisionInv, ResultsAreTrue, IInv, VerdictInv,
               ChecksAreSound
      <3>. QED
        BY <2>1, <2>4, <3>1, FaultBlockPermitted DEF GatherRaises
    <2>5. CASE StageRow(r) \/ StageDuplicate(r) \/ Rollback(r)
      BY <1>3, <2>5 DEF StageRow, StageDuplicate, CanInsert, Rollback, PcStates,
         AbstractPhase
    <2>6. CASE CommitRow(r)
      <3>1. /\ pc[r] = "staged" /\ answer[r] # NoAnswer
            /\ ~HasRow(payload[r].call_id)
        BY <1>0, <2>6 DEF CommitRow, StagedIsFresh, HandlerState, InFlight
      <3>2. \A q \in Requests : Sees(q)' = Sees(q) /\ Call(q)' = Call(q)
        BY <1>0, <2>6, <3>1 DEF CommitRow, TypeOK, AbstractPhase
      <3>3. \A row \in Rows : row.call_id # Call(r).call_id
        BY <3>1 DEF HasRow
      <3>4. Rows' = Rows \cup {RowFor(Call(r), answer[r])}
        <4>1. ledger \in Seq(Row) /\ ledger' = Append(ledger, RowFor(payload[r], answer[r]))
          BY <1>0, <2>6 DEF CommitRow, TypeOK
        <4>2. /\ DOMAIN ledger' = DOMAIN ledger \cup {Len(ledger) + 1}
              /\ \A i \in DOMAIN ledger : ledger'[i] = ledger[i]
              /\ ledger'[Len(ledger) + 1] = RowFor(payload[r], answer[r])
          BY <4>1
        <4>. QED
          BY <3>1, <4>2
      <3>k. Kept' = Kept
        <4>1. /\ ledger \in Seq(Row) /\ synced \in 0..Len(ledger) /\ synced' = synced
              /\ ledger' = Append(ledger, RowFor(payload[r], answer[r]))
          BY <1>0, <2>6 DEF CommitRow, TypeOK
        <4>2. \A i \in 1..synced : ledger'[i] = ledger[i]
          BY <4>1
        <4>. QED
          BY <4>1, <4>2
      <3>5. Promise!Record(r)
        BY <2>6, <3>1, <3>2, <3>3, <3>4, <3>k, SameRules
           DEF Promise!Record, CommitRow, AbstractPhase
      <3>. QED
        BY <3>5 DEF Promise!Next
    <2>7. CASE Reply(r)
      <3>1. \A q \in Requests :
               /\ Sees(q)' = IF q = r THEN "answered" ELSE Sees(q)
               /\ Call(q)' = Call(q)
        BY <1>0, <2>7 DEF Reply, TypeOK, AbstractPhase
      <3>2. Promise!Answer(r)
        BY <2>7, <3>1 DEF Promise!Answer, Reply, AbstractPhase
      <3>. QED
        BY <3>2 DEF Promise!Next
    <2>. QED
      BY <1>7, <2>2, <2>3, <2>4, <2>5, <2>6, <2>7 DEF Handler
  <1>8. ASSUME NEW r \in Requests, DatabaseFault(r)
        PROVE  UNCHANGED Promise!vars
    <2>1. CASE QueryRaises(r) \/ CheckoutRaises(r)
      BY <1>2, <2>1 DEF QueryRaises, CheckoutRaises
    <2>2. CASE StageFails(r) \/ CommitFails(r)
      BY <1>3, <2>2 DEF StageFails, CommitFails, AuditFails, PcStates, AbstractPhase
    <2>. QED
      BY <1>8, <2>1, <2>2 DEF DatabaseFault
  \* A crash loses exactly the requests in flight.
  <1>s. PICK cut \in SUBSET Requests : cut = {r \in Requests : pc[r] \in InFlight}
    OBVIOUS
  <1>9. ASSUME Die, UNCHANGED <<payload, answer>>
        PROVE  /\ \A q \in Requests :
                     /\ Sees(q)' = IF q \in cut THEN "lost" ELSE Sees(q)
                     /\ Call(q)' = Call(q)
               /\ \A q \in cut : Sees(q) \in {"waiting", "decided"}
    BY <1>s, <1>9 DEF Die, InFlight, AbstractPhase
  <1>10. CASE Crash
    <2>1. Die /\ UNCHANGED <<ledger, synced, payload, answer>>
      BY <1>10 DEF Crash, Die
    <2>2. /\ \A q \in Requests : /\ Sees(q)' = IF q \in cut THEN "lost" ELSE Sees(q)
                                 /\ Call(q)' = Call(q)
          /\ \A q \in cut : Sees(q) \in {"waiting", "decided"}
      BY <1>9, <2>1
    <2>3. answer' = answer /\ Rows' = Rows /\ Kept' = Kept
      BY <2>1
    <2>4. Promise!Lose(cut)
      BY <2>2, <2>3 DEF Promise!Lose
    <2>. QED
      BY <2>4 DEF Promise!Next
  \* A power failure takes committed rows too, but none the WAL has synced.
  <1>11. CASE PowerLoss
    <2>1. /\ Die /\ UNCHANGED <<synced, payload, answer>>
          /\ "power" \in Faults
          /\ ledger \in Seq(Row) /\ synced \in 0..Len(ledger)
      BY <1>0, <1>11 DEF PowerLoss, Die, TypeOK
    <2>2. PICK k \in synced..Len(ledger) : ledger' = SubSeq(ledger, 1, k)
      BY <1>11 DEF PowerLoss
    <2>3. /\ DOMAIN ledger' = 1..k /\ 1..synced \subseteq 1..k
          /\ 1..k \subseteq DOMAIN ledger
          /\ \A i \in 1..k : ledger'[i] = ledger[i]
      BY <2>1, <2>2, SubSeqProperties
    <2>4. Kept' = Kept /\ Kept \subseteq Rows' /\ Rows' \subseteq Rows
      BY <2>1, <2>3
    <2>5. /\ \A q \in Requests : /\ Sees(q)' = IF q \in cut THEN "lost" ELSE Sees(q)
                                 /\ Call(q)' = Call(q)
          /\ \A q \in cut : Sees(q) \in {"waiting", "decided"}
      BY <1>9, <2>1
    <2>6. Promise!Lose(cut)
      BY <2>1, <2>4, <2>5 DEF Promise!Lose
    <2>. QED
      BY <2>6 DEF Promise!Next
  <1>12. CASE Checkpoint
    <2>1. /\ synced' = Len(ledger) /\ UNCHANGED <<ledger, pc, payload, answer>>
          /\ ledger \in Seq(Row)
      BY <1>0, <1>12 DEF Checkpoint, TypeOK
    <2>2. Kept' = Rows /\ Rows' = Rows
      BY <2>1
    <2>3. \A q \in Requests : Sees(q)' = Sees(q) /\ Call(q)' = Call(q)
      BY <2>1
    <2>4. Promise!Keep
      BY <2>1, <2>2, <2>3 DEF Promise!Keep
    <2>. QED
      BY <2>4 DEF Promise!Next
  <1>13. CASE Startup \/ Quiescent \/ UNCHANGED vars
    BY <1>2, <1>13 DEF Startup, Quiescent, vars
  <1>. QED
    BY <1>5, <1>6, <1>7, <1>8, <1>10, <1>11, <1>12, <1>13 DEF Next, Idle

\* The gateway with its coroutines, pool, lock, faults, crashes and power
\* failures keeps the promises of Gatekeeper.
THEOREM Refinement == Spec => KeepsPromise
  <1>1. Init => Promise!Init
    BY PromiseInit
  <1>2. IInv /\ DecisionInv /\ [Next]_vars => [Promise!Next]_(Promise!vars)
    BY PromiseStep
  <1>. QED
    BY <1>1, <1>2, Invariant, DecisionInvariant, PTL
       DEF Spec, KeepsPromise, Promise!Spec

=============================================================================
