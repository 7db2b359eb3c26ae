---------------------------- MODULE InitDbProofs ----------------------------
(***************************************************************************)
(* Proofs about InitDb, for any states, windows, call_ids and bounds, as   *)
(* long as create_all is not cut short between two of its statements.      *)
(***************************************************************************)
EXTENDS InitDb, FiniteSetTheorems, TLAPS

\* What create_all has reached in each phase.
SchemaKnown ==
    /\ phase = "down" => schema = {} \/ schema = Objects
    /\ phase = "creating" => schema \cup todo = Objects
    /\ phase \notin {"down", "creating"} => schema = Objects

\* A staged seed has no committed row; the seeds the loop has passed have a
\* row or are staged; once committed, all have one.
SeedsKnown ==
    /\ staged # {} => phase = "seeding"
    /\ phase = "creating" => unseeded = Seeded
    /\ \A s \in staged : s \notin unseeded /\ rules[s] = <<>>
    /\ phase = "seeding" =>
          \A s \in Seeded \ unseeded : s \in staged \/ rules[s] # <<>>
    /\ phase \in {"loading", "serving"} => \A s \in Seeded : rules[s] # <<>>

IInv ==
    /\ TypeOK
    /\ SchemaKnown
    /\ SeedsKnown
    /\ OneRulePerState
    /\ OneRowPerCallId

\* Overwriting every row of a state keeps their number.
LEMMA Overwritten ==
    ASSUME NEW q \in Seq(Windows), NEW w \in Windows, q # <<>>
    PROVE  LET r == [i \in DOMAIN q |-> w] IN
           /\ r \in Seq(Windows)
           /\ Len(r) = Len(q)
           /\ r # <<>>
           /\ Head(r) = w
<1> DEFINE n == Len(q)
           r == [i \in 1..n |-> w]
<1>1. n \in Nat /\ n > 0 /\ DOMAIN q = 1..n
    OBVIOUS
<1> HIDE DEF n
<1>2. r \in Seq(Windows) /\ Len(r) = n
    BY <1>1
<1>3. r # <<>> /\ r[1] = w
    BY <1>1, <1>2
<1> QED
    BY <1>1, <1>2, <1>3 DEF n

\* The initial state satisfies the invariant.
LEMMA InitIInv == Init => IInv
BY InitDbAssumption
   DEF Init, IInv, TypeOK, SchemaKnown, SeedsKnown, OneRulePerState,
       OneRowPerCallId, Phases

\* No step leaves the types.
LEMMA TypeStep == TypeOK /\ [Next]_vars => TypeOK'
<1> SUFFICES ASSUME TypeOK, [Next]_vars PROVE TypeOK'
    OBVIOUS
<1> USE InitDbAssumption DEF TypeOK, Phases, boot, data
<1>1. CASE Start
    BY <1>1 DEF Start
<1>2. CASE Create
    BY <1>2 DEF Create
<1>3. CASE BeginSeeding
    BY <1>3 DEF BeginSeeding
<1>4. ASSUME NEW s \in Seeded, InsertSeed(s) PROVE TypeOK'
    BY <1>4 DEF InsertSeed
<1>5. CASE CommitSeeds
  <2>1. \A s \in staged : shipped[s] \in Windows /\ rules[s] \in Seq(Windows)
    OBVIOUS
  <2>2. rules' \in [States -> Seq(Windows)]
    BY <1>5, <2>1 DEF CommitSeeds
  <2> QED
    BY <1>5, <2>2 DEF CommitSeeds
<1>6. CASE Serve
    BY <1>6 DEF Serve
<1>7. ASSUME NEW c \in CallIds, Record(c) PROVE TypeOK'
    BY <1>7 DEF Record
<1>8. ASSUME NEW s \in States, NEW w \in Windows, Amend(s, w) PROVE TypeOK'
  <2>1. rules[s] # <<>> => [i \in DOMAIN rules[s] |-> w] \in Seq(Windows)
    BY Overwritten
  <2>2. rules' \in [States -> Seq(Windows)]
    BY <1>8, <2>1 DEF Amend
  <2> QED
    BY <1>8, <2>2 DEF Amend
<1>9. CASE Die
    BY <1>9 DEF Die
<1>10. CASE UNCHANGED vars
    BY <1>10 DEF vars
<1> QED
    BY <1>1, <1>2, <1>3, <1>4, <1>5, <1>6, <1>7, <1>8, <1>9, <1>10
    DEF Next, Boot

\* TypeOK, whatever dies and whenever.
THEOREM TypeCorrect == Spec => []TypeOK
<1>1. Init => TypeOK
    BY InitIInv DEF IInv
<1>2. TypeOK /\ [Next]_vars => TypeOK'
    BY TypeStep
<1> QED
    BY <1>1, <1>2, PTL DEF Spec

\* Nobody is served, and nothing is seeded, before both tables and both
\* indexes exist.
LEMMA SchemaStep ==
    ASSUME "ddl" \notin Faults, TypeOK, SchemaKnown, [Next]_vars
    PROVE  SchemaKnown'
<1> USE DEF SchemaKnown, TypeOK, boot, data
<1>1. CASE Start
    BY <1>1 DEF Start, Objects, TableOf
<1>2. CASE Create
    BY <1>2 DEF Create
<1>3. CASE BeginSeeding
    BY <1>3 DEF BeginSeeding
<1>4. ASSUME NEW s \in Seeded, InsertSeed(s) PROVE SchemaKnown'
    BY <1>4 DEF InsertSeed
<1>5. CASE CommitSeeds
    BY <1>5 DEF CommitSeeds
<1>6. CASE Serve
    BY <1>6 DEF Serve
<1>7. ASSUME NEW c \in CallIds, Record(c) PROVE SchemaKnown'
    BY <1>7 DEF Record
<1>8. ASSUME NEW s \in States, NEW w \in Windows, Amend(s, w)
      PROVE  SchemaKnown'
    BY <1>8 DEF Amend
<1>9. CASE Die
    BY <1>9 DEF Die, Torn
<1>10. CASE UNCHANGED vars
    BY <1>10 DEF vars
<1> QED
    BY <1>1, <1>2, <1>3, <1>4, <1>5, <1>6, <1>7, <1>8, <1>9, <1>10
    DEF Next, Boot

\* The staged seeds are always the ones the table lacks.
LEMMA SeedsStep ==
    ASSUME TypeOK, SchemaKnown, SeedsKnown, [Next]_vars
    PROVE  SeedsKnown'
<1> USE InitDbAssumption DEF SeedsKnown, TypeOK, boot, data
<1>1. CASE Start
    BY <1>1 DEF Start
<1>2. CASE Create
    BY <1>2 DEF Create
<1>3. CASE BeginSeeding
    BY <1>3 DEF BeginSeeding
<1>4. ASSUME NEW s \in Seeded, InsertSeed(s) PROVE SeedsKnown'
    BY <1>4 DEF InsertSeed, SchemaKnown, Objects
<1>5. CASE CommitSeeds
    BY <1>5 DEF CommitSeeds
<1>6. CASE Serve
    BY <1>6 DEF Serve
<1>7. ASSUME NEW c \in CallIds, Record(c) PROVE SeedsKnown'
    BY <1>7 DEF Record
<1>8. ASSUME NEW s \in States, NEW w \in Windows, Amend(s, w)
      PROVE  SeedsKnown'
  <2>1. staged = {}
    BY <1>8 DEF Amend
  <2>2. \A t \in States : rules[t] # <<>> => rules'[t] # <<>>
    <3>1. ASSUME NEW t \in States, rules[t] # <<>> PROVE rules'[t] # <<>>
      <4>1. rules[s] # <<>> => [i \in DOMAIN rules[s] |-> w] # <<>>
        BY Overwritten
      <4> QED
        BY <1>8, <3>1, <4>1 DEF Amend
    <3> QED
      BY <3>1
  <2> QED
    BY <1>8, <2>1, <2>2 DEF Amend
<1>9. CASE Die
    BY <1>9 DEF Die
<1>10. CASE UNCHANGED vars
    BY <1>10 DEF vars
<1> QED
    BY <1>1, <1>2, <1>3, <1>4, <1>5, <1>6, <1>7, <1>8, <1>9, <1>10
    DEF Next, Boot

\* The invariant is inductive: with the index there, a second row for a
\* state or a call_id cannot be written.
LEMMA StepIInv ==
    ASSUME "ddl" \notin Faults
    PROVE  IInv /\ [Next]_vars => IInv'
<1> SUFFICES ASSUME IInv, [Next]_vars PROVE IInv'
    OBVIOUS
<1>1. TypeOK' /\ SchemaKnown' /\ SeedsKnown'
    BY TypeStep, SchemaStep, SeedsStep DEF IInv
<1>2. OneRulePerState'
  <2> USE InitDbAssumption DEF IInv, TypeOK, OneRulePerState
  <2>1. CASE CommitSeeds
    BY <2>1 DEF CommitSeeds, SeedsKnown
  <2>2. ASSUME NEW s \in States, NEW w \in Windows, Amend(s, w)
        PROVE  OneRulePerState'
    <3>1. ASSUME NEW t \in States PROVE Len(rules'[t]) <= 1
      <4>1. CASE t # s \/ rules[s] = <<>>
        BY <2>2, <4>1 DEF Amend
      <4>2. CASE t = s /\ rules[s] # <<>>
        <5>1. Len([i \in DOMAIN rules[s] |-> w]) = Len(rules[s])
          BY <4>2, Overwritten
        <5> QED
          BY <2>2, <4>2, <5>1 DEF Amend
      <4> QED
        BY <4>1, <4>2
    <3> QED
      BY <3>1
  <2>3. CASE UNCHANGED rules
    BY <2>3
  <2> QED
    BY <2>1, <2>2, <2>3
    DEF Next, Boot, Start, Create, BeginSeeding, InsertSeed, Serve, Record,
        Die, vars, data
<1>3. OneRowPerCallId'
  <2> USE DEF IInv, TypeOK, OneRowPerCallId
  <2>1. ASSUME NEW c \in CallIds, Record(c) PROVE OneRowPerCallId'
    <3>1. "ledger_ix" \in schema
      BY <2>1 DEF Record, SchemaKnown, Objects
    <3> QED
      BY <2>1, <3>1 DEF Record
  <2>2. CASE UNCHANGED ledger
    BY <2>2
  <2> QED
    BY <2>1, <2>2
    DEF Next, Boot, Start, Create, BeginSeeding, InsertSeed, CommitSeeds,
        Serve, Amend, Die, vars, data
<1> QED
    BY <1>1, <1>2, <1>3 DEF IInv

\* The invariant holds throughout.
LEMMA Invariance ==
    ASSUME "ddl" \notin Faults
    PROVE  Spec => []IInv
<1>1. Init => IInv
    BY InitIInv
<1>2. IInv /\ [Next]_vars => IInv'
    BY StepIInv
<1> QED
    BY <1>1, <1>2, PTL DEF Spec

\* Whatever the order of starts, deaths, edits and releases, a state never
\* gets a second row, so the query of _check_time_window never raises.
THEOREM RulesUnique ==
    ASSUME "ddl" \notin Faults
    PROVE  Spec => []OneRulePerState
<1>1. IInv => OneRulePerState
    BY DEF IInv
<1> QED
    BY <1>1, Invariance, PTL

\* Whatever the order of starts and deaths, the ledger has one row per
\* call_id.
THEOREM CallIdsUnique ==
    ASSUME "ddl" \notin Faults
    PROVE  Spec => []OneRowPerCallId
<1>1. IInv => OneRowPerCallId
    BY DEF IInv
<1> QED
    BY <1>1, Invariance, PTL

-----------------------------------------------------------------------------
(***************************************************************************)
(* Refinement of RuleBook.                                                 *)
(***************************************************************************)
\* An empty table is an empty book.
LEMMA BookInit == Init => Book!Init
BY DEF Init, Book!Init, BookOf

\* Every step is a step of RuleBook or invisible in it.
LEMMA BookStep == IInv /\ [Next]_vars => [Book!Next]_(Book!vars)
<1> SUFFICES ASSUME IInv, [Next]_vars PROVE [Book!Next]_(Book!vars)
    OBVIOUS
<1> USE InitDbAssumption DEF IInv, TypeOK, Book!vars, boot, data
<1>1. CASE UNCHANGED rules /\ (phase' = "serving") = (phase = "serving")
    BY <1>1 DEF BookOf
<1>2. CASE CommitSeeds
  <2>1. ASSUME NEW s \in States
        PROVE  BookOf'[s] = IF s \in Seeded /\ BookOf[s] = NoWindow
                            THEN shipped[s]
                            ELSE BookOf[s]
    <3>1. CASE s \in staged
      BY <1>2, <3>1 DEF CommitSeeds, SeedsKnown, BookOf
    <3>2. CASE s \notin staged
      BY <1>2, <3>2 DEF CommitSeeds, SeedsKnown, BookOf
    <3> QED
      BY <3>1, <3>2
  <2>2. Book!Install(shipped)
    BY <1>2, <2>1 DEF CommitSeeds, Book!Install, BookOf
  <2> QED
    BY <2>2 DEF Book!Next
<1>3. CASE Serve
  <2>1. \A s \in Seeded : BookOf[s] # NoWindow
    BY <1>3 DEF Serve, SeedsKnown, BookOf
  <2>2. Book!Open
    BY <1>3, <2>1 DEF Serve, Book!Open, BookOf
  <2> QED
    BY <2>2 DEF Book!Next
<1>4. ASSUME NEW s \in States, NEW w \in Windows, Amend(s, w)
      PROVE  [Book!Next]_(Book!vars)
  <2>1. BookOf' = [BookOf EXCEPT ![s] = w]
    <3>1. rules'[s] # <<>> /\ Head(rules'[s]) = w
      <4>1. CASE rules[s] = <<>>
        BY <1>4, <4>1 DEF Amend
      <4>2. CASE rules[s] # <<>>
        BY <1>4, <4>2, Overwritten DEF Amend
      <4> QED
        BY <4>1, <4>2
    <3>2. \A t \in States : t # s => rules'[t] = rules[t]
      BY <1>4 DEF Amend
    <3> QED
      BY <3>1, <3>2 DEF BookOf
  <2>2. Book!Amend(s, w)
    BY <1>4, <2>1 DEF Amend, Book!Amend
  <2> QED
    BY <2>2 DEF Book!Next
<1>5. CASE Die
  <2>1. CASE phase = "serving"
    BY <1>5, <2>1 DEF Die, BookOf, Book!Next, Book!Close
  <2>2. CASE phase # "serving"
    BY <1>5, <2>2, <1>1 DEF Die
  <2> QED
    BY <2>1, <2>2
<1> QED
    BY <1>1, <1>2, <1>3, <1>4, <1>5
    DEF Next, Boot, Start, Create, BeginSeeding, InsertSeed, Record, vars

\* Start-up implements RuleBook: gaps are filled all at once, a row that is
\* there is never altered, nobody is served before the book is complete.
THEOREM Refinement ==
    ASSUME "ddl" \notin Faults
    PROVE  Spec => KeepsRuleBook
<1>1. Init => Book!Init
    BY BookInit
<1>2. IInv /\ [Next]_vars => [Book!Next]_(Book!vars)
    BY BookStep
<1> QED
    BY <1>1, <1>2, Invariance, PTL DEF Spec, KeepsRuleBook, Book!Spec

-----------------------------------------------------------------------------
(***************************************************************************)
(* How many statements a start has still to execute.                       *)
(***************************************************************************)
Work ==
    CASE phase = "creating" -> Cardinality(todo) + Cardinality(Seeded) + 3
      [] phase = "seeding"  -> Cardinality(unseeded) + 2
      [] phase = "loading"  -> 1
      [] OTHER              -> 0

\* Each statement of a start leaves fewer to execute, and nothing but another
\* start makes them more: no audit row, no operator, no death.
WorkShrinks ==
    /\ Work \in 0..(Cardinality(Seeded) + 7)
    /\ Boot => Work' < Work
    /\ ~Start => Work' <= Work

LEMMA WorkBound ==
    ASSUME IsFiniteSet(Seeded), TypeOK, phase = "creating" => unseeded = Seeded
    PROVE  /\ Cardinality(Seeded) \in Nat
           /\ IsFiniteSet(todo) /\ IsFiniteSet(unseeded)
           /\ Cardinality(todo) \in 0..4
           /\ Cardinality(unseeded) \in 0..Cardinality(Seeded)
           /\ Work \in 0..(Cardinality(Seeded) + 7)
<1>1. IsFiniteSet(Objects) /\ Cardinality(Objects) = 4
  <2>1. IsFiniteSet({}) /\ Cardinality({}) = 0
    BY FS_EmptySet
  <2>2. /\ IsFiniteSet({"rules"}) /\ Cardinality({"rules"}) = 1
    BY FS_Singleton
  <2>3. /\ IsFiniteSet({"rules"} \cup {"rules_ix"})
        /\ Cardinality({"rules"} \cup {"rules_ix"}) = 2
    BY <2>2, FS_AddElement
  <2>4. /\ IsFiniteSet({"rules", "rules_ix"} \cup {"ledger"})
        /\ Cardinality({"rules", "rules_ix"} \cup {"ledger"}) = 3
    <3>1. {"rules"} \cup {"rules_ix"} = {"rules", "rules_ix"}
      OBVIOUS
    <3> QED
      BY <2>3, <3>1, FS_AddElement
  <2>5. /\ IsFiniteSet({"rules", "rules_ix", "ledger"} \cup {"ledger_ix"})
        /\ Cardinality({"rules", "rules_ix", "ledger"} \cup {"ledger_ix"}) = 4
    <3>1. {"rules", "rules_ix"} \cup {"ledger"} = {"rules", "rules_ix", "ledger"}
      OBVIOUS
    <3> QED
      BY <2>4, <3>1, FS_AddElement
  <2>6. {"rules", "rules_ix", "ledger"} \cup {"ledger_ix"} = Objects
    BY DEF Objects
  <2> QED
    BY <2>5, <2>6
<1>2. /\ IsFiniteSet(todo) /\ Cardinality(todo) <= Cardinality(Objects)
      /\ Cardinality(todo) \in Nat
  BY <1>1, FS_Subset, FS_CardinalityType DEF TypeOK
<1>3. /\ IsFiniteSet(unseeded) /\ Cardinality(unseeded) <= Cardinality(Seeded)
      /\ Cardinality(unseeded) \in Nat /\ Cardinality(Seeded) \in Nat
  BY FS_Subset, FS_CardinalityType DEF TypeOK
<1> QED
  BY <1>1, <1>2, <1>3 DEF Work

\* Every start ends after at most as many statements as there are objects and
\* seeds, and three more.
THEOREM StartsAdvance ==
    ASSUME IsFiniteSet(Seeded)
    PROVE  Spec => [][WorkShrinks]_vars
<1> DEFINE Ready == TypeOK /\ (phase = "creating" => unseeded = Seeded)
<1>1. Init => Ready
  BY InitIInv DEF IInv, SeedsKnown
<1>2. Ready /\ [Next]_vars => Ready'
  <2> SUFFICES ASSUME Ready, [Next]_vars PROVE (phase = "creating" => unseeded = Seeded)'
    BY TypeStep
  <2> QED
    BY DEF Next, Boot, Start, Create, BeginSeeding, InsertSeed, CommitSeeds, Serve,
       Record, Amend, Die, vars, boot, data
<1>3. Ready /\ Ready' /\ [Next]_vars => WorkShrinks \/ UNCHANGED vars
  <2> SUFFICES ASSUME Ready, Ready', Next PROVE WorkShrinks
    OBVIOUS
  <2>1. /\ Cardinality(Seeded) \in Nat
        /\ IsFiniteSet(todo) /\ IsFiniteSet(unseeded)
        /\ Cardinality(todo) \in Nat /\ Cardinality(unseeded) \in Nat
        /\ Work \in 0..(Cardinality(Seeded) + 7)
    BY WorkBound
  <2> USE DEF boot, data
  <2>2. ASSUME Create PROVE Work' < Work /\ Work' <= Work
    <3>1. PICK o \in todo : todo' = todo \ {o}
      BY <2>2 DEF Create
    <3>2. Cardinality(todo') = Cardinality(todo) - 1
      BY <2>1, <3>1, FS_RemoveElement
    <3> QED
      BY <2>1, <2>2, <3>2 DEF Create, Work
  <2>3. ASSUME BeginSeeding PROVE Work' < Work /\ Work' <= Work
    <3>1. unseeded' = Seeded /\ todo = {}
      BY <2>3 DEF BeginSeeding
    <3>2. Cardinality(todo) = 0
      BY <3>1, FS_EmptySet
    <3> QED
      BY <2>1, <2>3, <3>1, <3>2 DEF BeginSeeding, Work
  <2>4. ASSUME NEW s \in Seeded, InsertSeed(s) PROVE Work' < Work /\ Work' <= Work
    <3>1. Cardinality(unseeded') = Cardinality(unseeded) - 1
      BY <2>1, <2>4, FS_RemoveElement DEF InsertSeed
    <3> QED
      BY <2>1, <2>4, <3>1 DEF InsertSeed, Work
  <2>5. ASSUME CommitSeeds PROVE Work' < Work /\ Work' <= Work
    BY <2>1, <2>5 DEF CommitSeeds, Work
  <2>6. ASSUME Serve PROVE Work' < Work /\ Work' <= Work
    BY <2>6 DEF Serve, Work
  <2>7. Boot => Work' < Work /\ Work' <= Work
    BY <2>2, <2>3, <2>4, <2>5, <2>6 DEF Boot
  <2>8. ASSUME UNCHANGED boot PROVE Work' = Work
    BY <2>8 DEF Work
  <2>9. ASSUME Die PROVE Work' <= Work
    BY <2>1, <2>9 DEF Die, Work
  <2>10. ~Start => Work' <= Work
    <3>1. CASE Boot
      BY <2>7, <3>1
    <3>2. CASE Die
      BY <2>9, <3>2
    <3>3. CASE UNCHANGED boot
      BY <2>1, <2>8, <3>3
    <3> QED
      BY <3>1, <3>2, <3>3 DEF Next, Record, Amend
  <2> QED
    BY <2>1, <2>7, <2>10 DEF WorkShrinks
<1> QED
  BY <1>1, <1>2, <1>3, PTL DEF Spec

=============================================================================
