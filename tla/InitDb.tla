------------------------------- MODULE InitDb -------------------------------
(***************************************************************************)
(* The lifespan of the application around its database: create_all and the *)
(* seeding of init_db (app/database/connection.py), serving, and the death *)
(* of the process between any two statements.                              *)
(*                                                                         *)
(* create_all looks once, before its first statement, which TABLES are     *)
(* missing, and then creates each of them and its unique index.  SQLite's  *)
(* driver opens no transaction for CREATE: every statement is durable by   *)
(* itself.  The seeds are one transaction.                                 *)
(***************************************************************************)
EXTENDS Integers, Sequences

CONSTANTS
    States, Seeded, Windows, NoWindow,   \* as in RuleBook
    CallIds,
    Faults,      \* what may go wrong: a subset of FaultKinds
    MaxStarts,   \* bound on the number of starts
    MaxRows      \* bound on the ledger rows of one call_id

(***************************************************************************)
(*   death  the process ends, or start-up raises, outside create_all       *)
(*   ddl    create_all ends between two of its statements                  *)
(***************************************************************************)
FaultKinds == {"death", "ddl"}

ASSUME InitDbAssumption ==
    /\ Seeded \subseteq States
    /\ NoWindow \notin Windows
    /\ Faults \subseteq FaultKinds
    /\ MaxStarts \in Nat
    /\ MaxRows \in Nat

VARIABLES
    phase,      \* where the process stands
    schema,     \* the tables and indexes that exist
    todo,       \* those create_all has yet to create
    shipped,    \* the windows of the release being started
    unseeded,   \* the seeds whose INSERT has not been executed
    staged,     \* the seeds inserted by the open transaction
    rules,      \* state_dialing_rules: the windows of each state's rows
    ledger,     \* compliance_audit_ledger: the number of rows of a call_id
    starts

boot == <<phase, todo, shipped, unseeded, staged>>
data == <<schema, rules, ledger>>
vars == <<boot, data, starts>>

Phases == {"down", "creating", "seeding", "loading", "serving"}

-----------------------------------------------------------------------------
(***************************************************************************)
(* The models: two tables, each with a unique index on its key.            *)
(***************************************************************************)
\* Mutant: call_id is declared without unique and index.
ObjectsNoLedgerIndex == {"rules", "rules_ix", "ledger"}

\* Mutant: state_code is declared without unique and index.
ObjectsNoRulesIndex == {"rules", "ledger", "ledger_ix"}

Objects == {"rules", "rules_ix", "ledger", "ledger_ix"}

TableOf(o) == IF o \in {"rules", "rules_ix"} THEN "rules" ELSE "ledger"

\* The order of creation: the tables as declared, an index after its table.
Rank(o) == CASE o = "rules"  -> 1 [] o = "rules_ix" -> 2
             [] o = "ledger" -> 3 [] OTHER          -> 4

\* create_all was cut short between a table and the end of its work.
Torn == schema \notin {{}, Objects}

(***************************************************************************)
(* init_db and the lifespan.                                               *)
(***************************************************************************)
\* Mutant: the columns of a window are nullable and a release leaves one out.
StartWithoutWindow ==
    /\ phase = "down"
    /\ starts < MaxStarts
    /\ starts' = starts + 1
    /\ phase' = "creating"
    /\ todo' = {o \in Objects : TableOf(o) \notin schema}
    /\ shipped' \in [Seeded -> Windows \cup {NoWindow}]
    /\ unseeded' = Seeded
    /\ staged' = {}
    /\ UNCHANGED data

Start ==
    /\ phase = "down"
    /\ starts < MaxStarts
    /\ starts' = starts + 1
    /\ phase' = "creating"
    /\ todo' = {o \in Objects : TableOf(o) \notin schema}
    /\ shipped' \in [Seeded -> Windows]
    /\ unseeded' = Seeded
    /\ staged' = {}
    /\ UNCHANGED data

Create ==
    /\ phase = "creating"
    /\ \E o \in todo :
        /\ \A p \in todo : Rank(o) <= Rank(p)
        /\ schema' = schema \cup {o}
        /\ todo' = todo \ {o}
    /\ UNCHANGED <<phase, shipped, unseeded, staged, rules, ledger, starts>>

BeginSeeding ==
    /\ phase = "creating"
    /\ todo = {}
    /\ phase' = "seeding"
    /\ UNCHANGED <<todo, shipped, unseeded, staged, data, starts>>

\* Mutant: the loop never moves on to the next seed.
InsertSeedForever(s) ==
    /\ phase = "seeding"
    /\ s \in unseeded
    /\ staged' = staged \cup {s}
    /\ UNCHANGED <<phase, todo, shipped, unseeded, data, starts>>

\* INSERT .. ON CONFLICT DO NOTHING: only a unique index can conflict.
InsertSeed(s) ==
    /\ phase = "seeding"
    /\ s \in unseeded
    /\ unseeded' = unseeded \ {s}
    /\ staged' = IF "rules_ix" \in schema /\ rules[s] # <<>>
                 THEN staged
                 ELSE staged \cup {s}
    /\ UNCHANGED <<phase, todo, shipped, data, starts>>

\* Mutant: ON CONFLICT DO UPDATE.
CommitSeedsOverwriting ==
    /\ phase = "seeding"
    /\ unseeded = {}
    /\ phase' = "loading"
    /\ rules' = [s \in States |-> IF s \in Seeded THEN <<shipped[s]>> ELSE rules[s]]
    /\ staged' = {}
    /\ UNCHANGED <<todo, shipped, unseeded, schema, ledger, starts>>

CommitSeeds ==
    /\ phase = "seeding"
    /\ unseeded = {}
    /\ phase' = "loading"
    /\ rules' = [s \in States |-> IF s \in staged THEN rules[s] \o <<shipped[s]>>
                                                  ELSE rules[s]]
    /\ staged' = {}
    /\ UNCHANGED <<todo, shipped, unseeded, schema, ledger, starts>>

\* load_dnc_cache returns whatever happened to the file, and the app serves.
Serve ==
    /\ phase = "loading"
    /\ phase' = "serving"
    /\ UNCHANGED <<todo, shipped, unseeded, staged, data, starts>>

-----------------------------------------------------------------------------
(***************************************************************************)
(* A dial-check records its call_id; a duplicate is refused by the unique  *)
(* index and skipped.                                                      *)
(***************************************************************************)
Record(c) ==
    /\ phase = "serving"
    /\ "ledger_ix" \in schema => ledger[c] = 0
    /\ ledger[c] < MaxRows
    /\ ledger' = [ledger EXCEPT ![c] = @ + 1]
    /\ UNCHANGED <<boot, schema, rules, starts>>

\* An operator changes the rows of a state or adds the missing one.  The
\* first INSERT of a start holds the write lock until it commits.
Amend(s, w) ==
    /\ "rules" \in schema
    /\ phase = "seeding" => unseeded = Seeded
    /\ rules' = [rules EXCEPT ![s] =
                    IF @ = <<>> THEN <<w>> ELSE [i \in DOMAIN @ |-> w]]
    /\ UNCHANGED <<boot, schema, ledger, starts>>

\* The process stops, dies, or its lifespan raises: an open transaction is
\* rolled back, a created table stays.
Die ==
    /\ phase # "down"
    /\ "death" \in Faults
    /\ (phase = "creating" /\ Torn) => "ddl" \in Faults
    /\ phase' = "down"
    /\ todo' = {}
    /\ unseeded' = {}
    /\ staged' = {}
    /\ UNCHANGED <<shipped, data, starts>>

Init ==
    /\ phase = "down"
    /\ schema = {}
    /\ todo = {}
    /\ shipped \in [Seeded -> Windows]
    /\ unseeded = {}
    /\ staged = {}
    /\ rules = [s \in States |-> <<>>]
    /\ ledger = [c \in CallIds |-> 0]
    /\ starts = 0

Boot == Create \/ BeginSeeding \/ (\E s \in Seeded : InsertSeed(s)) \/ CommitSeeds \/ Serve

Next ==
    \/ Start
    \/ Boot
    \/ \E c \in CallIds : Record(c)
    \/ \E s \in States, w \in Windows : Amend(s, w)
    \/ Die

\* Statements return: a start that is not cut short goes on.
Spec     == Init /\ [][Next]_vars
FairSpec == Spec /\ WF_vars(Boot)

-----------------------------------------------------------------------------
(***************************************************************************)
(* Properties.                                                             *)
(***************************************************************************)
\* Every variable has its type: the state init_db keeps between two awaits,
\* the schema, and the rows of both tables.
TypeOK ==
    /\ phase \in Phases
    /\ schema \subseteq Objects
    /\ todo \subseteq Objects
    /\ shipped \in [Seeded -> Windows]
    /\ unseeded \subseteq Seeded
    /\ staged \subseteq Seeded
    /\ rules \in [States -> Seq(Windows)]
    /\ ledger \in [CallIds -> 0..MaxRows]
    /\ starts \in 0..MaxStarts

\* Restarts never seed a state twice: _check_time_window's
\* scalar_one_or_none finds at most one row (connection.py:94 "skip silently
\* if state_code already exists").
OneRulePerState == \A s \in States : Len(rules[s]) <= 1

\* Whatever starts and deaths came before, a call_id has at most one row
\* (dial_check.py:39 "duplicate call_id is silently skipped").
OneRowPerCallId == \A c \in CallIds : ledger[c] <= 1

\* A start that is not cut short reaches serving.
EveryStartEnds ==
    phase \in {"creating", "seeding", "loading"} ~> phase \in {"serving", "down"}

\* The rules a state's query sees, as a book.
BookOf == [s \in States |-> IF rules[s] = <<>> THEN NoWindow ELSE Head(rules[s])]

Book == INSTANCE RuleBook WITH book <- BookOf, open <- (phase = "serving")

\* Start-up implements RuleBook: it fills every gap at once, leaves every
\* row there is alone, and lets nobody be served before.
KeepsRuleBook == Book!Spec

=============================================================================
