------------------------------ MODULE RuleBook ------------------------------
(***************************************************************************)
(* What start-up promises about the calling-window rules: a book with at   *)
(* most one window per state.  Installing a release fills the gaps, all of *)
(* them at once, and alters nothing; nobody is served before every shipped *)
(* state has a window; afterwards only an operator changes one.            *)
(***************************************************************************)
CONSTANTS States,    \* state codes that occur
          Seeded,    \* those every release ships a window for
          Windows,   \* calling windows that occur
          NoWindow   \* the book has no window for a state

VARIABLES book, open

vars == <<book, open>>

Init ==
    /\ book = [s \in States |-> NoWindow]
    /\ open = FALSE

Install(shipped) ==
    /\ ~open
    /\ book' = [s \in States |-> IF s \in Seeded /\ book[s] = NoWindow
                                 THEN shipped[s]
                                 ELSE book[s]]
    /\ UNCHANGED open

Open ==
    /\ ~open
    /\ \A s \in Seeded : book[s] # NoWindow
    /\ open' = TRUE
    /\ UNCHANGED book

Close ==
    /\ open
    /\ open' = FALSE
    /\ UNCHANGED book

Amend(s, w) ==
    /\ book' = [book EXCEPT ![s] = w]
    /\ UNCHANGED open

Next ==
    \/ \E shipped \in [Seeded -> Windows] : Install(shipped)
    \/ Open
    \/ Close
    \/ \E s \in States, w \in Windows : Amend(s, w)

Spec == Init /\ [][Next]_vars

=============================================================================
