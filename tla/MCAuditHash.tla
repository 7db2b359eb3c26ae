----------------------------- MODULE MCAuditHash -----------------------------
(***************************************************************************)
(* Texts short enough to shift against each other: a call_id may end where *)
(* a destination begins, and may contain the separator.                    *)
(***************************************************************************)
EXTENDS AuditHash

MCChars == {"1", "A"}
Texts(S, n) == UNION {[1..k -> S] : k \in 1..n}

MCCallIds       == Texts(MCChars \cup {Separator}, 2)
MCDestinations  == Texts({"1"}, 2)
MCDecisionTexts == {<<"A">>, <<"1", "A">>}
MCTimestamps    == {<<"1">>, <<"A", "1">>}

=============================================================================
