------------------------------ MODULE AuditHash ------------------------------
(***************************************************************************)
(* One row of the audit ledger and its fingerprint (app/core/security.py): *)
(* append_audit_record hashes four fields joined with a separator, later   *)
(* somebody edits the table, and verify_record_hash recomputes the hash.   *)
(* DialRules takes the hash for the tuple of the fields; this module looks *)
(* at the text they are joined into.                                       *)
(*                                                                         *)
(* A text is a sequence of characters.  call_id is free text; an E.164     *)
(* number, a decision and an ISO timestamp never hold the separator.       *)
(***************************************************************************)
EXTENDS Integers, Sequences

CONSTANTS
    Chars,          \* the characters other than the separator
    Separator,      \* _FIELD_SEPARATOR
    CallIds,        \* texts over all characters
    Destinations,   \* texts without the separator, like the next two
    DecisionTexts,
    Timestamps,
    BlockReasons,
    NoRow,          \* nothing has been appended
    NotVerified     \* the row has not been verified since its last change

ASSUME AuditHashAssumption ==
    /\ Separator \notin Chars
    /\ CallIds \subseteq Seq(Chars \cup {Separator})
    /\ Destinations \subseteq Seq(Chars)
    /\ DecisionTexts \subseteq Seq(Chars)
    /\ Timestamps \subseteq Seq(Chars)

VARIABLES row,      \* the row as the table holds it
          written,  \* what append_audit_record was called with
          verdict   \* the last verification: its timestamp and outcome

vars == <<row, written, verdict>>

\* The arguments of append_audit_record.
Audited == [call_id           : CallIds,
            destination       : Destinations,
            decision          : DecisionTexts,
            block_reason      : BlockReasons,
            request_timestamp : Timestamps]

-----------------------------------------------------------------------------
\* SHA-256 is taken to be free of collisions.
Sha256(raw) == <<"sha256", raw>>

\* Mutant: the fields are joined without a separator.
ComputeRecordHashUnseparated(call_id, destination, decision, timestamp) ==
    Sha256(call_id \o destination \o decision \o timestamp)

ComputeRecordHash(call_id, destination, decision, timestamp) ==
    Sha256(call_id \o <<Separator>> \o destination \o <<Separator>>
           \o decision \o <<Separator>> \o timestamp)

VerifyRecordHash(r, timestamp) ==
    r.record_hash =
        ComputeRecordHash(r.call_id, r.destination, r.decision, timestamp)

AppendAuditRecord(a) ==
    /\ row = NoRow
    /\ row' = [call_id      |-> a.call_id,
               destination  |-> a.destination,
               decision     |-> a.decision,
               block_reason |-> a.block_reason,
               record_hash  |-> ComputeRecordHash(a.call_id, a.destination,
                                                  a.decision, a.request_timestamp)]
    /\ written' = a
    /\ UNCHANGED verdict

\* The table is edited behind the program's back; the hash is left alone.
Edit ==
    /\ row # NoRow
    /\ \/ \E v \in CallIds       : row' = [row EXCEPT !.call_id = v]
       \/ \E v \in Destinations  : row' = [row EXCEPT !.destination = v]
       \/ \E v \in DecisionTexts : row' = [row EXCEPT !.decision = v]
       \/ \E v \in BlockReasons  : row' = [row EXCEPT !.block_reason = v]
    /\ verdict' = NotVerified
    /\ UNCHANGED written

\* The timestamp is not in the row: the caller supplies it.
Verify(timestamp) ==
    /\ row # NoRow
    /\ verdict' = [request_timestamp |-> timestamp,
                   intact            |-> VerifyRecordHash(row, timestamp)]
    /\ UNCHANGED <<row, written>>

Init ==
    /\ row = NoRow
    /\ written = NoRow
    /\ verdict = NotVerified

Next ==
    \/ \E a \in Audited : AppendAuditRecord(a)
    \/ Edit
    \/ \E t \in Timestamps : Verify(t)

Spec == Init /\ [][Next]_vars

-----------------------------------------------------------------------------
(***************************************************************************)
(* Properties.                                                             *)
(***************************************************************************)
HashedFieldsIntact ==
    /\ row.call_id = written.call_id
    /\ row.destination = written.destination
    /\ row.decision = written.decision
    /\ verdict.request_timestamp = written.request_timestamp

\* After any series of edits verify_record_hash says True exactly when
\* call_id, destination, decision and the supplied timestamp are what was
\* recorded: no edit shifts text across a field boundary unnoticed, whatever
\* the call_id contains (security.py:9 "prevents cross-field boundary
\* collisions").
VerifyIsExact ==
    verdict # NotVerified => (verdict.intact <=> HashedFieldsIntact)

=============================================================================
