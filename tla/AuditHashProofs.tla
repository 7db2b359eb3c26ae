--------------------------- MODULE AuditHashProofs ---------------------------
(***************************************************************************)
(* Proofs about AuditHash, for texts of any length over any alphabet.      *)
(***************************************************************************)
EXTENDS AuditHash, SequenceTheorems, TLAPS

FreeText  == Seq(Chars \cup {Separator})
PlainText == Seq(Chars)

Join(a, b) == a \o <<Separator>> \o b

LEMMA JoinType ==
    ASSUME NEW a \in FreeText, NEW b \in PlainText
    PROVE  Join(a, b) \in FreeText
BY DEF FreeText, PlainText, Join

\* A joined text has one last separator: whatever the first part holds, the
\* text can be split there in one way only.
LEMMA SplitAtLast ==
    ASSUME NEW a \in FreeText, NEW b \in PlainText,
           NEW c \in FreeText, NEW d \in PlainText,
           Join(a, b) = Join(c, d)
    PROVE  a = c /\ b = d
<1> DEFINE T == Chars \cup {Separator}
           u == Join(a, b)
           v == Join(c, d)
<1>1. /\ a \in Seq(T) /\ c \in Seq(T) /\ b \in Seq(T) /\ d \in Seq(T)
      /\ b \in Seq(Chars) /\ d \in Seq(Chars)
      /\ <<Separator>> \in Seq(T)
      /\ Separator \notin Chars
    BY AuditHashAssumption DEF FreeText, PlainText
<1>2. /\ Len(u) = Len(a) + 1 + Len(b)
      /\ u[Len(a) + 1] = Separator
      /\ \A i \in 1..Len(a) : u[i] = a[i]
      /\ \A i \in 1..Len(b) : u[Len(a) + 1 + i] = b[i]
    BY <1>1 DEF Join
<1>3. /\ Len(v) = Len(c) + 1 + Len(d)
      /\ v[Len(c) + 1] = Separator
      /\ \A i \in 1..Len(c) : v[i] = c[i]
      /\ \A i \in 1..Len(d) : v[Len(c) + 1 + i] = d[i]
    BY <1>1 DEF Join
<1>4. u = v
    OBVIOUS
<1> HIDE DEF u, v, T
<1>5. Len(a) \in Nat /\ Len(b) \in Nat /\ Len(c) \in Nat /\ Len(d) \in Nat
    BY <1>1
<1>6. ~(Len(c) < Len(a))
  <2> SUFFICES ASSUME Len(c) < Len(a) PROVE FALSE
    OBVIOUS
  <2>1. Len(a) - Len(c) \in 1..Len(d)
    BY <1>2, <1>3, <1>4, <1>5
  <2>2. d[Len(a) - Len(c)] = v[Len(c) + 1 + (Len(a) - Len(c))]
    BY <1>3, <2>1
  <2>3. d[Len(a) - Len(c)] = Separator
    BY <1>2, <1>4, <1>5, <2>2
  <2> QED
    BY <1>1, <2>1, <2>3
<1>7. ~(Len(a) < Len(c))
  <2> SUFFICES ASSUME Len(a) < Len(c) PROVE FALSE
    OBVIOUS
  <2>1. Len(c) - Len(a) \in 1..Len(b)
    BY <1>2, <1>3, <1>4, <1>5
  <2>2. b[Len(c) - Len(a)] = u[Len(a) + 1 + (Len(c) - Len(a))]
    BY <1>2, <2>1
  <2>3. b[Len(c) - Len(a)] = Separator
    BY <1>3, <1>4, <1>5, <2>2
  <2> QED
    BY <1>1, <2>1, <2>3
<1>8. Len(a) = Len(c) /\ Len(b) = Len(d)
    BY <1>2, <1>3, <1>4, <1>5, <1>6, <1>7
<1>9. a = c
  <2>1. \A i \in 1..Len(a) : a[i] = c[i]
    BY <1>2, <1>3, <1>4, <1>8
  <2> QED
    BY <1>1, <1>8, <2>1, SeqEqual
<1>10. b = d
  <2>1. \A i \in 1..Len(b) : b[i] = d[i]
    BY <1>2, <1>3, <1>4, <1>8
  <2> QED
    BY <1>1, <1>8, <2>1, SeqEqual
<1> QED
    BY <1>9, <1>10

\* Two records have the same hash only if they agree in all four fields,
\* even when a call_id holds separators.
THEOREM HashBindsFields ==
    ASSUME NEW c \in CallIds, NEW d \in Destinations,
           NEW e \in DecisionTexts, NEW t \in Timestamps,
           NEW c2 \in CallIds, NEW d2 \in Destinations,
           NEW e2 \in DecisionTexts, NEW t2 \in Timestamps
    PROVE  ComputeRecordHash(c, d, e, t) = ComputeRecordHash(c2, d2, e2, t2)
              <=> c = c2 /\ d = d2 /\ e = e2 /\ t = t2
<1> SUFFICES ASSUME ComputeRecordHash(c, d, e, t)
                       = ComputeRecordHash(c2, d2, e2, t2)
             PROVE  c = c2 /\ d = d2 /\ e = e2 /\ t = t2
    OBVIOUS
<1>1. /\ c \in FreeText /\ c2 \in FreeText
      /\ d \in PlainText /\ d2 \in PlainText
      /\ e \in PlainText /\ e2 \in PlainText
      /\ t \in PlainText /\ t2 \in PlainText
    BY AuditHashAssumption DEF FreeText, PlainText
<1>2. Join(c, d) \in FreeText /\ Join(c2, d2) \in FreeText
    BY <1>1, JoinType
<1>3. Join(Join(c, d), e) \in FreeText /\ Join(Join(c2, d2), e2) \in FreeText
    BY <1>1, <1>2, JoinType
<1>4. Join(Join(Join(c, d), e), t) = Join(Join(Join(c2, d2), e2), t2)
  <2>1. /\ ComputeRecordHash(c, d, e, t)
              = Sha256(Join(Join(Join(c, d), e), t))
        /\ ComputeRecordHash(c2, d2, e2, t2)
              = Sha256(Join(Join(Join(c2, d2), e2), t2))
    BY DEF ComputeRecordHash, Join
  <2>2. \A x, y : Sha256(x) = Sha256(y) => x = y
    BY DEF Sha256
  <2> QED
    BY <2>1, <2>2
<1>5. Join(Join(c, d), e) = Join(Join(c2, d2), e2) /\ t = t2
    BY <1>1, <1>3, <1>4, SplitAtLast
<1>6. Join(c, d) = Join(c2, d2) /\ e = e2
    BY <1>1, <1>2, <1>5, SplitAtLast
<1>7. c = c2 /\ d = d2
    BY <1>1, <1>6, SplitAtLast
<1> QED
    BY <1>5, <1>6, <1>7

-----------------------------------------------------------------------------
\* The row keeps the hash of what was written, and a verdict is about the
\* row as it is now.
Stored == [call_id      : CallIds,
           destination  : Destinations,
           decision     : DecisionTexts,
           block_reason : BlockReasons,
           record_hash  : {ComputeRecordHash(written.call_id, written.destination,
                              written.decision, written.request_timestamp)}]

IInv ==
    /\ row # NoRow => written \in Audited /\ row \in Stored
    /\ row = NoRow => verdict = NotVerified
    /\ verdict # NotVerified =>
          /\ verdict.request_timestamp \in Timestamps
          /\ verdict.intact = VerifyRecordHash(row, verdict.request_timestamp)

LEMMA StepIInv == IInv /\ [Next]_vars => IInv'
<1> SUFFICES ASSUME IInv, [Next]_vars PROVE IInv'
    OBVIOUS
<1> USE DEF IInv
<1>1. ASSUME NEW a \in Audited, AppendAuditRecord(a) PROVE IInv'
    BY <1>1 DEF AppendAuditRecord, Audited, Stored
<1>2. CASE Edit
    BY <1>2 DEF Edit, Stored
<1>3. ASSUME NEW t \in Timestamps, Verify(t) PROVE IInv'
  <2>1. VerifyRecordHash(row, t)' = VerifyRecordHash(row, t)
    BY <1>3 DEF Verify, VerifyRecordHash
  <2> QED
    BY <1>3, <2>1 DEF Verify, Stored
<1>4. CASE UNCHANGED vars
    BY <1>4 DEF vars, Stored, VerifyRecordHash
<1> QED
    BY <1>1, <1>2, <1>3, <1>4 DEF Next

\* A verification is exact: True for a row whose hashed fields and timestamp
\* are the recorded ones, False for any other.
THEOREM VerificationIsExact == Spec => []VerifyIsExact
<1>1. Init => IInv
    BY DEF Init, IInv
<1>2. IInv /\ [Next]_vars => IInv'
    BY StepIInv
<1>3. IInv => VerifyIsExact
  <2> SUFFICES ASSUME IInv, verdict # NotVerified
               PROVE  verdict.intact <=> HashedFieldsIntact
    BY DEF VerifyIsExact
  <2>1. row \in Stored /\ written \in Audited
    BY DEF IInv
  <2>2. verdict.intact <=>
          ComputeRecordHash(written.call_id, written.destination,
                            written.decision, written.request_timestamp)
          = ComputeRecordHash(row.call_id, row.destination, row.decision,
                              verdict.request_timestamp)
    BY <2>1 DEF IInv, VerifyRecordHash, Stored
  <2>3. verdict.request_timestamp \in Timestamps
    BY DEF IInv
  <2>4. /\ row.call_id \in CallIds /\ written.call_id \in CallIds
        /\ row.destination \in Destinations
        /\ written.destination \in Destinations
        /\ row.decision \in DecisionTexts /\ written.decision \in DecisionTexts
        /\ written.request_timestamp \in Timestamps
    BY <2>1 DEF Stored, Audited
  <2> QED
    BY <2>2, <2>3, <2>4, HashBindsFields DEF HashedFieldsIntact
<1> QED
    BY <1>1, <1>2, <1>3, PTL DEF Spec

=============================================================================
