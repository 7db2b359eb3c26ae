----------------------------- MODULE OptOutProofs -----------------------------
(***************************************************************************)
(* Proofs about OptOut for every set of contents the model may send, text  *)
(* of any length included.                                                 *)
(***************************************************************************)
EXTENDS OptOut, SequenceTheorems, WellFoundedInduction, TLAPS

-----------------------------------------------------------------------------
(***************************************************************************)
(* First and last positions.                                               *)
(***************************************************************************)
LEMMA MinIsFirst ==
    ASSUME NEW I \in SUBSET Nat, I # {}
    PROVE  Min(I) \in I /\ \A y \in I : Min(I) <= y
  <1>1. \E x \in I : \A y \in I : ~(<<y, x>> \in OpToRel(<, Nat))
    BY NatLessThanWellFounded, WFMin
  <1>2. \A x, y \in Nat : <<y, x>> \in OpToRel(<, Nat) <=> y < x
    BY DEF OpToRel
  <1>3. PICK x \in I : \A y \in I : ~(<<y, x>> \in OpToRel(<, Nat))
    BY <1>1
  <1>4. ASSUME NEW y \in I PROVE x <= y
    <2>1. x \in Nat /\ y \in Nat
      OBVIOUS
    <2>2. ~(y < x)
      BY <1>2, <1>3, <2>1
    <2>. QED
      BY <2>1, <2>2
  <1>. QED
    BY <1>4 DEF Min

LEMMA MaxIsLast ==
    ASSUME NEW n \in Nat, NEW I \in SUBSET (1..n), I # {}
    PROVE  Max(I) \in I /\ \A y \in I : Max(I) >= y
  <1> DEFINE J == {n - x : x \in I}
  <1>1. J \in SUBSET Nat /\ J # {}
    <2>1. \A x \in I : n - x \in Nat
      OBVIOUS
    <2>. QED
      BY <2>1
  <1>2. PICK m \in J : \A y \in J : m <= y
    BY <1>1, MinIsFirst
  <1>3. PICK x \in I : m = n - x
    BY <1>2
  <1>4. \A y \in I : x >= y
    <2> TAKE y \in I
    <2>1. n - y \in J
      OBVIOUS
    <2>2. n - x <= n - y
      BY <1>2, <1>3, <2>1
    <2>. QED
      BY <2>2
  <1>5. \E z \in I : \A y \in I : z >= y
    BY <1>4
  <1>. QED
    BY <1>5 DEF Max

\* The selections of fence stripping, in these terms.
LEMMA Selections ==
    ASSUME NEW x
    PROVE  /\ SelectInSeq(x, IsNotNewline) =
                 LET I == {i \in 1..Len(x) : IsNotNewline(x[i])}
                 IN  IF I # {} THEN Min(I) ELSE 0
           /\ SelectLastInSeq(x, IsNotNewline) =
                 LET I == {i \in 1..Len(x) : IsNotNewline(x[i])}
                 IN  IF I # {} THEN Max(I) ELSE 0
           /\ SelectInSeq(x, HasNewline) =
                 LET I == {i \in 1..Len(x) : HasNewline(x[i])}
                 IN  IF I # {} THEN Min(I) ELSE 0
           /\ SelectLastInSeq(x, HoldsFence) =
                 LET I == {i \in 1..Len(x) : HoldsFence(x[i])}
                 IN  IF I # {} THEN Max(I) ELSE 0
  BY DEF SelectInSeq, SelectLastInSeq

-----------------------------------------------------------------------------
(***************************************************************************)
(* Each part of fence stripping, by the positions of what it keeps.        *)
(***************************************************************************)
LEMMA Stripped ==
    ASSUME NEW x \in Seq(Tokens)
    PROVE  LET t == StripNewlines(x) IN
           /\ t \in Seq(Tokens)
           /\ \E c \in Nat :
                /\ c + Len(t) <= Len(x)
                /\ \A k \in 1..Len(t) : t[k] = x[k + c]
                /\ \A j \in 1..Len(x) : x[j] # "newline" => j - c \in 1..Len(t)
  <1> DEFINE t == StripNewlines(x)
             I == {i \in 1..Len(x) : IsNotNewline(x[i])}
  <1>0. Len(x) \in Nat /\ I \in SUBSET Nat /\ I \in SUBSET (1..Len(x))
    OBVIOUS
  <1>1. CASE I = {}
    <2>1. t = <<>>
      BY <1>1, Selections DEF StripNewlines
    <2>2. \A j \in 1..Len(x) : x[j] = "newline"
      BY <1>1 DEF IsNotNewline
    <2>. QED
      BY <1>0, <2>1, <2>2
  <1>2. CASE I # {}
    <2> DEFINE a == Min(I)
               b == Max(I)
    <2>1. a \in I /\ \A y \in I : a <= y
      BY <1>0, <1>2, MinIsFirst
    <2>2. b \in I /\ \A y \in I : b >= y
      BY <1>0, <1>2, MaxIsLast
    <2>3. t = SubSeq(x, a, b)
      <3>1. /\ SelectInSeq(x, IsNotNewline) = a
            /\ SelectLastInSeq(x, IsNotNewline) = b
        BY <1>2, Selections
      <3>2. a # 0
        BY <1>0, <2>1
      <3>. QED
        BY <3>1, <3>2 DEF StripNewlines
    <2> HIDE DEF t, a, b
    <2>4. a \in 1..Len(x) /\ b \in 1..Len(x) /\ a <= b
      BY <2>1, <2>2
    <2>5. /\ t \in Seq(Tokens)
          /\ Len(t) = b - a + 1
          /\ \A k \in 1..Len(t) : t[k] = x[k + (a - 1)]
      BY <1>0, <2>3, <2>4
    <2>6. \A j \in 1..Len(x) : x[j] # "newline" => j - (a - 1) \in 1..Len(t)
      BY <1>0, <2>1, <2>2, <2>4, <2>5 DEF IsNotNewline
    <2>7. a - 1 \in Nat /\ (a - 1) + Len(t) <= Len(x)
      BY <1>0, <2>4, <2>5
    <2>. QED
      BY <2>5, <2>6, <2>7 DEF t
  <1>. QED
    BY <1>1, <1>2

\* Without its opening fence the text is the end of what it was, except that
\* the first piece may have been cut.
LEMMA OpeningDropped ==
    ASSUME NEW t \in Seq(Tokens), t # <<>>, Head(t) = "fence"
    PROVE  LET u == DropOpening(t) IN
           /\ u \in Seq(Tokens)
           /\ \E d \in Nat :
                /\ Len(t) = Len(u) + d
                /\ \A k \in 1..Len(u) :
                      u[k] = t[k + d] \/ (k = 1 /\ u[k] = "prose")
  <1> DEFINE u == DropOpening(t)
             I == {i \in 1..Len(t) : HasNewline(t[i])}
  <1>0. Len(t) \in Nat /\ Len(t) >= 1 /\ t[1] = "fence" /\ I \in SUBSET Nat
    OBVIOUS
  <1>1. CASE I = {}
    <2>1. u = Tail(t)
      BY <1>1, Selections DEF DropOpening
    <2>2. /\ u \in Seq(Tokens)
          /\ Len(t) = Len(u) + 1
          /\ \A k \in 1..Len(u) : u[k] = t[k + 1]
      BY <1>0, <2>1
    <2>. QED
      BY <2>2
  <1>2. CASE I # {}
    <2> DEFINE i == Min(I)
               s == SubSeq(t, i + 1, Len(t))
    <2>1. i \in I
      BY <1>0, <1>2, MinIsFirst
    <2>2. i \in 2..Len(t)
      BY <1>0, <2>1 DEF HasNewline
    <2>3. u = (IF t[i] = "newline" THEN <<>> ELSE <<"prose">>) \o s
      <3>1. SelectInSeq(t, HasNewline) = i
        BY <1>2, Selections
      <3>2. i # 0
        BY <2>2
      <3>. QED
        BY <3>1, <3>2 DEF DropOpening, AfterNewline
    <2> HIDE DEF u, i
    <2>4. /\ s \in Seq(Tokens)
          /\ Len(s) = Len(t) - i
          /\ \A k \in 1..Len(s) : s[k] = t[k + i]
      BY <1>0, <2>2
    <2> HIDE DEF s
    <2>5. CASE t[i] # "newline"
      <3>1. u = <<"prose">> \o s
        BY <2>3, <2>5
      <3>2. <<"prose">> \in Seq(Tokens) /\ Len(<<"prose">>) = 1
        BY DEF Tokens
      <3>3. /\ u \in Seq(Tokens)
            /\ Len(u) = 1 + Len(s)
            /\ \A k \in 1..Len(u) : u[k] = IF k = 1 THEN "prose" ELSE s[k - 1]
        BY <2>4, <3>1, <3>2
      <3>4. /\ i - 1 \in Nat
            /\ Len(t) = Len(u) + (i - 1)
        BY <1>0, <2>2, <2>4, <3>3
      <3>5. ASSUME NEW k \in 1..Len(u), k # 1 PROVE u[k] = t[k + (i - 1)]
        <4>1. k - 1 \in 1..Len(s)
          BY <2>4, <3>3, <3>5
        <4>2. s[k - 1] = t[(k - 1) + i]
          BY <2>4, <4>1
        <4>3. (k - 1) + i = k + (i - 1)
          BY <2>2, <4>1
        <4>. QED
          BY <3>3, <3>5, <4>2, <4>3
      <3>. QED
        BY <3>3, <3>4, <3>5 DEF u
    <2>6. CASE t[i] = "newline"
      <3>1. u = s
        BY <2>3, <2>4, <2>6
      <3>2. i \in Nat /\ Len(t) = Len(s) + i
        BY <1>0, <2>2, <2>4
      <3>. QED
        BY <1>0, <2>2, <2>4, <3>1, <3>2 DEF u
    <2>. QED
      BY <2>5, <2>6
  <1>. QED
    BY <1>1, <1>2

\* What is cut off at the end begins with a fence, or the cut went through a
\* piece that quotes one.
LEMMA ClosingDropped ==
    ASSUME NEW u \in Seq(Tokens)
    PROVE  LET v == DropClosing(u) IN
           /\ v \in Seq(Tokens)
           /\ Len(v) <= Len(u)
           /\ \/ /\ \A k \in 1..Len(v) : v[k] = u[k]
                 /\ Len(v) < Len(u) => u[Len(v) + 1] = "fence"
              \/ Len(v) >= 1 /\ v[Len(v)] = "prose"
  <1> DEFINE v == DropClosing(u)
             I == {i \in 1..Len(u) : HoldsFence(u[i])}
  <1>0. Len(u) \in Nat /\ I \in SUBSET (1..Len(u))
    OBVIOUS
  <1>1. CASE I = {}
    <2>1. v = u
      BY <1>1, Selections DEF DropClosing
    <2>. QED
      BY <1>0, <2>1
  <1>2. CASE I # {}
    <2> DEFINE i == Max(I)
               s == SubSeq(u, 1, i - 1)
    <2>1. i \in I
      BY <1>0, <1>2, MaxIsLast
    <2>2. v = s \o (IF u[i] = "fence" THEN <<>> ELSE <<"prose">>)
      <3>1. SelectLastInSeq(u, HoldsFence) = i
        BY <1>2, Selections
      <3>2. i # 0
        BY <1>0, <2>1
      <3>. QED
        BY <3>1, <3>2 DEF DropClosing
    <2>3. i \in 1..Len(u)
      BY <2>1
    <2> HIDE DEF v, i
    <2>4. /\ s \in Seq(Tokens)
          /\ Len(s) = i - 1
          /\ \A k \in 1..Len(s) : s[k] = u[k]
      BY <1>0, <2>3
    <2> HIDE DEF s
    <2>5. CASE u[i] = "fence"
      <3>1. v = s
        BY <2>2, <2>4, <2>5, ConcatEmptySeq
      <3>. QED
        BY <1>0, <2>3, <2>4, <2>5, <3>1 DEF v
    <2>6. CASE u[i] # "fence"
      <3>1. v = s \o <<"prose">>
        BY <2>2, <2>6
      <3>2. <<"prose">> \in Seq(Tokens) /\ Len(<<"prose">>) = 1
        BY DEF Tokens
      <3>3. v \in Seq(Tokens) /\ Len(v) = i /\ v[Len(v)] = "prose"
        BY <2>3, <2>4, <3>1, <3>2
      <3>. QED
        BY <1>0, <2>3, <3>3 DEF v
    <2>. QED
      BY <2>5, <2>6
  <1>. QED
    BY <1>1, <1>2

\* A text that loads once it is stripped is one JSON among newlines.
LEMMA JsonAmongNewlines ==
    ASSUME NEW x \in Seq(Tokens), Loads(StripNewlines(x))
    PROVE  \E i \in 1..Len(x) :
              /\ x[i] \in JsonPieces
              /\ \A j \in 1..Len(x) : j # i => x[j] = "newline"
  <1> DEFINE t == StripNewlines(x)
  <1>1. PICK c \in Nat :
           /\ c + Len(t) <= Len(x)
           /\ \A k \in 1..Len(t) : t[k] = x[k + c]
           /\ \A j \in 1..Len(x) : x[j] # "newline" => j - c \in 1..Len(t)
    BY Stripped
  <1>2. Len(t) = 1 /\ t[1] \in JsonPieces
    BY DEF Loads
  <1> HIDE DEF t
  <1>3. 1 + c \in 1..Len(x) /\ x[1 + c] \in JsonPieces
    BY <1>1, <1>2
  <1>4. \A j \in 1..Len(x) : j # 1 + c => x[j] = "newline"
    BY <1>1, <1>2
  <1>. QED
    BY <1>3, <1>4

\* What strip_markdown_fences makes loadable was whole to begin with.
LEMMA LoadedIsWhole ==
    ASSUME NEW text \in Seq(Tokens), Loads(StripMarkdownFences(text))
    PROVE  Whole(text)
  <1> DEFINE t == StripNewlines(text)
             u == DropOpening(t)
             v == DropClosing(u)
             Opened == t # <<>> /\ Head(t) = "fence"
  <1>1. CASE ~Opened
    <2>1. Loads(t)
      BY <1>1 DEF StripMarkdownFences
    <2>2. PICK i \in 1..Len(text) :
             /\ text[i] \in JsonPieces
             /\ \A j \in 1..Len(text) : j # i => text[j] = "newline"
      BY <2>1, JsonAmongNewlines
    <2>3. /\ \A j \in 1..(i - 1) : text[j] = "newline"
          /\ \A j \in (i + 1)..Len(text) : text[j] = "newline"
      BY <2>2
    <2>. QED
      BY <2>2, <2>3 DEF Whole
  <1>2. CASE Opened
    <2>1. Loads(StripNewlines(v))
      BY <1>2 DEF StripMarkdownFences
    <2>2. /\ t \in Seq(Tokens)
          /\ \E c \in Nat :
                /\ c + Len(t) <= Len(text)
                /\ \A k \in 1..Len(t) : t[k] = text[k + c]
                /\ \A j \in 1..Len(text) :
                      text[j] # "newline" => j - c \in 1..Len(t)
      BY Stripped
    <2>3. /\ u \in Seq(Tokens)
          /\ \E d \in Nat :
                /\ Len(t) = Len(u) + d
                /\ \A k \in 1..Len(u) :
                      u[k] = t[k + d] \/ (k = 1 /\ u[k] = "prose")
      BY <1>2, <2>2, OpeningDropped
    <2>4. /\ v \in Seq(Tokens)
          /\ Len(v) <= Len(u)
          /\ \/ /\ \A k \in 1..Len(v) : v[k] = u[k]
                /\ Len(v) < Len(u) => u[Len(v) + 1] = "fence"
             \/ Len(v) >= 1 /\ v[Len(v)] = "prose"
      BY <2>3, ClosingDropped
    <2>5. PICK i \in 1..Len(v) :
             /\ v[i] \in JsonPieces
             /\ \A j \in 1..Len(v) : j # i => v[j] = "newline"
      BY <2>1, <2>4, JsonAmongNewlines
    <2>6. Head(t) = "fence"
      BY <1>2
    <2> DEFINE n == Len(v)
    <2> HIDE DEF u, v
    \* Cut inside a piece, the text would end in something else than JSON.
    <2>cut. /\ \A k \in 1..n : v[k] = u[k]
            /\ n < Len(u) => u[n + 1] = "fence"
      <3>1. n \in Nat
        BY <2>4
      <3>2. ASSUME n >= 1 PROVE v[n] # "prose"
        <4>1. n \in 1..n
          BY <3>1, <3>2
        <4>2. v[n] \in JsonPieces \/ v[n] = "newline"
          BY <2>5, <4>1
        <4>. QED
          BY <4>2 DEF JsonPieces
      <3>. QED
        BY <2>4, <3>2
    <2>7. PICK c \in Nat :
             /\ c + Len(t) <= Len(text)
             /\ \A k \in 1..Len(t) : t[k] = text[k + c]
             /\ \A j \in 1..Len(text) : text[j] # "newline" => j - c \in 1..Len(t)
      BY <2>2
    <2>8. PICK d \in Nat :
             /\ Len(t) = Len(u) + d
             /\ \A k \in 1..Len(u) : u[k] = t[k + d] \/ (k = 1 /\ u[k] = "prose")
      BY <2>3
    <2> HIDE DEF t
    <2>9. Len(u) \in Nat /\ n \in Nat /\ Len(text) \in Nat
      BY <2>3, <2>4
    \* From the stripped text back to the whole one.
    <2>10. ASSUME NEW k \in 1..Len(u), u[k] # "prose"
           PROVE  k + d + c \in 1..Len(text) /\ text[k + d + c] = u[k]
      <3>1. u[k] = t[k + d] /\ k + d \in 1..Len(t)
        BY <2>8, <2>9, <2>10
      <3>2. t[k + d] = text[(k + d) + c] /\ (k + d) + c \in 1..Len(text)
        BY <2>7, <2>8, <2>9, <3>1
      <3>. QED
        BY <3>1, <3>2
    <2> DEFINE p == i + d + c
    <2>11. p \in 1..Len(text) /\ text[p] \in JsonPieces
      <3>1. i \in 1..Len(u) /\ u[i] = v[i]
        BY <2>4, <2>9, <2>cut
      <3>. QED
        BY <2>5, <2>10, <3>1 DEF JsonPieces
    <2>12. ASSUME NEW j \in (p + 1)..Len(text), text[j] # "newline"
           PROVE  \E k \in (p + 1)..j : text[k] = "fence"
      <3> DEFINE k == j - c - d
      <3>1. j \in 1..Len(text) /\ j - c \in 1..Len(t)
        BY <2>7, <2>9, <2>12
      <3>2. k \in (i + 1)..Len(u)
        BY <2>8, <2>9, <2>12, <3>1
      <3>3. u[k] = text[j]
        <4>1. k \in 1..Len(u) /\ k # 1
          BY <2>9, <3>2
        <4>2. u[k] = t[k + d]
          BY <2>8, <4>1
        <4>3. k + d = j - c
          BY <2>9, <3>1
        <4>4. t[j - c] = text[(j - c) + c]
          BY <2>7, <3>1
        <4>. QED
          BY <2>12, <4>2, <4>3, <4>4
      <3>4. ~(k \in 1..n)
        BY <2>cut, <2>5, <2>9, <2>12, <3>2, <3>3
      <3>5. n + 1 \in 1..k /\ n + 1 <= Len(u) /\ u[n + 1] = "fence"
        BY <2>cut, <2>9, <3>2, <3>4
      <3>6. text[n + 1 + d + c] = "fence"
        BY <2>9, <2>10, <3>5
      <3>7. n + 1 + d + c \in (p + 1)..j
        BY <2>9, <3>1, <3>5
      <3>. QED
        BY <3>6, <3>7
    <2>. QED
      BY <2>6, <2>11, <2>12 DEF Whole, t
  <1>. QED
    BY <1>1, <1>2

-----------------------------------------------------------------------------
\* The response schema is respected whatever the model sends.
LEMMA ParsedType ==
    ASSUME NEW c \in Content
    PROVE  ParseLlmJson(c) \in
             [opt_out_detected : BOOLEAN, confidence : 0..100, phrase : BOOLEAN]
  <1>1. FailClosed \in
          [opt_out_detected : BOOLEAN, confidence : 0..100, phrase : BOOLEAN]
    BY DEF FailClosed, Response
  <1>2. c.doc.confidence.value \in Int
    BY DEF Content, Document, JsonValue
  <1>3. Confidence(c.doc.confidence) \in 0..100
    <2>1. \A x \in Int : Clamp(x) \in 0..100
      BY DEF Clamp
    <2>. QED
      BY <1>2, <2>1 DEF Confidence
  <1>4. /\ OptOutDetected(c.doc.opt_out_detected) \in BOOLEAN
        /\ Truthy(c.doc.matched_phrase) \in BOOLEAN
    BY DEF OptOutDetected, Truthy
  <1>5. ParseDocument(c.doc) \in
          [opt_out_detected : BOOLEAN, confidence : 0..100, phrase : BOOLEAN]
    BY <1>1, <1>3, <1>4 DEF ParseDocument, Response
  <1>. QED
    BY <1>1, <1>5 DEF ParseLlmJson

\* TypeOK, whatever the model sends and however its question ends.
THEOREM TypeCorrect == Spec => []TypeOK
  <1>1. Init => TypeOK
    BY DEF Init, TypeOK
  <1>2. TypeOK /\ [Next]_vars => TypeOK'
    <2> SUFFICES ASSUME TypeOK, [Next]_vars PROVE TypeOK'
      OBVIOUS
    <2>1. FailClosed \in
            [opt_out_detected : BOOLEAN, confidence : 0..100, phrase : BOOLEAN]
      BY DEF FailClosed, Response
    <2>2. CASE RejectBlank \/ ModelTimesOut \/ ModelFails
      BY <2>1, <2>2 DEF RejectBlank, ModelTimesOut, ModelFails, TypeOK
    <2>3. ASSUME NEW c \in Contents, ModelReplies(c) PROVE TypeOK'
      <3>1. c \in Content
        BY OptOutAssumption
      <3>. QED
        BY <2>3, <3>1, ParsedType DEF ModelReplies, TypeOK
    <2>4. CASE Ask \/ Done \/ UNCHANGED vars
      BY <2>4 DEF Ask, Done, vars, TypeOK
    <2>. QED
      BY <2>2, <2>3, <2>4 DEF Next
  <1>. QED
    BY <1>1, <1>2, PTL DEF Spec

\* What it takes for one answer to clear a consumer.
LEMMA ClearingAnswer ==
    ASSUME NEW c \in Content, ~ParseLlmJson(c).opt_out_detected
    PROVE  /\ c.doc.object
           /\ c.kind # "other"
           /\ c.kind = "text" => Whole(c.text)
           /\ c.doc.opt_out_detected.type # "absent"
           /\ c.doc.opt_out_detected.value = 0
  <1> DEFINE v == c.doc.opt_out_detected
  <1>1. FailClosed.opt_out_detected
    BY DEF FailClosed, Response
  <1>2. /\ \/ c.kind = "dict" /\ c.doc.object
           \/ c.kind = "text" /\ Loads(StripMarkdownFences(c.text))
        /\ ~ParseDocument(c.doc).opt_out_detected
    BY <1>1 DEF ParseLlmJson
  <1>3. ~Raises(c.doc) /\ ~OptOutDetected(v)
    BY <1>1, <1>2 DEF ParseDocument, Response
  <1>4. c.text \in Seq(Tokens)
    BY DEF Content
  <1>5. v.type \in JsonTypes /\ (v.type = "null" => v.value = 0)
    BY DEF Content, Document, JsonValue
  <1>6. v.type # "absent" /\ v.value = 0
    BY <1>3, <1>5 DEF OptOutDetected, Truthy, JsonTypes
  <1>. QED
    BY <1>2, <1>3, <1>4, <1>6, LoadedIsWhole DEF Raises

\* A timeout, an outage, stray text, cut-off JSON or a missing key never
\* clears a consumer, whatever text the model may send.
THEOREM OnlyAnswersClear == Spec => []FailsClosed
  <1>1. Init => FailsClosed
    BY DEF Init, FailsClosed
  <1>2. FailsClosed /\ [Next]_vars => FailsClosed'
    <2> SUFFICES ASSUME FailsClosed, [Next]_vars PROVE FailsClosed'
      OBVIOUS
    <2>1. CASE RejectBlank \/ ModelTimesOut \/ ModelFails
      BY <2>1 DEF RejectBlank, ModelTimesOut, ModelFails, FailsClosed,
         FailClosed, Response
    <2>2. ASSUME NEW c \in Contents, ModelReplies(c) PROVE FailsClosed'
      <3>1. c \in Content /\ c # NoContent
        BY OptOutAssumption
      <3>. QED
        BY <2>2, <3>1, ClearingAnswer DEF ModelReplies, FailsClosed
    <2>3. CASE Ask \/ Done \/ UNCHANGED vars
      BY <2>3 DEF Ask, Done, vars, FailsClosed
    <2>. QED
      BY <2>1, <2>2, <2>3 DEF Next
  <1>. QED
    BY <1>1, <1>2, PTL DEF Spec

-----------------------------------------------------------------------------
(***************************************************************************)
(* The known wrappings come off.                                           *)
(***************************************************************************)
\* Nothing but newlines around the JSON at i.
Bare(x, i) ==
    /\ i \in 1..Len(x)
    /\ Loads(<<x[i]>>)
    /\ \A j \in 1..Len(x) : j # i => x[j] = "newline"

\* A fence opens the text, its line ends at d or the text is all one line,
\* the JSON is at p, and from n + 1 on there is at most the closing fence.
Fenced(w, d, p, n) ==
    /\ d \in 1..Len(w) /\ p \in (d + 1)..n /\ n \in 1..Len(w)
    /\ w[1] = "fence"
    /\ \/ /\ d = 1
          /\ \A j \in 1..Len(w) : ~HasNewline(w[j])
       \/ /\ w[d] = "newline"
          /\ \A j \in 1..(d - 1) : ~HasNewline(w[j])
    /\ w[p] \in JsonPieces
    /\ \A j \in (d + 1)..n : j # p => w[j] = "newline"
    /\ IF n < Len(w) THEN w[n + 1] = "fence" ELSE ~HoldsFence(w[p])
    /\ \A j \in (n + 2)..Len(w) : w[j] = "newline"

LEMMA BareLoads ==
    ASSUME NEW x \in Seq(Tokens), NEW i \in Nat, Bare(x, i)
    PROVE  Loads(StripNewlines(x))
  <1> DEFINE t == StripNewlines(x)
  <1> DEFINE I == {k \in 1..Len(x) : IsNotNewline(x[k])}
  <1>1. i \in 1..Len(x) /\ x[i] \in JsonPieces
    BY DEF Bare, Loads
  <1>2. I = {i}
    BY <1>1 DEF Bare, IsNotNewline, JsonPieces
  <1>3. Min(I) = i
    BY <1>2, MinIsFirst
  <1>4. Max(I) = i
    <2>1. Len(x) \in Nat /\ I \in SUBSET (1..Len(x))
      OBVIOUS
    <2>. QED
      BY <1>2, <2>1, MaxIsLast
  <1>5. t = SubSeq(x, i, i)
    <2>1. I # {} /\ i # 0
      BY <1>1, <1>2
    <2>2. SelectInSeq(x, IsNotNewline) = Min(I)
      BY <2>1, Selections
    <2>3. SelectLastInSeq(x, IsNotNewline) = Max(I)
      BY <2>1, Selections
    <2>. QED
      BY <1>3, <1>4, <2>1, <2>2, <2>3 DEF StripNewlines
  <1>6. SubSeq(x, i, i) = <<x[i]>>
    <2>1. Len(x) \in Nat /\ i \in 1..Len(x)
      BY <1>1
    <2>2. SubSeq(x, i, i) = <<x[i]>> \o SubSeq(x, i + 1, i)
      BY <2>1, SubSeqRecursiveFirst
    <2>3. SubSeq(x, i + 1, i) = <<>>
      BY <2>1, SubSeqEmpty
    <2>4. <<x[i]>> \in Seq(Tokens)
      BY <2>1
    <2>. QED
      BY <2>2, <2>3, <2>4, ConcatEmptySeq
  <1>. QED
    BY <1>5, <1>6 DEF Bare

\* The opening fence goes with the rest of its line.
LEMMA OpenedAt ==
    ASSUME NEW t \in Seq(Tokens), NEW d \in 1..Len(t),
           \/ d = 1 /\ \A j \in 1..Len(t) : ~HasNewline(t[j])
           \/ t[d] = "newline" /\ \A j \in 1..(d - 1) : ~HasNewline(t[j])
    PROVE  DropOpening(t) = SubSeq(t, d + 1, Len(t))
  <1> DEFINE I == {j \in 1..Len(t) : HasNewline(t[j])}
  <1>0. Len(t) \in Nat /\ I \in SUBSET Nat /\ t # <<>>
    OBVIOUS
  <1>1. ASSUME I = {} PROVE DropOpening(t) = SubSeq(t, d + 1, Len(t))
    <2>1. d = 1
      BY <1>1 DEF HasNewline
    <2>2. DropOpening(t) = Tail(t)
      BY <1>1, Selections DEF DropOpening
    <2>3. Tail(t) = SubSeq(t, 2, Len(t))
      BY <1>0, TailIsSubSeq
    <2>. QED
      BY <2>1, <2>2, <2>3
  <1>2. ASSUME I # {} PROVE DropOpening(t) = SubSeq(t, d + 1, Len(t))
    <2>1. /\ d \in I /\ t[d] = "newline"
          /\ \A j \in 1..(d - 1) : ~HasNewline(t[j])
      BY <1>2 DEF HasNewline
    <2>2. Min(I) \in I /\ \A y \in I : Min(I) <= y
      BY <1>0, <1>2, MinIsFirst
    <2>3. Min(I) = d
      BY <1>0, <2>1, <2>2
    <2>4. SelectInSeq(t, HasNewline) = d
      <3>1. SelectInSeq(t, HasNewline) = Min(I)
        BY <1>2, Selections
      <3>. QED
        BY <2>3, <3>1
    <2>5. t[d] = "newline" /\ d # 0
      BY <2>1
    <2>6. DropOpening(t) = <<>> \o SubSeq(t, d + 1, Len(t))
      BY <2>4, <2>5 DEF DropOpening, AfterNewline
    <2>7. SubSeq(t, d + 1, Len(t)) \in Seq(Tokens)
      BY <1>0
    <2>. QED
      BY <2>6, <2>7, ConcatEmptySeq
  <1>. QED
    BY <1>1, <1>2

LEMMA FencedLoads ==
    ASSUME NEW w \in Seq(Tokens), NEW d \in Nat, NEW p \in Nat, NEW n \in Nat,
           Fenced(w, d, p, n)
    PROVE  Loads(StripMarkdownFences(w))
  <1> DEFINE t == StripNewlines(w)
             u == DropOpening(t)
             v == DropClosing(u)
             m == Len(t)
  <1>1. t \in Seq(Tokens)
    BY Stripped
  <1>2. PICK c \in Nat :
           /\ c + Len(t) <= Len(w)
           /\ \A k \in 1..Len(t) : t[k] = w[k + c]
           /\ \A j \in 1..Len(w) : w[j] # "newline" => j - c \in 1..Len(t)
    BY Stripped
  <1> HIDE DEF t
  <1>3. Len(w) \in Nat /\ m \in Nat
    BY <1>1
  <1>4. /\ d \in 1..Len(w) /\ p \in (d + 1)..n /\ n \in 1..Len(w)
        /\ w[1] # "newline" /\ w[p] # "newline"
        /\ n < Len(w) => w[n + 1] # "newline"
    BY DEF Fenced, JsonPieces
  <1>5. c = 0
    BY <1>2, <1>3, <1>4
  <1>6. m <= Len(w) /\ \A k \in 1..m : t[k] = w[k]
    BY <1>2, <1>3, <1>5
  <1>7. \A j \in 1..Len(w) : w[j] # "newline" => j <= m
    BY <1>2, <1>3, <1>5
  <1>8. p <= m
    BY <1>4, <1>7
  <1>9. n < Len(w) => n + 1 <= m
    BY <1>3, <1>4, <1>7
  <1>10. t # <<>> /\ Head(t) = "fence"
    <2>1. m >= 1 /\ t[1] = "fence"
      BY <1>3, <1>4, <1>6, <1>8 DEF Fenced
    <2>. QED
      BY <1>1, <2>1
  <1>11. u = SubSeq(t, d + 1, m)
    <2>1. d \in 1..m
      BY <1>3, <1>4, <1>8
    <2>2. \/ d = 1 /\ \A j \in 1..m : ~HasNewline(t[j])
          \/ t[d] = "newline" /\ \A j \in 1..(d - 1) : ~HasNewline(t[j])
      BY <1>3, <1>6, <2>1 DEF Fenced
    <2>. QED
      BY <1>1, <2>1, <2>2, OpenedAt
  <1> HIDE DEF u
  <1>12. /\ u \in Seq(Tokens)
         /\ Len(u) = m - d
         /\ \A k \in 1..Len(u) : u[k] = w[k + d]
    <2>1. \A k \in (d + 1)..m : t[k] \in Tokens /\ k \in 1..m
      BY <1>1, <1>3, <1>4
    <2>2. /\ u \in Seq(Tokens)
          /\ Len(u) = m - d
          /\ \A k \in 1..(m - d) : u[k] = t[k + d]
      BY <1>1, <1>3, <1>4, <1>8, <1>11
    <2>3. \A k \in 1..(m - d) : k + d \in 1..m
      BY <1>3, <1>4
    <2>. QED
      BY <1>6, <2>2, <2>3
  <1>13. /\ v \in Seq(Tokens)
         /\ Len(v) <= n - d /\ p - d <= Len(v) /\ Len(v) <= Len(u)
         /\ \A k \in 1..Len(v) : v[k] = u[k]
    <2>1. CASE n < Len(w)
      <3> DEFINE I == {k \in 1..Len(u) : HoldsFence(u[k])}
                 q == n + 1 - d
      <3>1. q \in 1..Len(u) /\ q + d = n + 1
        BY <1>3, <1>4, <1>9, <1>12, <2>1
      <3>2. u[q] = "fence"
        BY <1>12, <2>1, <3>1 DEF Fenced
      <3>3. \A k \in 1..Len(u) : k > q => u[k] = "newline"
        <4> SUFFICES ASSUME NEW k \in 1..Len(u), k > q PROVE u[k] = "newline"
          OBVIOUS
        <4>1. k + d \in (n + 2)..Len(w)
          BY <1>3, <1>4, <1>6, <1>12
        <4>. QED
          BY <1>12, <4>1 DEF Fenced
      <3>4. I \in SUBSET (1..Len(u)) /\ q \in I /\ Len(u) \in Nat
        BY <1>12, <3>1, <3>2 DEF HoldsFence
      <3>5. Max(I) \in I /\ \A y \in I : Max(I) >= y
        BY <3>4, MaxIsLast
      <3>6. Max(I) = q
        <4>1. \A y \in I : ~(y > q)
          BY <3>3 DEF HoldsFence
        <4>. QED
          BY <3>1, <3>4, <3>5, <4>1
      <3> HIDE DEF q
      <3>7. SelectLastInSeq(u, HoldsFence) = q /\ q # 0
        <4>1. I # {} /\ q # 0
          BY <3>1, <3>4
        <4>2. SelectLastInSeq(u, HoldsFence) = Max(I)
          BY <4>1, Selections
        <4>. QED
          BY <3>6, <4>1, <4>2
      <3>8. v = SubSeq(u, 1, q - 1)
        <4>1. v = SubSeq(u, 1, q - 1) \o <<>>
          BY <3>2, <3>7 DEF DropClosing
        <4>2. SubSeq(u, 1, q - 1) \in Seq(Tokens)
          BY <1>12, <3>1
        <4>. QED
          BY <4>1, <4>2, ConcatEmptySeq
      <3>9. /\ v \in Seq(Tokens)
            /\ Len(v) = q - 1
            /\ \A k \in 1..Len(v) : v[k] = u[k]
        BY <1>12, <3>1, <3>8
      <3>. QED
        BY <1>3, <1>4, <1>12, <3>1, <3>9
    <2>2. CASE ~(n < Len(w))
      <3>1. n = Len(w)
        BY <1>3, <1>4, <2>2
      <3>2. ASSUME NEW k \in 1..Len(u) PROVE ~HoldsFence(u[k])
        <4>1. k + d \in (d + 1)..n
          BY <1>3, <1>4, <1>6, <1>12, <3>1
        <4>2. ~HoldsFence(w[k + d])
          BY <2>2, <4>1 DEF Fenced, HoldsFence
        <4>. QED
          BY <1>12, <4>2
      <3>3. v = u
        BY <3>2, Selections DEF DropClosing
      <3>. QED
        BY <1>3, <1>4, <1>6, <1>8, <1>12, <3>1, <3>3
    <2>. QED
      BY <2>1, <2>2
  <1> HIDE DEF v
  <1>14. Bare(v, p - d)
    <2>1. p - d \in 1..Len(v) /\ (p - d) + d = p /\ Len(v) \in Nat
      BY <1>4, <1>13
    <2>2. v[p - d] \in JsonPieces
      <3>1. p - d \in 1..Len(u)
        BY <1>12, <1>13, <2>1
      <3>2. v[p - d] = w[p]
        BY <1>12, <1>13, <2>1, <3>1
      <3>. QED
        BY <3>2 DEF Fenced
    <2>3. ASSUME NEW j \in 1..Len(v), j # p - d PROVE v[j] = "newline"
      <3>1. j \in 1..Len(u) /\ j + d \in (d + 1)..n /\ j + d # p
        BY <1>4, <1>12, <1>13, <2>1, <2>3
      <3>. QED
        BY <1>12, <1>13, <3>1 DEF Fenced
    <2>. QED
      BY <2>1, <2>2, <2>3 DEF Bare, Loads
  <1>15. Loads(StripNewlines(v))
    <2>1. p - d \in Nat
      BY <1>4
    <2>. QED
      BY <1>13, <1>14, <2>1, BareLoads
  <1>. QED
    BY <1>10, <1>15 DEF StripMarkdownFences, t, u, v

\* Each way of wrapping leaves the JSON it wraps.
LEMMA WrapperLoads ==
    ASSUME NEW j \in JsonPieces, NEW w \in Wrappers(j)
    PROVE  Loads(StripMarkdownFences(w))
  <1>0. j \in Tokens
    BY DEF Tokens
  <1>1. ASSUME NEW i \in Nat, w \in Seq(Tokens), Bare(w, i)
        PROVE  Loads(StripMarkdownFences(w))
    <2>1. Loads(StripNewlines(w))
      BY <1>1, BareLoads
    <2>2. Head(StripNewlines(w)) # "fence"
      BY <2>1 DEF Loads, JsonPieces
    <2>. QED
      BY <2>1, <2>2 DEF StripMarkdownFences
  <1>2. CASE w = <<j>>
    <2>1. w \in Seq(Tokens) /\ Bare(w, 1)
      BY <1>0, <1>2 DEF Bare, Loads
    <2>. QED
      BY <1>1, <2>1
  <1>3. CASE w = <<"newline", j, "newline">>
    <2>1. w \in Seq(Tokens) /\ Bare(w, 2)
      BY <1>0, <1>3 DEF Tokens, Bare, Loads
    <2>. QED
      BY <1>1, <2>1
  <1>4. CASE w = <<"fence", "tag", "newline", j, "newline", "fence">>
    <2>1. w \in Seq(Tokens) /\ Fenced(w, 3, 4, 5)
      BY <1>0, <1>4 DEF Tokens, Fenced, HasNewline
    <2>. QED
      BY <2>1, FencedLoads
  <1>5. CASE w = <<"fence", "newline", j, "newline", "fence", "newline">>
    <2>1. w \in Seq(Tokens) /\ Fenced(w, 2, 3, 4)
      BY <1>0, <1>5 DEF Tokens, Fenced, HasNewline
    <2>. QED
      BY <2>1, FencedLoads
  <1>6. CASE w = <<"fence", j, "fence">> /\ ~HasNewline(j)
    <2>1. w \in Seq(Tokens) /\ Fenced(w, 1, 2, 2)
      BY <1>0, <1>6 DEF Tokens, Fenced, HasNewline
    <2>. QED
      BY <2>1, FencedLoads
  <1>7. CASE w = <<"fence", "tag", "newline", j>> /\ ~HoldsFence(j)
    <2>1. w \in Seq(Tokens) /\ Fenced(w, 3, 4, 4)
      BY <1>0, <1>7 DEF Tokens, Fenced, HasNewline
    <2>. QED
      BY <2>1, FencedLoads
  <1>. QED
    BY <1>2, <1>3, <1>4, <1>5, <1>6, <1>7 DEF Wrappers

\* An answer is there only after a reply.
Answered == content # NoContent => stage = "answered"

\* Whatever fences and newlines a model puts around its JSON in the known
\* ways, and whether or not the JSON quotes a fence in a string, the response
\* is the one the bare document gives.
THEOREM FencesComeOff == Spec => []WrappersAreTransparent
  <1> DEFINE WInv == Answered /\ WrappersAreTransparent
  <1>1. Init => WInv
    BY DEF Init, Answered, WrappersAreTransparent
  <1>2. WInv /\ [Next]_vars => WInv'
    <2> SUFFICES ASSUME WInv, [Next]_vars PROVE WInv'
      OBVIOUS
    <2>1. CASE RejectBlank \/ ModelTimesOut \/ ModelFails
      BY <2>1 DEF RejectBlank, ModelTimesOut, ModelFails, Answered,
         WrappersAreTransparent
    <2>2. ASSUME NEW c \in Contents, ModelReplies(c) PROVE WInv'
      <3>1. ASSUME c.kind = "text", NEW j \in JsonPieces, c.text \in Wrappers(j)
            PROVE  ParseLlmJson(c) = ParseDocument(c.doc)
        BY <3>1, WrapperLoads DEF ParseLlmJson
      <3>. QED
        BY <2>2, <3>1 DEF ModelReplies, Answered, WrappersAreTransparent
    <2>3. CASE Ask \/ Done \/ UNCHANGED vars
      BY <2>3 DEF Ask, Done, vars, Answered, WrappersAreTransparent
    <2>. QED
      BY <2>1, <2>2, <2>3 DEF Next
  <1>. QED
    BY <1>1, <1>2, PTL DEF Spec

=============================================================================
