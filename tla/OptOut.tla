------------------------------- MODULE OptOut --------------------------------
(***************************************************************************)
(* POST /api/v1/analyze-transcript: one transcript, one question to the    *)
(* local model, and the parser that turns whatever comes back into an      *)
(* opt-out classification (app/services/local_llm.py).                     *)
(*                                                                         *)
(* A JSON value is a record of its type and an integer: hundredths for a   *)
(* number or a numeral in a string, 0 or 1 for a Boolean, the length for a *)
(* string, list or object.  Only classes Python's bool(), float() and the  *)
(* response schema tell apart are kept.                                    *)
(***************************************************************************)
EXTENDS Integers, Sequences, SequencesExt

CONSTANTS
    Contents,   \* what response.message.content may be
    Endings,    \* how a question to the model may end, see EndingKinds
    NoContent   \* nothing came back

EndingKinds == {"reply", "timeout", "failure"}

JsonTypes == {"absent", "null", "bool", "number", "nan", "bignum", "string",
              "numeral", "list", "object"}

JsonValue ==
    {v \in [type : JsonTypes, value : Int] :
        v.type \in {"absent", "null"} => v.value = 0}

\* The keys the parser reads, and whether the document is an object at all.
Document == [object           : BOOLEAN,
             opt_out_detected : JsonValue,
             confidence       : JsonValue,
             matched_phrase   : JsonValue]

\* JSON may be on one line or pretty-printed over several, and a string in
\* it may quote a fence.
JsonPieces == {"json", "json_lines", "json_quoting", "json_lines_quoting"}

\* Text is a sequence of the pieces that matter to fence stripping.
Tokens == {"fence", "tag", "newline", "prose"} \cup JsonPieces

Content == [kind : {"text", "dict", "other"}, text : Seq(Tokens), doc : Document]

ASSUME OptOutAssumption ==
    /\ Contents \subseteq Content
    /\ Endings \subseteq EndingKinds
    /\ NoContent \notin Content

VARIABLES
    stage,    \* "idle", "asking" or "answered"
    content,  \* what the model sent, once it has
    result    \* the response

vars == <<stage, content, result>>

NoResult  == [opt_out_detected |-> TRUE, confidence |-> -1, phrase |-> FALSE]

-----------------------------------------------------------------------------
(***************************************************************************)
(* Fence stripping.                                                        *)
(***************************************************************************)
HoldsFence(t)   == t \in {"fence", "json_quoting", "json_lines_quoting"}
IsNotNewline(t) == t # "newline"
HasNewline(t)   == t \in {"newline", "json_lines", "json_lines_quoting"}

\* str.strip()
StripNewlines(text) ==
    IF SelectInSeq(text, IsNotNewline) = 0 THEN <<>> ELSE
    SubSeq(text, SelectInSeq(text, IsNotNewline),
                 SelectLastInSeq(text, IsNotNewline))

\* The text after the first newline, which may be one inside the JSON: what
\* is then left of the JSON is not JSON.
AfterNewline(text) ==
    LET i == SelectInSeq(text, HasNewline) IN
    (IF text[i] = "newline" THEN <<>> ELSE <<"prose">>)
        \o SubSeq(text, i + 1, Len(text))

DropOpening(text) ==
    IF SelectInSeq(text, HasNewline) = 0 THEN Tail(text) ELSE AfterNewline(text)

\* Mutant: find in place of rfind.
DropClosingAtFirst(text) ==
    LET i == SelectInSeq(text, HoldsFence) IN
    IF i = 0 THEN text
    ELSE SubSeq(text, 1, i - 1)
            \o (IF text[i] = "fence" THEN <<>> ELSE <<"prose">>)

\* The text before the last fence, which may be one that the JSON quotes:
\* the JSON is then cut inside that string and what is left is not JSON.
DropClosing(text) ==
    LET i == SelectLastInSeq(text, HoldsFence) IN
    IF i = 0 THEN text
    ELSE SubSeq(text, 1, i - 1)
            \o (IF text[i] = "fence" THEN <<>> ELSE <<"prose">>)

StripMarkdownFences(text) ==
    LET t == StripNewlines(text) IN
    IF t # <<>> /\ Head(t) = "fence"
    THEN StripNewlines(DropClosing(DropOpening(t)))
    ELSE t

\* json.loads accepts the text.
Loads(text) == Len(text) = 1 /\ text[1] \in JsonPieces

-----------------------------------------------------------------------------
(***************************************************************************)
(* The parser.                                                             *)
(***************************************************************************)
Response(opt_out, confidence, phrase) ==
    [opt_out_detected |-> opt_out, confidence |-> confidence, phrase |-> phrase]

FailClosed == Response(TRUE, 0, FALSE)

\* Python's bool().
Truthy(v) ==
    \/ v.type \in {"nan", "bignum", "numeral"}
    \/ v.type \in {"bool", "number", "string", "list", "object"} /\ v.value # 0

\* Mutant: a missing key counts as no opt-out.
OptOutDetectedOrNot(v) == Truthy(v)

\* data.get("opt_out_detected", True), then bool().
OptOutDetected(v) == v.type = "absent" \/ Truthy(v)

Clamp(x) == IF x > 100 THEN 100 ELSE IF x < 0 THEN 0 ELSE x

\* Mutant: only the upper bound is enforced.
ConfidenceUnclamped(v) ==
    IF v.type \in {"number", "numeral"} THEN IF v.value > 100 THEN 100 ELSE v.value
    ELSE IF v.type = "bool" THEN 100 * v.value
    ELSE IF v.type = "nan" THEN 100
    ELSE 50

\* float() and the clamp.  min(1.0, nan) is 1.0, so NaN ends up as certainty;
\* what float() refuses with a TypeError or a ValueError becomes one half.
Confidence(v) ==
    IF v.type \in {"number", "numeral"} THEN Clamp(v.value)
    ELSE IF v.type = "bool" THEN Clamp(100 * v.value)
    ELSE IF v.type = "nan" THEN 100
    ELSE 50

\* What escapes the parser as an exception: .get() on something that is not
\* an object, an integer float() cannot hold, a phrase the schema refuses.
Raises(doc) ==
    \/ ~doc.object
    \/ doc.confidence.type = "bignum"
    \/ /\ Truthy(doc.matched_phrase)
       /\ doc.matched_phrase.type \notin {"string", "numeral"}

ParseDocument(doc) ==
    IF Raises(doc) THEN FailClosed
    ELSE Response(OptOutDetected(doc.opt_out_detected),
                  Confidence(doc.confidence),
                  Truthy(doc.matched_phrase))

ParseLlmJson(c) ==
    IF \/ c.kind = "dict" /\ c.doc.object
       \/ c.kind = "text" /\ Loads(StripMarkdownFences(c.text))
    THEN ParseDocument(c.doc)
    ELSE FailClosed

-----------------------------------------------------------------------------
(***************************************************************************)
(* analyze_transcript_for_opt_out.                                         *)
(***************************************************************************)
\* A blank transcript is not worth a question.
RejectBlank ==
    /\ stage = "idle"
    /\ stage' = "answered"
    /\ result' = FailClosed
    /\ UNCHANGED content

Ask ==
    /\ stage = "idle"
    /\ stage' = "asking"
    /\ UNCHANGED <<content, result>>

ModelReplies(c) ==
    /\ "reply" \in Endings
    /\ stage = "asking"
    /\ stage' = "answered"
    /\ content' = c
    /\ result' = ParseLlmJson(c)

\* Mutant: nobody bounds the wait.
ModelNeverTimesOut ==
    /\ "timeout" \in Endings
    /\ stage = "asking"
    /\ UNCHANGED vars

\* asyncio.timeout() cancels the question: a later answer finds nobody.
ModelTimesOut ==
    /\ "timeout" \in Endings
    /\ stage = "asking"
    /\ stage' = "answered"
    /\ result' = FailClosed
    /\ UNCHANGED content

\* ConnectionError, ResponseError and every other exception.
ModelFails ==
    /\ "failure" \in Endings
    /\ stage = "asking"
    /\ stage' = "answered"
    /\ result' = FailClosed
    /\ UNCHANGED content

Init == stage = "idle" /\ content = NoContent /\ result = NoResult

Done == stage = "answered" /\ UNCHANGED vars

Next ==
    \/ RejectBlank \/ Ask
    \/ \E c \in Contents : ModelReplies(c)
    \/ ModelTimesOut \/ ModelFails
    \/ Done

\* Only the timeout is guaranteed: the model need never answer.
Spec == Init /\ [][Next]_vars /\ WF_vars(ModelTimesOut)

-----------------------------------------------------------------------------
(***************************************************************************)
(* Properties.                                                             *)
(***************************************************************************)
\* tests/test_nlp_engine.py:195: whatever the model does, the response has
\* its fields and the confidence lies between 0 and 1.
TypeOK ==
    /\ stage \in {"idle", "asking", "answered"}
    /\ content \in Content \cup {NoContent}
    /\ result = NoResult \/ result \in
          [opt_out_detected : BOOLEAN, confidence : 0..100, phrase : BOOLEAN]

\* Some JSON in the text is whole: it stands alone, or a fence opens the text
\* and another one comes between the JSON and whatever follows it.
Whole(text) ==
    \E i \in DOMAIN text :
        /\ text[i] \in JsonPieces
        /\ \A j \in 1..(i - 1) :
              text[j] # "newline" => Head(StripNewlines(text)) = "fence"
        /\ \A j \in (i + 1)..Len(text) :
              text[j] # "newline" => \E k \in (i + 1)..j : text[k] = "fence"

\* A consumer is cleared (no opt-out) only on the strength of an answer that
\* arrived in time, was an object, came whole and has an opt_out_detected key
\* with an empty or false value: no timeout, outage, stray text, cut-off JSON
\* or missing key ever clears one.
FailsClosed ==
    (stage = "answered" /\ ~result.opt_out_detected) =>
        /\ content # NoContent
        /\ content.doc.object
        /\ content.kind # "other"
        /\ content.kind = "text" => Whole(content.text)
        /\ content.doc.opt_out_detected.type # "absent"
        /\ content.doc.opt_out_detected.value = 0

\* The ways a model may wrap its JSON: tests/test_nlp_engine.py:26-41 has it
\* bare, in a fence with a language tag and in a plain fence; a fence around
\* one line and one that is never closed are what the other branches of
\* _strip_markdown_fences are there for.  Those two have their limits: with
\* the JSON on the fence's own line, the code looks for the end of that line
\* inside the JSON, and without a closing fence for one that the JSON quotes.
Wrappers(j) ==
    {<<j>>, <<"newline", j, "newline">>,
     <<"fence", "tag", "newline", j, "newline", "fence">>,
     <<"fence", "newline", j, "newline", "fence", "newline">>}
    \cup {w \in {<<"fence", j, "fence">>} : ~HasNewline(j)}
    \cup {w \in {<<"fence", "tag", "newline", j>>} : ~HoldsFence(j)}

\* Fences change nothing, whether or not the JSON quotes one itself: within
\* those limits the response is the one the bare document gives.
WrappersAreTransparent ==
    (/\ content # NoContent
     /\ content.kind = "text"
     /\ \E j \in JsonPieces : content.text \in Wrappers(j)) =>
        result = ParseDocument(content.doc)

\* Every transcript that is put to the model is classified, even if the
\* model never answers.
EveryTranscriptAnswered == (stage = "asking") ~> (stage = "answered")

\* local_llm.py:97, "Applies safe defaults for any missing or malformed
\* keys": an opt_out_detected that is not a Boolean is taken as an opt-out.
MalformedFlagIsSafe ==
    (content # NoContent /\ content.doc.opt_out_detected.type # "bool") =>
        result.opt_out_detected

=============================================================================
