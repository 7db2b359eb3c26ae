------------------------------ MODULE MCOptOut -------------------------------
(***************************************************************************)
(* What the model may send: every combination of key values in a bare      *)
(* document, a few documents in every wrapping, and things that are not    *)
(* documents.                                                              *)
(***************************************************************************)
EXTENDS OptOut

V(t, v) == [type |-> t, value |-> v]

Absent == V("absent", 0)
Yes    == V("bool", 1)
No     == V("bool", 0)

Flags == {Absent, Yes, No, V("null", 0), V("number", 0), V("number", 100),
          V("string", 0), V("string", 5), V("list", 0), V("object", 1)}

Confidences == {Absent, V("null", 0), V("bool", 1), V("number", 97),
                V("number", 150), V("number", -10), V("nan", 0),
                V("bignum", 1), V("numeral", 90), V("numeral", 900),
                V("string", 4), V("list", 2)}

Phrases == {Absent, V("null", 0), V("string", 0), V("string", 9),
            V("numeral", 1), V("number", 7), V("list", 0), V("list", 1)}

Doc(o, c, m) == [object |-> TRUE, opt_out_detected |-> o, confidence |-> c,
                 matched_phrase |-> m]

NotAnObject == [object |-> FALSE, opt_out_detected |-> Absent,
                confidence |-> Absent, matched_phrase |-> Absent]

Documents == {Doc(o, c, m) : o \in Flags, c \in Confidences, m \in Phrases}

Texts ==
    UNION {Wrappers(j) : j \in JsonPieces} \cup
    {<<>>, <<"newline">>, <<"fence">>, <<"prose">>,
     <<"prose", "json">>,
     <<"fence", "tag", "json", "fence">>,
     <<"fence", "json_lines", "newline", "fence">>,
     <<"fence", "json", "newline", "fence">>,
     <<"fence", "tag", "newline", "json", "newline", "fence", "prose">>,
     <<"fence", "tag", "newline", "prose", "fence", "prose", "json">>,
     <<"fence", "newline", "json", "fence", "newline", "json", "fence">>,
     <<"fence", "newline", "json", "fence", "json">>,
     <<"fence", "tag", "newline", "json_quoting">>,
     <<"fence", "tag", "newline", "json_lines_quoting", "newline">>,
     <<"fence", "json_lines_quoting", "newline", "fence">>,
     <<"fence", "json_quoting">>,
     <<"fence", "newline", "json", "newline", "json_quoting">>,
     <<"fence", "newline", "json", "newline", "fence", "json_quoting">>,
     <<"prose", "json_quoting">>}

MCContents ==
    {[kind |-> "text", text |-> <<"json">>, doc |-> d] : d \in Documents}
    \cup {[kind |-> "dict", text |-> <<>>, doc |-> Doc(o, Absent, Absent)] : o \in Flags}
    \cup {[kind |-> "text", text |-> t, doc |-> d] :
            t \in Texts, d \in {Doc(No, V("number", 97), Absent),
                                Doc(Yes, V("number", 97), V("string", 9)),
                                NotAnObject}}
    \cup {[kind |-> "other", text |-> <<>>, doc |-> NotAnObject]}

=============================================================================
