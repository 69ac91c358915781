---------------------------- MODULE MCReadRequest ----------------------------
(* Model-checking instances of ReadRequest.                                *)
EXTENDS ReadRequest

Ends == {<<"n">>, <<"r", "n">>}
Options == {<<"k">>, <<"x">>, <<"x", "c">>}
OptionLines == {o \o e : o \in Options, e \in Ends}

\* Well-formed POST requests with up to two option lines and a body.
Bodies == {<<>>, <<"1", "2">>,
           <<"1", "2", "3", "4", "5", "6", "7", "8", "9", "a", "b">>}
MCRequests ==
    LET firsts == {<<"p">> \o e : e \in Ends}
        heads == firsts \cup {f \o l : f \in firsts, l \in OptionLines}
                        \cup {f \o l \o m : f \in firsts, l \in OptionLines,
                                            m \in OptionLines}
    IN  {h \o e \o b : h \in heads, e \in Ends, b \in Bodies}

\* All short byte sequences, requests or not.
MCGarbage == UNION {[1..n -> {"p", "s", "x", "r", "n"}] : n \in 1..4}

\* Request lines that fill the buffer, with and without a stray CR.
MCLong == {<<"p", "c", "c", "c", "c", "c", "r", "c">>,
           <<"p", "c", "c", "c", "c", "c", "c", "c", "n", "n">>}

MCStreams == MCRequests \cup MCGarbage \cup MCLong

\* Two requests that fit the buffer.
MCSplit == {<<"p", "n", "k", "n", "n">>, <<"p", "n", "x", "n", "n">>}
=============================================================================
