----------------------------- MODULE MCService ------------------------------
(***************************************************************************)
(* Instances of Service for TLC.                                           *)
(***************************************************************************)
EXTENDS Service

\* Two messages, and one message that holds NUL bytes, with the same bytes between them.
Two == [text |-> <<"user", "hi", "user", "more">>, ends |-> 1..4]
One == [text |-> <<"user", "hi", "user", "more">>, ends |-> {1, 4}]

MCPrompts == {Two, One}

\* Three queries of one key, the last of them grounded; the first with another
\* temperature; and a stream.
MCQueries ==
    {[prompt |-> p, temperature |-> t, grounding |-> g, stream |-> s] :
        <<p, t, g, s>> \in {<<Two, <<7000000>>, FALSE, FALSE>>, <<One, <<7000004>>, FALSE, FALSE>>,
                           <<Two, <<7000000>>, TRUE, FALSE>>, <<Two, <<7000010>>, FALSE, FALSE>>,
                           <<Two, <<>>, FALSE, TRUE>>}}
=============================================================================
