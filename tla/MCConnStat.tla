----------------------------- MODULE MCConnStat ------------------------------
\* Payloads: a request and a response, both cut short or damaged, and others.
EXTENDS ConnStat

Text(words) == [words |-> words, uriOk |-> TRUE]

MCPayload ==
    {Text(<<<<"GET">>, <<"other">>, <<"HTTP/", "1", ".", "1">>>>),
     Text(<<<<"GET">>, <<"other">>, <<"HTTP/", "1", ".">>>>),
     Text(<<<<"HTTP/", "1", ".", "0">>, <<"200">>, <<"other">>>>),
     Text(<<<<"HTTP/", "1", ".", "0">>, <<"2">>>>)}

\* For runs that are not about payloads.
MCNoHttp == {Text(<<<<"other">>>>)}
=============================================================================
