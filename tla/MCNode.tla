--------------------------------- MODULE MCNode ---------------------------------
EXTENDS Node

CONSTANTS a, b, c

MCVpc == [h \in Hosts |-> "vpc"]

\* Of the dashboard's files only the icon's type has to be found out.
MCKnownTypes == PageFiles \ {<<"assets", "ico", "favicon.ico">>}

OfRange(path) == [Request(path) EXCEPT !.range = TRUE]

MCRequests ==
  {Request(path) : path \in PageFiles}
  \cup {Request(path) : path \in {Root, <<"favicon.ico">>, <<"ws">>, <<"state">>, <<"state", "">>,
          <<"amazon_health", "">>, <<"assets", "index.html">>, <<"assets", "">>}}
  \cup {OfRange(<<"assets", "js", "index.js">>), [Request(Root) EXCEPT !.get = FALSE]}
=============================================================================
