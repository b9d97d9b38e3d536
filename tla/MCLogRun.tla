-------------------------------- MODULE MCLogRun --------------------------------
EXTENDS LogRun

MCTooLong == <<"...">>

MCPrice == ("2" :> 2) @@ ("3" :> 3)

Good == [base64 |-> TRUE, parts |-> 7, json |-> TRUE, items |-> 8,
         dateIsString |-> TRUE, date |-> TRUE, objectId |-> TRUE]

\* "a" can be decoded whatever the log; the others each have one fault.
MCForm ==
  ("a" :> Good)
  @@ ("ascii" :> [Good EXCEPT !.base64 = FALSE])
  @@ ("short" :> [Good EXCEPT !.parts = 6, !.items = 7])
  @@ ("empty" :> [Good EXCEPT !.parts = 1, !.items = 0])
  @@ ("undated" :> [Good EXCEPT !.date = FALSE])
  @@ ("nonjson" :> [Good EXCEPT !.json = FALSE])
  @@ ("noid" :> [Good EXCEPT !.objectId = FALSE])
  @@ ("number" :> [Good EXCEPT !.dateIsString = FALSE])

Ids == DOMAIN MCForm

\* One id's records, complete and not, in the formats of both kinds of log.
RecordsOf(id) == {<<id>>, <<id, "w">>, <<id, "w", "x">>, <<id, "w", "2">>, <<id, "w", "3">>,
                  <<id, "sp">>, <<id, "c">>, <<id, "2">>}

\* Up to two lines of one id with a scanner's failure anywhere, and a line of
\* that id before or after one of another.
MCContents ==
  LET Lines == RecordsOf("a") \cup {MCTooLong}
      Other == {<<id, "w", "2">> : id \in Ids} \cup {<<id, "2">> : id \in Ids}
  IN  {<<>>} \cup {<<l>> : l \in Lines} \cup {<<k, l>> : k, l \in Lines}
      \cup {<<<<"a", "w", "2">>, o>> : o \in Other} \cup {<<o, <<"a", "2">>>> : o \in Other}
=============================================================================
