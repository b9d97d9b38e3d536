------------------------------- MODULE WebServer -------------------------------
(***************************************************************************)
(* What the HTTP server of a hitter answers to a request (UI in web/ui.go, *)
(* ServeHome in web/prodserve.go).  net/http is external: ServeMux chooses *)
(* the handler, FileServer asks for the file and, for a range or a file    *)
(* whose type it does not know by its name, seeks in it.                   *)
(*                                                                         *)
(* A path is the sequence of its parts; one that ends in a slash has an    *)
(* empty last part.  Paths are clean: ServeMux sends a client that asks for *)
(* one with empty parts or dots in between to the path without.            *)
(***************************************************************************)
EXTENDS WebAssets

CONSTANTS
  KnownTypes   \* the files whose type the system knows by their name

ASSUME WebServerAssumption == KnownTypes \subseteq AssetNames

Root == <<"">>

\* A request: its path, whether it is a GET, whether it asks for a range.
Request(path) == [path |-> path, get |-> TRUE, range |-> FALSE]

\* What is answered: a status, and the file sent, if any.
Reply(status) == [status |-> status, file |-> NoFile]
Send(file) == [status |-> "ok", file |-> file]

\* The patterns that are registered: subtrees end in a slash.
Subtrees == {<<"amazon_health", "">>, <<"state", "">>, Root}
Exact == {<<"ws">>, <<"favicon.ico">>}

\* The subtrees without their slash, which ServeMux adds by itself: it sends the
\* client to the path with the slash.
Bare == {<<"amazon_health">>, <<"state">>}

Under(subtree, path) ==
  subtree = Root \/ (Len(path) >= Len(subtree) /\ Front(subtree) = SubSeq(path, 1, Len(subtree) - 1))

\* ServeMux: the longest pattern that fits.
Pattern(path) ==
  IF path \in Exact \cup Bare THEN path
  ELSE IF \E s \in Subtrees \ {Root} : Under(s, path)
         THEN CHOOSE s \in Subtrees \ {Root} : Under(s, path)
         ELSE Root

-----------------------------------------------------------------------------
\* Mutant: the slash in front of the name is left there.
OpenWithSlash(path) == Asset(<<"">> \o path)

\* EmbeddedFileSystem.Open.
Open(path) == Asset(path)

\* EmbeddedFile has no Seeker: a Seek panics, and net/http drops the connection.
Seeks(request, file) == request.range \/ file.name \notin KnownTypes

\* FileServer with EmbeddedFileSystem.  The error of an unknown name is not one
\* of "not exist".
ServeFile(request, path) ==
  IF Last(path) = "index.html" THEN Reply("redirect")
  ELSE LET file == Open(path)
       IN  IF file = NoFile THEN Reply("server error")
           ELSE IF Seeks(request, file) THEN Reply("dropped")
           ELSE Send(file)

\* The values the page's template is filled with, and those it asks for: it would
\* end at one that is missing.
LoadData == {"QPSTarget", "Procs", "WhichDB"}
PageValues == {"QPSTarget", "Procs", "WhichDB"}

\* The handler of ServeHome: the page is the template index.html.
ServeHome(request, path) ==
  IF path # Root THEN ServeFile(request, path)
  ELSE IF ~request.get THEN Reply("not allowed")
  ELSE IF PageValues \subseteq LoadData THEN Send(Asset(<<"assets", "index.html">>))
  ELSE Reply("cut off")

\* rewrite: the handler sees another path.
rewrite(request) == ServeHome(request, <<"assets", "ico", "favicon.ico">>)

\* What the load balancer asks for.
AmazonHealth == Reply("healthy")

\* The answer of a serving process.
Answer(request) ==
  LET pattern == Pattern(request.path)
  IN  CASE pattern \in Bare -> Reply("redirect")
        [] pattern = <<"amazon_health", "">> -> AmazonHealth
        [] pattern = <<"state", "">> -> Reply("state")
        [] pattern = <<"ws">> -> Reply("socket")
        [] pattern = <<"favicon.ico">> -> rewrite(request)
        [] pattern = Root -> ServeHome(request, request.path)

-----------------------------------------------------------------------------
\* What a browser that shows the dashboard asks for: the page names the files,
\* and the pages' style sheet two pictures.
PageFiles ==
  {<<"assets", "css", "index.css">>, <<"assets", "js", "index.js">>,
   <<"assets", "js", "lineandbars.js">>, <<"assets", "img", "skull.svg">>,
   <<"assets", "img", "sep-half.png">>, <<"assets", "ico", "favicon.ico">>}
=============================================================================
