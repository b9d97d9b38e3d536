--------------------------------- MODULE LogRun ---------------------------------
(***************************************************************************)
(* What one RunLogs worker does with the tasks it takes (engine/runlogs.go):*)
(* it goes through the files Glob finds for the collection, counts the     *)
(* records of a file by the id they carry, and sends one update per id.    *)
(* In module WorkerPool the number of files and of updates is a free       *)
(* choice, and what other goroutines do is modelled; here it is the other  *)
(* way round: what AmDone and Mongo answer is a free choice.               *)
(*                                                                         *)
(* A line is the sequence of its tokens.  What the decoders find in an id  *)
(* is given by the constant Form.                                          *)
(***************************************************************************)
EXTENDS LogFiles

CONSTANTS
  Contents,   \* the contents a file may have: sequences of lines
  TooLong,    \* a line that does not fit the scanner's buffer of 64 kB
  Price,      \* the tokens that are numbers, with the number
  Form        \* the ids, with what their decoding meets

Field == [base64: BOOLEAN, parts: Nat, json: BOOLEAN, items: Nat,
          dateIsString: BOOLEAN, date: BOOLEAN, objectId: BOOLEAN]

\* Every id that may turn up in a record has its form.
ASSUME LogRunAssumption ==
  /\ Contents \subseteq Seq(Seq(STRING))
  /\ TooLong \in Seq(STRING)
  /\ \A text \in Contents : \A i \in DOMAIN text :
        Len(text[i]) >= 2 => text[i][1] \in DOMAIN Form
  /\ \A id \in DOMAIN Form : Form[id] \in Field
  /\ \A token \in DOMAIN Price : Price[token] \in Int

WINS == "w"
SPEND == "sp"
BIDS == "b"
CLICKS == "c"
CLIENT_SIDE_LOAD == "csl"

VARIABLES
  pc,       \* where the worker is
  log,      \* the collection of its task
  file,     \* how many of the task's files it has begun
  lines,    \* the contents of the file it has in hand
  agg,      \* log_agg: what it has counted in that file
  left,     \* the ids it has still to range over
  sent,     \* history: the updates made for this file
  lost      \* history: the ids of this file whose update was given up

vars == <<pc, log, file, lines, agg, left, sent, lost>>

WorkerPC == {"recv", "next", "open", "update", "gone", "crashed"}

Init ==
  /\ pc = "recv"
  /\ log = AdvertiserColl
  /\ file = 0
  /\ lines = <<>>
  /\ agg = <<>>
  /\ left = {}
  /\ sent = {}
  /\ lost = {}

-----------------------------------------------------------------------------
(***************************************************************************)
(* AggregateLog and the functions it applies to each line.                 *)
(***************************************************************************)

\* update_fields[key]: zero when the key is missing.
Get(f, key) == IF key \in DOMAIN f THEN f[key] ELSE 0

\* f[key] = value of Go's maps: the key is added when it is missing.
Put(f, key, value) ==
  [k \in DOMAIN f \cup {key} |-> IF k = key THEN value ELSE f[k]]

Plus(f, key, n) == Put(f, key, Get(f, key) + n)

\* The lines AggregateLog hands to the function it is given: the scanner stops at
\* one that is too long, and what was counted before stays.
AggregateLog(text) ==
  LET end == SelectInSeq(text, LAMBDA line : line = TooLong)
  IN  IF end = 0 THEN text ELSE SubSeq(text, 1, end - 1)

\* A record that has all its fields.
WholeRecord(line) ==
  /\ Len(line) >= 2
  /\ line[2] = WINS => Len(line) >= 3 /\ line[3] \in DOMAIN Price

\* Mutant: the type is counted before the price is looked at.
CountFirst(counts, line) ==
  IF Len(line) < 2 THEN counts
  ELSE LET id == line[1]
           old == IF id \in DOMAIN counts THEN counts[id] ELSE <<>>
           paid == IF line[2] = WINS /\ WholeRecord(line)
                     THEN Plus(old, SPEND, Price[line[3]]) ELSE old
       IN  Put(counts, id, Plus(paid, line[2], 1))

\* makeAggregator's function: one more of this type, and the price of a win.
makeAggregator(counts, line) ==
  IF ~WholeRecord(line) THEN counts
  ELSE LET id == line[1]
           old == IF id \in DOMAIN counts THEN counts[id] ELSE <<>>
           paid == IF line[2] = WINS THEN Plus(old, SPEND, Price[line[3]]) ELSE old
       IN  Put(counts, id, Plus(paid, line[2], 1))

\* Mutant: the two fields are mixed up.
AddSpendSwapped(counts, line) ==
  IF Len(line) < 2 \/ line[2] \notin DOMAIN Price THEN counts
  ELSE Put(counts, line[2], Plus(<<>>, SPEND, Price[line[2]]))

\* The function of AdvertiserLog and CampaignLog: the second field is a price.
AddSpend(counts, line) ==
  IF Len(line) < 2 \/ line[2] \notin DOMAIN Price THEN counts
  ELSE LET old == IF line[1] \in DOMAIN counts THEN counts[line[1]] ELSE <<>>
       IN  Put(counts, line[1], Plus(Plus(old, SPEND, Price[line[2]]), "imps", 1))

\* The logs whose records are an id and a price.
SpendLogs == {AdvertiserColl, CampaignColl}

\* The function that the log function of a collection hands to AggregateLog.
CountLine(coll, counts, line) ==
  IF coll \in SpendLogs THEN AddSpend(counts, line) ELSE makeAggregator(counts, line)

\* What it counts in the lines it is given.
Counts(coll, given) ==
  FoldLeft(LAMBDA counts, line : CountLine(coll, counts, line), <<>>, given)

-----------------------------------------------------------------------------
(***************************************************************************)
(* From an id to the update.                                               *)
(***************************************************************************)

\* Mutant: the number of fields is not looked at.
UnpackUnchecked(form) ==
  IF ~form.base64 THEN "skip"
  ELSE IF form.parts < 7 THEN "panic"
  ELSE IF ~form.date THEN "skip" ELSE "ok"

\* UnpackEncodedID: seven fields, the third of them a date in one of two forms.
UnpackEncodedID(form) ==
  IF form.base64 /\ form.parts >= 7 /\ form.date THEN "ok" ELSE "skip"

\* The keys DetailsLog expects in an id of this log.
CommonKeys == 4
RecordKeys == CommonKeys + (CASE log = LocColl -> 3 [] log = DeviceColl -> 4)

\* DetailsLog decodes an id itself: a JSON array whose third element is taken to be
\* there and to be a string.
DetailsLog(form) ==
  IF ~form.base64 \/ ~form.json THEN "skip"
  ELSE IF form.items < 3 \/ ~form.dateIsString THEN "panic"
  ELSE IF form.date /\ RecordKeys <= form.items THEN "ok" ELSE "skip"

\* bson.ObjectIdHex panics on what is no object id.
ObjectIdHex(form) == IF form.objectId THEN "ok" ELSE "panic"

TotalDataLog(form) ==
  IF UnpackEncodedID(form) = "ok" THEN ObjectIdHex(form) ELSE UnpackEncodedID(form)

\* What becomes of an id: an update, nothing, or the end of the process.
Decoded(id) ==
  CASE log = TdColl -> TotalDataLog(Form[id])
    [] log \in {LocColl, DeviceColl} -> DetailsLog(Form[id])
    [] log = CampaignColl -> ObjectIdHex(Form[id])
    [] log = AdvertiserColl -> "ok"

\* The increments of the update.
AdvertiserInc(fields) == [funds |-> -Get(fields, SPEND)]

CampaignInc(fields) == [spend |-> Get(fields, SPEND), imps |-> Get(fields, "imps")]

DetailsInc(fields) ==
  [key \in {WINS, CLIENT_SIDE_LOAD, BIDS, CLICKS, SPEND} |-> Get(fields, key)]

Increments(fields) ==
  CASE log = AdvertiserColl -> AdvertiserInc(fields)
    [] log = CampaignColl -> CampaignInc(fields)
    [] OTHER -> DetailsInc(fields)

-----------------------------------------------------------------------------
(***************************************************************************)
(* The worker.                                                             *)
(***************************************************************************)

\* No file in hand.
NoFile == lines' = <<>> /\ agg' = <<>> /\ left' = {} /\ sent' = {} /\ lost' = {}

\* coll, ok := <-tasks: a task and its files, or a closed channel.
TakeTask ==
  /\ pc = "recv"
  /\ \/ \E coll \in Logs :
          /\ log' = coll
          /\ pc' = IF Glob[coll] = <<>> THEN "recv" ELSE "next"
     \/ pc' = "gone" /\ UNCHANGED log
  /\ file' = 0
  /\ NoFile

\* Mutant: the worker begins the first file again and again.
SameFile == 1

\* The next of the files.
NextFile == file + 1

\* The loop over the files: AmDone() may end RunLogs before each of them.
BeginFile ==
  /\ pc = "next"
  /\ IF file = Len(Glob[log])
       THEN pc' = "recv" /\ file' = 0
       ELSE \/ pc' = "gone" /\ UNCHANGED file
            \/ pc' = "open" /\ file' = NextFile
  /\ NoFile
  /\ UNCHANGED log

\* The log function counts the records of the file, if it can be unpacked.
ReadFile ==
  /\ pc = "open"
  /\ \E text \in Contents, corrupt \in {{}, {Glob[log][file]}} :
        LET bytes == Asset(text, Glob[log][file], corrupt)
        IN  lines' = IF bytes = NoAsset THEN <<>> ELSE bytes
  /\ agg' = Counts(log, AggregateLog(lines'))
  /\ left' = DOMAIN agg'
  /\ pc' = "update"
  /\ UNCHANGED <<log, file, sent, lost>>

\* Mutant: return instead of continue.
SkipRest(id) ==
  /\ Decoded(id) = "skip"
  /\ left' = {}
  /\ UNCHANGED <<pc, lines, agg, sent, lost>>

\* An id that cannot be decoded.
SkipId(id) ==
  /\ Decoded(id) = "skip"
  /\ left' = left \ {id}
  /\ UNCHANGED <<pc, lines, agg, sent, lost>>

\* A panic outside wrapMongo: nothing recovers from it.
Crash(id) ==
  /\ Decoded(id) = "panic"
  /\ pc' = "crashed"
  /\ UNCHANGED <<lines, agg, left, sent, lost>>

\* Upsert or Update has been made, or wrapMongo has given it up.
Update(id) ==
  /\ Decoded(id) = "ok"
  /\ left' = left \ {id}
  /\ \/ sent' = sent \cup {[id |-> id, inc |-> Increments(agg[id])]} /\ UNCHANGED lost
     \/ lost' = lost \cup {id} /\ UNCHANGED sent
  /\ UNCHANGED <<pc, lines, agg>>

\* AmDone, called before the update, ends this file (the collection is
\* inactive) or RunLogs.
Return(id) ==
  /\ Decoded(id) = "ok"
  /\ pc' \in {"next", "gone"}
  /\ NoFile

\* The loop over log_agg, in any order.
RangeOver(id) ==
  /\ pc = "update"
  /\ SkipId(id) \/ Crash(id) \/ Update(id) \/ Return(id)
  /\ UNCHANGED <<log, file>>

\* The log function returns false.
EndFile ==
  /\ pc = "update"
  /\ left = {}
  /\ pc' = "next"
  /\ NoFile
  /\ UNCHANGED <<log, file>>

Next ==
  \/ TakeTask \/ BeginFile \/ ReadFile \/ EndFile
  \/ \E id \in left : RangeOver(id)

Spec == Init /\ [][Next]_vars

\* The worker is scheduled; it may wait for a task for ever.
FairSpec == Spec /\ WF_vars(Next /\ pc # "recv")
-----------------------------------------------------------------------------
(***************************************************************************)
(* What an update should say, put without the fold: which lines count for  *)
(* an id, and what they come to.                                           *)
(***************************************************************************)
TypeOK ==
  /\ pc \in WorkerPC
  /\ log \in Logs
  /\ file \in 0 .. Len(Glob[log])
  /\ lines \in Contents \cup {<<>>}
  /\ DOMAIN agg \subseteq DOMAIN Form
  /\ left \cup lost \cup {u.id : u \in sent} \subseteq DOMAIN agg

\* The lines of the file that the scanner delivers.
Scanned == {i \in DOMAIN lines : \A j \in 1 .. i : lines[j] # TooLong}

\* The records of an id that are complete, each log in its own format.
Records(id) ==
  {i \in Scanned :
     /\ Len(lines[i]) >= 2
     /\ lines[i][1] = id
     /\ IF log \in SpendLogs THEN lines[i][2] \in DOMAIN Price
        ELSE lines[i][2] # WINS \/ (Len(lines[i]) >= 3 /\ lines[i][3] \in DOMAIN Price)}

OfType(id, type) == {i \in Records(id) : lines[i][2] = type}

Total(records, field) == SumFunction([i \in records |-> Price[lines[i][field]]])

\* The increments the records of an id add up to.  A record whose type is
\* itself "sp" counts as one unit of spend.
Due(id) ==
  CASE log = AdvertiserColl -> [funds |-> -Total(Records(id), 2)]
    [] log = CampaignColl ->
         [spend |-> Total(Records(id), 2), imps |-> Cardinality(Records(id))]
    [] OTHER ->
         [key \in {WINS, CLIENT_SIDE_LOAD, BIDS, CLICKS, SPEND} |->
            Cardinality(OfType(id, key))
            + IF key = SPEND THEN Total(OfType(id, WINS), 3) ELSE 0]

\* Every update carries exactly what the complete records of its id add up to:
\* a record with a field missing or a price that is no number leaves the
\* aggregate as it was, whatever comes before and after it.
UpdatesAddUp == \A u \in sent : u.inc = Due(u.id)

\* When a file is finished, every id that has a complete record and can be
\* decoded has had its update, sent or given up by wrapMongo, and no other id.
NothingForgotten ==
  pc = "update" /\ left = {} =>
    {u.id : u \in sent} \cup lost
      = {id \in DOMAIN Form : Records(id) # {} /\ Decoded(id) = "ok"}

\* A malformed id does not end the process, but for two kinds of it: a
\* campaign that is no object id, and a JSON array without a third element
\* that is a string.
FewIdsCrash ==
  pc = "crashed" => \E id \in left :
    \/ log \in {TdColl, CampaignColl} /\ ~Form[id].objectId
    \/ /\ log \in {LocColl, DeviceColl} /\ Form[id].json
       /\ Form[id].items < 3 \/ ~Form[id].dateIsString

\* A worker takes up the static files of its collection in the order in which
\* they were written, and leaves none out.
OldestFileFirst ==
  [][file' > file =>
       LET now == Glob[log][file']
           before == IF file = 0 THEN 0 ELSE Glob[log][file].at
       IN  /\ now.coll = log /\ now.kind = "static" /\ before < now.at
           /\ \A name \in AssetNames :
                 name.coll = log /\ name.kind = "static" =>
                   name.at <= before \/ now.at <= name.at]_vars

\* A task comes to an end: the worker asks for another or is gone.  (It is what
\* FiniteTasks of WorkerPool rests on.)
TaskEnds == pc # "recv" ~> pc \in {"recv", "gone", "crashed"}
=============================================================================
