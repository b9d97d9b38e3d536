-------------------------------- MODULE LogFiles --------------------------------
(***************************************************************************)
(* The log files a hitter replays.  go-bindata has compiled them into the  *)
(* program (data/prod.go): a table from names to functions that unpack the *)
(* file.  A name is the log it belongs to, "current" or "static", and for  *)
(* a static file the second of 2016-11-16 at which it was rotated; that is *)
(* all Glob looks at and all that decides the order of the names.          *)
(*                                                                         *)
(* The contents of the files are not here: module LogRun takes them from a *)
(* small set of possible contents.                                         *)
(***************************************************************************)
EXTENDS Integers, SequencesExt

TdColl == "total_data"
LocColl == "location_data"
DeviceColl == "device_data"
AdvertiserColl == "advertiser"
CampaignColl == "campaign"

\* The order in which MultiRunLogs feeds the collections.
LogOrder == <<AdvertiserColl, DeviceColl, LocColl, CampaignColl, TdColl>>

Logs == Range(LogOrder)

\* The seconds after which the logger starts a new file.
LogRotation ==
  [coll \in Logs |->
     IF coll = TdColl THEN 60 ELSE IF coll \in {LocColl, DeviceColl} THEN 300 ELSE 10]

At(hour, minute, second) == 3600 * hour + 60 * minute + second

Current(coll) == [coll |-> coll, kind |-> "current", at |-> 0]
Static(coll, at) == [coll |-> coll, kind |-> "static", at |-> at]

\* The files of a log whose rotations went on from first to last.
Rotated(coll, first, last) ==
  {Static(coll, first + i * LogRotation[coll]) :
     i \in 0 .. (last - first) \div LogRotation[coll]}

-----------------------------------------------------------------------------
(* The embedded files: the keys of the table. *)

\* The last file of each of the two fast logs was rotated by hand.
AdvertiserByHand == Static(AdvertiserColl, At(21, 46, 12))
CampaignByHand == Static(CampaignColl, At(21, 46, 12))

AdvertiserFiles ==
  {Current(AdvertiserColl)}
  \cup Rotated(AdvertiserColl, At(21, 42, 30), At(21, 44, 10))
  \cup {AdvertiserByHand}

CampaignFiles ==
  {Current(CampaignColl)}
  \cup Rotated(CampaignColl, At(21, 41, 20), At(21, 46, 0))
  \cup {CampaignByHand}

DeviceFiles ==
  {Current(DeviceColl)} \cup Rotated(DeviceColl, At(8, 1, 25), At(21, 36, 25))

\* The location log, and the total log, whose logger was restarted after 21:40:25.
OtherDataFiles ==
  {Current(LocColl), Current(TdColl)}
  \cup Rotated(LocColl, At(6, 6, 25), At(21, 36, 25))
  \cup Rotated(TdColl, At(13, 12, 25), At(21, 40, 25))
  \cup Rotated(TdColl, At(21, 42, 10), At(21, 45, 10))

\* The names AssetNames finds by ranging over the table, in any order.
AssetNames == AdvertiserFiles \cup CampaignFiles \cup DeviceFiles \cup OtherDataFiles

-----------------------------------------------------------------------------
(***************************************************************************)
(* Unpacking.  A file is a gzip stream; corrupt is the set of those whose  *)
(* stream does not unpack, which none of the compiled in ones should be.   *)
(***************************************************************************)
NoAsset == "error"

bindataRead(contents, name, corrupt) ==
  IF name \in corrupt THEN NoAsset ELSE contents

\* The function the table holds for a name: the bytes and the file's info.
AssetOf(contents, name, corrupt) ==
  [bytes |-> bindataRead(contents, name, corrupt), info |-> [name |-> name, isDir |-> FALSE]]

Asset(contents, name, corrupt) ==
  IF name \in AssetNames
    THEN AssetOf(contents, name, corrupt).bytes
    ELSE NoAsset

-----------------------------------------------------------------------------
(***************************************************************************)
(* Glob of logs/<log>_static_*: sort all names, keep those that match.     *)
(***************************************************************************)

\* The order of the names as strings: "current" comes before "static", and
\* the time stamps have a fixed width.
Rank == [coll \in Logs |->
  CASE coll = AdvertiserColl -> 1 [] coll = CampaignColl -> 2 [] coll = DeviceColl -> 3
    [] coll = LocColl -> 4 [] coll = TdColl -> 5]

NameLess(m, n) ==
  \/ Rank[m.coll] < Rank[n.coll]
  \/ m.coll = n.coll /\ m.kind = "current" /\ n.kind = "static"
  \/ m.coll = n.coll /\ m.kind = n.kind /\ m.at < n.at

\* The pattern's test on one name.
Match(coll, name) == name.coll = coll /\ name.kind = "static"

\* The names, each with the number of those that come before it.
Placed(names) ==
  {[place |-> Cardinality({n \in names : NameLess(n, name)}), name |-> name] : name \in names}

\* Mutant: the names in an order in which Go may range over the table.
RangeOrder(names) ==
  LET placed == Placed(names)
  IN  [i \in 1 .. Cardinality(names) |->
         (CHOOSE p \in placed : p.place = Cardinality(names) - i).name]

\* sort.Strings: at position i stands the name that i - 1 others come before.
SortedNames(names) ==
  LET placed == Placed(names)
  IN  [i \in 1 .. Cardinality(names) |-> (CHOOSE p \in placed : p.place = i - 1).name]

\* What is left of the sorted names when those that do not match are left out.
Matches(coll) == SortedNames({name \in AssetNames : Match(coll, name)})

\* What Glob finds for each log.
Glob == [coll \in Logs |-> Matches(coll)]
=============================================================================
