------------------------------ MODULE Histories ------------------------------
(***************************************************************************)
(* A CircBufMap in use, as the QPS points or the log lines of all hosts:   *)
(* items arrive for any host, hosts leave and come back, and the list of   *)
(* another host is replaced by what a third one has of it.  Whatever is    *)
(* added, removed and replaced, a host's list is the latest part of what   *)
(* was added for it since it was made or last taken over.  Nothing is ever *)
(* taken over for the host whose table this is.                            *)
(***************************************************************************)
EXTENDS CircBufMap

CONSTANTS
  Self,    \* the node that has this table
  Others,  \* the names of other nodes
  Items    \* what may be added

Hosts == Others \cup {Self}

VARIABLES
  c,    \* a CircBufMap
  past  \* history: for each host, what was taken over and added since then

vars == <<c, past>>

TypeOK ==
  /\ DOMAIN c \subseteq Hosts
  /\ \A h \in DOMAIN c : c[h] \in Seq(Items)
  /\ past \in [Hosts -> Seq(Items)]

\* NewCluster: this host's list is made at once.
Init ==
  /\ c = MakeNode(NewCircBufMap, Self)
  /\ past = [h \in Hosts |-> <<>>]

\* A QPS point or a log line of host h, sent by h itself.
Add(h, item) ==
  /\ c' = AppendItem(c, h, item)
  /\ past' = [past EXCEPT ![h] = Append(@, item)]

\* Host h leaves the cluster.
Delete(h) ==
  /\ c' = Remove(c, h)
  /\ past' = [past EXCEPT ![h] = <<>>]

\* MergeRemoteState: the list of another host becomes what the sender has of it,
\* in a table like this one.
Merge(h, list) ==
  /\ h # Self
  /\ Len(list) <= CIRCBUFMAPLEN
  /\ c' = [k \in DOMAIN c \cup {h} |-> IF k = h THEN list ELSE c[k]]
  /\ past' = [past EXCEPT ![h] = list]

Next ==
  \/ \E h \in Hosts : Delete(h) \/ \E item \in Items : Add(h, item)
  \/ \E h \in Hosts \ {Self} : \E list \in Seq(Items) : Merge(h, list)

Spec == Init /\ [][Next]_vars
-----------------------------------------------------------------------------
\* list is what all leaves behind when only its latest CIRCBUFMAPLEN items
\* are kept.
IsLatest(list, all) ==
  /\ Len(list) = IF Len(all) < CIRCBUFMAPLEN THEN Len(all) ELSE CIRCBUFMAPLEN
  /\ \A i \in 1 .. Len(list) : list[i] = all[Len(all) - Len(list) + i]

\* "kept at a fixed length.  When at full capacity and another item is added,
\* the oldest item drops off": no list is longer, none has a gap, none has lost
\* an item it had room for, and a host that left and comes back starts anew, or
\* from the list that came with another node's state.
ListsAreLatest ==
  \A h \in Hosts :
    IF h \in DOMAIN c THEN IsLatest(c[h], past[h]) ELSE past[h] = <<>>

=============================================================================
