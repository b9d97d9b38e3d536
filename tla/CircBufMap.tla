------------------------------ MODULE CircBufMap ------------------------------
(***************************************************************************)
(* CircBufMap (cluster/common.go): a map from host names to lists of a     *)
(* bounded length, in which the newest item pushes out the oldest.  The    *)
(* QPS points and the log lines of every host are kept in one.  These are  *)
(* its operations; Histories is the state machine that uses them.          *)
(***************************************************************************)
EXTENDS Naturals, Sequences

CONSTANT CIRCBUFMAPLEN  \* the bound on the length of a list

ASSUME CircBufAssumption == CIRCBUFMAPLEN \in Nat \ {0}

NewCircBufMap == [h \in {} |-> <<>>]

\* MakeNode: an empty list, whatever the host's list was.
MakeNode(c, h) == [k \in DOMAIN c \cup {h} |-> IF k = h THEN <<>> ELSE c[k]]

\* Mutant: a full list grows by one more.
RoomOffByOne(list) == IF Len(list) > CIRCBUFMAPLEN THEN Tail(list) ELSE list

\* The list with room for one more item: a full one loses its oldest item.
Room(list) == IF Len(list) >= CIRCBUFMAPLEN THEN Tail(list) ELSE list

\* Mutant: what does not fit is not added.
AppendUnlessFull(c, h, item) ==
  LET d == IF h \in DOMAIN c THEN c ELSE MakeNode(c, h)
  IN  IF Len(d[h]) >= CIRCBUFMAPLEN THEN d ELSE [d EXCEPT ![h] = Append(@, item)]

\* Append: a host without a list is given one first.
AppendItem(c, h, item) ==
  LET d == IF h \in DOMAIN c THEN c ELSE MakeNode(c, h)
  IN  [d EXCEPT ![h] = Append(Room(d[h]), item)]

\* Last, which indexes the list: an empty one makes the code panic.
Last(c, h) == c[h][Len(c[h])]

\* delete(c, h), by NotifyLeave.
Remove(c, h) == [k \in DOMAIN c \ {h} |-> c[k]]

=============================================================================
