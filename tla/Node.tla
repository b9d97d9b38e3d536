---------------------------------- MODULE Node ----------------------------------
(***************************************************************************)
(* The life of the hitter processes of several EC2 instances: how Main     *)
(* (main.go) and Start (cluster/cluster.go) bring one up, find the others  *)
(* and join them, how EXIT and DIE end one, and what a process that serves *)
(* answers.  A new process may be started while the last one of the same   *)
(* instance is still leaving the cluster, and so still has its port.       *)
(*                                                                         *)
(* memberlist is external: a Join that reaches a listening host makes one  *)
(* cluster of the two the sides are in, and whoever is in a cluster hears  *)
(* of all the others there.  What the members then tell each other is      *)
(* module Gossip.                                                          *)
(***************************************************************************)
EXTENDS WebServer, FiniteSets

CONSTANTS
  Hosts,      \* the running instances that are tagged as hitters
  Vpc,        \* the VPC of each
  Public,     \* those whose -hostname is their public DNS name, as is the default
  Seeds,      \* the hosts a -clusterhost option may name
  Retries,    \* how often Create is tried, 50 in the code
  MaxBoots,   \* bounds how often hosts are booted
  MaxMisses,  \* bounds how often a host cannot be reached though it listens
  Requests,   \* the requests browsers send
  None        \* no answer, no request

ASSUME NodeAssumption ==
  /\ Vpc \in [Hosts -> {Vpc[h] : h \in Hosts}]
  /\ Public \subseteq Hosts
  /\ Seeds \subseteq Hosts
  /\ Retries \in Nat \ {0}
  /\ MaxBoots \in Nat

VARIABLES
  pc,       \* where the newest process of a host is
  old,      \* what the processes before it are still doing
  tries,    \* the tries of Create that are left, when it is being tried
  todo,     \* the hosts Join has still to contact, when it runs
  met,      \* whether it has reached one of them
  cluster,  \* the hosts a listening host is in one cluster with
  answer,   \* the last request and what was answered
  missed,   \* history: the pairs of hosts of which one did not reach the other,
            \* though that was listening
  boots     \* how often a host was booted

start == <<tries, todo, met>>
vars == <<pc, old, start, cluster, answer, missed, boots>>

Starting == {"dial", "meta", "create", "created", "find", "join", "seed", "ui"}

TypeOK ==
  /\ pc \in [Hosts -> Starting \cup {"off", "serve", "closing", "lingering"}]
  /\ old \in [Hosts -> SUBSET {"leaving", "dying", "exiting"}]
  /\ tries \in [Hosts -> 1 .. Retries]
  /\ todo \in [Hosts -> SUBSET Hosts]
  /\ met \in [Hosts -> BOOLEAN]
  /\ cluster \in [Hosts -> SUBSET Hosts]
  /\ answer = None \/ answer[1] \in Requests
  /\ missed \subseteq SUBSET Hosts
  /\ boots \in 0 .. MaxBoots

Init ==
  /\ pc = [h \in Hosts |-> "off"]
  /\ old = [h \in Hosts |-> {}]
  /\ tries = [h \in Hosts |-> Retries]
  /\ todo = [h \in Hosts |-> {}]
  /\ met = [h \in Hosts |-> FALSE]
  /\ cluster = [h \in Hosts |-> {}]
  /\ answer = None
  /\ missed = {}
  /\ boots = 0

\* The newest process of h has a member list that others can reach.
Listening(h) == pc[h] \notin {"off", "dial", "meta", "create"}

\* Some process of h has the cluster's port.
Bound(h) == Listening(h) \/ old[h] \cap {"leaving", "dying"} # {}

Goto(h, l) == pc' = [pc EXCEPT ![h] = l]

\* The others take notice that h has left the cluster, or is gone.
Without(h) == [g \in Hosts |-> IF g = h THEN {} ELSE cluster[g] \ {h}]

\* Main panics, before or after the others could reach the process.
Panic(h) ==
  /\ Goto(h, "off")
  /\ cluster' = IF Listening(h) THEN Without(h) ELSE cluster

-----------------------------------------------------------------------------
(***************************************************************************)
(* Start.                                                                  *)
(***************************************************************************)

\* A process is started, and GetAWSHostname finds its name.  (When it does not,
\* the process ends before main.)
Boot(h) ==
  /\ pc[h] = "off"
  /\ boots < MaxBoots
  /\ boots' = boots + 1
  /\ Goto(h, "dial")
  /\ missed' = {pair \in missed : h \notin pair}
  /\ UNCHANGED <<old, start, cluster>>

\* DialMongo.
Dial(h) ==
  /\ pc[h] = "dial"
  /\ Goto(h, "meta") \/ Goto(h, "off")
  /\ UNCHANGED <<old, start, cluster, missed, boots>>

\* NewCluster, and the metadata request of Start.
GetMetadata(h) ==
  /\ pc[h] = "meta"
  /\ Goto(h, "create") \/ Goto(h, "off")
  /\ UNCHANGED <<old, start, cluster, missed, boots>>

\* Mutant: one try more than there are.
RetryOnceMore(h) ==
  IF tries[h] = 0
    THEN Goto(h, "off") /\ tries' = [tries EXCEPT ![h] = Retries]
    ELSE UNCHANGED pc /\ tries' = [tries EXCEPT ![h] = @ - 1]

\* The port is still in use: another try in a tenth of a second, or the end.
Retry(h) ==
  IF tries[h] = 1
    THEN Goto(h, "off") /\ tries' = [tries EXCEPT ![h] = Retries]
    ELSE UNCHANGED pc /\ tries' = [tries EXCEPT ![h] = @ - 1]

\* memberlist.Create: the port is in use, the host listens, or Create fails in
\* another way, which is not tried again.
Create(h) ==
  /\ pc[h] = "create"
  /\ \/ Bound(h) /\ Retry(h) /\ UNCHANGED cluster
     \/ Panic(h) /\ tries' = [tries EXCEPT ![h] = Retries]
     \/ /\ ~Bound(h)
        /\ Goto(h, "created")
        /\ tries' = [tries EXCEPT ![h] = Retries]
        /\ cluster' = [cluster EXCEPT ![h] = {h}]
  /\ UNCHANGED <<old, todo, met, missed, boots>>

\* Create has returned: Members and Events are set.
SetMembers(h) ==
  /\ pc[h] = "created"
  /\ Goto(h, "find")
  /\ UNCHANGED <<old, start, cluster, missed, boots>>

\* Mutant: my own entry is looked for in my VPC only.
OthersOfOtherVpc(h) == {g \in Hosts \ {h} : Vpc[g] # Vpc[h]}

\* The hosts FindEC2Hitters returns: those of my VPC, which I only know if I
\* find myself by my name.
Others(h) == IF h \in Public THEN {g \in Hosts \ {h} : Vpc[g] = Vpc[h]} ELSE {}

\* FindEC2Hitters.
Find(h) ==
  /\ pc[h] = "find"
  /\ \/ /\ Goto(h, IF Others(h) = {} THEN "seed" ELSE "join")
        /\ todo' = [todo EXCEPT ![h] = Others(h)]
        /\ UNCHANGED cluster
     \/ Panic(h) /\ UNCHANGED todo
  /\ UNCHANGED <<old, tries, met, missed, boots>>

\* Host h reaches g, goes on at l, and the clusters of the two become one.  The
\* process that is called merges the caller's state, and panics if its Members
\* is not set yet.
Meet(h, g, l) ==
  LET victims == {x \in {g} : pc[x] = "created"}
      both == (cluster[g] \cup cluster[h]) \ victims
  IN  /\ cluster' = [x \in Hosts |-> IF x \in victims THEN {}
                                     ELSE IF x \in both THEN both ELSE cluster[x]]
      /\ pc' = [x \in Hosts |-> IF x \in victims THEN "off" ELSE IF x = h THEN l ELSE pc[x]]

\* Join reaches a host that has the port.
Reach(h, g, l) == Bound(g) /\ Meet(h, g, l)

\* Mutant: a host that was not reached is tried again.
AllOver(h, g) == todo[h]

\* What is left to contact after g.
Rest(h, g) == todo[h] \ {g}

\* Join contacts one of the others.
Contact(h, g) ==
  /\ pc[h] = "join"
  /\ g \in todo[h]
  /\ todo' = [todo EXCEPT ![h] = Rest(h, g)]
  /\ \/ Reach(h, g, "join") /\ met' = [met EXCEPT ![h] = TRUE] /\ UNCHANGED missed
     \/ ~Bound(g) /\ UNCHANGED <<pc, cluster, met, missed>>
     \/ /\ Bound(g) /\ Cardinality(missed) < MaxMisses
        /\ missed' = missed \cup {{g, h}}
        /\ UNCHANGED <<pc, cluster, met>>
  /\ UNCHANGED <<old, tries, boots>>

\* Join has tried them all: an error if it reached none, and Main panics.
JoinEnds(h) ==
  /\ pc[h] = "join"
  /\ todo[h] = {}
  /\ IF met[h] THEN Goto(h, "seed") /\ UNCHANGED cluster ELSE Panic(h)
  /\ met' = [met EXCEPT ![h] = FALSE]
  /\ UNCHANGED <<old, tries, todo, missed, boots>>

\* The -clusterhost option: whether that host is reached does not matter.
JoinSeed(h) ==
  /\ pc[h] = "seed"
  /\ \/ \E g \in Seeds \ {h} : Reach(h, g, "ui")
     \/ Goto(h, "ui") /\ UNCHANGED cluster
  /\ UNCHANGED <<old, start, missed, boots>>

\* Engine, MonitorQPS and UI run, and Clus is set.  The web server has its port,
\* unless a process that was told to die still has it: then UI panics.
Listen(h) ==
  /\ pc[h] = "ui"
  /\ IF old[h] \cap {"dying", "exiting"} = {}
       THEN Goto(h, "serve") /\ UNCHANGED cluster
       ELSE Panic(h)
  /\ UNCHANGED <<old, start, missed, boots>>

-----------------------------------------------------------------------------
(***************************************************************************)
(* The end of a process.                                                   *)
(***************************************************************************)

\* EXIT, which any user of the cluster may send at any time: the Engine closes
\* UIMsgs and returns.  When there is no web server yet to be closed, the
\* consumer's Close is in vain, or panics.
Exit(h) ==
  /\ \/ pc[h] = "serve" /\ Goto(h, "closing") /\ UNCHANGED cluster
     \/ pc[h] = "ui" /\ Goto(h, "lingering") /\ UNCHANGED cluster
     \/ pc[h] = "ui" /\ Panic(h)
  /\ UNCHANGED <<old, start, missed, boots>>

\* The consumer closes the web server, UI returns, and Main begins to Stop.
CloseWeb(h) ==
  /\ pc[h] = "closing"
  /\ Goto(h, "off")
  /\ old' = [old EXCEPT ![h] = @ \cup {"leaving"}]
  /\ UNCHANGED <<start, cluster, missed, boots>>

\* Mutant: nobody sends on UIMsgs any more.
NobodySends(h) == FALSE

\* MonitorQPS sends every second, on UIMsgs, and panics if that is closed.
Sends(h) == pc[h] \in {"closing", "lingering"}

MonitorPanics(h) ==
  /\ Sends(h)
  /\ Panic(h)
  /\ UNCHANGED <<old, start, missed, boots>>

\* DIE: the Engine itself leaves the cluster, and ends the process.  Until then
\* the web server goes on.
Die(h) ==
  /\ pc[h] \in {"ui", "serve"}
  /\ Goto(h, "off")
  /\ old' = [old EXCEPT ![h] = @ \cup {"dying"}]
  /\ UNCHANGED <<start, cluster, missed, boots>>

\* Stop has left the cluster, or given up after five seconds, and shut down; or
\* the process panicked before that.  The next process has none of it.
Left(h) ==
  /\ \/ "leaving" \in old[h] /\ old' = [old EXCEPT ![h] = @ \ {"leaving"}]
     \/ "dying" \in old[h] /\ old' = [old EXCEPT ![h] = (@ \ {"dying"}) \cup {"exiting"}]
  /\ cluster' = Without(h)
  /\ UNCHANGED <<pc, start, missed, boots>>

\* os.Exit.
Ended(h) ==
  /\ "exiting" \in old[h]
  /\ old' = [old EXCEPT ![h] = @ \ {"exiting"}]
  /\ UNCHANGED <<pc, start, cluster, missed, boots>>

-----------------------------------------------------------------------------
\* A browser asks a process that serves.  What it answers does not depend on the
\* other hosts: they are all off.
Get(h, request) ==
  /\ pc[h] = "serve"
  /\ \A g \in Hosts \ {h} : pc[g] = "off" /\ old[g] = {}
  /\ answer' = <<request, Answer(request)>>
  /\ UNCHANGED <<pc, old, start, cluster, missed, boots>>

Step(h) ==
  \/ Dial(h) \/ GetMetadata(h) \/ Create(h) \/ SetMembers(h) \/ Find(h)
  \/ (\E g \in Hosts : Contact(h, g)) \/ JoinEnds(h) \/ JoinSeed(h) \/ Listen(h)
  \/ CloseWeb(h) \/ MonitorPanics(h)

OldStep(h) == Left(h) \/ Ended(h)

Live(h) == Boot(h) \/ Step(h) \/ OldStep(h) \/ Exit(h) \/ Die(h)

Next ==
  \/ \E h \in Hosts : Live(h) /\ answer' = None
  \/ \E h \in Hosts, request \in Requests : Get(h, request)

Spec == Init /\ [][Next]_vars

\* Goroutines are scheduled, and the calls of AWS, Mongo and memberlist return,
\* in the end.
FairSpec ==
  Spec /\ \A h \in Hosts : WF_vars(Step(h) /\ answer' = None) /\ WF_vars(OldStep(h) /\ answer' = None)
-----------------------------------------------------------------------------
\* Two hitters of a VPC that both serve are in one cluster, whichever started
\* first and however their starts ran into each other: Start listens before it
\* looks for others.  The exceptions are a host whose -hostname is not its DNS
\* name, and two of which one could not reach the other.
ServingAreTogether ==
  \A g, h \in Public :
    /\ pc[g] = "serve" /\ pc[h] = "serve"
    /\ Vpc[g] = Vpc[h]
    /\ {g, h} \notin missed
    => h \in cluster[g]

\* A start ends: the process serves or is gone, whoever does not answer and
\* whoever has the port.
StartEnds == \A h \in Hosts : pc[h] \in Starting ~> pc[h] \notin Starting

\* EXIT ends the process, also one that comes too early to close the web server:
\* then the next QPS message panics.
ExitEnds == \A h \in Hosts : pc[h] \in {"closing", "lingering"} ~> pc[h] = "off"

\* A browser gets the dashboard: the page itself, and each file the page names is sent, whole and the
\* right one, if its type is known; whatever is sent is what the tree of files
\* has; and a connection is dropped only for a range or a type not known.
DashboardIsServed ==
  answer # None =>
    LET request == answer[1]
        reply == answer[2]
    IN  /\ request.path \in PageFiles \cap KnownTypes /\ ~request.range =>
              reply.file.name = request.path
        /\ request.path = Root /\ request.get => reply.file.name = <<"assets", "index.html">>
        /\ reply.file # NoFile => reply.file \in RestoreAssets(<<>>)
        /\ reply.status = "dropped" => request.range \/ request.path \notin KnownTypes
=============================================================================
