------------------------------- MODULE Retention -------------------------------
(***************************************************************************)
(* How contents and clusters of the server come to an end: marks for       *)
(* destruction, the sweep that acts on them (sweepOutdated in signals.py), *)
(* and the references along which a deletion spreads (deleteContentCb).    *)
(*                                                                         *)
(* Only the command sg_sweep starts a sweep: apps.py connects it to        *)
(* request_started with the app config as sender, which never sends.       *)
(* A sweep awaits between its statements, so users and administrators act  *)
(* in the middle of it; and a content is prepared in the handler of a      *)
(* mutation and saved later, in a transaction.                             *)
(***************************************************************************)
EXTENDS Naturals, FiniteSets, FiniteSetsExt

CONSTANTS
    Contents, Clusters,
    ClusterOf,      \* content -> its cluster
    References,     \* what contents refer to: [source, target, group, policy]
    Later,          \* what those refer to that are updated, once each
    Actions,        \* content actions of the group "fetch"
    ContentOf,      \* action -> its content
    Stop,           \* action -> the last time it can be used, or Never
    Notice,         \* 20 minutes, the delay of the delete mutation
    CommandDelay,   \* 2 hours, the delay of sg_delete
    Day,            \* 24 hours
    LastRequest,    \* bound: nobody deletes, creates or fetches later
    LastTime,       \* bound: where the clock stops
    Never           \* no time

ASSUME RetentionAssumption ==
    /\ ClusterOf \in [Contents -> Clusters]
    /\ References \cup Later \subseteq
            [source : Contents, target : Contents, group : STRING,
             policy : {"TRUE", "NO_GROUP", "FALSE"}]
    /\ \A r \in References \cup Later : r.source # r.target
    /\ ContentOf \in [Actions -> Contents]
    /\ {Notice, CommandDelay, Day, LastRequest, LastTime} \subseteq Nat
    /\ Never \notin Nat
    /\ Stop \in [Actions -> Nat \cup {Never}]

VARIABLES
    now,
    content,    \* content -> "absent", "here" or "gone"
    mark,       \* content -> its markForDestruction
    refs,       \* the references that are stored
    prepared,   \* content -> what is about to be saved, or Never
    cluster,    \* cluster -> is it here?
    clusterMark,
    action,     \* action -> is it here?
    used,       \* action -> when it was used
    phase,      \* of the sweep
    todo,       \* what is left of the list the sweep goes through
    swept,      \* has a sweep ended since the clock moved?
    late,       \* has the clock moved on without, or in the middle of, a sweep?
    asked,      \* contents somebody asked to delete
    fetched,    \* actions that were used
    updated     \* contents that were updated

saves == <<prepared, updated>>
items == <<content, mark, refs, cluster, clusterMark>>
actions == <<action, used>>
sweep == <<phase, todo, swept>>
history == <<late, asked, fetched>>
vars == <<now, items, saves, actions, sweep, history>>

Times == 0 .. LastTime

(* A prepared save: the references, and the mark in the captured row.      *)
Saves == [refs : SUBSET (References \cup Later), mark : Nat \cup {Never}]

TypeOK ==
    /\ now \in Times
    /\ content \in [Contents -> {"absent", "here", "gone"}]
    /\ mark \in [Contents -> Nat \cup {Never}]
    /\ refs \in SUBSET (References \cup Later)
    /\ prepared \in [Contents -> Saves \cup {Never}]
    /\ updated \in SUBSET Contents
    /\ cluster \in [Clusters -> BOOLEAN]
    /\ clusterMark \in [Clusters -> Nat \cup {Never}]
    /\ action \in [Actions -> BOOLEAN]
    /\ used \in [Actions -> Times \cup {Never}]
    /\ phase \in {"idle", "actions", "fetched", "clusters", "contents", "emptied"}
    /\ todo \in SUBSET (Contents \cup Clusters)
    /\ swept \in BOOLEAN /\ late \in BOOLEAN
    /\ asked \in SUBSET Contents
    /\ fetched \in SUBSET Actions

Here == {c \in Contents : content[c] = "here"}

Marked(c) == mark[c] # Never

Due(m) == m # Never /\ m <= now

Over(a) == Stop[a] # Never /\ Stop[a] < now

(* A bug: actions go with their end.                                       *)
OutdatedAtOnce(a) == Over(a)

(* Actions are kept for a day after their end.                             *)
Outdated(a) == Stop[a] # Never /\ Stop[a] + Day < now

(* Of the contents that are not there yet, nobody refers to.               *)
Init ==
    /\ now = 0
    /\ content \in [Contents -> {"absent", "here"}]
    /\ refs = {r \in References : r.source \in Here}
    /\ \A r \in refs : r.target \in Here
    /\ prepared = [c \in Contents |-> Never]
    /\ updated = {}
    /\ \A a \in Actions : content[ContentOf[a]] = "here"
    /\ mark = [c \in Contents |-> Never]
    /\ cluster = [d \in Clusters |-> TRUE]
    /\ clusterMark = [d \in Clusters |-> Never]
    /\ action = [a \in Actions |-> TRUE]
    /\ used = [a \in Actions |-> Never]
    /\ phase = "idle"
    /\ todo = {}
    /\ swept = FALSE /\ late = FALSE
    /\ asked = {}
    /\ fetched = {}

-----------------------------------------------------------------------------
(* Users and administrators.                                               *)

Tick ==
    /\ now < LastTime
    /\ now' = now + 1
    /\ swept' = FALSE
    /\ late' = (late \/ ~swept \/ phase # "idle")
    /\ UNCHANGED <<items, saves, actions, phase, todo, asked, fetched>>

(* Only targets that are there and not marked are taken, others are        *)
(* dropped in silence; without any of its keys a content is refused.       *)
Allowed(wanted) == {r \in wanted : r.target \in Here /\ mark[r.target] = Never}

HasKey(rs) == \E r \in rs : r.group = "key"

(* A save is prepared, for a cluster that is not marked.                   *)
Prepare(c, wanted) ==
    /\ now <= LastRequest
    /\ prepared[c] = Never
    /\ cluster[ClusterOf[c]] /\ clusterMark[ClusterOf[c]] = Never
    /\ HasKey(wanted) => HasKey(Allowed(wanted))
    /\ prepared' = [prepared EXCEPT ![c] = [refs |-> Allowed(wanted), mark |-> mark[c]]]
    /\ UNCHANGED <<now, items, actions, sweep, history>>

PrepareCreate(c) ==
    /\ content[c] = "absent"
    /\ Prepare(c, {r \in References : r.source = c})
    /\ UNCHANGED updated

PrepareUpdate(c) ==
    /\ c \in Here \ updated
    /\ \E r \in Later : r.source = c
    /\ Prepare(c, {r \in Later : r.source = c})
    /\ updated' = updated \cup {c}

(* A content is saved with its references.  An update writes the whole row *)
(* as it was when it was fetched; when the row is gone it is refused, and  *)
(* without the cluster or a target the database refuses.                   *)
Save(c) ==
    /\ prepared[c] # Never
    /\ prepared' = [prepared EXCEPT ![c] = Never]
    /\ IF /\ content[c] # "gone"
          /\ cluster[ClusterOf[c]]
          /\ \A r \in prepared[c].refs : r.target \in Here
       THEN /\ content' = [content EXCEPT ![c] = "here"]
            /\ mark' = [mark EXCEPT ![c] = prepared[c].mark]
            /\ refs' = {r \in refs : r.source # c} \cup prepared[c].refs
       ELSE UNCHANGED <<content, mark, refs>>
    /\ UNCHANGED <<now, cluster, clusterMark, updated, actions, sweep, history>>

(* A token of a fetch action is used: the action is marked as used, once.  *)
Fetch(a) ==
    /\ now <= LastRequest
    /\ action[a] /\ used[a] = Never
    /\ ContentOf[a] \in Here
    /\ ~Over(a)
    /\ used' = [used EXCEPT ![a] = now]
    /\ fetched' = fetched \cup {a}
    /\ UNCHANGED <<now, items, saves, action, sweep, late, asked>>

Sooner(m, t) == IF m = Never \/ m > t THEN t ELSE m

(* The delete mutation for a content.                                      *)
DeleteContent(c) ==
    /\ now <= LastRequest
    /\ c \in Here
    /\ mark' = [mark EXCEPT ![c] = Sooner(@, now + Notice)]
    /\ asked' = asked \cup {c}
    /\ UNCHANGED <<now, content, refs, cluster, clusterMark, saves, actions, sweep, late, fetched>>

(* The delete mutation for a cluster: the contents are marked; the cluster *)
(* is not, because its synchronous update raises in the asynchronous code. *)
DeleteCluster(d) ==
    /\ now <= LastRequest
    /\ cluster[d]
    /\ LET inside == {c \in Here : ClusterOf[c] = d}
       IN  /\ mark' = [c \in Contents |->
                         IF c \in inside THEN Sooner(mark[c], now + Notice) ELSE mark[c]]
           /\ asked' = asked \cup inside
    /\ UNCHANGED <<now, content, refs, cluster, clusterMark, saves, actions, sweep, late, fetched>>

(* sg_delete for a cluster.                                                *)
CommandDelete(d) ==
    /\ now <= LastRequest
    /\ cluster[d]
    /\ mark' = [c \in Contents |->
                  IF c \in Here /\ ClusterOf[c] = d THEN now + CommandDelay ELSE mark[c]]
    /\ clusterMark' = [clusterMark EXCEPT ![d] = now + CommandDelay]
    /\ asked' = asked \cup {c \in Contents : ClusterOf[c] = d}
    /\ UNCHANGED <<now, content, refs, cluster, saves, actions, sweep, late, fetched>>

-----------------------------------------------------------------------------
(* The cascade.                                                            *)

(* Contents that refer to one of cs and are to go with it.                 *)
Dependents(cs) ==
    {r.source : r \in {q \in refs : q.policy = "TRUE" /\ q.target \in cs}}

(* A bug: the deletion spreads one step far.                               *)
CascadeOnce(c) == {c} \cup Dependents({c})

(* The pre_delete signals call each other along TRUE references: what goes *)
(* with c is the least set with c that has the dependents of its members.  *)
Cascade(c) ==
    {x \in Contents : \A cs \in SUBSET Contents :
        c \in cs /\ Dependents(cs) \subseteq cs => x \in cs}

(* ... without end, where the references form a ring.                      *)
Endless(c) == \E x \in Cascade(c) : \E y \in Dependents({x}) : x \in Cascade(y)

(* The groups of NO_GROUP references to c.                                 *)
NoGroups(c) == {r.group : r \in {q \in refs : q.target = c /\ q.policy = "NO_GROUP"}}

(* Counted per reference, not per source, so the result is 1, or nothing.  *)
Amount(rs) == IF rs = {} THEN Never ELSE 1

(* remaining_groups < all_groups, false where nothing remains (NULL).      *)
GroupVanishes(c, s) ==
    LET groups == {r \in refs : r.source = s /\ r.group \in NoGroups(c)}
        remaining == {r \in groups : r.target # c}
    IN  Amount(remaining) # Never /\ Amount(remaining) < Amount(groups)

NoGroupVictims(c) ==
    {s \in Here : /\ \E r \in refs : r.source = s /\ r.target = c /\ r.policy = "NO_GROUP"
                  /\ GroupVanishes(c, s)}

Victims(c) == Cascade(c) \cup UNION {UNION {Cascade(s) : s \in NoGroupVictims(x)} : x \in Cascade(c)}

-----------------------------------------------------------------------------
(* The sweep.                                                              *)

(* Actions go a day after their end, used or not.                          *)
SweepActions ==
    /\ phase = "idle"
    /\ action' = [a \in Actions |-> action[a] /\ ~Outdated(a)]
    /\ phase' = "actions"
    /\ UNCHANGED <<now, items, saves, used, todo, swept, history>>

FetchActions(c) == {a \in Actions : action[a] /\ ContentOf[a] = c}

(* A bug: one used action is enough.                                       *)
AnyFetched(c) == \E a \in FetchActions(c) : used[a] # Never

(* There are fetch actions, and all of them are used.                      *)
AllFetched(c) == FetchActions(c) # {} /\ \A a \in FetchActions(c) : used[a] # Never

LastUse(c) == Max({used[a] : a \in FetchActions(c)} \ {Never})

(* A bug: the day is subtracted.                                           *)
DeadlineBefore(c) == LastUse(c) - Day

(* A bug: the day counts from the sweep.                                   *)
DeadlineFromNow(c) == now + Day

(* A day after the last use.                                               *)
Deadline(c) == LastUse(c) + Day

SweepFetched ==
    /\ phase = "actions"
    /\ mark' = [c \in Contents |->
                  IF c \in Here /\ AllFetched(c) THEN Deadline(c) ELSE mark[c]]
    /\ phase' = "fetched"
    /\ UNCHANGED <<now, content, refs, cluster, clusterMark, saves, actions, todo, swept, history>>

(* A bug: contents do not follow their cluster.                            *)
ClusterMarkIgnored(c) == mark[c]

(* Every content of a marked cluster takes over its mark.                  *)
ClusterMarkFor(c) ==
    IF c \in Here /\ clusterMark[ClusterOf[c]] # Never THEN clusterMark[ClusterOf[c]] ELSE mark[c]

SweepClusters ==
    /\ phase = "fetched"
    /\ mark' = [c \in Contents |-> ClusterMarkFor(c)]
    /\ phase' = "clusters"
    /\ UNCHANGED <<now, content, refs, cluster, clusterMark, saves, actions, todo, swept, history>>

(* The expired contents are listed ...                                     *)
SweepList ==
    /\ phase = "clusters"
    /\ todo' = {c \in Here : Due(mark[c])}
    /\ phase' = "contents"
    /\ UNCHANGED <<now, items, saves, actions, swept, history>>

(* ... and deleted one by one; some go in the cascade of another.          *)
SweepContent(c) ==
    /\ phase = "contents"
    /\ c \in todo
    /\ ~Endless(c)
    /\ LET victims == IF c \in Here THEN Victims(c) ELSE {}
       IN  /\ content' = [x \in Contents |-> IF x \in victims THEN "gone" ELSE content[x]]
           /\ refs' = {r \in refs : r.source \notin victims /\ r.target \notin victims}
           /\ action' = [a \in Actions |-> action[a] /\ ContentOf[a] \notin victims]
    /\ todo' = todo \ {c}
    /\ UNCHANGED <<now, mark, cluster, clusterMark, saves, used, phase, swept, history>>

(* RecursionError: nothing of the content is deleted, and the sweep ends.  *)
SweepBreaks(c) ==
    /\ phase = "contents"
    /\ c \in todo
    /\ Endless(c)
    /\ todo' = {}
    /\ phase' = "idle"
    /\ swept' = TRUE
    /\ UNCHANGED <<now, items, saves, actions, history>>

Empty(d) == \A c \in Here : ClusterOf[c] # d

(* The expired clusters without contents are listed ...                    *)
SweepListClusters ==
    /\ phase = "contents"
    /\ todo = {}
    /\ todo' = {d \in Clusters : cluster[d] /\ Due(clusterMark[d]) /\ Empty(d)}
    /\ phase' = "emptied"
    /\ UNCHANGED <<now, items, saves, actions, swept, history>>

(* A bug: the cluster is deleted although it is in use again.              *)
ProtectsNothing(d) == FALSE

(* The foreign key of the contents restricts (RestrictedError).            *)
Protected(d) == ~Empty(d)

(* ... and deleted.                                                        *)
SweepCluster(d) ==
    /\ phase = "emptied"
    /\ d \in todo
    /\ cluster' = [cluster EXCEPT ![d] = @ /\ Protected(d)]
    /\ todo' = todo \ {d}
    /\ UNCHANGED <<now, content, mark, refs, clusterMark, saves, actions, phase, swept, history>>

SweepEnds ==
    /\ phase = "emptied"
    /\ todo = {}
    /\ phase' = "idle"
    /\ swept' = TRUE
    /\ UNCHANGED <<now, items, saves, actions, todo, history>>

Sweep ==
    \/ SweepActions \/ SweepFetched \/ SweepClusters
    \/ SweepList \/ \E c \in Contents : SweepContent(c) \/ SweepBreaks(c)
    \/ SweepListClusters \/ \E d \in Clusters : SweepCluster(d)
    \/ SweepEnds

Next ==
    \/ Tick
    \/ \E c \in Contents : PrepareCreate(c) \/ PrepareUpdate(c) \/ Save(c) \/ DeleteContent(c)
    \/ \E a \in Actions : Fetch(a)
    \/ \E d \in Clusters : DeleteCluster(d) \/ CommandDelete(d)
    \/ Sweep

Spec == Init /\ [][Next]_vars

(* Time passes, sweeps are started again and again, and come to an end,    *)
(* and what is prepared is saved.                                          *)
Fairness ==
    /\ WF_vars(Tick)
    /\ WF_vars(Sweep)
    /\ \A c \in Contents : WF_vars(Save(c))

FairSpec == Spec /\ Fairness

-----------------------------------------------------------------------------
(* Properties.                                                             *)

(* What refers to a content with the policy TRUE never outlives it, along  *)
(* chains of references and whatever is created or updated during a sweep. *)
DependentsFollow ==
    [][\A r \in refs :
         r.policy = "TRUE" /\ content'[r.target] = "gone" => content'[r.source] = "gone"]_vars

(* A content always has its cluster: one that is saved into a cluster just *)
(* listed for deletion keeps it.                                           *)
ContentsHaveClusters == \A c \in Here : cluster[ClusterOf[c]]

(* A content only goes when it, or one it depends on, was deleted by       *)
(* somebody, or fetched as often as it could be.                           *)
UsedUp(c) ==
    /\ \E a \in fetched : ContentOf[a] = c
    /\ \A a \in Actions :
        ContentOf[a] = c => a \in fetched \/ Outdated(a)

Requested(c) == c \in asked \/ UsedUp(c)

Supporters(cs) == {r.target : r \in {q \in refs : q.policy # "FALSE" /\ q.source \in cs}}

Supports(c) ==
    {x \in Contents : \A cs \in SUBSET Contents :
        c \in cs /\ Supporters(cs) \subseteq cs => x \in cs}

OnlyRequestedGo ==
    [][\A c \in Here : content'[c] = "gone" => \E x \in Supports(c) : Requested(x)]_vars

(* A marked content goes.                                                  *)
MarkedGoes == \A c \in Contents : c \in Here /\ Marked(c) ~> c \notin Here

(* A marked cluster goes, with all that was created in it meanwhile.       *)
MarkedClusterGoes ==
    \A d \in Clusters : cluster[d] /\ clusterMark[d] # Never ~> ~cluster[d]

(* "autodelete contents if all fetch contentActions are used" (actions.md), *)
(* as long as the sweep comes at every time.                               *)
FetchedGoes ==
    \A c \in Contents :
        /\ c \in Here
        /\ \E a \in Actions : ContentOf[a] = c
        /\ \A a \in Actions : ContentOf[a] = c => a \in fetched
        ~> c \notin Here \/ late
================================================================================
