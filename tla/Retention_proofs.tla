--------------------------- MODULE Retention_proofs ---------------------------
(* Contents keep their clusters, dependents follow, and nothing goes that  *)
(* nobody asked to go: for every set of contents, clusters, references and *)
(* actions, and for all delays.                                            *)
EXTENDS Retention, WellFoundedInduction, TLAPS

(* The inductive invariant: with the types of what it speaks of.           *)
Housed ==
    /\ content \in [Contents -> {"absent", "here", "gone"}]
    /\ cluster \in [Clusters -> BOOLEAN]
    /\ ContentsHaveClusters

(* Every cluster is there in the beginning.                                *)
LEMMA HousedInit == Init => Housed
PROOF
    BY RetentionAssumption DEF Init, Housed, ContentsHaveClusters, Here, RetentionAssumption

(* A content is only saved into a cluster that is there.                   *)
LEMMA HousedSave ==
    ASSUME Housed, NEW c \in Contents, Save(c)
    PROVE  Housed'
PROOF
<1>1. cluster' = cluster
    BY DEF Save
<1>2. CASE content' = content
    BY <1>1, <1>2 DEF Housed, ContentsHaveClusters, Here
<1>3. CASE /\ content' = [content EXCEPT ![c] = "here"]
           /\ cluster[ClusterOf[c]]
    <2>1. content' \in [Contents -> {"absent", "here", "gone"}]
        BY <1>3 DEF Housed
    <2>2. \A x \in Here' : x = c \/ x \in Here
        BY <1>3 DEF Housed, Here
    <2>3. ContentsHaveClusters'
        BY <1>1, <1>3, <2>2 DEF Housed, ContentsHaveClusters
    <2> QED
        BY <1>1, <2>1, <2>3 DEF Housed
<1> QED
    BY <1>2, <1>3 DEF Save

(* A deletion only takes contents away.                                    *)
LEMMA HousedSweepContent ==
    ASSUME Housed, NEW c \in Contents, SweepContent(c)
    PROVE  Housed'
PROOF
<1> DEFINE victims == IF c \in Here THEN Victims(c) ELSE {}
<1>1. /\ cluster' = cluster
      /\ content' = [x \in Contents |-> IF x \in victims THEN "gone" ELSE content[x]]
    BY DEF SweepContent
<1> HIDE DEF victims
<1>2. content' \in [Contents -> {"absent", "here", "gone"}]
    BY <1>1 DEF Housed
<1>3. Here' \subseteq Here
    BY <1>1 DEF Housed, Here
<1> QED
    BY <1>1, <1>2, <1>3 DEF Housed, ContentsHaveClusters

(* A cluster that has a content is protected, whether it was empty when    *)
(* the sweep listed it or not.                                             *)
LEMMA HousedSweepCluster ==
    ASSUME Housed, NEW d \in Clusters, SweepCluster(d)
    PROVE  Housed'
PROOF
<1>1. /\ content' = content
      /\ cluster' = [cluster EXCEPT ![d] = cluster[d] /\ Protected(d)]
    BY DEF SweepCluster
<1>2. cluster' \in [Clusters -> BOOLEAN]
    <2>1. (cluster[d] /\ Protected(d)) \in BOOLEAN
        OBVIOUS
    <2> QED
        BY <1>1, <2>1 DEF Housed
<1>3. ASSUME NEW c \in Here'
      PROVE  cluster'[ClusterOf[c]]
    <2>1. c \in Here /\ ClusterOf[c] \in Clusters /\ cluster[ClusterOf[c]]
        BY <1>1, <1>3, RetentionAssumption
        DEF Housed, ContentsHaveClusters, Here, RetentionAssumption
    <2>2. CASE ClusterOf[c] = d
        <3>1. Protected(d)
            BY <2>1, <2>2 DEF Protected, Empty
        <3> QED
            BY <1>1, <2>1, <2>2, <3>1 DEF Housed
    <2>3. CASE ClusterOf[c] # d
        BY <1>1, <2>1, <2>3 DEF Housed
    <2> QED
        BY <2>2, <2>3
<1> QED
    BY <1>1, <1>2, <1>3 DEF Housed, ContentsHaveClusters

(* The other steps change neither.                                         *)
LEMMA HousedNext ==
    ASSUME Housed, [Next]_vars
    PROVE  Housed'
PROOF
<1> DEFINE Same == content' = content /\ cluster' = cluster
<1>1. ASSUME Same PROVE Housed'
    BY <1>1 DEF Housed, ContentsHaveClusters, Here
<1>2. CASE Tick \/ UNCHANGED vars
    BY <1>1, <1>2 DEF Tick, vars, items
<1>3. ASSUME NEW c \in Contents, PrepareCreate(c) \/ PrepareUpdate(c) \/ DeleteContent(c)
      PROVE  Housed'
    BY <1>1, <1>3 DEF PrepareCreate, PrepareUpdate, Prepare, DeleteContent, items
<1>4. ASSUME NEW c \in Contents, Save(c)
      PROVE  Housed'
    BY <1>4, HousedSave
<1>5. ASSUME NEW a \in Actions, Fetch(a)
      PROVE  Housed'
    BY <1>1, <1>5 DEF Fetch, items
<1>6. ASSUME NEW d \in Clusters, DeleteCluster(d) \/ CommandDelete(d)
      PROVE  Housed'
    BY <1>1, <1>6 DEF DeleteCluster, CommandDelete
<1>7. CASE SweepActions \/ SweepFetched \/ SweepClusters \/ SweepList
           \/ SweepListClusters \/ SweepEnds
    BY <1>1, <1>7 DEF SweepActions, SweepFetched, SweepClusters, SweepList,
                      SweepListClusters, SweepEnds, items
<1>8. ASSUME NEW c \in Contents, SweepContent(c)
      PROVE  Housed'
    BY <1>8, HousedSweepContent
<1>9. ASSUME NEW c \in Contents, SweepBreaks(c)
      PROVE  Housed'
    BY <1>1, <1>9 DEF SweepBreaks, items
<1>10. ASSUME NEW d \in Clusters, SweepCluster(d)
       PROVE  Housed'
    BY <1>10, HousedSweepCluster
<1> QED
    BY <1>2, <1>3, <1>4, <1>5, <1>6, <1>7, <1>8, <1>9, <1>10 DEF Next, Sweep

(* No content is ever left without its cluster: the sweep deletes clusters *)
(* it found empty, and creations that began before may fill them again.    *)
THEOREM ContentsStayHoused == Spec => []ContentsHaveClusters
PROOF
<1>1. Housed => ContentsHaveClusters
    BY DEF Housed
<1> QED
    BY <1>1, HousedInit, HousedNext, PTL DEF Spec

-----------------------------------------------------------------------------
(* How contents end.  The inductive invariant, part by part.               *)

(* Who refers, and what is referred to, is there; a save only has          *)
(* references of its own content.                                          *)
RefsHere ==
    /\ \A r \in refs : r.source \in Here /\ r.target \in Here
    /\ \A c \in Contents : prepared[c] # Never => \A r \in prepared[c].refs : r.source = c

(* Every mark has a cause: that of a content, the one in a row that was    *)
(* captured by a save, and that of a cluster.                              *)
MarksHaveCauses ==
    \A c \in Contents :
        /\ mark[c] # Never => Requested(c)
        /\ prepared[c] # Never /\ prepared[c].mark # Never => Requested(c)
        /\ clusterMark[ClusterOf[c]] # Never => c \in asked

(* What the sweep takes for used up has been fetched: an action that is    *)
(* not there any more is past its end, or went with its content.           *)
UsesAreFetches ==
    \A a \in Actions :
        /\ used[a] # Never => a \in fetched
        /\ ~action[a] => Outdated(a) \/ content[ContentOf[a]] = "gone"

(* The list of the sweep is older than the marks.                          *)
ListHasCauses == phase = "contents" => \A c \in todo : Requested(c)

EndInv ==
    /\ TypeOK
    /\ RefsHere
    /\ MarksHaveCauses
    /\ UsesAreFetches
    /\ ListHasCauses

LEMMA Constants ==
    /\ ClusterOf \in [Contents -> Clusters] /\ ContentOf \in [Actions -> Contents]
    /\ Stop \in [Actions -> Nat \cup {Never}]
    /\ \A r \in References \cup Later : r.source \in Contents /\ r.target \in Contents
    /\ Notice \in Nat /\ CommandDelay \in Nat /\ Day \in Nat /\ LastTime \in Nat /\ LastRequest \in Nat
    /\ Never \notin Nat
PROOF
    BY RetentionAssumption DEF RetentionAssumption

(* A set of naturals has a least element, and a set of times a latest one. *)
LEMMA LeastNatural ==
    ASSUME NEW T \in SUBSET Nat, T # {}
    PROVE  \E t \in T : \A u \in T : t <= u
PROOF
<1> DEFINE less == {ss \in Nat \X Nat : ss[1] < ss[2]}
<1>1. IsWellFoundedOn(less, Nat)
    BY NatLessThanWellFounded DEF OpToRel
<1>2. \A t, u \in Nat : u < t => <<u, t>> \in less
    OBVIOUS
<1> HIDE DEF less
<1>3. PICK t \in T : \A u \in T : ~ (<<u, t>> \in less)
    BY <1>1, WFMin
<1>4. ASSUME NEW u \in T PROVE t <= u
    <2>1. t \in Nat /\ u \in Nat
        BY <1>3
    <2>2. ~ (u < t)
        BY <1>2, <1>3, <2>1
    <2> QED
        BY <2>1, <2>2
<1> QED
    BY <1>4

LEMMA MaxOfTimes ==
    ASSUME NEW S \in SUBSET Times, S # {}
    PROVE  Max(S) \in S
PROOF
<1> DEFINE T == {LastTime - x : x \in S}
<1>1. LastTime \in Nat /\ \A x \in S : x \in Nat /\ x <= LastTime
    BY Constants DEF Times
<1>2. T \in SUBSET Nat /\ T # {}
    BY <1>1
<1>3. PICK t \in T : \A u \in T : t <= u
    BY <1>2, LeastNatural
<1>4. PICK x \in S : t = LastTime - x
    BY <1>3
<1>5. ASSUME NEW y \in S PROVE x >= y
    <2>1. t <= LastTime - y
        BY <1>3
    <2> QED
        BY <1>1, <1>4, <2>1
<1> QED
    BY <1>5 DEF Max

(* What was requested stays requested.                                     *)
LEMMA RequestsStay ==
    ASSUME now \in Nat, now' \in Nat, now <= now', fetched \subseteq fetched', asked \subseteq asked'
    PROVE  /\ \A a \in Actions : Outdated(a) => Outdated(a)'
           /\ \A c \in Contents : Requested(c) => Requested(c)'
PROOF
<1>1. ASSUME NEW a \in Actions, Outdated(a) PROVE Outdated(a)'
    BY <1>1, Constants DEF Outdated
<1>2. ASSUME NEW c \in Contents, Requested(c) PROVE Requested(c)'
    BY <1>1, <1>2 DEF Requested, UsedUp
<1> QED
    BY <1>1, <1>2

LEMMA EndInit == Init => EndInv
PROOF
<1> SUFFICES ASSUME Init PROVE EndInv
    OBVIOUS
<1>1. TypeOK
    <2>1. now \in Times
        BY Constants DEF Init, Times
    <2> QED
        BY <2>1 DEF Init, TypeOK
<1>2. RefsHere
    BY DEF Init, RefsHere
<1>3. MarksHaveCauses /\ UsesAreFetches /\ ListHasCauses
    BY Constants DEF Init, MarksHaveCauses, UsesAreFetches, ListHasCauses
<1> QED
    BY <1>1, <1>2, <1>3 DEF EndInv

(* The clock makes more actions outdated.                                  *)
LEMMA EndTick ==
    ASSUME EndInv, Tick
    PROVE  EndInv'
PROOF
<1>1. now \in Nat /\ now' = now + 1 /\ now' \in Times /\ now' \in Nat
    BY Constants DEF EndInv, TypeOK, Times, Tick
<1>2. /\ \A a \in Actions : Outdated(a) => Outdated(a)'
      /\ \A c \in Contents : Requested(c) => Requested(c)'
    BY <1>1, RequestsStay DEF Tick, history
<1>3. TypeOK'
    BY <1>1 DEF EndInv, TypeOK, Tick, items, saves, actions, Saves
<1>4. RefsHere'
    BY DEF EndInv, RefsHere, Here, Tick, items, saves
<1>5. MarksHaveCauses'
    BY <1>2 DEF EndInv, MarksHaveCauses, Tick, items, saves
<1>6. UsesAreFetches'
    BY <1>2 DEF EndInv, UsesAreFetches, Tick, items, actions
<1>7. ListHasCauses'
    <2>1. ASSUME phase = "contents", NEW c \in todo PROVE Requested(c)'
        <3>1. Requested(c)
            BY <2>1 DEF EndInv, ListHasCauses
        <3>2. \A a \in Actions : Outdated(a) => Outdated(a)'
            BY <1>2
        <3> QED
            BY <3>1, <3>2 DEF Tick, Requested, UsedUp
    <2> QED
        BY <2>1 DEF Tick, ListHasCauses
<1> QED
    BY <1>3, <1>4, <1>5, <1>6, <1>7 DEF EndInv

(* A save is prepared with references to what is there, and with the mark  *)
(* of the row.                                                             *)
LEMMA EndPrepare ==
    ASSUME EndInv, NEW c \in Contents, PrepareCreate(c) \/ PrepareUpdate(c)
    PROVE  EndInv'
PROOF
<1>1. PICK wanted \in SUBSET (References \cup Later) :
         Prepare(c, wanted) /\ \A r \in wanted : r.source = c
    <2>1. CASE PrepareCreate(c)
        BY <2>1 DEF PrepareCreate
    <2>2. CASE PrepareUpdate(c)
        BY <2>2 DEF PrepareUpdate
    <2> QED
        BY <2>1, <2>2
<1> DEFINE save == [refs |-> Allowed(wanted), mark |-> mark[c]]
<1>2. /\ prepared' = [prepared EXCEPT ![c] = save]
      /\ UNCHANGED <<now, items, actions, sweep, history>>
      /\ updated' \in SUBSET Contents
    BY <1>1 DEF Prepare, PrepareCreate, PrepareUpdate, EndInv, TypeOK
<1>3. save \in Saves /\ save.mark = mark[c] /\ \A r \in save.refs : r.source = c
    BY <1>1 DEF Allowed, Saves, EndInv, TypeOK
<1> HIDE DEF save
<1>4. TypeOK'
    BY <1>2, <1>3 DEF EndInv, TypeOK, items, actions, sweep, history
<1>5. RefsHere'
    BY <1>2, <1>3 DEF EndInv, RefsHere, Here, TypeOK, items
<1>6. MarksHaveCauses'
    BY <1>2, <1>3
    DEF EndInv, MarksHaveCauses, TypeOK, items, history, Requested, UsedUp, Outdated
<1>7. UsesAreFetches' /\ ListHasCauses'
    BY <1>2
    DEF EndInv, UsesAreFetches, ListHasCauses, items, actions, sweep, history, Requested, UsedUp,
        Outdated
<1> QED
    BY <1>4, <1>5, <1>6, <1>7 DEF EndInv

(* A save stores a mark that had a cause when it was captured.             *)
LEMMA EndSave ==
    ASSUME EndInv, NEW c \in Contents, Save(c)
    PROVE  EndInv'
PROOF
<1> DEFINE save == prepared[c]
<1>1. /\ save # Never
      /\ prepared' = [prepared EXCEPT ![c] = Never]
      /\ UNCHANGED <<now, cluster, clusterMark, updated, actions, sweep, history>>
    BY DEF Save
<1>2. save \in Saves
    BY <1>1 DEF EndInv, TypeOK
<1>3. UsesAreFetches' /\ ListHasCauses'
    <2>1. \A x \in Contents : content[x] = "gone" => content'[x] = "gone"
        BY DEF Save, EndInv, TypeOK
    <2> QED
        BY <1>1, <2>1, Constants
        DEF EndInv, UsesAreFetches, ListHasCauses, actions, sweep, history, Requested, UsedUp, Outdated
<1>4. CASE UNCHANGED <<content, mark, refs>>
    <2>1. TypeOK'
        BY <1>1, <1>4 DEF EndInv, TypeOK, actions, sweep, history
    <2>2. RefsHere'
        BY <1>1, <1>4 DEF EndInv, RefsHere, Here, TypeOK
    <2>3. MarksHaveCauses'
        BY <1>1, <1>4
        DEF EndInv, MarksHaveCauses, TypeOK, history, Requested, UsedUp, Outdated
    <2> QED
        BY <1>3, <2>1, <2>2, <2>3 DEF EndInv
<1>5. CASE /\ content[c] # "gone"
           /\ \A r \in save.refs : r.target \in Here
           /\ content' = [content EXCEPT ![c] = "here"]
           /\ mark' = [mark EXCEPT ![c] = save.mark]
           /\ refs' = {r \in refs : r.source # c} \cup save.refs
    <2>1. TypeOK'
        BY <1>1, <1>2, <1>5 DEF EndInv, TypeOK, Saves, actions, sweep, history
    <2>2. RefsHere'
        <3>1. c \in Here' /\ Here \subseteq Here'
            BY <1>5 DEF EndInv, TypeOK, Here
        <3>2. \A r \in save.refs : r.source = c
            BY <1>1 DEF EndInv, RefsHere
        <3>3. \A r \in refs' : r.source \in Here' /\ r.target \in Here'
            BY <1>5, <3>1, <3>2 DEF EndInv, RefsHere
        <3>4. \A x \in Contents : prepared'[x] # Never => \A r \in prepared'[x].refs : r.source = x
            BY <1>1 DEF EndInv, RefsHere, TypeOK
        <3> QED
            BY <3>3, <3>4 DEF RefsHere
    <2>3. MarksHaveCauses'
        BY <1>1, <1>5
        DEF EndInv, MarksHaveCauses, TypeOK, history, Requested, UsedUp, Outdated
    <2> QED
        BY <1>3, <2>1, <2>2, <2>3 DEF EndInv
<1> QED
    BY <1>4, <1>5 DEF Save

(* A use is remembered.                                                    *)
LEMMA EndFetch ==
    ASSUME EndInv, NEW a \in Actions, Fetch(a)
    PROVE  EndInv'
PROOF
<1>1. /\ used' = [used EXCEPT ![a] = now] /\ fetched' = fetched \cup {a}
      /\ UNCHANGED <<now, items, saves, action, sweep, late, asked>>
    BY DEF Fetch
<1>2. \A c \in Contents : Requested(c) => Requested(c)'
    BY <1>1 DEF Requested, UsedUp, Outdated
<1>3. TypeOK'
    BY <1>1 DEF EndInv, TypeOK, items, saves, sweep
<1>4. RefsHere'
    BY <1>1 DEF EndInv, RefsHere, Here, items, saves
<1>5. MarksHaveCauses'
    BY <1>1, <1>2 DEF EndInv, MarksHaveCauses, items, saves
<1>6. UsesAreFetches'
    BY <1>1 DEF EndInv, TypeOK, UsesAreFetches, items, Outdated
<1>7. ListHasCauses'
    BY <1>1 DEF EndInv, ListHasCauses, sweep, Requested, UsedUp, Outdated
<1> QED
    BY <1>3, <1>4, <1>5, <1>6, <1>7 DEF EndInv

(* Users and administrators mark what they ask to delete.                  *)
LEMMA EndDelete ==
    ASSUME EndInv,
           \/ \E c \in Contents : DeleteContent(c)
           \/ \E d \in Clusters : DeleteCluster(d) \/ CommandDelete(d)
    PROVE  EndInv'
PROOF
<1>1. /\ UNCHANGED <<now, content, refs, cluster, saves, actions, sweep, late, fetched>>
      /\ asked \subseteq asked' /\ asked' \subseteq Contents
    BY DEF DeleteContent, DeleteCluster, CommandDelete, Here, EndInv, TypeOK
<1>2. \A c \in Contents : Requested(c) => Requested(c)'
    BY <1>1 DEF Requested, UsedUp, Outdated
<1>3. \A m \in Nat \cup {Never}, t \in Nat : Sooner(m, t) \in Nat
    BY Constants DEF Sooner
<1>4. now + Notice \in Nat /\ now + CommandDelay \in Nat
    BY Constants DEF EndInv, TypeOK, Times
<1>5. /\ mark' \in [Contents -> Nat \cup {Never}]
      /\ clusterMark' \in [Clusters -> Nat \cup {Never}]
      /\ \A c \in Contents : mark'[c] = mark[c] \/ c \in asked'
      /\ \A c \in Contents : clusterMark'[ClusterOf[c]] = clusterMark[ClusterOf[c]] \/ c \in asked'
    <2>1. ASSUME NEW c \in Contents, DeleteContent(c) PROVE <1>5!:
        BY <1>3, <1>4, <2>1 DEF DeleteContent, EndInv, TypeOK
    <2>2. ASSUME NEW d \in Clusters, DeleteCluster(d) PROVE <1>5!:
        BY <1>3, <1>4, <2>2 DEF DeleteCluster, EndInv, TypeOK
    <2>3. ASSUME NEW d \in Clusters, CommandDelete(d) PROVE <1>5!:
        BY <1>4, <2>3, Constants DEF CommandDelete, EndInv, TypeOK
    <2> QED
        BY <2>1, <2>2, <2>3
<1>6. TypeOK'
    BY <1>1, <1>5 DEF EndInv, TypeOK, saves, actions, sweep
<1>7. RefsHere'
    BY <1>1 DEF EndInv, RefsHere, Here, saves
<1>8. MarksHaveCauses'
    <2>1. \A c \in asked' : Requested(c)'
        BY DEF Requested
    <2> QED
        BY <1>1, <1>2, <1>5, <2>1 DEF EndInv, MarksHaveCauses, saves
<1>9. UsesAreFetches' /\ ListHasCauses'
    BY <1>1
    DEF EndInv, UsesAreFetches, ListHasCauses, actions, sweep, Requested, UsedUp, Outdated
<1> QED
    BY <1>6, <1>7, <1>8, <1>9 DEF EndInv

(* Of a content that is there, the sweep takes away outdated actions only; *)
(* so when all the others are used, the content is used up.                *)
LEMMA AllFetchedIsUsedUp ==
    ASSUME EndInv, NEW c \in Here, AllFetched(c)
    PROVE  UsedUp(c) /\ Deadline(c) \in Nat
PROOF
<1>1. UsedUp(c)
    BY DEF AllFetched, FetchActions, UsedUp, EndInv, UsesAreFetches, Here
<1> DEFINE S == {used[a] : a \in FetchActions(c)} \ {Never}
<1>2. S \in SUBSET Times /\ S # {}
    BY DEF EndInv, TypeOK, AllFetched, FetchActions
<1> HIDE DEF S
<1>3. Max(S) \in S
    BY <1>2, MaxOfTimes
<1>4. Deadline(c) = Max(S) + Day
    BY DEF Deadline, LastUse, S
<1> QED
    <2>1. Max(S) \in Nat /\ Day \in Nat
        <3>1. Times \subseteq Nat
            BY Constants DEF Times
        <3>2. Max(S) \in Times
            BY <1>2, <1>3
        <3> QED
            BY <3>1, <3>2, Constants
    <2> QED
        BY <1>1, <1>4, <2>1

(* The sweep marks what is used up and what is in a marked cluster, and    *)
(* lists what is due.                                                      *)
LEMMA EndMarks ==
    ASSUME EndInv, SweepActions \/ SweepFetched \/ SweepClusters \/ SweepList
    PROVE  EndInv'
PROOF
<1>1. /\ UNCHANGED <<now, content, refs, cluster, clusterMark, saves, used, swept, history>>
      /\ phase' \in {"actions", "fetched", "clusters", "contents"}
    BY DEF SweepActions, SweepFetched, SweepClusters, SweepList, items, actions
<1>2. \A c \in Contents : Requested(c) <=> Requested(c)'
    BY <1>1 DEF Requested, UsedUp, Outdated, history
<1>3. /\ action' \in [Actions -> BOOLEAN]
      /\ \A a \in Actions : ~action'[a] => ~action[a] \/ Outdated(a)
    <2>1. CASE SweepActions
        BY <2>1 DEF SweepActions, EndInv, TypeOK
    <2>2. CASE action' = action
        BY <2>2 DEF EndInv, TypeOK
    <2> QED
        BY <2>1, <2>2 DEF SweepActions, SweepFetched, SweepClusters, SweepList, actions
<1>4. /\ mark' \in [Contents -> Nat \cup {Never}]
      /\ \A c \in Contents : mark'[c] # Never => mark[c] # Never \/ Requested(c)
    <2>1. CASE SweepFetched
        <3>1. mark' = [c \in Contents |-> IF c \in Here /\ AllFetched(c) THEN Deadline(c) ELSE mark[c]]
            BY <2>1 DEF SweepFetched
        <3>2. \A c \in Here : AllFetched(c) => Requested(c) /\ Deadline(c) \in Nat
            BY AllFetchedIsUsedUp DEF Requested
        <3> QED
            BY <3>1, <3>2 DEF EndInv, TypeOK
    <2>2. CASE SweepClusters
        <3>1. mark' = [c \in Contents |-> ClusterMarkFor(c)]
            BY <2>2 DEF SweepClusters
        <3>2. \A c \in Contents : /\ ClusterMarkFor(c) \in Nat \cup {Never}
                                  /\ ClusterMarkFor(c) = mark[c] \/ c \in asked
            BY Constants DEF ClusterMarkFor, EndInv, TypeOK, MarksHaveCauses
        <3> QED
            BY <3>1, <3>2 DEF Requested
    <2>3. CASE mark' = mark
        BY <2>3 DEF EndInv, TypeOK
    <2> QED
        BY <2>1, <2>2, <2>3 DEF SweepActions, SweepFetched, SweepClusters, SweepList, items
<1>5. /\ todo' \in SUBSET (Contents \cup Clusters)
      /\ phase' = "contents" => \A c \in todo' : c \in Contents /\ mark[c] # Never
    BY DEF SweepActions, SweepFetched, SweepClusters, SweepList, EndInv, TypeOK, Here, Due
<1>6. TypeOK'
    BY <1>1, <1>3, <1>4, <1>5 DEF EndInv, TypeOK, saves, history
<1>7. RefsHere'
    BY <1>1 DEF EndInv, RefsHere, Here, saves
<1>8. MarksHaveCauses'
    BY <1>1, <1>2, <1>4 DEF EndInv, MarksHaveCauses, saves, history
<1>9. UsesAreFetches'
    BY <1>1, <1>3 DEF EndInv, UsesAreFetches, Outdated, history
<1>10. ListHasCauses'
    <2>1. ASSUME phase' = "contents", NEW c \in todo' PROVE Requested(c)'
        <3>1. c \in Contents /\ Requested(c)
            BY <1>5, <2>1 DEF EndInv, MarksHaveCauses
        <3> QED
            BY <1>2, <3>1
    <2> QED
        BY <2>1 DEF ListHasCauses
<1> QED
    BY <1>6, <1>7, <1>8, <1>9, <1>10 DEF EndInv

(* A content is deleted with its victims, its references and its actions.  *)
LEMMA EndSweepContent ==
    ASSUME EndInv, NEW c \in Contents, SweepContent(c)
    PROVE  EndInv'
PROOF
<1> DEFINE victims == IF c \in Here THEN Victims(c) ELSE {}
<1>1. /\ content' = [x \in Contents |-> IF x \in victims THEN "gone" ELSE content[x]]
      /\ refs' = {r \in refs : r.source \notin victims /\ r.target \notin victims}
      /\ action' = [a \in Actions |-> action[a] /\ ContentOf[a] \notin victims]
      /\ todo' = todo \ {c}
      /\ UNCHANGED <<now, mark, cluster, clusterMark, saves, used, phase, swept, history>>
    BY DEF SweepContent
<1> HIDE DEF victims
<1>2. TypeOK'
    BY <1>1 DEF EndInv, TypeOK, saves, history
<1>3. RefsHere'
    BY <1>1 DEF EndInv, RefsHere, Here, TypeOK, saves
<1>4. MarksHaveCauses' /\ ListHasCauses'
    BY <1>1
    DEF EndInv, MarksHaveCauses, ListHasCauses, saves, history, Requested, UsedUp, Outdated
<1>5. UsesAreFetches'
    BY <1>1, Constants DEF EndInv, UsesAreFetches, Outdated, history, TypeOK
<1> QED
    BY <1>2, <1>3, <1>4, <1>5 DEF EndInv

(* The rest of the sweep.                                                  *)
LEMMA EndRest ==
    ASSUME EndInv,
           \/ \E c \in Contents : SweepBreaks(c)
           \/ \E d \in Clusters : SweepCluster(d)
           \/ SweepListClusters \/ SweepEnds
    PROVE  EndInv'
PROOF
<1>1. /\ UNCHANGED <<now, content, mark, refs, clusterMark, saves, actions, history>>
      /\ phase' \in {"idle", "emptied"} /\ todo' \in SUBSET (Contents \cup Clusters)
      /\ swept' \in BOOLEAN
    BY DEF SweepBreaks, SweepCluster, SweepListClusters, SweepEnds, items, EndInv, TypeOK
<1>2. cluster' \in [Clusters -> BOOLEAN]
    <2>1. ASSUME NEW d \in Clusters, SweepCluster(d) PROVE cluster' \in [Clusters -> BOOLEAN]
        <3>1. (cluster[d] /\ Protected(d)) \in BOOLEAN
            OBVIOUS
        <3> QED
            BY <2>1, <3>1 DEF SweepCluster, EndInv, TypeOK
    <2> QED
        BY <2>1 DEF SweepBreaks, SweepListClusters, SweepEnds, items, EndInv, TypeOK
<1>3. TypeOK'
    BY <1>1, <1>2 DEF EndInv, TypeOK, saves, actions, history
<1>4. RefsHere' /\ MarksHaveCauses' /\ UsesAreFetches' /\ ListHasCauses'
    BY <1>1
    DEF EndInv, RefsHere, Here, MarksHaveCauses, UsesAreFetches, ListHasCauses, saves, actions,
        history, Requested, UsedUp, Outdated
<1> QED
    BY <1>3, <1>4 DEF EndInv

LEMMA EndNext == EndInv /\ [Next]_vars => EndInv'
PROOF
<1> SUFFICES ASSUME EndInv, [Next]_vars PROVE EndInv'
    OBVIOUS
<1>1. CASE UNCHANGED vars
    BY <1>1
    DEF vars, items, saves, actions, sweep, history, EndInv, TypeOK, RefsHere, Here,
        MarksHaveCauses, UsesAreFetches, ListHasCauses, Requested, UsedUp, Outdated
<1>2. CASE Next
    BY <1>2, EndTick, EndPrepare, EndSave, EndFetch, EndDelete, EndMarks, EndSweepContent, EndRest
    DEF Next, Sweep
<1> QED
    BY <1>1, <1>2

LEMMA Ends == Spec => []EndInv
PROOF
    BY EndInit, EndNext, PTL DEF Spec

(* Contents, marks, references and the sweep keep their types, whatever    *)
(* users, administrators and the sweep do.                                 *)
THEOREM TypeCorrect == Spec => []TypeOK
PROOF
<1>1. EndInv => TypeOK
    BY DEF EndInv
<1> QED
    BY <1>1, Ends, PTL

-----------------------------------------------------------------------------
(* The cascade.                                                            *)

(* It has the dependents of its members, and every one of them is          *)
(* supported by the content it began with.                                 *)
LEMMA CascadeCloses ==
    ASSUME EndInv, NEW c \in Contents
    PROVE  /\ c \in Cascade(c) /\ Cascade(c) \subseteq Contents
           /\ Dependents(Cascade(c)) \subseteq Cascade(c)
PROOF
<1>1. c \in Cascade(c) /\ Cascade(c) \subseteq Contents
    BY DEF Cascade
<1>2. ASSUME NEW r \in refs, r.policy = "TRUE", r.target \in Cascade(c)
      PROVE  r.source \in Cascade(c)
    <2>1. r.source \in Contents
        BY DEF EndInv, RefsHere, Here
    <2>2. ASSUME NEW cs \in SUBSET Contents, c \in cs, Dependents(cs) \subseteq cs
          PROVE  r.source \in cs
        <3>1. r.target \in cs
            BY <1>2, <2>2 DEF Cascade
        <3> QED
            BY <1>2, <2>2, <3>1 DEF Dependents
    <2> QED
        BY <2>1, <2>2 DEF Cascade
<1> QED
    BY <1>1, <1>2 DEF Dependents

(* What refers to something that c supports is supported by c.             *)
LEMMA SupportsReach ==
    ASSUME EndInv, NEW c \in Contents, NEW r \in refs, r.policy # "FALSE", c \in Supports(r.target)
    PROVE  c \in Supports(r.source)
PROOF
<1>1. ASSUME NEW cs \in SUBSET Contents, r.source \in cs, Supporters(cs) \subseteq cs
      PROVE  c \in cs
    <2>1. r.target \in cs
        BY <1>1 DEF Supporters
    <2> QED
        BY <1>1, <2>1 DEF Supports
<1> QED
    BY <1>1 DEF Supports

LEMMA CascadeIsSupported ==
    ASSUME EndInv, NEW c \in Contents, NEW t \in Contents, t \in Supports(c), NEW x \in Cascade(c)
    PROVE  t \in Supports(x)
PROOF
<1> DEFINE cs == {y \in Contents : t \in Supports(y)}
<1>1. c \in cs
    OBVIOUS
<1>2. Dependents(cs) \subseteq cs
    <2>1. ASSUME NEW r \in refs, r.policy = "TRUE", r.target \in cs PROVE r.source \in cs
        <3>1. r.source \in Contents
            BY DEF EndInv, RefsHere, Here
        <3> QED
            BY <2>1, <3>1, SupportsReach
    <2> QED
        BY <2>1 DEF Dependents
<1>3. x \in cs
    BY <1>1, <1>2 DEF Cascade
<1> QED
    BY <1>3

(* The victims of c: all have their dependents among them, and all are     *)
(* supported by c.                                                         *)
LEMMA VictimsClose ==
    ASSUME EndInv, NEW c \in Here
    PROVE  /\ Dependents(Victims(c)) \subseteq Victims(c)
           /\ \A x \in Victims(c) : x \in Contents /\ c \in Supports(x)
PROOF
<1>1. c \in Contents
    BY DEF Here
<1>2. \A x \in Cascade(c) : x \in Contents /\ c \in Supports(x)
    <2>1. c \in Supports(c)
        BY <1>1 DEF Supports
    <2> QED
        BY <1>1, <2>1, CascadeCloses, CascadeIsSupported
<1>3. \A x \in Cascade(c) : \A s \in NoGroupVictims(x) : s \in Contents /\ c \in Supports(s)
    <2> SUFFICES ASSUME NEW x \in Cascade(c), NEW s \in NoGroupVictims(x)
                 PROVE  s \in Contents /\ c \in Supports(s)
        OBVIOUS
    <2>1. PICK r \in refs : r.source = s /\ r.target = x /\ r.policy = "NO_GROUP"
        BY DEF NoGroupVictims
    <2> QED
        BY <1>1, <1>2, <2>1, SupportsReach DEF NoGroupVictims, Here
<1>4. ASSUME NEW x \in Victims(c)
      PROVE  \E d \in Contents : /\ x \in Cascade(d) /\ Cascade(d) \subseteq Victims(c)
                                 /\ c \in Supports(d)
    <2>1. CASE x \in Cascade(c)
        <3>1. Cascade(c) \subseteq Victims(c)
            BY DEF Victims
        <3>2. c \in Supports(c)
            BY <1>1 DEF Supports
        <3> QED
            BY <1>1, <2>1, <3>1, <3>2
    <2>2. ASSUME NEW y \in Cascade(c), NEW s \in NoGroupVictims(y), x \in Cascade(s)
          PROVE  \E d \in Contents : /\ x \in Cascade(d) /\ Cascade(d) \subseteq Victims(c)
                                     /\ c \in Supports(d)
        <3>1. Cascade(s) \subseteq Victims(c)
            BY <2>2 DEF Victims
        <3> QED
            BY <1>3, <2>2, <3>1
    <2> QED
        BY <1>4, <2>1, <2>2 DEF Victims
<1>5. ASSUME NEW r \in refs, r.policy = "TRUE", r.target \in Victims(c)
      PROVE  r.source \in Victims(c)
    <2>1. PICK d \in Contents : r.target \in Cascade(d) /\ Cascade(d) \subseteq Victims(c)
        BY <1>4, <1>5
    <2>2. r.source \in Dependents(Cascade(d))
        BY <1>5, <2>1 DEF Dependents
    <2> QED
        BY <2>1, <2>2, CascadeCloses
<1>6. Dependents(Victims(c)) \subseteq Victims(c)
    BY <1>5 DEF Dependents
<1>7. ASSUME NEW x \in Victims(c) PROVE x \in Contents /\ c \in Supports(x)
    BY <1>1, <1>4, CascadeIsSupported DEF Cascade
<1> QED
    BY <1>6, <1>7

(* Only the sweep of a content makes contents go.                          *)
LEMMA WhoGoes ==
    ASSUME EndInv, Next
    PROVE  \/ \A x \in Here : content'[x] # "gone"
           \/ \E c \in Here : /\ Requested(c)
                              /\ content' = [x \in Contents |-> IF x \in Victims(c) THEN "gone" ELSE content[x]]
PROOF
<1>1. ASSUME NEW c \in Contents, SweepContent(c), c \in Here
      PROVE  /\ Requested(c)
             /\ content' = [x \in Contents |-> IF x \in Victims(c) THEN "gone" ELSE content[x]]
    BY <1>1 DEF SweepContent, EndInv, ListHasCauses
<1>2. ASSUME NEW c \in Contents, SweepContent(c), c \notin Here PROVE \A x \in Here : content'[x] # "gone"
    BY <1>2 DEF SweepContent, Here
<1>3. ASSUME NEW c \in Contents, Save(c) PROVE \A x \in Here : content'[x] # "gone"
    BY <1>3 DEF Save, Here, EndInv, TypeOK
<1>4. CASE content' = content
    BY <1>4 DEF Here
<1> QED
    BY <1>1, <1>2, <1>3, <1>4
    DEF Next, Sweep, Tick, PrepareCreate, PrepareUpdate, Prepare, DeleteContent, Fetch, DeleteCluster,
        CommandDelete, SweepActions, SweepFetched, SweepClusters, SweepList, SweepBreaks,
        SweepListClusters, SweepCluster, SweepEnds, items

(* What refers to a content with the policy TRUE goes with it, along all   *)
(* chains of references, and whatever is created during a sweep.           *)
THEOREM DependentsAlwaysFollow == Spec => DependentsFollow
PROOF
<1>1. ASSUME EndInv, [Next]_vars
      PROVE  [\A r \in refs :
                 r.policy = "TRUE" /\ content'[r.target] = "gone" => content'[r.source] = "gone"]_vars
    <2> SUFFICES ASSUME Next, NEW r \in refs, r.policy = "TRUE", content'[r.target] = "gone"
                 PROVE  content'[r.source] = "gone"
        BY <1>1
    <2>1. r.source \in Here /\ r.target \in Here
        BY <1>1 DEF EndInv, RefsHere
    <2>2. PICK c \in Here :
             content' = [x \in Contents |-> IF x \in Victims(c) THEN "gone" ELSE content[x]]
        BY <1>1, <2>1, WhoGoes
    <2>3. r.target \in Victims(c)
        BY <2>1, <2>2 DEF Here
    <2>4. r.source \in Victims(c)
        BY <1>1, <2>3, VictimsClose DEF Dependents
    <2> QED
        BY <2>1, <2>2, <2>4 DEF Here
<1> QED
    BY <1>1, Ends, PTL DEF Spec, DependentsFollow

(* Every content that goes hangs on one that somebody asked to delete, or  *)
(* that was fetched as often as it could be: no stale mark, no captured    *)
(* row and no list of the sweep takes anything else.                       *)
THEOREM NothingElseGoes == Spec => OnlyRequestedGo
PROOF
<1>1. ASSUME EndInv, [Next]_vars
      PROVE  [\A c \in Here : content'[c] = "gone" => \E x \in Supports(c) : Requested(x)]_vars
    <2> SUFFICES ASSUME Next, NEW c \in Here, content'[c] = "gone"
                 PROVE  \E x \in Supports(c) : Requested(x)
        BY <1>1
    <2>1. PICK d \in Here :
             /\ Requested(d)
             /\ content' = [x \in Contents |-> IF x \in Victims(d) THEN "gone" ELSE content[x]]
        BY <1>1, WhoGoes
    <2>2. c \in Victims(d)
        BY <2>1 DEF Here
    <2> QED
        BY <1>1, <2>1, <2>2, VictimsClose
<1> QED
    BY <1>1, Ends, PTL DEF Spec, OnlyRequestedGo
===============================================================================
