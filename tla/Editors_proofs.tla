---------------------------- MODULE Editors_proofs ----------------------------
(***************************************************************************)
(* Whatever the tabs load, late or superseded, and whatever is lost: what  *)
(* a form was loaded from is known by the update id it is submitted with,  *)
(* for any number of tabs, items, versions and changes; and a form that    *)
(* creates makes one item, which is filed, unless something failed.        *)
(***************************************************************************)
EXTENDS Editors, SequenceTheorems, FiniteSetTheorems, TLAPS

-----------------------------------------------------------------------------
(* The inductive invariant *)

\* A pair of an update id and a value is that of the item, or an earlier one.
Known(its, i, id, v) ==
    \/ id < its[i].id
    \/ id = its[i].id /\ v = its[i].value

\* The last row of a workday is not a full entry, so that a save may drop it.
Closed(times) == times # <<>> /\ Last(times) # "full"

\* What a tab has loaded, by the items of the server.
ContextOK(its, t) ==
    /\ t \in Contexts /\ t.item <= Len(its)
    /\ t.form # NoForm => (t.form.id = Create <=> t.item = Create)
    /\ t.form # NoForm /\ kind = "Workday" => Closed(t.form.values.times)
    /\ t.item = Create => t.node = NoJob /\ t.job = NoJob /\ t.late = NoJob
    /\ t.item # Create =>
          /\ \A j \in {t.node, t.job, t.late} : j # NoJob => Known(its, t.item, j.id, j.value)
          /\ t.form # NoForm => Known(its, t.item, t.form.id, t.form.base)

\* What a tab is submitting; the id of a cluster is not that of its form.
SubmitOK(its, m) ==
    /\ m \in Submits /\ m.item <= Len(its)
    /\ kind = "Workday" => Closed(m.values.times)
    /\ m.stage = "write" /\ m.item # Create /\ kind # "cluster" => Known(its, m.item, m.id, m.base)
    /\ m.stage # "write" /\ m.res # "failed" => m.item # Create /\ m.answer \in Ids
    /\ m.stage = "config" => m.res # "failed"
    /\ kind = "cluster" => m.res # "failed"

IInv ==
    /\ kind \in Kinds /\ public \in BOOLEAN /\ edits \in 0..MaxEdits
    /\ items \in Seq(Items) /\ Len(items) <= MaxItems
    /\ tab \in [Tabs -> Contexts] /\ sending \in [Tabs -> Submits \cup {NotSending}]
    /\ \A c \in Tabs : ContextOK(items, tab[c])
    /\ \A c \in Tabs : sending[c] # NotSending => SubmitOK(items, sending[c])

LEMMA Bounds ==
    /\ MaxEdits \in Nat /\ MaxVersion \in Nat /\ MaxItems \in Nat /\ 1 \in Ids /\ 1 \in 0..MaxItems
    /\ Ids \subseteq Nat /\ Ids \subseteq 0..MaxVersion /\ 0 \notin Ids /\ 0 \in 0..MaxVersion
    /\ 0 \in 0..MaxItems /\ 0 \in 0..MaxEdits + 1 /\ 1 \in 0..MaxEdits + 1
PROOF
    BY BoundAssumption DEF BoundAssumption, Ids

-----------------------------------------------------------------------------
(* Values *)

\* The rows of a workday.
LEMMA PaddedTimes ==
    ASSUME NEW times \in Seq(Entries)
    PROVE  Padded(times) \in Seq(Entries) /\ Closed(Padded(times))
PROOF
<1>1. CASE times = <<>> \/ Last(times) = "full"
    <2>1. Padded(times) = Append(times, "blank") /\ "blank" \in Entries
        BY <1>1 DEF Padded, Entries
    <2>2. /\ Append(times, "blank") \in Seq(Entries) /\ Append(times, "blank") # <<>>
          /\ Last(Append(times, "blank")) = "blank"
        BY <2>1, AppendProperties, LenProperties, EmptySeq DEF Last
    <2> QED
        BY <2>1, <2>2 DEF Closed
<1>2. CASE ~(times = <<>> \/ Last(times) = "full")
    BY <1>2 DEF Padded, Closed
<1> QED
    BY <1>1, <1>2

\* What a save of a workday keeps.
LEMMA FrontOfTimes ==
    ASSUME NEW times \in Seq(Entries), times # <<>>
    PROVE  /\ Front(times) \in Seq(Entries) /\ Len(Front(times)) = Len(times) - 1
           /\ \A n \in 1..Len(times) - 1 : Front(times)[n] = times[n]
PROOF
<1>1. Len(times) \in Nat /\ Len(times) > 0
    BY EmptySeq
<1>2. \A n \in 1..Len(times) - 1 : times[n] \in Entries
    BY <1>1, ElementOfSeq
<1> DEFINE n == Len(times) - 1
<1>3. 1 \in Int /\ n \in Int /\ \A i \in 1..n : times[i] \in Entries
    BY <1>1, <1>2
<1>4. /\ SubSeq(times, 1, n) \in Seq(Entries)
      /\ Len(SubSeq(times, 1, n)) = IF 1 <= n THEN n - 1 + 1 ELSE 0
      /\ \A i \in 1..n - 1 + 1 : SubSeq(times, 1, n)[i] = times[1 + i - 1]
    <2> HIDE DEF n
    <2> QED
        BY <1>3, SubSeqProperties
<1>5. Front(times) = SubSeq(times, 1, n)
    BY DEF Front
<1>6. ASSUME NEW i \in 1..n PROVE SubSeq(times, 1, n)[i] = times[i]
    <2>1. i \in 1..n - 1 + 1 /\ 1 + i - 1 = i
        BY <1>3
    <2> QED
        BY <1>4, <2>1
<1>7. (IF 1 <= n THEN n - 1 + 1 ELSE 0) = n
    <2>1. n \in Nat
        BY <1>1
    <2> HIDE DEF n
    <2> QED
        BY <2>1
<1> QED
    BY <1>4, <1>5, <1>6, <1>7

\* Forms of values, and values of forms.
LEMMA FormValues ==
    ASSUME NEW v \in Values
    PROVE  /\ Shown(v) \in Values /\ Saved(v) \in Values
           /\ kind = "Workday" => Closed(Shown(v).times)
PROOF
<1>1. v.times \in Seq(Entries) /\ v.body \in 0..MaxEdits + 1 /\ v.extra \in 0..MaxEdits + 1
    BY DEF Values
<1>2. Padded(v.times) \in Seq(Entries) /\ Closed(Padded(v.times))
    BY <1>1, PaddedTimes
<1>3. (IF v.times = <<>> THEN v.times ELSE Front(v.times)) \in Seq(Entries)
    BY <1>1, FrontOfTimes
<1>4. ShownWorkday(v) \in Values /\ ShownWorkday(v).times = Padded(v.times)
    BY <1>2 DEF ShownWorkday, Values
<1>5. SavedWorkday(v) \in Values
    BY <1>3 DEF SavedWorkday, Values
<1>6. ShownFile(v) \in Values /\ SavedProfile(v) \in Values
    BY Bounds DEF ShownFile, SavedProfile, Nothing, Values
<1> QED
    BY <1>2, <1>4, <1>5, <1>6
    DEF Shown, Saved, ShownCustom, SavedCustom, SavedFile, ShownProfile, ShownConfig, SavedConfig,
        ShownCluster, SavedCluster, ShownChannelStore

\* The form of an item to be created.
LEMMA NewFormType ==
    NewForm \in Forms /\ NewForm.id = Create /\ (kind = "Workday" => Closed(NewForm.values.times))
PROOF
<1>1. <<>> \in Seq(Entries) /\ <<"full">> \in Seq(Entries)
    BY DEF Entries
<1>2. Blank \in Values
    BY <1>1, Bounds DEF Blank, Nothing, Values
<1>3. Padded(<<"full">>) \in Seq(Entries) /\ Closed(Padded(<<"full">>))
    BY <1>1, PaddedTimes
<1>4. [Blank EXCEPT !.times = Padded(<<"full">>)] \in Values
    BY <1>2, <1>3 DEF Values
<1>5. [Blank EXCEPT !.times = Padded(<<"full">>)].times = Padded(<<"full">>)
    BY <1>2 DEF Values
<1> QED
    BY <1>2, <1>3, <1>4, <1>5 DEF NewForm, Forms

-----------------------------------------------------------------------------
(* Loading *)

\* The value that comes with a node is that of its update id, or the node is
\* an old one.
LEMMA FetchedKnown ==
    ASSUME IInv, NEW c \in Tabs, NEW j \in Nodes, tab[c].item # Create, Decryptable(c, j),
           Known(items, tab[c].item, j.id, j.value)
    PROVE  Fetched(c, j) \in Values /\ Known(items, tab[c].item, j.id, Fetched(c, j))
PROOF
<1>1. tab[c].item \in 1..Len(items)
    BY LenProperties, Bounds DEF IInv, ContextOK, Contexts, Create
<1>2. Item(c) \in Items
    BY <1>1, ElementOfSeq DEF IInv, Item
<1>3. /\ Item(c).value \in Values /\ j.value \in Values /\ Item(c).id \in Nat /\ j.id \in Nat
    BY <1>2, Bounds DEF Items, Nodes
<1>4. /\ [Item(c).value EXCEPT !.extra = j.value.extra] \in Values
      /\ j.value = Item(c).value => [Item(c).value EXCEPT !.extra = j.value.extra] = Item(c).value
    BY <1>3 DEF Values
<1> QED
    BY <1>3, <1>4 DEF Fetched, Known, Item

\* A run of the effect that loads a node.
LEMMA StartKeeps ==
    ASSUME IInv, NEW c \in Tabs, NEW t, ContextOK(items, t), t.item = tab[c].item, t.item # Create,
           NEW node \in Nodes, Known(items, t.item, node.id, node.value),
           NEW u \in Start(c, t, node)
    PROVE  ContextOK(items, u) /\ u.item = t.item
PROOF
<1>1. t \in Contexts
    BY DEF ContextOK
<1>2. CASE u = [t EXCEPT !.job = node]
    <2>1. /\ u \in Contexts /\ u.item = t.item /\ u.node = t.node /\ u.late = t.late
          /\ u.form = t.form /\ u.job = node
        BY <1>1, <1>2 DEF Contexts
    <2> QED
        BY <2>1 DEF ContextOK
<1>3. CASE /\ t.job # NoJob /\ Decryptable(c, t.job)
           /\ u = [t EXCEPT !.job = node, !.late = [t.job EXCEPT !.value = Fetched(c, t.job)]]
    <2> DEFINE j == [t.job EXCEPT !.value = Fetched(c, t.job)]
    <2>1. t.job \in Nodes /\ Known(items, t.item, t.job.id, t.job.value)
        BY <1>1, <1>3 DEF ContextOK, Contexts
    <2>2. Fetched(c, t.job) \in Values /\ Known(items, t.item, t.job.id, Fetched(c, t.job))
        BY <1>3, <2>1, FetchedKnown
    <2>3. j \in Nodes /\ j.id = t.job.id /\ j.value = Fetched(c, t.job)
        BY <2>1, <2>2 DEF Nodes
    <2> HIDE DEF j
    <2>4. u = [t EXCEPT !.job = node, !.late = j]
        BY <1>3 DEF j
    <2>5. /\ u \in Contexts /\ u.item = t.item /\ u.node = t.node /\ u.late = j
          /\ u.form = t.form /\ u.job = node
        BY <1>1, <2>3, <2>4 DEF Contexts
    <2> QED
        BY <2>2, <2>3, <2>5 DEF ContextOK
<1> QED
    BY <1>2, <1>3 DEF Start

\* The answer of a query.
LEMMA DeliverKeeps ==
    ASSUME IInv, NEW c \in Tabs, tab[c].item # Create, NEW u \in Deliver(c, tab[c])
    PROVE  ContextOK(items, u)
PROOF
<1> DEFINE node == [id |-> Item(c).id, value |-> Item(c).value]
           t == [tab[c] EXCEPT !.node = node, !.stale = FALSE]
<1>1. tab[c].item \in 1..Len(items)
    BY LenProperties, Bounds DEF IInv, ContextOK, Contexts, Create
<1>2. Item(c) \in Items
    BY <1>1, ElementOfSeq DEF IInv, Item
<1>3. node \in Nodes /\ Known(items, tab[c].item, node.id, node.value)
    BY <1>2 DEF Items, Nodes, Known, Item
<1>4. tab[c] \in Contexts /\ ContextOK(items, tab[c])
    BY DEF IInv
<1>5. u = t \/ u \in Start(c, t, node)
    BY DEF Deliver
<1> HIDE DEF node
<1>6. /\ t \in Contexts /\ t.item = tab[c].item /\ t.node = node /\ t.late = tab[c].late
      /\ t.form = tab[c].form /\ t.job = tab[c].job
    BY <1>3, <1>4 DEF Contexts
<1> HIDE DEF t
<1>7. ContextOK(items, t)
    BY <1>3, <1>4, <1>6 DEF ContextOK
<1> QED
    BY <1>3, <1>5, <1>6, <1>7, StartKeeps

\* A tab that has moved to another item has loaded nothing.
LEMMA MountedOK ==
    ASSUME IInv, NEW t \in Contexts, NEW i \in 0..MaxItems, i <= Len(items)
    PROVE  ContextOK(items, Mounted(t, i)) /\ Mounted(t, i).node = NoJob /\ Mounted(t, i).item = i
PROOF
<1> DEFINE u == Mounted(t, i)
<1>1. /\ u \in Contexts /\ u.item = i /\ u.node = NoJob /\ u.job = NoJob /\ u.late = NoJob
      /\ u.form = IF i = Create THEN NewForm ELSE NoForm
    BY NewFormType DEF Mounted, Contexts
<1> HIDE DEF u
<1>2. u.form # NoForm => u.item = Create /\ u.form.id = Create /\ (kind = "Workday" => Closed(u.form.values.times))
    BY <1>1, NewFormType
<1>3. ContextOK(items, u)
    BY <1>1, <1>2 DEF ContextOK
<1> QED
    BY <1>1, <1>3 DEF u

\* The context moves with the answer of a submit.
LEMMA AnsweredKeeps ==
    ASSUME IInv, NEW t, ContextOK(items, t), NEW m, SubmitOK(items, m), m.stage = "answer"
    PROVE  /\ ContextOK(items, Answered(t, m))
           /\ Answered(t, m).node # NoJob => Answered(t, m).item = t.item
PROOF
<1>1. t \in Contexts /\ m \in Submits
    BY DEF ContextOK, SubmitOK
<1>2. CASE m.res = "failed"
    BY <1>2 DEF Answered
<1>3. CASE m.res # "failed"
    <2> DEFINE u == [t EXCEPT !.updateId = m.answer, !.stale = @ \/ t.updateId # m.answer]
    <2>1. /\ u \in Contexts /\ u.item = t.item /\ u.node = t.node /\ u.job = t.job
          /\ u.late = t.late /\ u.form = t.form
        BY <1>1 DEF Contexts, Submits
    <2>2. m.item \in 0..MaxItems /\ m.item <= Len(items)
        BY <1>1 DEF SubmitOK, Submits
    <2>3. Answered(t, m) = IF t.item = m.item THEN u ELSE Mounted(u, m.item)
        BY <1>3 DEF Answered, Moved
    <2> HIDE DEF u
    <2>4. ContextOK(items, u)
        BY <2>1 DEF ContextOK
    <2> QED
        BY <2>1, <2>2, <2>3, <2>4, MountedOK
<1> QED
    BY <1>2, <1>3

-----------------------------------------------------------------------------
(* Steps of the tabs *)

\* A step that changes what one tab has loaded.
LEMMA TabStep ==
    ASSUME IInv, NEW c \in Tabs, NEW t, ContextOK(items, t), tab' = [tab EXCEPT ![c] = t],
           UNCHANGED <<kind, public, items, sending>>, edits' \in 0..MaxEdits
    PROVE  IInv'
PROOF
<1>1. t \in Contexts
    BY DEF ContextOK
<1>2. tab' \in [Tabs -> Contexts] /\ \A d \in Tabs : tab'[d] = tab[d] \/ tab'[d] = t
    BY <1>1 DEF IInv
<1>3. \A d \in Tabs : ContextOK(items, tab'[d])
    BY <1>2 DEF IInv
<1>4. \A d \in Tabs : ContextOK(items, tab[d])'
    BY <1>3 DEF ContextOK, Known
<1>5. \A d \in Tabs : sending'[d] # NotSending => SubmitOK(items, sending[d])'
    BY DEF IInv, SubmitOK, Known
<1> QED
    BY <1>2, <1>4, <1>5 DEF IInv

\* A step that changes the submit of one tab.
LEMMA SubmitStep ==
    ASSUME IInv, NEW c \in Tabs, NEW m, m = NotSending \/ SubmitOK(items, m),
           sending' = [sending EXCEPT ![c] = m],
           UNCHANGED <<kind, public, items, edits, tab>>
    PROVE  IInv'
PROOF
<1>1. m \in Submits \cup {NotSending}
    BY DEF SubmitOK
<1>2. /\ sending' \in [Tabs -> Submits \cup {NotSending}]
      /\ \A d \in Tabs : sending'[d] = sending[d] \/ sending'[d] = m
    BY <1>1 DEF IInv
<1>3. \A d \in Tabs : sending'[d] # NotSending => SubmitOK(items, sending'[d])
    BY <1>2 DEF IInv
<1>4. \A d \in Tabs : sending'[d] # NotSending => SubmitOK(items, sending[d])'
    BY <1>3 DEF SubmitOK, Known
<1>5. \A d \in Tabs : ContextOK(items, tab[d])'
    BY DEF IInv, ContextOK, Known
<1> QED
    BY <1>2, <1>4, <1>5 DEF IInv

\* Items only change to a new update id.
Newer(its, jts) ==
    /\ its \in Seq(Items) /\ jts \in Seq(Items) /\ Len(its) <= Len(jts) /\ Len(jts) <= MaxItems
    /\ \A i \in 1..Len(its) :
          its[i].id < jts[i].id \/ (its[i].id = jts[i].id /\ its[i].value = jts[i].value)

\* So that what the tabs know stays true.
LEMMA NewerKeeps ==
    ASSUME IInv, NEW jts, Newer(items, jts)
    PROVE  /\ \A t : ContextOK(items, t) => ContextOK(jts, t)
           /\ \A m : SubmitOK(items, m) => SubmitOK(jts, m)
PROOF
<1>1. Len(items) \in Nat /\ Len(jts) \in Nat /\ Len(items) <= Len(jts)
    BY LenProperties DEF Newer
<1>2. ASSUME NEW i \in 1..Len(items) PROVE items[i].id \in Nat /\ jts[i].id \in Nat
    <2>1. items[i] \in Items /\ jts[i] \in Items
        BY <1>1, ElementOfSeq DEF Newer
    <2> QED
        BY <2>1, Bounds DEF Items
<1>3. ASSUME NEW i \in 1..Len(items), NEW id \in Nat, NEW v, Known(items, i, id, v)
      PROVE  Known(jts, i, id, v)
    BY <1>2, <1>3 DEF Newer, Known
<1>4. ASSUME NEW t, ContextOK(items, t) PROVE ContextOK(jts, t)
    <2>1. t \in Contexts /\ t.item \in Nat /\ t.item <= Len(items)
        BY <1>4, Bounds DEF ContextOK, Contexts
    <2>2. CASE t.item = Create
        BY <1>1, <1>4, <2>1, <2>2 DEF ContextOK
    <2>3. CASE t.item # Create
        <3>1. t.item \in 1..Len(items)
            BY <1>1, <2>1, <2>3 DEF Create
        <3>2. ASSUME NEW j \in {t.node, t.job, t.late}, j # NoJob PROVE j.id \in Nat
            <4>1. j \in Nodes
                BY <2>1, <3>2 DEF Contexts
            <4> QED
                BY <4>1, Bounds DEF Nodes
        <3>3. ASSUME t.form # NoForm PROVE t.form.id \in Nat
            <4>1. t.form \in Forms
                BY <2>1, <3>3 DEF Contexts
            <4>2. t.form.id \in {0} \cup Ids
                BY <4>1 DEF Forms, Create
            <4>3. {0} \cup Ids \subseteq Nat
                BY Bounds
            <4> QED
                BY <4>2, <4>3
        <3>4. \A j \in {t.node, t.job, t.late} : j # NoJob => Known(jts, t.item, j.id, j.value)
            BY <1>3, <1>4, <2>3, <3>1, <3>2 DEF ContextOK
        <3>5. t.form # NoForm => Known(jts, t.item, t.form.id, t.form.base)
            BY <1>3, <1>4, <2>3, <3>1, <3>3 DEF ContextOK
        <3>6. t.item <= Len(jts)
            BY <1>1, <2>1
        <3> QED
            BY <1>4, <3>4, <3>5, <3>6 DEF ContextOK
    <2> QED
        BY <2>2, <2>3
<1>5. ASSUME NEW m, SubmitOK(items, m) PROVE SubmitOK(jts, m)
    <2>1. m \in Submits /\ m.item \in Nat /\ m.id \in Nat /\ m.item <= Len(items)
        BY <1>5, Bounds DEF SubmitOK, Submits
    <2>2. m.item # Create => m.item \in 1..Len(items)
        BY <1>1, <2>1 DEF Create
    <2>3. m.item <= Len(jts)
        BY <1>1, <2>1
    <2> QED
        BY <1>3, <1>5, <2>1, <2>2, <2>3 DEF SubmitOK
<1> QED
    BY <1>4, <1>5

\* A step that changes the items and the submit of one tab.
LEMMA ItemStep ==
    ASSUME IInv, NEW c \in Tabs, NEW m, Newer(items, items'), m = NotSending \/ SubmitOK(items', m),
           sending' = [sending EXCEPT ![c] = m], UNCHANGED <<kind, public, edits, tab>>
    PROVE  IInv'
PROOF
<1>1. m \in Submits \cup {NotSending}
    BY DEF SubmitOK
<1>2. /\ sending' \in [Tabs -> Submits \cup {NotSending}]
      /\ \A d \in Tabs : sending'[d] = sending[d] \/ sending'[d] = m
    BY <1>1 DEF IInv
<1>3. \A d \in Tabs : sending'[d] # NotSending => SubmitOK(items', sending'[d])
    BY <1>2, NewerKeeps DEF IInv
<1>4. \A d \in Tabs : sending'[d] # NotSending => SubmitOK(items, sending[d])'
    BY <1>3 DEF SubmitOK, Known
<1>5. \A d \in Tabs : ContextOK(items', tab[d])
    BY NewerKeeps DEF IInv
<1>6. \A d \in Tabs : ContextOK(items, tab[d])'
    BY <1>5 DEF ContextOK, Known
<1> QED
    BY <1>2, <1>4, <1>6 DEF IInv, Newer

\* A step that changes what one tab has loaded, and its submit.
LEMMA AnswerStep ==
    ASSUME IInv, NEW c \in Tabs, NEW t, ContextOK(items, t), tab' = [tab EXCEPT ![c] = t],
           NEW m, m = NotSending \/ SubmitOK(items, m), sending' = [sending EXCEPT ![c] = m],
           UNCHANGED <<kind, public, items, edits>>
    PROVE  IInv'
PROOF
<1>1. t \in Contexts /\ m \in Submits \cup {NotSending}
    BY DEF ContextOK, SubmitOK
<1>2. /\ tab' \in [Tabs -> Contexts] /\ \A d \in Tabs : tab'[d] = tab[d] \/ tab'[d] = t
      /\ sending' \in [Tabs -> Submits \cup {NotSending}]
      /\ \A d \in Tabs : sending'[d] = sending[d] \/ sending'[d] = m
    BY <1>1 DEF IInv
<1>3. /\ \A d \in Tabs : ContextOK(items, tab'[d])
      /\ \A d \in Tabs : sending'[d] # NotSending => SubmitOK(items, sending'[d])
    BY <1>2 DEF IInv
<1>4. \A d \in Tabs : ContextOK(items, tab[d])'
    BY <1>3 DEF ContextOK, Known
<1>5. \A d \in Tabs : sending'[d] # NotSending => SubmitOK(items, sending[d])'
    BY <1>3 DEF SubmitOK, Known
<1> QED
    BY <1>2, <1>4, <1>5 DEF IInv

-----------------------------------------------------------------------------
(* The actions *)

\* A loaded node becomes the form.
LEMMA ShowKeeps ==
    ASSUME IInv, NEW c \in Tabs, NEW setsContext \in BOOLEAN, Show(c, setsContext)
    PROVE  IInv'
PROOF
<1> DEFINE j == tab[c].job
           v == Fetched(c, j)
           f == [id |-> j.id, base |-> v, values |-> Shown(v)]
           t == [tab[c] EXCEPT !.job = NoJob, !.form = f,
                               !.stale = @ \/ (setsContext /\ tab[c].updateId # j.id),
                               !.updateId = IF setsContext THEN j.id ELSE @]
<1>1. /\ tab[c] \in Contexts /\ ContextOK(items, tab[c]) /\ j # NoJob /\ Decryptable(c, j)
      /\ UNCHANGED <<kind, public, items, edits, sending>>
    BY DEF Show, IInv
<1>2. j \in Nodes /\ tab[c].item # Create /\ Known(items, tab[c].item, j.id, j.value)
    BY <1>1 DEF Contexts, ContextOK
<1>3. v \in Values /\ Known(items, tab[c].item, j.id, v)
    BY <1>1, <1>2, FetchedKnown
<1>4. f \in Forms /\ f.id = j.id /\ f.id # Create /\ f.base = v /\ (kind = "Workday" => Closed(f.values.times))
    <2>1. Shown(v) \in Values /\ (kind = "Workday" => Closed(Shown(v).times))
        BY <1>3, FormValues
    <2>2. j.id \in Ids /\ j.id # Create
        BY <1>2, Bounds DEF Nodes, Create
    <2> HIDE DEF v
    <2> QED
        BY <1>3, <2>1, <2>2 DEF Forms
<1>5. tab' = [tab EXCEPT ![c] = t]
    BY <1>1 DEF Show, IInv
<1>6. j.id \in 0..MaxVersion
    BY <1>2, Bounds DEF Nodes
<1> HIDE DEF f
<1>7. /\ t \in Contexts /\ t.item = tab[c].item /\ t.node = tab[c].node /\ t.late = tab[c].late
      /\ t.job = NoJob /\ t.form = f
    BY <1>1, <1>4, <1>6 DEF Contexts
<1> HIDE DEF t
<1>8. ContextOK(items, t)
    BY <1>1, <1>2, <1>3, <1>4, <1>7 DEF ContextOK
<1> QED
    BY <1>1, <1>5, <1>8, TabStep DEF IInv

\* So does one that was superseded.
LEMMA ShowLateKeeps ==
    ASSUME IInv, NEW c \in Tabs, ShowLate(c)
    PROVE  IInv'
PROOF
<1> DEFINE j == tab[c].late
           f == [id |-> j.id, base |-> j.value, values |-> Shown(j.value)]
           t == [tab[c] EXCEPT !.late = NoJob, !.form = f,
                               !.stale = @ \/ tab[c].updateId # j.id, !.updateId = j.id]
<1>1. /\ tab[c] \in Contexts /\ ContextOK(items, tab[c]) /\ j # NoJob
      /\ UNCHANGED <<kind, public, items, edits, sending>>
    BY DEF ShowLate, IInv
<1>2. j \in Nodes /\ tab[c].item # Create /\ Known(items, tab[c].item, j.id, j.value)
    BY <1>1 DEF Contexts, ContextOK
<1>3. f \in Forms /\ f.id = j.id /\ f.id # Create /\ f.base = j.value
      /\ (kind = "Workday" => Closed(f.values.times))
    <2>1. j.value \in Values /\ Shown(j.value) \in Values
          /\ (kind = "Workday" => Closed(Shown(j.value).times))
        BY <1>2, FormValues DEF Nodes
    <2>2. j.id \in Ids /\ j.id # Create
        BY <1>2, Bounds DEF Nodes, Create
    <2> QED
        BY <2>1, <2>2 DEF Forms
<1>4. tab' = [tab EXCEPT ![c] = t]
    BY <1>1 DEF ShowLate, IInv
<1>5. j.id \in 0..MaxVersion
    BY <1>2, Bounds DEF Nodes
<1> HIDE DEF f
<1>6. /\ t \in Contexts /\ t.item = tab[c].item /\ t.node = tab[c].node /\ t.job = tab[c].job
      /\ t.late = NoJob /\ t.form = f
    BY <1>1, <1>3, <1>5 DEF Contexts
<1> HIDE DEF t
<1>7. ContextOK(items, t)
    BY <1>1, <1>2, <1>3, <1>6 DEF ContextOK
<1> QED
    BY <1>1, <1>4, <1>7, TabStep DEF IInv

\* Queries, and values that do not fit their node.
LEMMA LoadKeeps ==
    ASSUME IInv, NEW c \in Tabs, Load(c)
    PROVE  IInv'
PROOF
<1>1. CASE Fetch(c)
    <2>1. PICK t \in Deliver(c, tab[c]) : tab' = [tab EXCEPT ![c] = t]
        BY <1>1 DEF Fetch
    <2> QED
        BY <1>1, <2>1, DeliverKeeps, TabStep DEF Fetch, IInv
<1>2. CASE ShowFails(c)
    <2> DEFINE t == [tab[c] EXCEPT !.job = NoJob]
    <2>1. tab' = [tab EXCEPT ![c] = t] /\ ContextOK(items, tab[c]) /\ tab[c] \in Contexts
        BY <1>2 DEF ShowFails, IInv
    <2>2. /\ t \in Contexts /\ t.item = tab[c].item /\ t.node = tab[c].node /\ t.late = tab[c].late
          /\ t.job = NoJob /\ t.form = tab[c].form
        BY <2>1 DEF Contexts
    <2> HIDE DEF t
    <2>3. ContextOK(items, t)
        BY <2>1, <2>2 DEF ContextOK
    <2> QED
        BY <1>2, <2>1, <2>3, TabStep DEF ShowFails, IInv
<1> QED
    BY <1>1, <1>2, ShowKeeps, ShowLateKeeps
    DEF Load, ShowCustom, ShowWorkday, ShowProfile, ShowFile, ShowConfig, ShowCluster, ShowChannelStore

\* A form gets other values.
LEMMA PutKeeps ==
    ASSUME IInv, NEW c \in Tabs, NEW w \in Values, Put(c, w), kind = "Workday" => Closed(w.times)
    PROVE  IInv'
PROOF
<1> DEFINE f == [tab[c].form EXCEPT !.values = w]
           t == [tab[c] EXCEPT !.form = f]
<1>1. /\ tab[c].form # NoForm /\ tab[c] \in Contexts /\ ContextOK(items, tab[c])
      /\ UNCHANGED <<kind, public, items, sending>>
    BY DEF Put, HasForm, IInv
<1>2. tab' = [tab EXCEPT ![c] = t]
    BY DEF Put, IInv
<1>3. edits' \in 0..MaxEdits
    BY Bounds DEF Put, IInv
<1>4. f \in Forms /\ f.id = tab[c].form.id /\ f.base = tab[c].form.base /\ f.values = w
    BY <1>1 DEF Contexts, Forms
<1> HIDE DEF f
<1>5. /\ t \in Contexts /\ t.item = tab[c].item /\ t.node = tab[c].node /\ t.late = tab[c].late
      /\ t.job = tab[c].job /\ t.form = f
    BY <1>1, <1>4 DEF Contexts
<1> HIDE DEF t
<1>6. ContextOK(items, t)
    BY <1>1, <1>4, <1>5 DEF ContextOK
<1> QED
    BY <1>1, <1>2, <1>3, <1>6, TabStep

\* The users change their forms.
LEMMA ChangeKeeps ==
    ASSUME IInv, NEW c \in Tabs, Change(c)
    PROVE  IInv'
PROOF
<1>1. ASSUME tab[c].form # NoForm
      PROVE  /\ tab[c].form.values \in Values
             /\ kind = "Workday" => Closed(tab[c].form.values.times)
    BY <1>1 DEF IInv, ContextOK, Contexts, Forms
<1>2. ASSUME NEW f \in Fields, Edit(c, f) PROVE IInv'
    <2> DEFINE w == [tab[c].form.values EXCEPT ![f] = edits + 2]
    <2>1. HasForm(c) /\ Put(c, w) /\ edits + 2 \in 0..MaxEdits + 1
        BY <1>2, Bounds DEF Edit, Put, IInv
    <2>2. w \in Values /\ w.times = tab[c].form.values.times
        BY <1>1, <2>1 DEF Values, Fields, HasForm
    <2> QED
        BY <1>1, <2>1, <2>2, PutKeeps DEF HasForm
<1>3. CASE ClearFile(c)
    <2> DEFINE w == [tab[c].form.values EXCEPT !.body = Nothing]
    <2>1. HasForm(c) /\ Put(c, w)
        BY <1>3 DEF ClearFile
    <2>2. w \in Values /\ w.times = tab[c].form.values.times
        BY <1>1, <2>1, Bounds DEF Values, HasForm, Nothing
    <2> QED
        BY <1>1, <2>1, <2>2, PutKeeps DEF HasForm
<1>4. ASSUME NEW n \in 1..MaxTimes, NEW entry \in {"open", "full"}, EditTime(c, n, entry) PROVE IInv'
    <2> DEFINE times == tab[c].form.values.times
               w == [tab[c].form.values EXCEPT !.times = Padded([times EXCEPT ![n] = entry])]
    <2>1. HasForm(c) /\ Put(c, w) /\ n \in 1..Len(times)
        BY <1>4 DEF EditTime
    <2>2. times \in Seq(Entries) /\ entry \in Entries
        BY <1>1, <2>1 DEF Values, HasForm, Entries
    <2>3. [times EXCEPT ![n] = entry] \in Seq(Entries)
        BY <2>1, <2>2, ExceptSeq
    <2>4. Padded([times EXCEPT ![n] = entry]) \in Seq(Entries) /\ Closed(Padded([times EXCEPT ![n] = entry]))
        BY <2>3, PaddedTimes
    <2>5. w \in Values /\ w.times = Padded([times EXCEPT ![n] = entry])
        BY <1>1, <2>1, <2>4 DEF Values, HasForm
    <2> QED
        BY <2>1, <2>4, <2>5, PutKeeps
<1> QED
    BY <1>2, <1>3, <1>4
    DEF Change, EditCustomText, EditCustomTags, EditFileName, EditFileText, EditFileWebsite, UploadFile,
        EditFileKeywords, EditProfile, EditConfigSlots, EditConfigLock, EditClusterName,
        EditClusterGroups, EditWorkday, Fields

\* A submit begins.
LEMMA SubmitKeeps ==
    ASSUME IInv, NEW c \in Tabs, NEW usesContext \in BOOLEAN, Submit(c, usesContext),
           usesContext => kind = "cluster"
    PROVE  IInv'
PROOF
<1> DEFINE f == tab[c].form
           m == [stage |-> "write", item |-> tab[c].item, base |-> f.base, values |-> f.values,
                 id |-> IF usesContext /\ tab[c].item # Create THEN tab[c].updateId ELSE f.id,
                 res |-> "none", answer |-> 0]
<1>1. /\ f # NoForm /\ tab[c] \in Contexts /\ ContextOK(items, tab[c])
      /\ sending' = [sending EXCEPT ![c] = m] /\ UNCHANGED <<kind, public, items, edits, tab>>
    BY DEF Submit, HasForm, IInv
<1>2. f \in Forms
    BY <1>1 DEF Contexts
<1>3. f.id \in 0..MaxVersion
    BY <1>2, Bounds DEF Forms, Create
<1>4. m \in Submits
    BY <1>1, <1>2, <1>3, Bounds DEF Contexts, Forms, Submits
<1>5. SubmitOK(items, m)
    BY <1>1, <1>4 DEF SubmitOK, ContextOK
<1> QED
    BY <1>1, <1>5, SubmitStep

\* The items after an accepted write.
LEMMA AppliedItems ==
    ASSUME IInv, NEW c \in Tabs, NEW m, SubmitOK(items, m), Accepted(m), WithinBounds(m),
           NEW faulty \in BOOLEAN
    PROVE  /\ Newer(items, Applied(c, m, faulty))
           /\ m.item = Create => /\ Len(Applied(c, m, faulty)) = Len(items) + 1
                                 /\ Applied(c, m, faulty)[Len(items) + 1].id = 1
                                 /\ Applied(c, m, faulty)[Len(items) + 1].value = Saved(m.values)
           /\ m.item # Create =>
                /\ m.item \in 1..Len(items) /\ Len(Applied(c, m, faulty)) = Len(items)
                /\ Applied(c, m, faulty)[m.item].id \in Ids
                /\ Applied(c, m, faulty)[m.item].value = Saved(m.values)
           /\ \A i \in 1..Len(items) : i # m.item => Applied(c, m, faulty)[i] = items[i]
PROOF
<1>1. /\ Len(items) \in Nat /\ items \in Seq(Items) /\ Len(items) <= MaxItems
      /\ m \in Submits /\ m.item \in Nat /\ m.item <= Len(items) /\ Saved(m.values) \in Values
    BY LenProperties, FormValues, Bounds DEF IInv, SubmitOK, Submits
<1>2. CASE m.item = Create
    <2> DEFINE x == [id |-> 1, value |-> Saved(m.values), filed |-> FALSE,
                     faulty |-> faulty, maker |-> c, by |-> c]
    <2>1. x \in Items /\ x.id = 1 /\ x.value = Saved(m.values)
        BY <1>1, Bounds DEF Items
    <2>2. Applied(c, m, faulty) = Append(items, x) /\ Len(items) < MaxItems
        BY <1>2 DEF Applied, WithinBounds
    <2> HIDE DEF x
    <2>3. /\ Append(items, x) \in Seq(Items) /\ Len(Append(items, x)) = Len(items) + 1
          /\ \A i \in 1..Len(items) : Append(items, x)[i] = items[i]
          /\ Append(items, x)[Len(items) + 1] = x
        BY <1>1, <2>1, AppendProperties
    <2>4. Newer(items, Append(items, x))
        BY <1>1, <2>2, <2>3, Bounds DEF Newer
    <2> QED
        BY <1>2, <2>1, <2>2, <2>3, <2>4
<1>3. CASE m.item # Create
    <2> DEFINE y == items[m.item]
               x == [y EXCEPT !.id = @ + 1, !.value = Saved(m.values), !.by = c]
    <2>1. m.item \in 1..Len(items)
        BY <1>1, <1>3 DEF Create
    <2>2. y \in Items /\ y.id \in Nat /\ y.id < MaxVersion
        <3>1. y \in Items
            BY <1>1, <2>1, ElementOfSeq
        <3>2. y.id \in Ids
            BY <3>1 DEF Items
        <3>3. y.id < MaxVersion
            BY <1>3 DEF WithinBounds
        <3> QED
            BY <3>1, <3>2, <3>3, Bounds
    <2>3. y.id + 1 \in Ids
        BY <2>2, Bounds DEF Ids
    <2>4. x \in Items /\ x.id = y.id + 1 /\ x.value = Saved(m.values)
        BY <1>1, <2>2, <2>3 DEF Items
    <2>5. Applied(c, m, faulty) = [items EXCEPT ![m.item] = x]
        BY <1>1, <1>3, <2>1 DEF Applied
    <2> HIDE DEF x
    <2>6. /\ [items EXCEPT ![m.item] = x] \in Seq(Items)
          /\ Len([items EXCEPT ![m.item] = x]) = Len(items)
          /\ \A i \in 1..Len(items) : [items EXCEPT ![m.item] = x][i] = IF i = m.item THEN x ELSE items[i]
        BY <1>1, <2>1, <2>4, ExceptSeq
    <2>7. Newer(items, [items EXCEPT ![m.item] = x])
        BY <1>1, <2>2, <2>4, <2>6 DEF Newer
    <2> QED
        BY <1>3, <2>1, <2>3, <2>4, <2>5, <2>6, <2>7
<1> QED
    BY <1>2, <1>3

\* Nothing is newer than itself; and the notes on an item are not its value.
LEMMA SameIsNewer ==
    ASSUME IInv
    PROVE  /\ Newer(items, items)
           /\ \A i \in 1..Len(items), b \in BOOLEAN :
                /\ Newer(items, [items EXCEPT ![i].filed = b])
                /\ Newer(items, [items EXCEPT ![i].faulty = b])
                /\ \A k \in 1..Len(items) :
                     /\ [items EXCEPT ![i].filed = b][k].id = items[k].id
                     /\ [items EXCEPT ![i].filed = b][k].value = items[k].value
                     /\ [items EXCEPT ![i].faulty = b][k].id = items[k].id
                     /\ [items EXCEPT ![i].faulty = b][k].value = items[k].value
                /\ Len([items EXCEPT ![i].filed = b]) = Len(items)
                /\ Len([items EXCEPT ![i].faulty = b]) = Len(items)
PROOF
<1>1. Len(items) \in Nat /\ items \in Seq(Items) /\ Len(items) <= MaxItems
    BY LenProperties DEF IInv
<1>2. Newer(items, items)
    BY <1>1 DEF Newer
<1>3. ASSUME NEW i \in 1..Len(items), NEW x \in Items, x.id = items[i].id, x.value = items[i].value
      PROVE  /\ Newer(items, [items EXCEPT ![i] = x]) /\ Len([items EXCEPT ![i] = x]) = Len(items)
             /\ \A k \in 1..Len(items) : /\ [items EXCEPT ![i] = x][k].id = items[k].id
                                          /\ [items EXCEPT ![i] = x][k].value = items[k].value
    <2>1. /\ [items EXCEPT ![i] = x] \in Seq(Items) /\ Len([items EXCEPT ![i] = x]) = Len(items)
          /\ \A k \in 1..Len(items) : [items EXCEPT ![i] = x][k] = IF k = i THEN x ELSE items[k]
        BY <1>1, <1>3, ExceptSeq
    <2> QED
        BY <1>1, <1>3, <2>1 DEF Newer
<1>4. ASSUME NEW i \in 1..Len(items), NEW b \in BOOLEAN
      PROVE  /\ Newer(items, [items EXCEPT ![i].filed = b])
             /\ Newer(items, [items EXCEPT ![i].faulty = b])
             /\ \A k \in 1..Len(items) :
                  /\ [items EXCEPT ![i].filed = b][k].id = items[k].id
                  /\ [items EXCEPT ![i].filed = b][k].value = items[k].value
                  /\ [items EXCEPT ![i].faulty = b][k].id = items[k].id
                  /\ [items EXCEPT ![i].faulty = b][k].value = items[k].value
             /\ Len([items EXCEPT ![i].filed = b]) = Len(items)
             /\ Len([items EXCEPT ![i].faulty = b]) = Len(items)
    <2> DEFINE x == [items[i] EXCEPT !.filed = b]
               y == [items[i] EXCEPT !.faulty = b]
    <2>1. items[i] \in Items
        BY <1>1, ElementOfSeq
    <2>2. x \in Items /\ x.id = items[i].id /\ x.value = items[i].value
        BY <2>1 DEF Items
    <2>3. y \in Items /\ y.id = items[i].id /\ y.value = items[i].value
        BY <2>1 DEF Items
    <2>4. /\ [items EXCEPT ![i].filed = b] = [items EXCEPT ![i] = x]
          /\ [items EXCEPT ![i].faulty = b] = [items EXCEPT ![i] = y]
        OBVIOUS
    <2> HIDE DEF x, y
    <2>5. /\ Newer(items, [items EXCEPT ![i] = x]) /\ Len([items EXCEPT ![i] = x]) = Len(items)
          /\ \A k \in 1..Len(items) : /\ [items EXCEPT ![i] = x][k].id = items[k].id
                                       /\ [items EXCEPT ![i] = x][k].value = items[k].value
        BY <1>3, <2>2
    <2>6. /\ Newer(items, [items EXCEPT ![i] = y]) /\ Len([items EXCEPT ![i] = y]) = Len(items)
          /\ \A k \in 1..Len(items) : /\ [items EXCEPT ![i] = y][k].id = items[k].id
                                       /\ [items EXCEPT ![i] = y][k].value = items[k].value
        BY <1>3, <2>3
    <2> QED
        BY <2>4, <2>5, <2>6
<1> QED
    BY <1>2, <1>4

\* A submit that has been answered by the server goes on to its next stage.
LEMMA NextStage ==
    ASSUME IInv, NEW m, SubmitOK(items, m), m.stage # "write", NEW jts, Len(items) <= Len(jts),
           NEW stage \in {"config", "refetch", "answer"}, stage = "config" => m.res # "failed"
    PROVE  SubmitOK(jts, [m EXCEPT !.stage = stage])
PROOF
<1> DEFINE n == [m EXCEPT !.stage = stage]
<1>1. m \in Submits
    BY DEF SubmitOK
<1>2. /\ n \in Submits /\ n.stage = stage /\ n.item = m.item /\ n.values = m.values /\ n.res = m.res
      /\ n.answer = m.answer
    BY <1>1 DEF Submits
<1> HIDE DEF n
<1>3. n.item <= Len(jts)
    BY <1>1, <1>2 DEF SubmitOK, Submits
<1>4. SubmitOK(jts, n)
    BY <1>2, <1>3 DEF SubmitOK
<1> QED
    BY <1>4 DEF n

\* The answer of the server to a write.
LEMMA WriteKeeps ==
    ASSUME IInv, NEW c \in Tabs, Write(c)
    PROVE  IInv' /\ Newer(items, items')
PROOF
<1> DEFINE m == sending[c]
           i == IF m.item = Create THEN Len(items) + 1 ELSE m.item
           res == IF Accepted(m) THEN "ok" ELSE "refused"
           n == [m EXCEPT !.stage = StageAfter("write", res), !.res = res, !.item = i,
                          !.answer = items'[i].id]
<1>1. /\ m.stage = "write" /\ m \in Submits /\ SubmitOK(items, m)
      /\ Accepted(m) => WithinBounds(m)
      /\ items' = IF Accepted(m) THEN Applied(c, m, FALSE) ELSE items
      /\ UNCHANGED <<kind, public, edits, tab>>
    BY DEF Write, IInv, NotSending, SubmitOK
<1>2. sending' = [sending EXCEPT ![c] = n]
    BY <1>1 DEF Write, IInv
<1>3. Len(items) \in Nat /\ m.item \in 0..MaxItems /\ m.item <= Len(items)
    BY <1>1, LenProperties DEF IInv, SubmitOK, Submits
<1>4. /\ Newer(items, items') /\ i \in 0..MaxItems /\ i <= Len(items') /\ i # Create
      /\ items'[i].id \in Ids
    <2>1. CASE Accepted(m) /\ m.item = Create
        <3>1. /\ Newer(items, items') /\ Len(items') = Len(items) + 1 /\ i = Len(items) + 1
              /\ items'[Len(items) + 1].id = 1
            BY <1>1, <2>1, AppliedItems
        <3>2. Len(items') <= MaxItems
            BY <3>1 DEF Newer
        <3> QED
            BY <1>3, <3>1, <3>2, Bounds DEF Create
    <2>2. CASE Accepted(m) /\ m.item # Create
        <3>1. /\ Newer(items, items') /\ Len(items') = Len(items) /\ i = m.item
              /\ items'[m.item].id \in Ids
            BY <1>1, <2>2, AppliedItems
        <3> QED
            BY <1>3, <2>2, <3>1
    <2>3. CASE ~Accepted(m)
        <3>1. items' = items /\ Newer(items, items') /\ m.item # Create /\ i = m.item
            BY <1>1, <2>3, SameIsNewer DEF Accepted
        <3>2. items[i] \in Items
            BY <1>3, <3>1, ElementOfSeq, Bounds DEF IInv, Create
        <3> QED
            BY <1>3, <3>1, <3>2 DEF Items
    <2> QED
        BY <2>1, <2>2, <2>3
<1>5. StageAfter("write", res) \in {"config", "refetch"} /\ res \in {"ok", "refused"}
    BY DEF StageAfter
<1>6. items'[i].id \in 0..MaxVersion
    BY <1>4, Bounds
<1> HIDE DEF i, res
<1>7. /\ n \in Submits /\ n.stage \in {"config", "refetch"} /\ n.item = i /\ n.values = m.values
      /\ n.res \in {"ok", "refused"} /\ n.answer = items'[i].id
    BY <1>1, <1>4, <1>5, <1>6 DEF Submits
<1> HIDE DEF n
<1>8. SubmitOK(items', n)
    BY <1>1, <1>4, <1>7 DEF SubmitOK
<1> QED
    BY <1>1, <1>2, <1>4, <1>8, ItemStep

\* A lost write, or a lost answer.
LEMMA WriteFailsKeeps ==
    ASSUME IInv, NEW c \in Tabs, WriteFails(c)
    PROVE  IInv' /\ Newer(items, items')
PROOF
<1> DEFINE m == sending[c]
           n == IF kind = "cluster" THEN NotSending ELSE [m EXCEPT !.stage = "refetch", !.res = "failed"]
<1>1. /\ m.stage = "write" /\ m \in Submits /\ SubmitOK(items, m)
      /\ UNCHANGED <<kind, public, edits, tab>>
      /\ sending' = [sending EXCEPT ![c] = n]
    BY DEF WriteFails, IInv, NotSending, SubmitOK
<1>2. Newer(items, items')
    <2>1. CASE items' = items
        BY <2>1, SameIsNewer
    <2>2. CASE Accepted(m) /\ WithinBounds(m) /\ items' = Applied(c, m, TRUE)
        BY <1>1, <2>2, AppliedItems
    <2> QED
        BY <2>1, <2>2 DEF WriteFails
<1>3. n = NotSending \/ SubmitOK(items', n)
    <2>1. CASE kind # "cluster"
        <3>1. /\ n \in Submits /\ n.stage = "refetch" /\ n.res = "failed" /\ n.item = m.item
              /\ n.values = m.values
            BY <1>1, <2>1 DEF Submits
        <3>2. m.item <= Len(items) /\ m.item \in Nat /\ Len(items) \in Nat /\ Len(items') \in Nat
              /\ Len(items) <= Len(items')
            BY <1>1, <1>2, LenProperties, Bounds DEF Newer, SubmitOK, Submits
        <3>3. n.item <= Len(items')
            BY <3>1, <3>2
        <3> HIDE DEF n
        <3> QED
            BY <1>1, <2>1, <3>1, <3>3 DEF SubmitOK
    <2> QED
        BY <2>1
<1> QED
    BY <1>1, <1>2, <1>3, ItemStep

\* The config update, made or failed.
LEMMA FileKeeps ==
    ASSUME IInv, NEW c \in Tabs, FileTokens(c) \/ FileFails(c)
    PROVE  /\ IInv' /\ Len(items') = Len(items)
           /\ \A i \in 1..Len(items) : items'[i].id = items[i].id /\ items'[i].value = items[i].value
PROOF
<1> DEFINE m == sending[c]
           n == [m EXCEPT !.stage = StageAfter("config", m.res)]
<1>1. /\ m.stage = "config" /\ m \in Submits /\ SubmitOK(items, m) /\ m.res # "failed"
      /\ UNCHANGED <<kind, public, edits, tab>>
    BY DEF FileTokens, FileFails, IInv, NotSending, SubmitOK
<1>2. m.item \in 1..Len(items)
    BY <1>1, LenProperties, Bounds DEF IInv, SubmitOK, Submits, Create
<1>3. sending' = [sending EXCEPT ![c] = n] \/ sending' = [sending EXCEPT ![c] = NotSending]
    BY DEF FileTokens, FileFails
<1>4. \E b \in BOOLEAN : items' = [items EXCEPT ![m.item].filed = b] \/ items' = [items EXCEPT ![m.item].faulty = b]
    <2>1. CASE FileTokens(c)
        BY <2>1 DEF FileTokens
    <2>2. CASE FileFails(c)
        <3>1. (items[m.item].faulty \/ ~items[m.item].filed) \in BOOLEAN
            BY Zenon
        <3>2. items' = [items EXCEPT ![m.item].faulty = (items[m.item].faulty \/ ~items[m.item].filed)]
            BY <1>2, <2>2 DEF FileFails
        <3> QED
            BY <3>1, <3>2
    <2> QED
        BY <2>1, <2>2
<1>5. /\ Newer(items, items') /\ Len(items') = Len(items)
      /\ \A i \in 1..Len(items) : items'[i].id = items[i].id /\ items'[i].value = items[i].value
    <2>1. PICK b \in BOOLEAN : items' = [items EXCEPT ![m.item].filed = b] \/ items' = [items EXCEPT ![m.item].faulty = b]
        BY <1>4
    <2>2. CASE items' = [items EXCEPT ![m.item].filed = b]
        BY <1>2, <2>2, SameIsNewer
    <2>3. CASE items' = [items EXCEPT ![m.item].faulty = b]
        BY <1>2, <2>3, SameIsNewer
    <2> QED
        BY <2>1, <2>2, <2>3
<1>6. StageAfter("config", m.res) \in {"refetch", "answer"}
    BY DEF StageAfter
<1>7. SubmitOK(items', n)
    <2>1. Len(items) <= Len(items')
        BY <1>5 DEF Newer
    <2> QED
        BY <1>1, <1>6, <2>1, NextStage
<1> HIDE DEF n
<1> QED
    BY <1>1, <1>3, <1>5, <1>7, ItemStep

\* The refetch after a submit.
LEMMA RefetchKeeps ==
    ASSUME IInv, NEW c \in Tabs, Refetch(c)
    PROVE  IInv'
PROOF
<1> DEFINE m == sending[c]
           n == [m EXCEPT !.stage = StageAfter("refetch", m.res)]
<1>1. /\ m.stage = "refetch" /\ m \in Submits /\ SubmitOK(items, m)
      /\ UNCHANGED <<kind, public, items, edits>> /\ sending' = [sending EXCEPT ![c] = n]
    BY DEF Refetch, IInv, NotSending, SubmitOK
<1>2. /\ StageAfter("refetch", m.res) \in {"config", "answer"}
      /\ StageAfter("refetch", m.res) = "config" => m.res # "failed"
    BY <1>1 DEF StageAfter, SubmitOK
<1>3. SubmitOK(items, n)
    <2>1. Len(items) <= Len(items)
        BY LenProperties DEF IInv
    <2> QED
        BY <1>1, <1>2, <2>1, NextStage
<1> HIDE DEF n
<1>4. CASE tab' = tab
    BY <1>1, <1>3, <1>4, SubmitStep
<1>5. CASE tab[c].item # Create /\ \E t \in Deliver(c, tab[c]) : tab' = [tab EXCEPT ![c] = t]
    <2>1. PICK t \in Deliver(c, tab[c]) : tab' = [tab EXCEPT ![c] = t]
        BY <1>5
    <2>2. ContextOK(items, t)
        BY <1>5, DeliverKeeps
    <2> QED
        BY <1>1, <1>3, <2>1, <2>2, AnswerStep
<1> QED
    BY <1>4, <1>5 DEF Refetch

\* The answer reaches the editor.
LEMMA ReceiveKeeps ==
    ASSUME IInv, NEW c \in Tabs, Receive(c)
    PROVE  IInv' /\ items' = items
PROOF
<1> DEFINE t == Answered(tab[c], sending[c])
<1>1. ASSUME sending[c].stage = "answer"
      PROVE  /\ ContextOK(items, tab[c]) /\ SubmitOK(items, sending[c])
             /\ ContextOK(items, t) /\ (t.node # NoJob => t.item = tab[c].item)
    <2>1. ContextOK(items, tab[c]) /\ SubmitOK(items, sending[c])
        BY <1>1 DEF IInv, NotSending
    <2> QED
        BY <1>1, <2>1, AnsweredKeeps
<1>2. ASSUME NEW u, ContextOK(items, u), Answer(c, u) PROVE IInv' /\ items' = items
    BY <1>2, AnswerStep DEF Answer
<1>3. ASSUME NEW u \in ConfigChanged(c, t), Answer(c, u) PROVE ContextOK(items, u)
    <2>1. ContextOK(items, t) /\ (t.node # NoJob => t.item = tab[c].item)
        BY <1>1, <1>3 DEF Answer
    <2>2. CASE u = t
        BY <2>1, <2>2
    <2>3. CASE t.node # NoJob /\ u \in Start(c, t, t.node)
        <3>1. t.node \in Nodes /\ t.item # Create /\ Known(items, t.item, t.node.id, t.node.value)
            BY <2>1, <2>3 DEF ContextOK, Contexts
        <3> HIDE DEF t
        <3> QED
            BY <2>1, <2>3, <3>1, StartKeeps
    <2> QED
        BY <1>3, <2>2, <2>3 DEF ConfigChanged
<1>4. CASE AnswerConfig(c)
    <2> DEFINE u == IF sending[c].stage = "answer" /\ sending[c].res # "failed"
                    THEN [t EXCEPT !.config = sending[c].values.body] ELSE t
    <2>1. Answer(c, u) /\ sending[c].stage = "answer"
        BY <1>4 DEF AnswerConfig, Answer
    <2>2. ContextOK(items, t) /\ t \in Contexts /\ sending[c] \in Submits
        BY <1>1, <2>1 DEF ContextOK, SubmitOK
    <2>3. sending[c].values.body \in 0..MaxEdits + 1
        BY <2>2 DEF Submits, Values
    <2> HIDE DEF t
    <2>4. /\ u \in Contexts /\ u.item = t.item /\ u.node = t.node /\ u.job = t.job
          /\ u.late = t.late /\ u.form = t.form
        BY <2>2, <2>3 DEF Contexts
    <2> HIDE DEF u
    <2>5. ContextOK(items, u)
        BY <2>2, <2>4 DEF ContextOK
    <2> QED
        BY <1>2, <2>1, <2>5
<1>5. ASSUME Answer(c, t) PROVE IInv' /\ items' = items
    BY <1>1, <1>2, <1>5 DEF Answer
<1> QED
    BY <1>2, <1>3, <1>4, <1>5 DEF Receive, AnswerCustom, AnswerWorkday, AnswerFile, AnswerProfile, AnswerCluster

-----------------------------------------------------------------------------
(* The theorems *)

\* Initially nobody has loaded anything.
LEMMA IInvInit == Init => IInv
PROOF
<1> SUFFICES ASSUME Init PROVE IInv
    OBVIOUS
<1> DEFINE times == IF kind = "Workday" THEN <<"full", "open">> ELSE <<>>
           x == [id |-> 1, filed |-> TRUE, faulty |-> FALSE, maker |-> "earlier", by |-> "earlier",
                 value |-> [body |-> 1, extra |-> 1, times |-> times]]
           start == [item |-> 0, updateId |-> 0, node |-> NoJob, job |-> NoJob,
                     late |-> NoJob, form |-> NoForm, stale |-> FALSE, config |-> 1]
<1>1. kind \in Kinds /\ public \in BOOLEAN /\ edits \in 0..MaxEdits
    <2>1. kind \in Kinds /\ edits = 0
        BY DEF Init
    <2>2. public \in BOOLEAN
        BY DEF Init
    <2> QED
        BY <2>1, <2>2, Bounds
<1>2. items = <<x>>
    BY DEF Init
<1>3. x \in Items
    <2>1. times \in Seq(Entries)
        <3>1. <<>> \in Seq(Entries)
            OBVIOUS
        <3>2. "full" \in Entries /\ "open" \in Entries
            BY DEF Entries
        <3>3. <<"full", "open">> \in Seq(Entries)
            BY <3>2
        <3> QED
            BY <3>1, <3>3
    <2> HIDE DEF times
    <2> QED
        BY <2>1, Bounds DEF Items, Values
<1> HIDE DEF x
<1>4. items \in Seq(Items) /\ Len(items) = 1 /\ Len(items) <= MaxItems
    BY <1>2, <1>3, BoundAssumption DEF BoundAssumption
<1>5. start \in Contexts
    BY Bounds DEF Contexts
<1>6. PICK create \in SUBSET Tabs :
         tab = [c \in Tabs |-> Mounted(start, IF c \in create THEN Create ELSE 1)]
    BY DEF Init
<1>7. sending = [c \in Tabs |-> NotSending]
    BY DEF Init
<1> HIDE DEF start
<1>8. ASSUME NEW i \in {0, 1} PROVE ContextOK(items, Mounted(start, i))
    <2> DEFINE u == Mounted(start, i)
    <2>1. /\ u \in Contexts /\ u.item = i /\ u.node = NoJob /\ u.job = NoJob /\ u.late = NoJob
          /\ u.form = IF i = Create THEN NewForm ELSE NoForm
        BY <1>5, Bounds, NewFormType DEF Mounted, Contexts
    <2> HIDE DEF u
    <2>2. u.form # NoForm => u.item = Create /\ u.form.id = Create /\ (kind = "Workday" => Closed(u.form.values.times))
        BY <2>1, NewFormType
    <2>3. u.item <= Len(items)
        BY <1>4, <2>1
    <2>4. ContextOK(items, u)
        BY <2>1, <2>2, <2>3 DEF ContextOK
    <2> QED
        BY <2>4 DEF u
<1>9. \A c \in Tabs : ContextOK(items, tab[c])
    BY <1>6, <1>8 DEF Create
<1>10. tab \in [Tabs -> Contexts]
    BY <1>6, <1>9 DEF ContextOK
<1> QED
    BY <1>1, <1>4, <1>7, <1>9, <1>10 DEF IInv

\* A submit begins with the id its form was loaded with, but for clusters.
LEMMA SendKeeps ==
    ASSUME IInv, NEW c \in Tabs, Send(c)
    PROVE  IInv'
PROOF
    BY SubmitKeeps, WriteKeeps, WriteFailsKeeps, FileKeeps, RefetchKeeps
    DEF Send, SubmitCustom, SubmitWorkday, SubmitFile, SubmitProfile, SubmitConfig, SubmitCluster

\* Every step keeps the invariant.
LEMMA IInvStep == IInv /\ [Next]_vars => IInv'
PROOF
<1> SUFFICES ASSUME IInv, [Next]_vars PROVE IInv'
    OBVIOUS
<1>1. CASE UNCHANGED vars
    BY <1>1 DEF vars, IInv, ContextOK, SubmitOK, Known
<1>2. ASSUME NEW c \in Tabs, Load(c) \/ Change(c) \/ Send(c) \/ Receive(c) PROVE IInv'
    BY <1>2, LoadKeeps, ChangeKeeps, SendKeeps, ReceiveKeeps
<1> QED
    BY <1>1, <1>2 DEF Next

\* So it always holds.
LEMMA Invariance == Spec => []IInv
PROOF
    BY IInvInit, IInvStep, PTL DEF Spec

\* Contexts, forms and submits keep their types, and a form belongs to the item
\* of its context.
THEOREM TypeCorrect == Spec => []TypeOK
PROOF
<1>1. IInv => TypeOK
    BY DEF IInv, TypeOK, ContextOK
<1> QED
    BY <1>1, Invariance, PTL

\* The steps of a tab that change no item.
OtherStep(c) ==
    \/ Load(c) \/ Change(c) \/ Receive(c)
    \/ Send(c) /\ ~Write(c) /\ ~WriteFails(c) /\ ~FileTokens(c) /\ ~FileFails(c)

LEMMA OthersKeepItems ==
    ASSUME IInv, NEW c \in Tabs, OtherStep(c)
    PROVE  items' = items
PROOF
<1>1. CASE Load(c) \/ Change(c) \/ Receive(c)
    BY <1>1, ReceiveKeeps
    DEF Load, Fetch, ShowFails, ShowLate, ShowCustom, ShowWorkday, ShowProfile, ShowFile, ShowConfig,
        ShowCluster, ShowChannelStore, Show, Change, EditCustomText, EditCustomTags, EditFileName,
        EditFileText, EditFileWebsite, UploadFile, ClearFile, EditFileKeywords, EditProfile,
        EditConfigSlots, EditConfigLock, EditClusterName, EditClusterGroups, EditWorkday, EditTime,
        Edit, Put
<1>2. CASE Send(c) /\ ~Write(c) /\ ~WriteFails(c) /\ ~FileTokens(c) /\ ~FileFails(c)
    BY <1>2
    DEF Send, SubmitCustom, SubmitWorkday, SubmitFile, SubmitProfile, SubmitConfig, SubmitCluster,
        Submit, Refetch
<1> QED
    BY <1>1, <1>2 DEF OtherStep

\* Only a write gives an item another update id, or creates an item,
\* and the value it stores is what its form saves.
LEMMA WriteCauses ==
    ASSUME IInv, Next, NEW i \in 1..Len(items')
    PROVE  \/ i \in 1..Len(items) /\ items'[i].id = items[i].id /\ items'[i].value = items[i].value
           \/ \E c \in Tabs :
                /\ sending[c].stage = "write" /\ sending'[c] # sending[c]
                /\ i \in 1..Len(items) => sending[c].item = i
                /\ SubmitOK(items, sending[c]) /\ Accepted(sending[c])
                /\ items'[i].value = Saved(sending[c].values)
PROOF
<1>1. ASSUME NEW c \in Tabs, Write(c) \/ WriteFails(c)
      PROVE  \/ /\ i \in 1..Len(items)
                /\ items'[i].id = items[i].id /\ items'[i].value = items[i].value
             \/ /\ sending[c].stage = "write" /\ sending'[c] # sending[c]
                /\ i \in 1..Len(items) => sending[c].item = i
                /\ SubmitOK(items, sending[c]) /\ Accepted(sending[c])
                /\ items'[i].value = Saved(sending[c].values)
    <2> DEFINE m == sending[c]
    <2>1. m.stage = "write" /\ SubmitOK(items, m) /\ m \in Submits
        <3>1. m.stage = "write"
            BY <1>1 DEF Write, WriteFails
        <3>2. m # NotSending
            BY <3>1 DEF NotSending
        <3> QED
            BY <3>1, <3>2 DEF IInv
    <2>2. \/ items' = items
          \/ \E b \in BOOLEAN : Accepted(m) /\ WithinBounds(m) /\ items' = Applied(c, m, b)
        BY <1>1 DEF Write, WriteFails
    <2>3. sending'[c].stage # "write"
        <3>1. StageAfter("write", "ok") # "write" /\ StageAfter("write", "refused") # "write"
            BY DEF StageAfter
        <3>2. CASE Write(c)
            BY <2>1, <3>1, <3>2 DEF Write, IInv, Submits
        <3>3. CASE WriteFails(c)
            BY <2>1, <3>3 DEF WriteFails, IInv, Submits, NotSending
        <3> QED
            BY <1>1, <3>2, <3>3
    <2>4. CASE items' = items
        BY <2>4
    <2>5. ASSUME NEW b \in BOOLEAN, Accepted(m), WithinBounds(m), items' = Applied(c, m, b)
          PROVE  \/ i \in 1..Len(items) /\ items'[i] = items[i]
                 \/ (i \in 1..Len(items) => m.item = i) /\ items'[i].value = Saved(m.values)
        <3>1. Len(items) \in Nat
            BY LenProperties DEF IInv
        <3>2. CASE m.item = Create
            BY <2>1, <2>5, <3>1, <3>2, AppliedItems DEF Create
        <3>3. CASE m.item # Create
            BY <2>1, <2>5, <3>1, <3>3, AppliedItems
        <3> QED
            BY <3>2, <3>3
    <2> QED
        BY <2>1, <2>2, <2>3, <2>4, <2>5
<1>2. ASSUME NEW c \in Tabs, FileTokens(c) \/ FileFails(c)
      PROVE  i \in 1..Len(items) /\ items'[i].id = items[i].id /\ items'[i].value = items[i].value
    BY <1>2, FileKeeps
<1>3. ASSUME NEW c \in Tabs, OtherStep(c) PROVE items' = items
    BY <1>3, OthersKeepItems
<1> QED
    BY <1>1, <1>2, <1>3 DEF Next, OtherStep

\* No item goes away.
LEMMA ItemsStay ==
    ASSUME IInv, Next, NEW i \in 1..Len(items)
    PROVE  i \in 1..Len(items')
PROOF
<1>1. items \in Seq(Items) /\ items' \in Seq(Items) /\ Len(items) \in Nat /\ Len(items') \in Nat
    BY IInvStep, LenProperties DEF IInv
<1>2. Len(items) <= Len(items')
    <2>1. ASSUME NEW c \in Tabs, Write(c) \/ WriteFails(c) PROVE Len(items) <= Len(items')
        <3> DEFINE m == sending[c]
        <3>1. m.stage = "write"
            BY <2>1 DEF Write, WriteFails
        <3>2. SubmitOK(items, m)
            BY <3>1 DEF IInv, NotSending
        <3>3. \/ items' = items
              \/ \E b \in BOOLEAN : Accepted(m) /\ WithinBounds(m) /\ items' = Applied(c, m, b)
            BY <2>1 DEF Write, WriteFails
        <3> QED
            BY <1>1, <3>2, <3>3, AppliedItems DEF Newer
    <2>2. ASSUME NEW c \in Tabs, FileTokens(c) \/ FileFails(c) PROVE Len(items) <= Len(items')
        BY <1>1, <2>2, FileKeeps
    <2>3. ASSUME NEW c \in Tabs, OtherStep(c) PROVE items' = items
        BY <2>3, OthersKeepItems
    <2> QED
        BY <1>1, <2>1, <2>2, <2>3 DEF Next, OtherStep
<1> QED
    BY <1>1, <1>2

\* Whoever is accepted has loaded what it replaces.
LEMMA KnownBase ==
    ASSUME IInv, NEW i \in 1..Len(items), NEW c \in Tabs, WriteTo(c, i),
           SubmitOK(items, sending[c]), Accepted(sending[c]), kind # "cluster"
    PROVE  sending[c].base = items[i].value
PROOF
<1>1. sending[c].item = i /\ i # Create /\ sending[c].stage = "write"
    BY DEF WriteTo, Create
<1>2. sending[c].id = items[i].id /\ Known(items, i, sending[c].id, sending[c].base)
    BY <1>1 DEF Accepted, SubmitOK
<1>3. items \in Seq(Items)
    BY DEF IInv
<1>4. items[i] \in Items
    BY <1>3, ElementOfSeq
<1>5. items[i].id \in Nat
    BY <1>4, Bounds DEF Items
<1> QED
    BY <1>2, <1>5 DEF Known

\* For any tabs and whatever comes late or gets lost: a write of a content is
\* accepted only for a form that was loaded from the value it replaces.
THEOREM WritesReplaceWhatTheyKnow == Spec => NoLostContentWrite
PROOF
<1>1. ASSUME IInv, [Next]_vars
      PROVE  [\A i \in 1..Len(items) : items'[i].id # items[i].id /\ kind # "cluster"
                => \E c \in Tabs : WriteTo(c, i) /\ sending[c].base = items[i].value]_vars
    <2> SUFFICES ASSUME Next, NEW i \in 1..Len(items), items'[i].id # items[i].id, kind # "cluster"
                 PROVE  \E c \in Tabs : WriteTo(c, i) /\ sending[c].base = items[i].value
        BY <1>1
    <2>1. PICK c \in Tabs : WriteTo(c, i) /\ SubmitOK(items, sending[c]) /\ Accepted(sending[c])
        BY <1>1, ItemsStay, WriteCauses DEF WriteTo
    <2> QED
        BY <1>1, <2>1, KnownBase
<1> QED
    BY <1>1, Invariance, PTL DEF Spec, NoLostContentWrite

\* A save keeps the fields that its editor both reads and saves.
LEMMA KeptStay ==
    ASSUME NEW v \in Values, NEW w \in Values, NEW f \in Kept
    PROVE  Saved(w)[f] = w[f] /\ Shown(v)[f] = v[f]
PROOF
<1>1. f \in {"body", "extra"} /\ (kind \in {"file", "Profile"} => f = "body")
    BY DEF Kept, Fields
<1>2. CASE f = "body"
    BY <1>2 DEF Values, Saved, Shown, ShownCustom, SavedCustom, ShownWorkday, SavedWorkday, ShownFile,
                SavedFile, ShownProfile, SavedProfile, ShownConfig, SavedConfig, ShownCluster,
                SavedCluster, ShownChannelStore
<1>3. CASE f = "extra" /\ kind \notin {"file", "Profile"}
    BY <1>3 DEF Values, Saved, Shown, ShownCustom, SavedCustom, ShownWorkday, SavedWorkday,
                ShownConfig, SavedConfig, ShownCluster, SavedCluster, ShownChannelStore
<1> QED
    BY <1>1, <1>2, <1>3

\* For any tabs: what a content's editor both reads and saves only changes when
\* the user of the form that is saved has changed it.
THEOREM UntouchedFieldsStay == Spec => UntouchedStay
PROOF
<1>1. ASSUME IInv, [Next]_vars
      PROVE  [\A i \in 1..Len(items), f \in Kept :
                 items'[i].value[f] # items[i].value[f] /\ kind # "cluster"
                 => \E c \in Tabs :
                      WriteTo(c, i) /\ sending[c].values[f] # Shown(sending[c].base)[f]]_vars
    <2> SUFFICES ASSUME Next, NEW i \in 1..Len(items), NEW f \in Kept,
                        items'[i].value[f] # items[i].value[f], kind # "cluster"
                 PROVE  \E c \in Tabs : /\ WriteTo(c, i)
                                        /\ sending[c].values[f] # Shown(sending[c].base)[f]
        BY <1>1
    <2>1. PICK c \in Tabs : /\ WriteTo(c, i) /\ SubmitOK(items, sending[c]) /\ Accepted(sending[c])
                            /\ items'[i].value = Saved(sending[c].values)
        BY <1>1, ItemsStay, WriteCauses DEF WriteTo
    <2>2. sending[c].base = items[i].value
        BY <1>1, <2>1, KnownBase
    <2>3. sending[c].base \in Values /\ sending[c].values \in Values
        BY <2>1 DEF SubmitOK, Submits
    <2>4. /\ Saved(sending[c].values)[f] = sending[c].values[f]
          /\ Shown(sending[c].base)[f] = sending[c].base[f]
        BY <2>3, KeptStay
    <2> QED
        BY <2>1, <2>2, <2>4
<1> QED
    BY <1>1, Invariance, PTL DEF Spec, UntouchedStay

\* The full entries of a workday survive the loss of its last row.
LEMMA SavedEntries ==
    ASSUME NEW w \in Values, kind \in Kinds, kind = "Workday" => Closed(w.times)
    PROVE  FullEntries(Saved(w).times) = FullEntries(w.times)
PROOF
<1>1. w.times \in Seq(Entries)
    BY DEF Values
<1>2. CASE kind = "Workday"
    <2> DEFINE times == w.times
    <2>1. times # <<>> /\ Last(times) # "full"
        BY <1>2 DEF Closed
    <2>2. Saved(w).times = Front(times)
        BY <1>2, <2>1 DEF Values, Saved, SavedWorkday
    <2>3. /\ Len(times) \in Nat /\ Len(times) > 0 /\ times[Len(times)] # "full"
          /\ Len(Front(times)) = Len(times) - 1
          /\ \A n \in 1..Len(times) - 1 : Front(times)[n] = times[n]
        BY <1>1, <2>1, FrontOfTimes, EmptySeq DEF Last
    <2>4. {n \in 1..Len(Front(times)) : Front(times)[n] = "full"} = {n \in 1..Len(times) : times[n] = "full"}
        BY <2>3
    <2> QED
        BY <2>2, <2>4 DEF FullEntries
<1>3. CASE kind # "Workday"
    <2>1. Saved(w).times = w.times
        BY <1>3 DEF Values, Saved, SavedCustom, SavedFile, SavedProfile, SavedConfig, SavedCluster
    <2> QED
        BY <2>1
<1> QED
    BY <1>2, <1>3

\* For any tabs and forms: whoever writes, updates or creates, every entry of
\* the form that has a start and a stop is saved.
THEOREM FullEntriesSaved == Spec => FullEntriesAreSaved
PROOF
<1>1. ASSUME IInv, [Next]_vars
      PROVE  [\A i \in 1..Len(items') : i > Len(items) \/ items'[i].id # items[i].id
                => \E c \in Tabs :
                     /\ sending[c].stage = "write"
                     /\ sending'[c] # sending[c]
                     /\ FullEntries(items'[i].value.times) = FullEntries(sending[c].values.times)]_vars
    <2> SUFFICES ASSUME Next, NEW i \in 1..Len(items'), i > Len(items) \/ items'[i].id # items[i].id
                 PROVE  \E c \in Tabs :
                          /\ sending[c].stage = "write"
                          /\ sending'[c] # sending[c]
                          /\ FullEntries(items'[i].value.times) = FullEntries(sending[c].values.times)
        BY <1>1
    <2>1. Len(items) \in Nat
        BY <1>1, LenProperties DEF IInv
    <2>2. PICK c \in Tabs : /\ sending[c].stage = "write" /\ sending'[c] # sending[c]
                            /\ SubmitOK(items, sending[c])
                            /\ items'[i].value = Saved(sending[c].values)
        BY <1>1, <2>1, WriteCauses
    <2>3. FullEntries(Saved(sending[c].values).times) = FullEntries(sending[c].values.times)
        BY <1>1, <2>2, SavedEntries DEF IInv, SubmitOK, Submits
    <2> QED
        BY <2>2, <2>3
<1> QED
    BY <1>1, Invariance, PTL DEF Spec, FullEntriesAreSaved

-----------------------------------------------------------------------------
(* Forms and the items they create *)

Sending(c) == sending[c] # NotSending
Made(c) == {i \in 1..Len(items) : items[i].maker = c}
Settled(c) == \A i \in Made(c) : items[i].faulty

\* The answer that will move a creating form to its item is on its way; until
\* the config is written the item is not filed.
Creating(c) ==
    LET m == sending[c]
    IN /\ Sending(c) /\ m.stage # "write" /\ m.item # Create /\ m.res = "ok"
       /\ m.item \in Made(c) /\ \A i \in Made(c) \ {m.item} : items[i].faulty
       /\ m.stage = "config" \/ (m.stage = "refetch" /\ kind = "cluster") => ~items[m.item].filed

\* A form that creates has only made faulty items, but for the one under way;
\* any other form submits the item of its context.
FormInv(c) ==
    /\ tab[c].item = Create => \/ Settled(c) /\ (Sending(c) => sending[c].item = Create)
                               \/ Creating(c)
    /\ tab[c].item # Create => /\ items[tab[c].item].maker \in {c, "earlier"}
                               /\ Sending(c) => sending[c].item = tab[c].item

MakerInv ==
    /\ \A i \in 1..Len(items) : items[i].maker = "earlier" => i = 1
    /\ OneItemPerForm
    /\ \A c \in Tabs : FormInv(c)

\* Whoever refetches after its config update has left the item filed or faulty.
Refetching(c) ==
    /\ Sending(c) /\ sending[c].stage = "refetch" /\ sending[c].res = "ok" /\ kind # "cluster"
    => items[sending[c].item].filed \/ items[sending[c].item].faulty

FiledInv == CreatedIsFiled /\ \A c \in Tabs : Refetching(c)

\* What the steps of a tab leave alone: the other tabs, and what is known of
\* the items.
OthersRest(c) ==
    /\ kind' = kind
    /\ \A d \in Tabs \ {c} : tab'[d].item = tab[d].item /\ sending'[d] = sending[d]

Noted(x, y) == x.maker = y.maker /\ (x.filed => y.filed) /\ (x.faulty => y.faulty)

SameNotes ==
    /\ Len(items') = Len(items)
    /\ \A i \in 1..Len(items) : /\ items'[i].maker = items[i].maker
                                /\ items'[i].filed = items[i].filed
                                /\ items'[i].faulty = items[i].faulty

\* The kinds of steps.
QuietStep(c) == SameNotes /\ tab'[c].item = tab[c].item /\ sending'[c] = sending[c]
BeginStep(c) ==
    /\ SameNotes /\ tab'[c].item = tab[c].item /\ ~Sending(c)
    /\ Sending(c)' /\ sending'[c].stage = "write" /\ sending'[c].item = tab[c].item
UpdateStep(c) ==
    /\ SameNotes /\ tab'[c].item = tab[c].item
    /\ Sending(c) /\ sending[c].stage = "write" /\ sending[c].item # Create
    /\ Sending(c)' => /\ sending'[c].item = sending[c].item
                      /\ sending'[c].stage = "refetch" /\ sending'[c].res = "ok" => kind = "cluster"
CreateStep(c, faulty) ==
    /\ tab'[c].item = tab[c].item
    /\ Sending(c) /\ sending[c].stage = "write" /\ sending[c].item = Create
    /\ Len(items') = Len(items) + 1
    /\ \A i \in 1..Len(items) : items'[i] = items[i]
    /\ LET x == items'[Len(items) + 1] IN x.maker = c /\ x.filed = FALSE /\ x.faulty = faulty
CreatedStep(c) ==
    /\ CreateStep(c, FALSE)
    /\ Sending(c)' /\ sending'[c].item = Len(items) + 1 /\ sending'[c].res = "ok"
    /\ sending'[c].stage = IF kind = "cluster" THEN "refetch" ELSE "config"
LostStep(c) ==
    /\ \/ CreateStep(c, TRUE)
       \/ /\ SameNotes /\ tab'[c].item = tab[c].item
          /\ Sending(c) /\ sending[c].stage = "write" /\ sending[c].item = Create
    /\ Sending(c)' => sending'[c].item = Create /\ sending'[c].res = "failed"
FileStep(c) ==
    /\ tab'[c].item = tab[c].item /\ Sending(c) /\ sending[c].stage = "config"
    /\ sending[c].item \in 1..Len(items) /\ Len(items') = Len(items)
    /\ \A i \in 1..Len(items) : /\ Noted(items[i], items'[i])
                                /\ i # sending[c].item => items'[i] = items[i]
    /\ items'[sending[c].item].filed \/ items'[sending[c].item].faulty
    /\ Sending(c)' =>
         /\ sending'[c].item = sending[c].item /\ sending'[c].res = sending[c].res
         /\ sending'[c].stage = IF kind = "cluster" THEN "answer" ELSE "refetch"
    /\ ~Sending(c)' => items[sending[c].item].filed \/ items'[sending[c].item].faulty
RefetchStep(c) ==
    /\ SameNotes /\ tab'[c].item = tab[c].item /\ Sending(c) /\ sending[c].stage = "refetch"
    /\ Sending(c)' /\ sending'[c].item = sending[c].item /\ sending'[c].res = sending[c].res
    /\ sending'[c].stage = IF kind = "cluster" THEN "config" ELSE "answer"
AnswerOfStep(c) ==
    /\ SameNotes /\ Sending(c) /\ sending[c].stage = "answer" /\ ~Sending(c)'
    /\ tab'[c].item = IF sending[c].res = "failed" THEN tab[c].item ELSE sending[c].item

ShapedStep(c) ==
    /\ OthersRest(c)
    /\ \/ QuietStep(c) \/ BeginStep(c) \/ UpdateStep(c) \/ CreatedStep(c) \/ LostStep(c)
       \/ FileStep(c) \/ RefetchStep(c) \/ AnswerOfStep(c)

\* A query changes no context's item.
LEMMA ItemOfContext ==
    ASSUME IInv, NEW c \in Tabs, tab[c].item # Create, NEW u \in Deliver(c, tab[c])
    PROVE  u.item = tab[c].item
PROOF
<1>1. tab[c] \in Contexts
    BY DEF IInv
<1> QED
    BY <1>1 DEF Deliver, Start, Contexts

\* Nor does a form that is loaded or changed.
LEMMA LoadShape ==
    ASSUME IInv, NEW c \in Tabs, Load(c) \/ Change(c)
    PROVE  OthersRest(c) /\ QuietStep(c)
PROOF
<1>1. tab \in [Tabs -> Contexts] /\ tab[c] \in Contexts
    BY DEF IInv
<1>2. ASSUME NEW t, t.item = tab[c].item, tab' = [tab EXCEPT ![c] = t],
             UNCHANGED <<kind, items, sending>>
      PROVE  OthersRest(c) /\ QuietStep(c)
    BY <1>1, <1>2 DEF OthersRest, QuietStep, SameNotes
<1>3. ASSUME Fetch(c) PROVE OthersRest(c) /\ QuietStep(c)
    <2>1. PICK t \in Deliver(c, tab[c]) : tab' = [tab EXCEPT ![c] = t]
        BY <1>3 DEF Fetch
    <2> QED
        BY <1>2, <1>3, <2>1, ItemOfContext DEF Fetch
<1>4. ASSUME NEW b \in BOOLEAN, Show(c, b) PROVE OthersRest(c) /\ QuietStep(c)
    BY <1>1, <1>4 DEF Show, OthersRest, QuietStep, SameNotes, Contexts
<1>5. ASSUME ShowFails(c) PROVE OthersRest(c) /\ QuietStep(c)
    BY <1>1, <1>5 DEF ShowFails, OthersRest, QuietStep, SameNotes, Contexts
<1>6. ASSUME ShowLate(c) PROVE OthersRest(c) /\ QuietStep(c)
    BY <1>1, <1>6 DEF ShowLate, OthersRest, QuietStep, SameNotes, Contexts
<1>7. ASSUME NEW w, Put(c, w) PROVE OthersRest(c) /\ QuietStep(c)
    BY <1>1, <1>7 DEF Put, OthersRest, QuietStep, SameNotes, Contexts
<1>8. ASSUME Change(c) PROVE OthersRest(c) /\ QuietStep(c)
    BY <1>7, <1>8
    DEF Change, EditCustomText, EditCustomTags, EditFileName, EditFileText, EditFileWebsite, UploadFile,
        ClearFile, EditFileKeywords, EditProfile, EditConfigSlots, EditConfigLock, EditClusterName,
        EditClusterGroups, EditWorkday, EditTime, Edit
<1> QED
    BY <1>3, <1>4, <1>5, <1>6, <1>8
    DEF Load, ShowCustom, ShowWorkday, ShowProfile, ShowFile, ShowConfig, ShowCluster, ShowChannelStore

\* What an accepted write makes of the notes on the items.
LEMMA CreateShape ==
    ASSUME IInv, NEW c \in Tabs, NEW faulty \in BOOLEAN, Sending(c), sending[c].stage = "write",
           sending[c].item = Create, tab' = tab, items' = Applied(c, sending[c], faulty)
    PROVE  CreateStep(c, faulty)
PROOF
<1> DEFINE x == [id |-> 1, value |-> Saved(sending[c].values), filed |-> FALSE,
                 faulty |-> faulty, maker |-> c, by |-> c]
<1>1. items' = Append(items, x)
    BY DEF Applied
<1>2. x.maker = c /\ x.filed = FALSE /\ x.faulty = faulty
    OBVIOUS
<1>3. x \in Items
    <2>1. sending[c].values \in Values
        BY DEF IInv, Sending, Submits
    <2>2. Saved(sending[c].values) \in Values
        BY <2>1, FormValues
    <2> QED
        BY <2>2, Bounds DEF Items
<1> HIDE DEF x
<1>4. /\ Len(items') = Len(items) + 1 /\ items'[Len(items) + 1] = x
      /\ \A i \in 1..Len(items) : items'[i] = items[i]
    BY <1>1, <1>3, AppendProperties DEF IInv
<1> QED
    BY <1>2, <1>4 DEF CreateStep

\* An update leaves them alone.
LEMMA UpdateShape ==
    ASSUME IInv, NEW m, SubmitOK(items, m), m.item # Create, WithinBounds(m), NEW c \in Tabs,
           NEW faulty, items' = Applied(c, m, faulty)
    PROVE  SameNotes
PROOF
<1> DEFINE i == m.item
           x == [items[i] EXCEPT !.id = @ + 1, !.value = Saved(m.values), !.by = c]
<1>1. items \in Seq(Items) /\ i \in 1..Len(items) /\ Saved(m.values) \in Values
    BY LenProperties, FormValues, Bounds DEF IInv, SubmitOK, Submits, Create
<1>2. items[i] \in Items
    BY <1>1, ElementOfSeq
<1>3. items[i].id + 1 \in Ids
    BY <1>2, BoundAssumption DEF WithinBounds, Items, Ids
<1>4. /\ x \in Items /\ x.maker = items[i].maker
      /\ x.filed = items[i].filed /\ x.faulty = items[i].faulty
    BY <1>1, <1>2, <1>3 DEF Items
<1>5. items' = [items EXCEPT ![i] = x]
    BY DEF Applied
<1> HIDE DEF x
<1>6. /\ Len(items') = Len(items)
      /\ \A k \in 1..Len(items) : items'[k] = IF k = i THEN x ELSE items[k]
    BY <1>1, <1>4, <1>5, ExceptSeq
<1> QED
    BY <1>4, <1>6 DEF SameNotes

\* A submit begins.
LEMMA BeginShape ==
    ASSUME IInv, NEW c \in Tabs, NEW usesContext \in BOOLEAN, Submit(c, usesContext)
    PROVE  OthersRest(c) /\ BeginStep(c)
PROOF
    BY DEF IInv, Submit, Idle, OthersRest, BeginStep, SameNotes, Sending, NotSending

\* The server writes, or refuses.
LEMMA WriteShape ==
    ASSUME IInv, NEW c \in Tabs, Write(c)
    PROVE  OthersRest(c) /\ (UpdateStep(c) \/ CreatedStep(c))
PROOF
<1> DEFINE m == sending[c]
           i == IF m.item = Create THEN Len(items) + 1 ELSE m.item
           res == IF Accepted(m) THEN "ok" ELSE "refused"
           n == [m EXCEPT !.stage = StageAfter("write", res), !.res = res, !.item = i,
                          !.answer = items'[i].id]
<1>1. /\ m.stage = "write" /\ Sending(c) /\ m \in Submits /\ SubmitOK(items, m)
      /\ Accepted(m) => WithinBounds(m)
      /\ items' = IF Accepted(m) THEN Applied(c, m, FALSE) ELSE items
      /\ UNCHANGED <<kind, public, edits, tab>>
    BY DEF Write, IInv, NotSending, SubmitOK, Sending
<1>2. sending' = [sending EXCEPT ![c] = n] /\ sending'[c] = n
    BY <1>1 DEF Write, IInv
<1>3. /\ n.stage = StageAfter("write", res) /\ n.res = res /\ n.item = i /\ n # NotSending
    BY <1>1 DEF Submits, NotSending
<1>4. OthersRest(c)
    BY <1>1, <1>2 DEF OthersRest
<1>5. CASE ~Accepted(m)
    <2>1. m.item # Create /\ items' = items /\ res = "refused"
        BY <1>1, <1>5 DEF Accepted
    <2> HIDE DEF n
    <2>2. UpdateStep(c)
        BY <1>1, <1>2, <1>3, <2>1 DEF UpdateStep, SameNotes
    <2> QED
        BY <1>4, <2>2
<1>6. CASE Accepted(m) /\ m.item = Create
    <2>1. CreateStep(c, FALSE)
        BY <1>1, <1>6, CreateShape
    <2>2. StageAfter("write", "ok") = IF kind = "cluster" THEN "refetch" ELSE "config"
        BY DEF StageAfter
    <2> HIDE DEF n
    <2>3. CreatedStep(c)
        BY <1>1, <1>2, <1>3, <1>6, <2>1, <2>2 DEF CreatedStep, Sending
    <2> QED
        BY <1>4, <2>3
<1>7. CASE Accepted(m) /\ m.item # Create
    <2>1. SameNotes
        BY <1>1, <1>7, UpdateShape
    <2>2. StageAfter("write", "ok") = IF kind = "cluster" THEN "refetch" ELSE "config"
        BY DEF StageAfter
    <2> HIDE DEF n
    <2>3. UpdateStep(c)
        BY <1>1, <1>2, <1>3, <1>7, <2>1, <2>2 DEF UpdateStep
    <2> QED
        BY <1>4, <2>3
<1> QED
    BY <1>5, <1>6, <1>7

\* The write, or its answer, is lost.
LEMMA WriteFailsShape ==
    ASSUME IInv, NEW c \in Tabs, WriteFails(c)
    PROVE  OthersRest(c) /\ (UpdateStep(c) \/ LostStep(c))
PROOF
<1> DEFINE m == sending[c]
           n == IF kind = "cluster" THEN NotSending ELSE [m EXCEPT !.stage = "refetch", !.res = "failed"]
<1>1. /\ m.stage = "write" /\ Sending(c) /\ m \in Submits /\ SubmitOK(items, m)
      /\ UNCHANGED <<kind, public, edits, tab>>
      /\ sending' = [sending EXCEPT ![c] = n]
      /\ items' = items \/ (Accepted(m) /\ WithinBounds(m) /\ items' = Applied(c, m, TRUE))
    <2>1. m.stage = "write" /\ m # NotSending
        BY DEF WriteFails, NotSending
    <2>2. SubmitOK(items, m)
        BY <2>1 DEF IInv
    <2> QED
        BY <2>1, <2>2 DEF WriteFails, SubmitOK, Sending
<1>2. sending'[c] = n
    BY <1>1 DEF IInv
<1>3. n # NotSending => n.stage = "refetch" /\ n.res = "failed" /\ n.item = m.item
    BY <1>1 DEF Submits, NotSending
<1>4. OthersRest(c)
    BY <1>1 DEF OthersRest
<1> HIDE DEF n
<1>5. CASE m.item # Create
    <2>1. SameNotes
        BY <1>1, <1>5, UpdateShape DEF SameNotes
    <2>2. UpdateStep(c)
        BY <1>1, <1>2, <1>3, <1>5, <2>1 DEF UpdateStep, Sending
    <2> QED
        BY <1>4, <2>2
<1>6. CASE m.item = Create
    <2>1. SameNotes \/ CreateStep(c, TRUE)
        BY <1>1, <1>6, CreateShape DEF SameNotes
    <2>2. LostStep(c)
        BY <1>1, <1>2, <1>3, <1>6, <2>1 DEF LostStep, Sending
    <2> QED
        BY <1>4, <2>2
<1> QED
    BY <1>5, <1>6

\* The config update, made or failed.
LEMMA FileShape ==
    ASSUME IInv, NEW c \in Tabs, FileTokens(c) \/ FileFails(c)
    PROVE  OthersRest(c) /\ FileStep(c)
PROOF
<1> DEFINE m == sending[c]
           i == m.item
           n == [m EXCEPT !.stage = StageAfter("config", m.res)]
<1>1. /\ m.stage = "config" /\ Sending(c) /\ m \in Submits /\ SubmitOK(items, m) /\ m.res # "failed"
      /\ UNCHANGED <<kind, public, edits, tab>>
    BY DEF FileTokens, FileFails, IInv, NotSending, SubmitOK, Sending
<1>2. i \in 1..Len(items) /\ items \in Seq(Items)
    BY <1>1, LenProperties, Bounds DEF IInv, SubmitOK, Submits, Create
<1>3. items[i] \in Items
    BY <1>2, ElementOfSeq
<1>4. /\ n.stage = IF kind = "cluster" THEN "answer" ELSE "refetch"
      /\ n.item = i /\ n.res = m.res /\ n # NotSending
    BY <1>1 DEF Submits, StageAfter, NotSending
<1>5. ASSUME NEW x \in Items, items' = [items EXCEPT ![i] = x], Noted(items[i], x), x.filed \/ x.faulty,
             \/ sending' = [sending EXCEPT ![c] = n]
             \/ /\ sending' = [sending EXCEPT ![c] = NotSending]
                /\ items[i].filed \/ x.faulty
      PROVE  OthersRest(c) /\ FileStep(c)
    <2>1. /\ Len(items') = Len(items)
          /\ \A k \in 1..Len(items) : items'[k] = IF k = i THEN x ELSE items[k]
        BY <1>2, <1>5, ExceptSeq
    <2>2. \A k \in 1..Len(items) : Noted(items[k], items'[k])
        BY <1>5, <2>1 DEF Noted
    <2>3. sending'[c] = n \/ (sending'[c] = NotSending /\ (items[i].filed \/ x.faulty))
        BY <1>5 DEF IInv
    <2>4. OthersRest(c)
        <3> HIDE DEF n
        <3>1. \A d \in Tabs \ {c} : sending'[d] = sending[d]
            BY <1>5 DEF IInv
        <3> QED
            BY <1>1, <3>1 DEF OthersRest
    <2> HIDE DEF n
    <2>5. FileStep(c)
        BY <1>1, <1>2, <1>4, <1>5, <2>1, <2>2, <2>3 DEF FileStep, Sending
    <2> QED
        BY <2>4, <2>5
<1>6. CASE FileTokens(c)
    <2> DEFINE x == [items[i] EXCEPT !.filed = TRUE]
    <2>1. x \in Items /\ Noted(items[i], x) /\ x.filed
        BY <1>3 DEF Items, Noted
    <2>2. items' = [items EXCEPT ![i] = x] /\ sending' = [sending EXCEPT ![c] = n]
        BY <1>6 DEF FileTokens
    <2> HIDE DEF x, n
    <2> QED
        BY <1>5, <2>1, <2>2
<1>7. CASE FileFails(c)
    <2> DEFINE x == [items[i] EXCEPT !.faulty = @ \/ ~items[i].filed]
    <2>1. /\ x \in Items /\ Noted(items[i], x) /\ (x.filed \/ x.faulty)
          /\ (items[i].filed \/ x.faulty)
        BY <1>3 DEF Items, Noted
    <2>2. /\ items' = [items EXCEPT ![i] = x]
          /\ sending' = [sending EXCEPT ![c] = n] \/ sending' = [sending EXCEPT ![c] = NotSending]
        BY <1>7 DEF FileFails
    <2> HIDE DEF x, n
    <2> QED
        BY <1>5, <2>1, <2>2
<1> QED
    BY <1>6, <1>7

\* The refetch.
LEMMA RefetchShape ==
    ASSUME IInv, NEW c \in Tabs, Refetch(c)
    PROVE  OthersRest(c) /\ RefetchStep(c)
PROOF
<1> DEFINE m == sending[c]
           n == [m EXCEPT !.stage = StageAfter("refetch", m.res)]
<1>1. /\ m.stage = "refetch" /\ Sending(c) /\ m \in Submits
      /\ UNCHANGED <<kind, public, items, edits>> /\ sending' = [sending EXCEPT ![c] = n]
    BY DEF Refetch, IInv, NotSending, SubmitOK, Sending
<1>2. sending'[c] = n
    BY <1>1 DEF IInv
<1>3. /\ n.stage = IF kind = "cluster" THEN "config" ELSE "answer"
      /\ n.item = m.item /\ n.res = m.res /\ n # NotSending
    BY <1>1 DEF Submits, StageAfter, NotSending
<1>4. \A d \in Tabs : tab'[d].item = tab[d].item
    <2>1. CASE tab' = tab
        BY <2>1
    <2>2. CASE tab[c].item # Create /\ \E t \in Deliver(c, tab[c]) : tab' = [tab EXCEPT ![c] = t]
        BY <2>2, ItemOfContext DEF IInv
    <2> QED
        BY <2>1, <2>2 DEF Refetch
<1>5. OthersRest(c)
    BY <1>1, <1>4 DEF OthersRest
<1> HIDE DEF n
<1>6. RefetchStep(c)
    BY <1>1, <1>2, <1>3, <1>4 DEF RefetchStep, SameNotes, Sending
<1> QED
    BY <1>5, <1>6

\* The answer reaches the editor.
LEMMA ReceiveShape ==
    ASSUME IInv, NEW c \in Tabs, Receive(c)
    PROVE  OthersRest(c) /\ AnswerOfStep(c)
PROOF
<1> DEFINE t == Answered(tab[c], sending[c])
           i == IF sending[c].res = "failed" THEN tab[c].item ELSE sending[c].item
<1>1. tab[c] \in Contexts /\ tab \in [Tabs -> Contexts]
    BY DEF IInv
<1>2. t \in Contexts /\ t.item = i
    <2>1. CASE sending[c].stage = "answer"
        <3>1. SubmitOK(items, sending[c]) /\ ContextOK(items, tab[c])
            BY <2>1 DEF IInv, NotSending
        <3>2. t \in Contexts
            BY <2>1, <3>1, AnsweredKeeps DEF ContextOK
        <3>3. t.item = i
            BY <1>1 DEF Answered, Moved, Mounted, Contexts
        <3> QED
            BY <3>2, <3>3
    <2>2. CASE sending[c].stage # "answer"
        BY <2>2 DEF Receive, AnswerCustom, AnswerWorkday, AnswerFile, AnswerProfile, AnswerCluster,
                    AnswerConfig, Answer
    <2> QED
        BY <2>1, <2>2
<1> HIDE DEF t
<1>3. ASSUME NEW u, u.item = i, Answer(c, u) PROVE OthersRest(c) /\ AnswerOfStep(c)
    BY <1>1, <1>3 DEF Answer, IInv, OthersRest, AnswerOfStep, SameNotes, Sending, NotSending
<1>4. ASSUME NEW u \in ConfigChanged(c, t) PROVE u.item = i
    BY <1>2, <1>4 DEF ConfigChanged, Start, Contexts
<1>5. [t EXCEPT !.config = sending[c].values.body].item = i
    BY <1>2 DEF Contexts
<1>6. CASE AnswerConfig(c)
    <2> DEFINE u == IF sending[c].stage = "answer" /\ sending[c].res # "failed"
                    THEN [t EXCEPT !.config = sending[c].values.body] ELSE t
    <2>1. Answer(c, u)
        BY <1>6 DEF AnswerConfig, t
    <2>2. u.item = i
        BY <1>2, <1>5
    <2> HIDE DEF u, i
    <2> QED
        BY <1>3, <2>1, <2>2
<1>7. CASE AnswerFile(c) \/ AnswerCluster(c)
    <2>1. PICK u \in ConfigChanged(c, t) : Answer(c, u)
        BY <1>7 DEF AnswerFile, AnswerCluster, t
    <2> QED
        BY <1>3, <1>4, <2>1
<1>8. CASE AnswerCustom(c) \/ AnswerWorkday(c) \/ AnswerProfile(c)
    <2>1. Answer(c, t)
        BY <1>8 DEF AnswerCustom, AnswerWorkday, AnswerProfile, t
    <2> QED
        BY <1>2, <1>3, <2>1
<1> QED
    BY <1>6, <1>7, <1>8 DEF Receive

\* Every step is one of them.
LEMMA StepShape ==
    ASSUME IInv, Next
    PROVE  \E c \in Tabs : ShapedStep(c)
PROOF
<1>1. PICK c \in Tabs : Load(c) \/ Change(c) \/ Send(c) \/ Receive(c)
    BY DEF Next
<1>2. CASE Send(c)
    BY <1>2, BeginShape, WriteShape, WriteFailsShape, FileShape, RefetchShape
    DEF ShapedStep, Send, SubmitCustom, SubmitWorkday, SubmitFile, SubmitProfile, SubmitConfig, SubmitCluster
<1> QED
    BY <1>1, <1>2, LoadShape, ReceiveShape DEF ShapedStep

\* The notes on an item stay, and only a tab that creates adds an item.
LEMMA NotesStay ==
    ASSUME IInv, NEW c \in Tabs, ShapedStep(c)
    PROVE  /\ Len(items) \in Nat /\ Len(items') \in Nat /\ Len(items) <= Len(items')
           /\ \A i \in 1..Len(items) : Noted(items[i], items'[i])
           /\ Len(items') = Len(items) \/ \E faulty \in BOOLEAN : CreateStep(c, faulty)
PROOF
<1>1. Len(items) \in Nat
    BY LenProperties DEF IInv
<1>2. CASE SameNotes
    BY <1>1, <1>2 DEF SameNotes, Noted
<1>3. ASSUME NEW faulty \in BOOLEAN, CreateStep(c, faulty)
      PROVE  /\ Len(items') \in Nat /\ Len(items) <= Len(items')
             /\ \A i \in 1..Len(items) : Noted(items[i], items'[i])
    BY <1>1, <1>3 DEF CreateStep, Noted
<1>4. CASE FileStep(c)
    BY <1>1, <1>4 DEF FileStep
<1> QED
    BY <1>1, <1>2, <1>3, <1>4
    DEF ShapedStep, QuietStep, BeginStep, UpdateStep, CreatedStep, LostStep, RefetchStep, AnswerOfStep

\* A tab that writes a new item has only made faulty ones.
LEMMA CreatorSettled ==
    ASSUME NEW c \in Tabs, FormInv(c), Sending(c), sending[c].stage = "write", sending[c].item = Create
    PROVE  tab[c].item = Create /\ Settled(c)
PROOF
    BY DEF FormInv, Creating

\* A tab files what it has made, or what was there before.
LEMMA FilerMade ==
    ASSUME NEW c \in Tabs, FormInv(c), FileStep(c)
    PROVE  items[sending[c].item].maker \in {c, "earlier"}
PROOF
    BY DEF FormInv, Creating, FileStep, Made, Create

\* Items that others make or file are not those of a form.
LEMMA OtherForms ==
    ASSUME IInv, NEW c \in Tabs, ShapedStep(c), FormInv(c), NEW d \in Tabs \ {c}, FormInv(d)
    PROVE  FormInv(d)'
PROOF
<1>1. /\ Len(items) \in Nat /\ Len(items') \in Nat /\ Len(items) <= Len(items')
      /\ \A i \in 1..Len(items) : Noted(items[i], items'[i])
      /\ Len(items') = Len(items) \/ \E faulty \in BOOLEAN : CreateStep(c, faulty)
    BY NotesStay
<1>2. tab'[d].item = tab[d].item /\ sending'[d] = sending[d] /\ kind' = kind
    BY DEF ShapedStep, OthersRest
<1>3. Made(d)' = Made(d)
    <2>1. ASSUME NEW i \in 1..Len(items'), i \notin 1..Len(items) PROVE items'[i].maker # d
        BY <1>1, <2>1 DEF CreateStep
    <2> QED
        BY <1>1, <2>1 DEF Made, Noted
<1>4. ASSUME NEW i \in Made(d), items[i].faulty PROVE items'[i].faulty
    BY <1>1, <1>4 DEF Made, Noted
<1>5. ASSUME NEW i \in Made(d), ~items[i].filed PROVE ~items'[i].filed
    <2>1. i \in 1..Len(items) /\ items[i].maker = d
        BY DEF Made
    <2>2. CASE FileStep(c)
        <3>1. i # sending[c].item
            BY <2>1, <2>2, FilerMade, TabAssumption
        <3> QED
            BY <1>5, <2>1, <2>2, <3>1 DEF FileStep
    <2>3. CASE SameNotes
        BY <1>5, <2>1, <2>3 DEF SameNotes
    <2>4. ASSUME NEW faulty, CreateStep(c, faulty) PROVE ~items'[i].filed
        BY <1>5, <2>1, <2>4 DEF CreateStep
    <2> QED
        BY <2>2, <2>3, <2>4
        DEF ShapedStep, QuietStep, BeginStep, UpdateStep, CreatedStep, LostStep, RefetchStep, AnswerOfStep
<1>6. CASE tab[d].item = Create /\ Settled(d)  /\ (Sending(d) => sending[d].item = Create)
    BY <1>2, <1>3, <1>4, <1>6 DEF FormInv, Settled, Sending
<1>7. CASE tab[d].item = Create /\ Creating(d)
    <2>1. Creating(d)'
        BY <1>2, <1>3, <1>4, <1>5, <1>7 DEF Creating, Sending
    <2> QED
        BY <1>2, <1>7, <2>1 DEF FormInv
<1>8. CASE tab[d].item # Create
    <2>1. tab[d].item \in 1..Len(items)
        BY <1>1, <1>8, Bounds DEF IInv, ContextOK, Contexts, Create
    <2>2. items'[tab[d].item].maker = items[tab[d].item].maker
        BY <1>1, <2>1 DEF Noted
    <2> QED
        BY <1>2, <1>8, <2>2 DEF FormInv, Sending
<1> QED
    BY <1>6, <1>7, <1>8 DEF FormInv

\* The form whose tab takes the step.
LEMMA OwnForm ==
    ASSUME IInv, NEW c \in Tabs, ShapedStep(c), FormInv(c)
    PROVE  FormInv(c)'
PROOF
<1>1. /\ Len(items) \in Nat /\ Len(items') \in Nat /\ Len(items) <= Len(items')
      /\ \A i \in 1..Len(items) : Noted(items[i], items'[i])
    BY NotesStay
<1>2. kind' = kind
    BY DEF ShapedStep, OthersRest
<1>3. tab[c].item # Create => tab[c].item \in 1..Len(items)
    BY <1>1, Bounds DEF IInv, ContextOK, Contexts, Create
<1>4. ASSUME SameNotes
      PROVE  /\ Made(c)' = Made(c) /\ (Settled(c) => Settled(c)')
             /\ \A i \in 1..Len(items) : /\ items'[i].maker = items[i].maker
                                         /\ items'[i].filed = items[i].filed
                                         /\ items'[i].faulty = items[i].faulty
    BY <1>4 DEF SameNotes, Made, Settled
<1>5. CASE QuietStep(c)
    <2>1. SameNotes /\ tab'[c].item = tab[c].item /\ sending'[c] = sending[c]
        BY <1>5 DEF QuietStep
    <2>2. Creating(c) => Creating(c)'
        BY <1>2, <1>4, <2>1 DEF Creating, Sending, Made
    <2> QED
        BY <1>3, <1>4, <2>1, <2>2 DEF FormInv, Sending
<1>6. CASE BeginStep(c)
    BY <1>3, <1>4, <1>6 DEF FormInv, Creating, BeginStep
<1>7. CASE UpdateStep(c)
    BY <1>3, <1>4, <1>7 DEF FormInv, Creating, UpdateStep
<1>8. CASE CreatedStep(c)
    <2>1. Settled(c) /\ tab[c].item = Create /\ CreateStep(c, FALSE)
        BY <1>8, CreatorSettled DEF CreatedStep, CreateStep
    <2>2. Made(c)' = Made(c) \cup {Len(items) + 1}
        BY <1>1, <2>1 DEF CreateStep, Made
    <2>3. \A i \in Made(c) : items'[i].faulty
        BY <2>1 DEF CreateStep, Settled, Made
    <2>4. Creating(c)'
        BY <1>1, <1>2, <1>8, <2>1, <2>2, <2>3 DEF Creating, CreatedStep, CreateStep, Create
    <2> QED
        BY <2>1, <2>4 DEF FormInv, CreateStep
<1>9. CASE LostStep(c)
    <2>1. Settled(c) /\ tab[c].item = Create /\ tab'[c].item = Create
        BY <1>9, CreatorSettled DEF LostStep, CreateStep
    <2>2. Settled(c)'
        <3>1. CASE SameNotes
            BY <1>4, <2>1, <3>1
        <3>2. CASE CreateStep(c, TRUE)
            BY <1>1, <2>1, <3>2 DEF CreateStep, Settled, Made
        <3> QED
            BY <1>9, <3>1, <3>2 DEF LostStep
    <2> QED
        BY <1>9, <2>1, <2>2 DEF FormInv, LostStep
<1>10. CASE FileStep(c)
    <2>1. /\ tab'[c].item = tab[c].item /\ Made(c)' = Made(c)
          /\ \A i \in Made(c) : items[i].faulty => items'[i].faulty
        BY <1>1, <1>10 DEF FileStep, Made, Noted
    <2>2. CASE tab[c].item = Create
        <3>1. Creating(c)
            BY <1>10, <2>2 DEF FormInv, FileStep, Create
        <3>2. CASE Sending(c)'
            <4>1. Creating(c)'
                BY <1>2, <1>10, <2>1, <3>1, <3>2 DEF Creating, FileStep
            <4> QED
                BY <2>1, <2>2, <4>1 DEF FormInv
        <3>3. CASE ~Sending(c)'
            <4>1. Settled(c)'
                BY <1>10, <2>1, <3>1, <3>3 DEF Creating, FileStep, Settled
            <4> QED
                BY <2>1, <2>2, <3>3, <4>1 DEF FormInv
        <3> QED
            BY <3>2, <3>3
    <2>3. CASE tab[c].item # Create
        BY <1>1, <1>3, <1>10, <2>1, <2>3 DEF FormInv, FileStep, Noted
    <2> QED
        BY <2>2, <2>3
<1>11. CASE RefetchStep(c)
    <2>1. SameNotes /\ tab'[c].item = tab[c].item /\ Sending(c)'
        BY <1>11 DEF RefetchStep
    <2>2. Creating(c) => Creating(c)'
        BY <1>2, <1>4, <1>11, <2>1 DEF Creating, RefetchStep, Made
    <2> QED
        BY <1>3, <1>4, <1>11, <2>1, <2>2 DEF FormInv, RefetchStep
<1>12. CASE AnswerOfStep(c)
    <2>1. SubmitOK(items, sending[c]) /\ sending[c].stage = "answer" /\ ~Sending(c)' /\ SameNotes
        BY <1>12 DEF AnswerOfStep, IInv, Sending
    <2>2. CASE sending[c].res = "failed"
        BY <1>3, <1>4, <1>12, <2>1, <2>2 DEF FormInv, Creating, AnswerOfStep
    <2>3. CASE sending[c].res # "failed"
        <3>1. sending[c].item # Create /\ tab'[c].item = sending[c].item
            BY <1>12, <2>1, <2>3 DEF SubmitOK, AnswerOfStep
        <3>2. sending[c].item \in 1..Len(items) /\ items[sending[c].item].maker \in {c, "earlier"}
            BY <1>3, <1>12, <3>1 DEF FormInv, Creating, Made, AnswerOfStep
        <3> QED
            BY <1>4, <2>1, <3>1, <3>2 DEF FormInv
    <2> QED
        BY <2>2, <2>3
<1> QED
    BY <1>5, <1>6, <1>7, <1>8, <1>9, <1>10, <1>11, <1>12 DEF ShapedStep

\* Initially nobody has made anything.
LEMMA MakerInit == Init => MakerInv
PROOF
<1> SUFFICES ASSUME Init PROVE MakerInv
    OBVIOUS
<1>1. Len(items) = 1 /\ items[1].maker = "earlier"
    BY DEF Init
<1>2. \A c \in Tabs : tab[c].item \in {Create, 1} /\ ~Sending(c)
    <2> DEFINE start == [item |-> 0, updateId |-> 0, node |-> NoJob, job |-> NoJob,
                         late |-> NoJob, form |-> NoForm, stale |-> FALSE, config |-> 1]
    <2>1. PICK create \in SUBSET Tabs :
             tab = [c \in Tabs |-> Mounted(start, IF c \in create THEN Create ELSE 1)]
        BY DEF Init
    <2>2. \A i : Mounted(start, i).item = i
        BY DEF Mounted
    <2> HIDE DEF start
    <2>3. sending = [c \in Tabs |-> NotSending]
        BY DEF Init
    <2> QED
        BY <2>1, <2>2, <2>3 DEF Sending
<1>3. \A c \in Tabs : Settled(c)
    BY <1>1, TabAssumption DEF Settled, Made
<1> QED
    BY <1>1, <1>2, <1>3 DEF MakerInv, OneItemPerForm, FormInv, Create

\* Every step keeps what the forms have made.
LEMMA MakerStep ==
    ASSUME IInv, MakerInv, [Next]_vars
    PROVE  MakerInv'
PROOF
<1>1. CASE UNCHANGED vars
    BY <1>1 DEF vars, MakerInv, OneItemPerForm, FormInv, Settled, Creating, Made, Sending
<1>2. CASE Next
    <2>1. PICK c \in Tabs : ShapedStep(c)
        BY <1>2, StepShape
    <2>2. /\ Len(items) \in Nat /\ Len(items') \in Nat /\ Len(items) <= Len(items')
          /\ \A i \in 1..Len(items) : Noted(items[i], items'[i])
          /\ Len(items') = Len(items) \/ \E faulty \in BOOLEAN : CreateStep(c, faulty)
        BY <2>1, NotesStay
    <2>3. ASSUME NEW i \in 1..Len(items'), i \notin 1..Len(items)
          PROVE  i = Len(items) + 1 /\ items'[i].maker = c /\ Settled(c)
        <3>1. PICK faulty \in BOOLEAN : CreateStep(c, faulty)
            BY <2>2, <2>3
        <3>2. Settled(c)
            BY <3>1, CreatorSettled DEF CreateStep, MakerInv
        <3> QED
            BY <2>2, <2>3, <3>1, <3>2 DEF CreateStep
    <2>4. \A i \in 1..Len(items') : items'[i].maker = "earlier" => i = 1
        BY <2>2, <2>3, TabAssumption DEF MakerInv, Noted
    <2>5. OneItemPerForm'
        <3> SUFFICES ASSUME NEW i \in 1..Len(items'), NEW j \in 1..Len(items'), i < j,
                            items'[i].maker = items'[j].maker
                     PROVE  items'[i].faulty
            BY DEF OneItemPerForm
        <3>1. i \in 1..Len(items)
            BY <2>2, <2>3
        <3>2. CASE j \in 1..Len(items)
            BY <2>2, <3>1, <3>2 DEF MakerInv, OneItemPerForm, Noted
        <3>3. CASE j \notin 1..Len(items)
            BY <2>2, <2>3, <3>1, <3>3 DEF Settled, Made, Noted
        <3> QED
            BY <3>2, <3>3
    <2>6. ASSUME NEW d \in Tabs PROVE FormInv(d)'
        BY <2>1, OwnForm, OtherForms DEF MakerInv
    <2> QED
        BY <2>4, <2>5, <2>6 DEF MakerInv
<1> QED
    BY <1>1, <1>2

\* For any tabs, however often a submit is repeated: a form creates one item,
\* unless an answer was lost or a config update failed.
THEOREM OneItemForAForm == Spec => []OneItemPerForm
PROOF
<1>1. MakerInv => OneItemPerForm
    BY DEF MakerInv
<1> QED
    BY <1>1, MakerInit, MakerStep, Invariance, PTL DEF Spec

\* The first item is filed.
LEMMA FiledInit == Init => FiledInv
PROOF
<1> SUFFICES ASSUME Init PROVE FiledInv
    OBVIOUS
<1>1. Len(items) = 1 /\ items[1].filed
    BY DEF Init
<1>2. \A c \in Tabs : ~Sending(c)
    BY DEF Init, Sending
<1> QED
    BY <1>1, <1>2 DEF FiledInv, CreatedIsFiled, Refetching

\* Every step keeps what is filed, or will be.
LEMMA FiledStep ==
    ASSUME IInv, FiledInv, [Next]_vars
    PROVE  FiledInv'
PROOF
<1>1. CASE UNCHANGED vars
    BY <1>1 DEF vars, FiledInv, CreatedIsFiled, Refetching, Sending
<1>2. CASE Next
    <2>1. PICK c \in Tabs : ShapedStep(c)
        BY <1>2, StepShape
    <2>2. /\ Len(items) \in Nat /\ Len(items') \in Nat /\ Len(items) <= Len(items')
          /\ \A i \in 1..Len(items) : Noted(items[i], items'[i])
          /\ Len(items') = Len(items) \/ \E faulty \in BOOLEAN : CreateStep(c, faulty)
        BY <2>1, NotesStay
    <2>3. ASSUME NEW d \in Tabs, Sending(d), sending[d].stage = "refetch", sending[d].res = "ok"
          PROVE  sending[d].item \in 1..Len(items)
        BY <2>2, <2>3, Bounds DEF IInv, Sending, SubmitOK, Submits, Create
    <2>4. kind' = kind /\ \A d \in Tabs \ {c} : sending'[d] = sending[d]
        BY <2>1 DEF ShapedStep, OthersRest
    <2>5. ASSUME NEW d \in Tabs \ {c} PROVE Refetching(d)'
        BY <2>2, <2>3, <2>4 DEF FiledInv, Refetching, Sending, Noted
    <2>6. Refetching(c)'
        <3>1. CASE QuietStep(c)
            BY <2>2, <2>3, <2>4, <3>1 DEF QuietStep, FiledInv, Refetching, Sending, Noted
        <3>2. CASE FileStep(c)
            BY <3>2 DEF FileStep, Refetching
        <3> QED
            BY <2>1, <2>4, <3>1, <3>2
            DEF ShapedStep, BeginStep, UpdateStep, CreatedStep, LostStep, RefetchStep, AnswerOfStep,
                Refetching
    <2>7. ASSUME NEW i \in 1..Len(items), ~items'[i].filed, ~items'[i].faulty
          PROVE  \E d \in Tabs : sending'[d].stage \in {"config", "refetch"} /\ sending'[d].item = i
                                 /\ sending'[d].res = "ok"
        <3>1. ~items[i].filed /\ ~items[i].faulty
            BY <2>2, <2>7 DEF Noted
        <3>2. PICK d \in Tabs : sending[d].stage \in {"config", "refetch"} /\ sending[d].item = i
                                /\ sending[d].res = "ok"
            BY <3>1 DEF FiledInv, CreatedIsFiled
        <3>3. CASE d # c
            BY <2>4, <3>2, <3>3
        <3>4. CASE d = c
            <4>1. Sending(c)
                BY <3>2, <3>4 DEF Sending, NotSending
            <4>2. CASE RefetchStep(c)
                BY <3>1, <3>2, <3>4, <4>1, <4>2 DEF RefetchStep, FiledInv, Refetching
            <4>3. CASE FileStep(c)
                BY <2>7, <3>2, <3>4, <4>3 DEF FileStep
            <4>4. CASE QuietStep(c)
                BY <3>2, <3>4, <4>4 DEF QuietStep
            <4> QED
                BY <2>1, <3>2, <3>4, <4>1, <4>2, <4>3, <4>4
                DEF ShapedStep, BeginStep, UpdateStep, CreatedStep, LostStep, CreateStep, AnswerOfStep
        <3> QED
            BY <3>3, <3>4
    <2>8. ASSUME NEW i \in 1..Len(items'), i \notin 1..Len(items), ~items'[i].faulty
          PROVE  sending'[c].stage \in {"config", "refetch"} /\ sending'[c].item = i /\ sending'[c].res = "ok"
        <3>1. i = Len(items) + 1 /\ Len(items') # Len(items)
            BY <2>2, <2>8 DEF CreateStep
        <3>2. CreatedStep(c)
            BY <2>1, <2>8, <3>1
            DEF ShapedStep, QuietStep, BeginStep, UpdateStep, LostStep, FileStep, RefetchStep,
                AnswerOfStep, SameNotes, CreateStep
        <3> QED
            BY <3>1, <3>2 DEF CreatedStep
    <2>9. CreatedIsFiled'
        BY <2>7, <2>8 DEF CreatedIsFiled
    <2> QED
        BY <2>5, <2>6, <2>9 DEF FiledInv
<1> QED
    BY <1>1, <1>2

\* For any tabs: the config names the tokens of every item that was created, or
\* a submit that will file them is under way, or the item is known to be faulty.
THEOREM CreatedItemsAreFiled == Spec => []CreatedIsFiled
PROOF
<1>1. FiledInv => CreatedIsFiled
    BY DEF FiledInv
<1> QED
    BY <1>1, FiledInit, FiledStep, Invariance, PTL DEF Spec
=============================================================================
