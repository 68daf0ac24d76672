------------------------------- MODULE Editors -------------------------------
(***************************************************************************)
(* The editors of the client.  An editor loads an item (the node with its  *)
(* update id, then the value), shows it as a form, and writes the form     *)
(* back under an update id; then it files the tokens of the item in the    *)
(* config, refetches, and moves the main context to the answered update    *)
(* id, which makes the editor load the item again and replace the form.    *)
(* Tabs edit the same items at the same time, writes and answers get lost, *)
(* and config updates fail.                                                *)
(***************************************************************************)
EXTENDS Naturals, Sequences, SequencesExt, FiniteSets

CONSTANTS Tabs,        \* browser tabs, of one user or of several
          Kinds,       \* the editors under check
          MaxEdits,    \* bound: changes of forms
          MaxVersion,  \* bound: writes of one item
          MaxItems     \* bound: items

AllKinds == {"custom", "Workday", "file", "Profile", "config", "cluster", "ChannelStore"}

ASSUME KindAssumption == Kinds \subseteq AllKinds
ASSUME TabAssumption == "earlier" \notin Tabs
ASSUME BoundAssumption == MaxEdits \in Nat /\ MaxVersion \in Nat \ {0} /\ MaxItems \in Nat \ {0}

VARIABLES kind,    \* the editor
          public,  \* the item is public, and not encrypted
          items,   \* the items of the server, a sequence
          edits,   \* changes so far; the change number n writes n
          tab,     \* per tab the main context and the editor
          sending  \* per tab the submit under way, or NotSending

vars == <<kind, public, items, edits, tab, sending>>

\* body: what an editor reads and saves.  extra: the part that some editors
\* only save (the keywords of a file) or only read (the nationality of a
\* profile).  times: the entries of a workday.
Fields == {"body", "extra"}
Nothing == 0
Entries == {"blank", "open", "full"}
MaxTimes == 3
Values == [body : 0..MaxEdits + 1, extra : 0..MaxEdits + 1, times : Seq(Entries)]
Blank == [body |-> Nothing, extra |-> Nothing, times |-> <<>>]

NoForm == [loaded |-> FALSE]
NoJob == [job |-> FALSE]
NotSending == [stage |-> "none"]
Create == 0   \* the item of a context that creates, and the id of its form

-----------------------------------------------------------------------------
(* What the editors show and what they save *)

\* A mistake the checks must find.
PaddedNever(times) == times

\* A blank entry follows the last one as soon as that has a start and a stop.
Padded(times) ==
    IF times = <<>> \/ Last(times) = "full" THEN Append(times, "blank") ELSE times

\* A mistake the checks must find.
ShownCustomText(v) == [v EXCEPT !.extra = Nothing]

ShownCustom(v) == v
SavedCustom(w) == w

ShownWorkday(v) == [v EXCEPT !.times = Padded(@)]
SavedWorkday(w) == [w EXCEPT !.times = IF @ = <<>> THEN @ ELSE Front(@)]

\* The query asks for the name and the mime type; the tag of a keyword is
\* written as keyword= and looked for as keywords=.
ShownFile(v) == [v EXCEPT !.extra = Nothing]
SavedFile(w) == w

ShownProfile(v) == v
SavedProfile(w) == [w EXCEPT !.extra = Nothing]

\* The config editor merges its changes into the document it has loaded.
ShownConfig(v) == v
SavedConfig(w) == w

ShownCluster(v) == v
SavedCluster(w) == w

ShownChannelStore(v) == v

Shown(v) == CASE kind = "custom" -> ShownCustom(v) [] kind = "Workday" -> ShownWorkday(v)
              [] kind = "file" -> ShownFile(v) [] kind = "Profile" -> ShownProfile(v)
              [] kind = "config" -> ShownConfig(v) [] kind = "cluster" -> ShownCluster(v)
              [] OTHER -> ShownChannelStore(v)

Saved(w) == CASE kind = "custom" -> SavedCustom(w) [] kind = "Workday" -> SavedWorkday(w)
              [] kind = "file" -> SavedFile(w) [] kind = "Profile" -> SavedProfile(w)
              [] kind = "config" -> SavedConfig(w) [] OTHER -> SavedCluster(w)

\* The first form of an item to be created; a workday begins with one entry.
NewForm ==
    [id |-> Create, base |-> Blank,
     values |-> IF kind = "Workday" THEN [Blank EXCEPT !.times = Padded(<<"full">>)] ELSE Blank]

-----------------------------------------------------------------------------
Ids == 1..MaxVersion
Items == [id : Ids, value : Values, filed : BOOLEAN, faulty : BOOLEAN,
          maker : Tabs \cup {"earlier"}, by : Tabs \cup {"earlier"}]

\* A node with its value; a form; a main context with its editor; a submit.
Nodes == [id : Ids, value : Values]
Forms == [id : {Create} \cup Ids, base : Values, values : Values]
Contexts == [item : 0..MaxItems, updateId : 0..MaxVersion, node : Nodes \cup {NoJob},
             job : Nodes \cup {NoJob}, late : Nodes \cup {NoJob}, form : Forms \cup {NoForm},
             stale : BOOLEAN, config : 0..MaxEdits + 1]
Submits == [stage : {"write", "config", "refetch", "answer"}, item : 0..MaxItems, base : Values,
            values : Values, id : 0..MaxVersion, res : {"none", "ok", "refused", "failed"},
            answer : 0..MaxVersion]

TypeOK ==
    /\ kind \in Kinds /\ public \in BOOLEAN /\ edits \in 0..MaxEdits
    /\ items \in Seq(Items) /\ Len(items) <= MaxItems
    /\ tab \in [Tabs -> Contexts]
    /\ sending \in [Tabs -> Submits \cup {NotSending}]
    /\ \A c \in Tabs :
          /\ tab[c].item <= Len(items)
          /\ tab[c].form # NoForm => (tab[c].form.id = Create <=> tab[c].item = Create)

\* A tab before its editor has loaded anything.
Mounted(t, i) == [t EXCEPT !.item = i, !.node = NoJob, !.job = NoJob, !.late = NoJob,
                           !.form = IF i = Create THEN NewForm ELSE NoForm, !.stale = i # Create]

\* One item that everyone may update; every tab edits it or creates another.
Init ==
    /\ kind \in Kinds
    /\ public \in IF kind \in {"custom", "file"} THEN BOOLEAN ELSE {FALSE}
    /\ items = <<[id |-> 1, filed |-> TRUE, faulty |-> FALSE, maker |-> "earlier", by |-> "earlier",
                  value |-> [body |-> 1, extra |-> 1,
                             times |-> IF kind = "Workday" THEN <<"full", "open">> ELSE <<>>]]>>
    /\ edits = 0
    /\ \E create \in IF kind \in {"config", "ChannelStore"} THEN {{}} ELSE SUBSET Tabs :
          tab = [c \in Tabs |->
                    Mounted([item |-> 0, updateId |-> 0, node |-> NoJob, job |-> NoJob,
                             late |-> NoJob, form |-> NoForm, stale |-> FALSE, config |-> 1],
                            IF c \in create THEN Create ELSE 1)]
    /\ sending = [c \in Tabs |-> NotSending]

Idle(c) == sending[c] = NotSending
Item(c) == items[tab[c].item]

-----------------------------------------------------------------------------
(* Loading *)

\* What the link of the node serves now, the tags coming with the node; the
\* value of an item that is not public can only be decrypted with the key of
\* its own version.  A cluster is read from the node alone.
Decryptable(c, j) == kind = "cluster" \/ public \/ j.id = Item(c).id
Fetched(c, j) == CASE kind = "cluster" -> j.value
                   [] kind \in {"custom", "file"} -> [Item(c).value EXCEPT !.extra = j.value.extra]
                   [] OTHER -> Item(c).value

\* The effect starts again and deactivates its former run.  The file editor
\* does not look whether it is active once the value is decrypted (one such
\* run is kept, and none that would show the same).
Start(c, t, node) ==
    IF kind = "file" /\ t.job \notin {NoJob, node} /\ t.late = NoJob /\ Decryptable(c, t.job)
    THEN {[t EXCEPT !.job = node], [t EXCEPT !.job = node, !.late = [t.job EXCEPT !.value = Fetched(c, t.job)]]}
    ELSE {[t EXCEPT !.job = node]}

\* The answer of the query.  A result that equals the last one is the same
\* object, and no effect runs.
Deliver(c, t) ==
    LET node == [id |-> Item(c).id, value |-> Item(c).value]
        u == [t EXCEPT !.node = node, !.stale = FALSE]
    IN IF t.node = node THEN {u} ELSE Start(c, u, node)

\* A refetch: the context has a new update id, or another cluster was chosen.
Fetch(c) ==
    /\ tab[c].item # Create /\ (tab[c].stale \/ (tab[c].form # NoForm /\ Idle(c)))
    /\ \E t \in Deliver(c, tab[c]) : tab' = [tab EXCEPT ![c] = t]
    /\ UNCHANGED <<kind, public, items, edits, sending>>

\* The effect of some editors depends on the config as well, and starts again
\* when a submit has changed it.
ConfigChanged(c, t) == IF t.node = NoJob THEN {t} ELSE {t} \cup Start(c, t, t.node)

\* The form is replaced, whatever the user had typed.  Some editors also set
\* the update id of the context to that of the node.
Show(c, setsContext) ==
    LET j == tab[c].job
        v == Fetched(c, j)
    IN /\ j # NoJob /\ Decryptable(c, j)
       /\ tab' = [tab EXCEPT ![c].job = NoJob,
                    ![c].form = [id |-> j.id, base |-> v, values |-> Shown(v)],
                    ![c].stale = @ \/ (setsContext /\ tab[c].updateId # j.id),
                    ![c].updateId = IF setsContext THEN j.id ELSE @]
       /\ UNCHANGED <<kind, public, items, edits, sending>>

\* KeyMissmatchError, which nobody catches: the form stays as it is.
ShowFails(c) ==
    /\ tab[c].job # NoJob /\ ~ Decryptable(c, tab[c].job)
    /\ tab' = [tab EXCEPT ![c].job = NoJob]
    /\ UNCHANGED <<kind, public, items, edits, sending>>

ShowCustom(c) == kind = "custom" /\ Show(c, FALSE)
ShowWorkday(c) == kind = "Workday" /\ Show(c, FALSE)
ShowProfile(c) == kind = "Profile" /\ Show(c, FALSE)
ShowFile(c) == kind = "file" /\ Show(c, TRUE)
ShowConfig(c) == kind = "config" /\ Show(c, TRUE)
ShowCluster(c) == kind = "cluster" /\ Show(c, TRUE)
ShowChannelStore(c) == kind = "ChannelStore" /\ Show(c, TRUE)

\* A run that was superseded after its value was decrypted replaces the form
\* and the update id all the same.
ShowLate(c) ==
    LET j == tab[c].late
    IN /\ j # NoJob
       /\ tab' = [tab EXCEPT ![c].late = NoJob,
                    ![c].form = [id |-> j.id, base |-> j.value, values |-> Shown(j.value)],
                    ![c].stale = @ \/ tab[c].updateId # j.id, ![c].updateId = j.id]
       /\ UNCHANGED <<kind, public, items, edits, sending>>

-----------------------------------------------------------------------------
(* The forms *)

HasForm(c) == tab[c].form # NoForm
Changed(c) == tab[c].form.values # IF tab[c].form.id = Create THEN NewForm.values ELSE Shown(tab[c].form.base)

Put(c, values) ==
    /\ HasForm(c) /\ Idle(c) /\ edits < MaxEdits
    /\ tab' = [tab EXCEPT ![c].form.values = values]
    /\ edits' = edits + 1
    /\ UNCHANGED <<kind, public, items, sending>>

Edit(c, f) == HasForm(c) /\ Put(c, [tab[c].form.values EXCEPT ![f] = edits + 2])

\* The text and the tags.
EditCustomText(c) == kind = "custom" /\ Edit(c, "body")
EditCustomTags(c) == kind = "custom" /\ Edit(c, "extra")
\* The name and the state; the input, of which there is one at a time: a text,
\* a website (of a new file) or an upload, which can be cleared; the keywords.
EditFileName(c) == kind = "file" /\ HasForm(c) /\ tab[c].form.values.body # Nothing /\ Edit(c, "body")
EditFileText(c) == kind = "file" /\ Edit(c, "body")
EditFileWebsite(c) == kind = "file" /\ tab[c].item = Create /\ Edit(c, "body")
UploadFile(c) == kind = "file" /\ Edit(c, "body")
ClearFile(c) == kind = "file" /\ HasForm(c) /\ Put(c, [tab[c].form.values EXCEPT !.body = Nothing])
EditFileKeywords(c) == kind = "file" /\ Edit(c, "extra")
EditProfile(c) == kind = "Profile" /\ \E f \in Fields : Edit(c, f)
\* The slots and the cluster; the lock and the security question.
EditConfigSlots(c) == kind = "config" /\ Edit(c, "body")
EditConfigLock(c) == kind = "config" /\ Edit(c, "extra")
\* The name and the description; the groups, featured and primary.
EditClusterName(c) == kind = "cluster" /\ Edit(c, "body")
EditClusterGroups(c) == kind = "cluster" /\ Edit(c, "extra")
EditWorkday(c) == kind = "Workday" /\ Edit(c, "body")

\* An entry gets or loses its start or stop.
EditTime(c, n, entry) ==
    LET times == tab[c].form.values.times
    IN /\ kind = "Workday" /\ HasForm(c) /\ n \in 1..Len(times) /\ entry # times[n]
       /\ Len(times) < MaxTimes
       /\ Put(c, [tab[c].form.values EXCEPT !.times = Padded([times EXCEPT ![n] = entry])])

\* The values of the form are on their way, and the form is locked.  The
\* contents use the update id the form was loaded with, the cluster editor
\* that of the context.
Submit(c, usesContext) ==
    LET f == tab[c].form
    IN /\ HasForm(c) /\ Idle(c) /\ Changed(c)
       /\ sending' = [sending EXCEPT ![c] =
             [stage |-> "write", item |-> tab[c].item, base |-> f.base, values |-> f.values,
              id |-> IF usesContext /\ tab[c].item # Create THEN tab[c].updateId ELSE f.id,
              res |-> "none", answer |-> 0]]
       /\ UNCHANGED <<kind, public, items, edits, tab>>

\* A mistake the checks must find.
SubmitCustomOfContext(c) == kind = "custom" /\ Submit(c, TRUE)

SubmitCustom(c) == kind = "custom" /\ Submit(c, FALSE)
SubmitWorkday(c) == kind = "Workday" /\ Submit(c, FALSE)
\* Without an input the submit of a file throws.
SubmitFile(c) ==
    kind = "file" /\ HasForm(c) /\ tab[c].form.values.body # Nothing /\ Submit(c, FALSE)
SubmitProfile(c) == kind = "Profile" /\ Submit(c, FALSE)
SubmitConfig(c) == kind = "config" /\ Submit(c, FALSE)
SubmitCluster(c) == kind = "cluster" /\ Submit(c, TRUE)

-----------------------------------------------------------------------------
(* A submit: the write, the config, the refetch, the answer *)

\* A mistake the checks must find.
StageAfterUnfiled(stage, res) == IF stage = "write" THEN "refetch" ELSE "answer"

\* The clusters are refetched before the config is updated, the others after
\* it.  No config update follows a refused write of a content.
StageAfter(stage, res) ==
    CASE stage = "write" -> IF kind = "cluster" \/ res # "ok" THEN "refetch" ELSE "config"
      [] stage = "config" -> IF kind = "cluster" THEN "answer" ELSE "refetch"
      [] OTHER -> IF kind = "cluster" THEN "config" ELSE "answer"

\* The bounds: writes of an item, and items.
WithinBounds(m) ==
    IF m.item = Create THEN Len(items) < MaxItems ELSE items[m.item].id < MaxVersion

\* The items after the server has accepted the write of a tab.
Applied(c, m, faulty) ==
    IF m.item = Create
    THEN Append(items, [id |-> 1, value |-> Saved(m.values), filed |-> FALSE,
                        faulty |-> faulty, maker |-> c, by |-> c])
    ELSE [items EXCEPT ![m.item].id = @ + 1, ![m.item].value = Saved(m.values), ![m.item].by = c]

Accepted(m) == m.item # Create => m.id = items[m.item].id

\* The server writes the item, or refuses since the id is not the item's; the
\* answer names the item and its id of now.
Write(c) ==
    LET m == sending[c]
        i == IF m.item = Create THEN Len(items) + 1 ELSE m.item
        res == IF Accepted(m) THEN "ok" ELSE "refused"
    IN /\ m.stage = "write"
       /\ Accepted(m) => WithinBounds(m)
       /\ items' = IF Accepted(m) THEN Applied(c, m, FALSE) ELSE items
       /\ sending' = [sending EXCEPT ![c].stage = StageAfter("write", res), ![c].res = res,
                                     ![c].item = i, ![c].answer = items'[i].id]
       /\ UNCHANGED <<kind, public, edits, tab>>

\* The request or its answer is lost.  The contents catch the exception, and
\* refetch; the cluster editor does not.
WriteFails(c) ==
    LET m == sending[c]
    IN /\ m.stage = "write"
       /\ \/ UNCHANGED items
          \/ Accepted(m) /\ WithinBounds(m) /\ items' = Applied(c, m, TRUE)
       /\ sending' = [sending EXCEPT ![c] = IF kind = "cluster" THEN NotSending
                                            ELSE [m EXCEPT !.stage = "refetch", !.res = "failed"]]
       /\ UNCHANGED <<kind, public, edits, tab>>

\* updateConfigRemoteReducer stores the tokens of the actions.
FileTokens(c) ==
    LET m == sending[c]
    IN /\ m.stage = "config"
       /\ items' = [items EXCEPT ![m.item].filed = TRUE]
       /\ sending' = [sending EXCEPT ![c].stage = StageAfter("config", m.res)]
       /\ UNCHANGED <<kind, public, edits, tab>>

\* The config update fails: a content is answered with configok = false, which
\* no editor looks at; the cluster editor gives up, as if nothing were written.
FileFails(c) ==
    LET m == sending[c]
    IN /\ m.stage = "config"
       /\ items' = [items EXCEPT ![m.item].faulty = @ \/ ~ items[m.item].filed]
       /\ sending' = [sending EXCEPT ![c] = IF kind = "cluster" THEN NotSending
                                            ELSE [m EXCEPT !.stage = StageAfter("config", m.res)]]
       /\ UNCHANGED <<kind, public, edits, tab>>

\* refetchQueries, which leaves out the query of the node after a workday or a
\* profile.
Refetch(c) ==
    LET m == sending[c]
    IN /\ m.stage = "refetch"
       /\ IF tab[c].item = Create \/ kind \in {"Workday", "Profile"} THEN UNCHANGED tab
          ELSE \E t \in Deliver(c, tab[c]) : tab' = [tab EXCEPT ![c] = t]
       /\ sending' = [sending EXCEPT ![c].stage = StageAfter("refetch", m.res)]
       /\ UNCHANGED <<kind, public, items, edits>>

\* A mistake the checks must find.
MovedMounted(t, m) == [t EXCEPT !.item = m.item, !.updateId = m.answer, !.stale = TRUE]

\* The context moves to the item and the id of the answer, whether the write
\* was accepted or refused; a form that created is unmounted.
Moved(t, m) ==
    LET u == [t EXCEPT !.updateId = m.answer, !.stale = @ \/ t.updateId # m.answer]
    IN IF t.item = m.item THEN u ELSE Mounted(u, m.item)

\* A mistake the checks must find.
AnsweredStaying(t, m) == [t EXCEPT !.updateId = m.answer, !.stale = t.item # Create]

Answered(t, m) == IF m.res = "failed" THEN t ELSE Moved(t, m)

Answer(c, t) ==
    /\ sending[c].stage = "answer"
    /\ tab' = [tab EXCEPT ![c] = t] /\ sending' = [sending EXCEPT ![c] = NotSending]
    /\ UNCHANGED <<kind, public, items, edits>>

AnswerCustom(c) == kind = "custom" /\ Answer(c, Answered(tab[c], sending[c]))
AnswerWorkday(c) == kind = "Workday" /\ Answer(c, Answered(tab[c], sending[c]))
AnswerFile(c) ==
    /\ kind = "file" /\ sending[c].stage = "answer"
    /\ \E t \in ConfigChanged(c, Answered(tab[c], sending[c])) : Answer(c, t)
AnswerProfile(c) == kind = "Profile" /\ Answer(c, Answered(tab[c], sending[c]))
AnswerCluster(c) ==
    /\ kind = "cluster" /\ sending[c].stage = "answer"
    /\ \E t \in ConfigChanged(c, Answered(tab[c], sending[c])) : Answer(c, t)

\* The config of the client is replaced by the merged document.
AnswerConfig(c) ==
    /\ kind = "config"
    /\ LET m == sending[c]
           t == Answered(tab[c], m)
       IN Answer(c, IF m.stage = "answer" /\ m.res # "failed"
                    THEN [t EXCEPT !.config = m.values.body] ELSE t)

-----------------------------------------------------------------------------
Load(c) ==
    \/ Fetch(c) \/ ShowFails(c) \/ ShowLate(c)
    \/ ShowCustom(c) \/ ShowWorkday(c) \/ ShowProfile(c) \/ ShowFile(c)
    \/ ShowConfig(c) \/ ShowCluster(c) \/ ShowChannelStore(c)

Change(c) ==
    \/ EditCustomText(c) \/ EditCustomTags(c) \/ EditFileName(c) \/ EditFileText(c) \/ EditFileWebsite(c)
    \/ UploadFile(c) \/ ClearFile(c) \/ EditFileKeywords(c)
    \/ EditProfile(c) \/ EditConfigSlots(c) \/ EditConfigLock(c)
    \/ EditClusterName(c) \/ EditClusterGroups(c) \/ EditWorkday(c)
    \/ \E n \in 1..MaxTimes, entry \in {"open", "full"} : EditTime(c, n, entry)

Send(c) ==
    \/ SubmitCustom(c) \/ SubmitWorkday(c) \/ SubmitFile(c)
    \/ SubmitProfile(c) \/ SubmitConfig(c) \/ SubmitCluster(c)
    \/ Write(c) \/ WriteFails(c) \/ FileTokens(c) \/ FileFails(c) \/ Refetch(c)

Receive(c) ==
    \/ AnswerCustom(c) \/ AnswerWorkday(c) \/ AnswerFile(c)
    \/ AnswerProfile(c) \/ AnswerConfig(c) \/ AnswerCluster(c)

Next == \E c \in Tabs : Load(c) \/ Change(c) \/ Send(c) \/ Receive(c)

Spec == Init /\ [][Next]_vars

-----------------------------------------------------------------------------
\* What a write does to the item it names.
WriteTo(c, i) == sending[c].stage = "write" /\ sending[c].item = i /\ sending'[c] # sending[c]

\* No update of another is lost: a value another tab has written is only changed
\* from a form that was loaded from it, however late queries and answers come.
NoLostWrite ==
    [][\A i \in 1..Len(items) : items'[i].value # items[i].value
        => \E c \in Tabs : /\ WriteTo(c, i)
                           /\ items[i].by = c \/ sending[c].base = items[i].value]_vars

\* No write of a content is accepted for a form that was not loaded from the
\* value it replaces; the cluster editor is left out, for it sends an id its
\* form was not loaded with.
NoLostContentWrite ==
    [][\A i \in 1..Len(items) : items'[i].id # items[i].id /\ kind # "cluster"
        => \E c \in Tabs : WriteTo(c, i) /\ sending[c].base = items[i].value]_vars

\* What a form both reads and saves, and its user did not touch, stays.
Kept == IF kind \in {"file", "Profile"} THEN {"body"} ELSE Fields

UntouchedStay ==
    [][\A i \in 1..Len(items), f \in Kept :
        items'[i].value[f] # items[i].value[f] /\ kind # "cluster"
        => \E c \in Tabs : WriteTo(c, i) /\ sending[c].values[f] # Shown(sending[c].base)[f]]_vars

\* Every entry of a workday that has a start and a stop is saved, although a
\* save drops the last row of the form.
FullEntries(times) == Cardinality({n \in 1..Len(times) : times[n] = "full"})

FullEntriesAreSaved ==
    [][\A i \in 1..Len(items') : i > Len(items) \/ items'[i].id # items[i].id
        => \E c \in Tabs : /\ sending[c].stage = "write"
                           /\ sending'[c] # sending[c]
                           /\ FullEntries(items'[i].value.times) = FullEntries(sending[c].values.times)]_vars

\* A form creates one item, unless an answer was lost on the way or the config
\* could not be written.
OneItemPerForm ==
    \A i, j \in 1..Len(items) : i < j /\ items[i].maker = items[j].maker => items[i].faulty

\* The config names the tokens of an item that was created, or a submit that
\* will file them is under way, or the item is known to be faulty.
CreatedIsFiled ==
    \A i \in 1..Len(items) :
        items[i].filed \/ items[i].faulty
        \/ \E c \in Tabs : sending[c].stage \in {"config", "refetch"} /\ sending[c].item = i
                          /\ sending[c].res = "ok"
=============================================================================
