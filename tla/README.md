# Secretgraph in TLA+

Secretgraph stores encrypted contents on a server and lets clients work on them
with tokens and keys they keep in a *config*, which is itself such a content.
This directory holds a formal model of the parts of it that are hard to test: what
happens when several clients, requests, sweeps and failures meet.

TLC checks the modules on small instances (the `MC_*.cfg` files), and TLAPS proves
the theorems in the `*_proofs` modules for every instance. All modules are
written in TLA+ by hand, from the code; the comments name the code, and
`PROJECT.json` maps each definition to its lines.

## The system

### Server (`src/secretgraph`, Django, strawberry-graphql)

| component | state | operations |
|---|---|---|
| contents (`actions/update/_contents.py`, `schema/mutations/update.py`) | the row (`updateId`, `markForDestruction`, net, cluster, state), its file, its tags and references | create, update with the update id the client read, create a pair of keys |
| nets and quota (`models.py`) | `bytes_in_use`, `quota` | differences added by every write and deletion; recalculation |
| clusters, groups (`_clusters.py`, `_groups.py`) | name, description, update id, groups, net | create, update with an update id |
| retention (`signals.py`, `schema/mutations/deletion.py`, `sg_delete`, `sg_sweep`) | marks for destruction on contents and clusters | mark, sweep, cascade along references, reset |
| references and tags (`_metadata.py`) | source, target, group, `deleteRecursive` | replaced with the content |
| actions and access (`utils/auth.py`, `actions/handler/*`, `_actions.py`) | stored actions on clusters and contents, when they were used | which objects a set of tokens reaches; side effects of an action |
| transfer and pull (`_transfer.py`, `schema/mutations/transfer.py`) | the lock of a content, the file while it is written | fetch from another server, verify, store or delete |
| views (`views.py`, `actions/fetch.py`, `utils/mark.py`) | freeze and immutable tags, used actions | serving values and documents, freezing, rollback after an exception |
| subscriptions, admin, commands, proxy, messaging | none of their own | relays, tools of operators |

### Client (`src/js-packages`)

| component | state | operations |
|---|---|---|
| config merge (`utils/config.ts`, `utils/misc.ts`) | none (pure) | `updateConfig`: merge an update, count the changes |
| config synchronisation (`operations/config.ts`) | the configs in the slots, the cache of the browser | update all slots, three attempts each |
| content, cluster, key operations (`operations/*.ts`, `references.ts`, `encryption.ts`, `crypto.ts`) | none of their own | register; ask for trusted keys, encrypt, seal the shared key for each, sign, send one mutation; fetch and decrypt |
| access control form (`action.ts`, `ActionsDialog`, `ActionOrCertificateConfigurator`, `SimpleShareDialog`) | the rows of the form, built from the config, the server and the link | change rows, turn them into actions for the server and an update of the config, share past the form |
| editors (`client/src/editors`, `DecisionFrame`, `updateOrCreateContentWithConfig`) | the form, the node and the update id it was loaded with, the main context | load, show, edit, write, file the tokens in the config, take over the answer |
| trust (`operations/config.ts`, `updateTrust`, `updateTrustedKeys`) | levels and links of keys in the config | propagate trust, check links; without a caller |
| shell (`client/src/index.tsx`, pages) | navigation, drawing | |

### How they interact

A client reads a content with its update id, fetches the value by a second
request (possibly answered by the cache of the browser), and sends a mutation
with that id. The handler fetches the row, prepares a save function, often
awaiting in between, and runs it in a thread and a transaction of its own;
handlers of several requests run at once. The save function compares the update id,
changes the net, removes the old file, writes the new one, and saves the row, the
tags and the references. Beside the requests, administrators and the delete
mutation set marks, and `sg_sweep` (started by hand or by a timer; the
connection in `apps.py` to `request_started` names a sender that never sends) turns
used fetch actions and marked clusters into marks of contents, and deletes
what has expired, one row after the other. Deletion calls signal handlers that delete
dependents, files, and bytes of the net. Everything shared is in the database,
with the isolation of whichever database is configured, and in the file storage,
which knows no transactions.

### What is hard, and what makes each part correct

* **Content update.** Check and write are different statements; the instance
  written is older than the check; the storage does not roll back; locks are
  taken in crossing orders. *An acknowledged update must stay, a deleted
  content must stay deleted, a refusal must have a reason, bytes and files must
  agree with the rows, every request must be answered.*
* **Retention.** The sweep works on lists it has read before, while others
  create, use and mark; cascades spread. *Dependents go with what they depend
  on, nothing goes that nobody asked for, no content without its cluster, and
  what is marked goes in the end.*
* **Config synchronisation.** Several clients, several slots, lost and late
  messages, stale caches, three attempts. *No update vanishes, none is applied
  twice, a returned update is stored, every call ends.*
* **Config merge.** The same update is merged in different orders and again after
  a retry, and is only written when a change is counted. *Merging twice is
  merging once, updates of different entries commute, what is not named stays, and
  no change goes uncounted.*
* **Keys and envelopes.** A writer asks for the trusted keys and writes later,
  while keys are trusted, distrusted and deleted; node and value are two answers,
  the second perhaps of the cache; a retry keeps the keys of its first attempt.
  *Whoever is trusted all the while can read, nobody who never was, and what is
  read is one version.*
* **Access control form.** A token lives in the link, in the config under hashes of
  old and new algorithms, and on the server; one submit moves hashes, files kinds
  and sends actions. *No token is forgotten, what is sent is filed, a form nobody
  touched changes nothing.*
* **Editors.** Loads overtake each other, the context moves with every
  answer, writes and answers get lost, the config update after a write fails, two
  tabs edit one item. *No write of another is lost, what a form shows and its user
  did not touch stays, a form creates one item and its tokens are filed.*
* **Transfer, access, views** (not modelled): the lock that survives an error,
  the rollback of used actions.

`PROJECT.json` lists every hazard with its line and the properties that cover it.

## The modules

| module | of | abstracts |
|---|---|---|
| `VersionedContent` | the promise of the update id: a write happens if and only if the id it names is stored | a value is the set of the updates merged in it; a request names the id it writes |
| `ContentUpdate` | the handlers of content updates, the sweep and the marks, on a database with one write lock or with row locks | bytes are the fixed overhead plus the size of the file; a file is named by the request that wrote it |
| `Retention` | marks, sweep, cascade, fetch actions | time in steps, the delays as constants |
| `ConfigSync` | clients that carry updates to slots | uses `VersionedContent` as the server |
| `ConfigMerge` | `updateConfig` on tokens and hosts | an array is a model value |
| `Envelopes` | registration, keys and their trust, encryption for them, reading, and what the server checks of keys and signatures | ciphers are symbolic; a value is the number of its write |
| `ActionForm` | the access control form: mappers, rows, `transformActions`, sharing | a hash is a pair of a token and an algorithm |
| `Editors` | seven editors in two tabs: load, form, submit, answer | a form is two fields and the times of a workday |
| `MC_*` | constants of the small instances | |
| `VersionedContent_proofs`, `ContentUpdate_proofs`, `Retention_proofs`, `ConfigSync_proofs`, `ConfigMerge_proofs`, `Envelopes_proofs`, `ActionForm_proofs`, `Editors_proofs` | theorems | |

`VersionedContent` sits in the middle: `ContentUpdate` is shown to implement it
(`ImplementsAtomicWrites`, a refinement in which what a request does before its
commit is invisible), and `ConfigSync` instantiates it as the storage its clients
share. So what `ConfigSync` relies on is what the server was shown to do, on a
database with one write lock. The update id of the code is a `uuid4`; in the model
it is the request that wrote it, which is unique as a request writes once.

### ContentUpdate

`pc[r]` is where the handler of request `r` stands:

| state and action | code |
|---|---|
| `idle` → `Read` → `read` | the client has fetched value and update id |
| `Prepare` → `prepared`, or `Reject` | `_update_or_create_content_or_key` up to the save function, with the quota; `inst`, `oldBytes`, `newSize` and `newNet` are what the closure captures |
| `Check` → `checked`, or `refused` | `Content.objects.get(id, updateId)` in `save_fn` of `update_content_fn`; an empty result is `writeok = False` |
| `SaveNet` → `net` | `content.net.save` |
| `SaveFile` → `filed` | `content.file.delete(False)` and the new file under a new name |
| `SaveRow` → `row` | the save of the full row of the captured instance |
| `Commit` → `ok` | `old_net.save`, tags, references, the end of `transaction.atomic` |
| `Abort`, `Crash` → `failed` | the database or the environment ends the transaction |

The statements of a transaction become visible to others at its commit, so the
row and the counters are changed there; the storage is changed at once. The
sweep has a program counter of its own (`SweepPick`, `SweepDelete`, `SweepFile`,
`SweepCommit`, `SweepFail`, in the order `apps.py` connects the signals), and
`Mark` is the `UPDATE` of the delete mutation.

`Serializable` chooses between SQLite (one write lock, a commit waits for the
readers in a transaction) and READ COMMITTED with row locks. A set of
transactions that wait for each other makes one of them fail (`Deadlocked`).

### Retention

Actions for users and administrators (`PrepareCreate`, `PrepareUpdate`, `Save`, `Fetch`,
`DeleteContent`, `DeleteCluster`, `CommandDelete`), the clock, and one action per
statement of `sweepOutdated`, as it awaits between them. Creating or updating
a content takes two steps: `transform_references` keeps the targets that exist and are
not marked, and drops others in silence; the transaction stores the row, with the
mark it had when it was fetched, and the references, and fails when a target
has gone meanwhile. Updates replace the references of a content (`Later`), and
so can close a ring. A content is deleted
with `Victims`, the closure under references with the policy TRUE and what
`deleteContentCb` finds for NO_GROUP. Where the references form a ring the
recursion does not end (`Endless`), and the sweep breaks. The delete mutation
for a cluster changes its contents and then raises, so the cluster is not marked;
with a date, and in the reset mutation, the synchronous statement comes first and
nothing happens, so these are not actions.

### ConfigSync

One call of `updateConfigRemoteReducer` per client (`sync`), in it one retried action
per slot (`step`, `try`), each with a write request per attempt. The first query reads
the nodes of all slots at once; the value comes later, from the server or from
the cache (`FetchValue`, `FetchCached`), and is only usable if it was written with
the update id in the node, since every write takes a new key and the node carries
the shared key. Requests stay in `sent` until the server handles them or they are
lost; a client that has given up on an answer does not take its request back.

### ConfigMerge

`Merge(old, new)` is `updateConfig`, made of `MergeObjects` (`mergeDeleteObjects`)
with one handler per kind of entry. The state machine only walks through the
configs that updates can produce; the properties speak of the merge.

### Envelopes

One content of a cluster, which is a config or another content (`type`), in a cluster
whose contents need a signature or in `@system`, where they need none (`exempt`).

| action | code |
|---|---|
| `CreateCluster`, `RegisterConfig`, `RegisterDone`, `RegisterFails` | the registration: `createCluster` and `initializeCluster`, and `Register.tsx`, which restores the old config after any error |
| `CreateKey`, `UpdateKey`, `DeleteKey`, `InjectKeys`, `Share` | `createKeys` and `updateKey` with the state of the public key, the deletion of a key with the references to it, the administrator's injected keys, shared tokens |
| `LoadNode`, `OpenValue` | the query of a content, then `decryptContentObject` with the value of the link or of the cache (`fallback_fetch`) |
| `Submit`, `AskKeys`, `Seal`, `SealFails` | an editor submits; the trusted keys are asked for past every cache; a new shared key is sealed for each |
| `Sync`, `Again` | `updateConfigRemoteReducer` writes for the keys the references of the node name; a retry reads again and keeps them |
| `Serve` | the update id, `needs_signature`, the required keys, the references that are left |

`lo` and `hi` are ghosts: the keys trusted all the while a value was written, and
those trusted at some time of it.

### ActionForm

`Load` is `generateActionMapper` for each item and `mappersToArray`; the actions that
change rows are those of the dialogs; `Submit` runs `Transform` (`transformActions`)
for each item, and merges its result into config and server; `ShareNew` and
`ShareAuth` send actions past the form. Tokens come from the link (`url`) or the
config (`stored`, `rights`); which algorithm a promise answers first, and which
assignment comes last, is left open in `Load`.

### Editors

A tab has the main context (`item`, `updateId`), the last answer of its query
(`node`), the effect that decrypts it (`job`, and `late` for one that was superseded and
shows its result all the same), and its form. `Shown` and `Saved` say what each
editor reads and writes. A submit passes through `sending`: `Write` or `WriteFails`,
`FileTokens` or `FileFails`, `Refetch`, `Answer`; `StageAfter` is their order. Whether
the config update succeeds is open here (`ConfigSync` has it).

## The runs

| run | instance | shows |
|---|---|---|
| `content_update` | 1 content, 2 nets, 2 requests with 2 sizes, moves, one lock, faults, marks, a sweep | `NoLostUpdate`, `ImplementsAtomicWrites`, `NoResurrection`, `RefusedOnlyIfOvertaken`, `UnmarkedOnlyByStaleSave`, `UsageExact`, `StorageMatches` |
| `content_liveness` | row locks, two nets, crossing orders | `Answered` |
| `content_lost_update` | row locks | counterexample to `NoLostUpdate` |
| `retention_safe` | 3 contents in a chain of references, an update that may close it to a ring or add a NO_GROUP reference, 1 cluster, 2 fetch actions | `DependentsFollow`, `ContentsHaveClusters`, `OnlyRequestedGo` |
| `retention_live` | 2 contents, 1 cluster, 2 fetch actions | `MarkedGoes`, `MarkedClusterGoes`, `FetchedGoes` |
| `config_sync` | 2 clients, 2 slots in `@system` (one shared), a failure of the network, a deleted main slot | `UpdateInMainSlot`, `AppliedOnce`, `FailuresHaveCauses`, `SlotsOnlyGrow`, `SyncEnds` |
| `config_signing` | the same without faults, a client that signs, slots that need a signature | counterexample to `FailuresHaveCauses` |
| `merge_all` | 1 host with a role, 2 clusters and a content; updates of one or two entries | `OthersStay`, `MergedOnce`, `OrderIsFree`, `UncountedAtMost` |
| `envelopes` | 2 clients, of which one signs, 2 keys, 3 writes, 2 changes of keys, 2 attempts | `ReadersAreTrusted`, `TrustedCanRead`, `ReadsAreWhole` |
| `action_form` | 2 tokens, 1 certificate, 3 editors, 2 rounds of 2 changes | `SentFiled`, `TokensStay`, `UntouchedSubmit` |
| `editors` | 2 tabs, 7 editors, 2 changes, 3 versions, 3 items | `NoLostContentWrite`, `UntouchedStay`, `FullEntriesAreSaved`, `OneItemPerForm`, `CreatedIsFiled` |
| `editors_cluster` | the cluster editor alone | counterexample to `NoLostWrite` |

Each passing run checks a type invariant too.

### Bounds, and why they are enough

* *Requests.* In `ContentUpdate` two overlapping requests, a mark and a sweep
  give every pair of transactions that can meet; what three or more do to the update id is
  covered by the theorems, which hold for any number.
* *Sizes, quotas.* Two sizes give growth, shrinking and equality; two nets give
  moves in and out, and the second net is too small for the larger size.
  READ COMMITTED runs with one size, as its properties do not read sizes.
* *Time in Retention.* All delays are 1. In `retention_safe` requests come until the
  first deadline (`LastRequest` is 1); what they have prepared is saved at any time.
  `retention_live` has no updates, because a
  stale update can take a mark away (`UnmarkedOnlyByStaleSave` of `ContentUpdate`). Only the order of deadlines matters to
  the code, and the clock goes far enough beyond `LastRequest` that every deadline
  set by a request has passed.
* *References.* A chain of two references is the shortest that is longer than one step
  of the cascade.
* *Attempts, faults.* `MaxAttempts` is 3, the value in the code. One failure of the
  network (`MaxFaults`), a competing client and the deletion of the main slot use up
  the attempts in every combination. Four clients are the least for which three
  attempts do not suffice on a working network (`FailuresHaveCauses` says why three do). An update of
  private keys only (`Skipped`) is modelled and not exercised in the runs: such a client
  writes nothing to its main slot.
* *Config entries.* Handlers of different entries do not share state except the
  count of the host, so one entry of each kind, and a second cluster to move a content
  to, reach every combination. Updates name at most two entries (or delete the
  host), which is what the count bug and every commutation need.
* *Envelopes.* Three writes are a creation, an edit and a competing edit or sync; two
  keys are one that stays and one that comes and goes, with two changes. The theorems
  hold for any number of them. In the cluster `@system` only configs are looked at:
  elsewhere clients without a certificate cannot write at all, and nothing else of
  the behaviour depends on the signature.
* *ActionForm.* Two tokens, one of the client itself that may manage the cluster, and one
  certificate, in each of the two algorithms; a second round meets what the first one stored.
* *Editors.* Two changes let two tabs write different values, or one tab write twice;
  three versions leave room for both after the first; three items for a creation in each tab.

### Fairness

* `ContentUpdate`: the thread of a request runs on (WF), and a lock that becomes
  free again and again is granted in the end (SF), as lock queues of databases are served in
  turn. No request, mark or sweep has to start.
* `Retention`: time passes, a sweep that has started goes on and is started
  again (the timer of the administrator, an assumption: the code has none), and a
  prepared content is saved. How often a sweep comes is open; `late` records that the
  clock has moved on without one, and `FetchedGoes` makes no promise then (see below).
* `ConfigSync`: a running client goes on, and a request that reaches the server is
  handled. Nothing forces messages to arrive, clients to start, or faults to happen.

`Envelopes`, `ActionForm` and `Editors` state safety only, without fairness: a user need
not go on, and no promise of theirs is about the end of a step.

### Findings

Each is a run with a counterexample; `PROJECT.json` quotes the lines.

* `content_lost_update`: with READ COMMITTED two updates that read the same id are
  both acknowledged, and the first is lost: the check takes no lock.
* `config_signing`: `updateRemoteConfig` names no signature algorithm, so its write throws
  for every client that signs, and a value without a signature is refused outside
  `@system`. A config synchronisation succeeds for clients that do not sign, in
  `@system`, only; `config_sync` is about these.
* `editors_cluster`: the cluster editor sends the update id of the main context, which
  moves to the id of a refused answer too; the second submit overwrites another tab's.

Others were met and are part of the models, without a run of their own:

* `ContentUpdate`: a stale save takes away a mark (`UnmarkedOnlyByStaleSave`); two requests that each compare their growth with the same
  old `bytes_in_use` may together exceed the quota (`_contents.py:490`); a rollback loses the old file under any isolation.
* `Retention`: a ring of TRUE references ends every sweep (`SweepBreaks`); NO_GROUP references never delete
  anything (`Amount` counts as the code does, `schema/shared.py:49` promises otherwise). When the
  sweep comes more than a day after the end of a used fetch action, the action is removed
  (`signals.py:372`) before it has marked its content, which then stays; this is why
  `FetchedGoes` exempts `late`.
* `ConfigMerge`: a cluster in the update resets the count of its host, and a new content without hashes and a moved
  content are not counted either; an uncounted change is not written (`UncountedAtMost` says there are no
  other kinds). With four clients a busy slot may miss an update.
* `Envelopes`: a registration with a lock password always fails after the cluster was created, and
  nobody has its tokens (`RegisterFails`); an injected key makes every write of a content other than a config
  throw (`GroupKeysThrow`); one key that cannot be fetched rejects the whole write (`SealFails`);
  no content can be created in a cluster with a required key (`Admitted`); a tag that is a flag cannot be
  sealed (`TagsCanSeal`).
* `ActionForm`: an update of a token of the cluster editor records no kinds (`Recorded`); adding a kind to a token that has one
  replaces what the config knows of it (`MergeRights`); a share past the form is not stored in the config (`ShareActions`).
* `Editors`: a refused write is dropped without a word, and the editor reloads (`Moved`); a value that does not fit its node is an
  exception that nobody catches (`ShowFails`); the keywords of a file are never read back, and the
  profile drops what it does not show (`ShownFile`, `SavedProfile`); a load that was superseded
  replaces the newer form (`ShowLate`); after a config update has failed the cluster editor creates its cluster
  again (`FileFails`).

## The proofs

Every invariant and every action property that a passing run checks is also proved, for all values
of the constants that satisfy the named assumptions and, where it says so, a hypothesis about them. What stays with TLC is at the end of this section.

`VersionedContent_proofs`: `Inductive` (types, `IdsOfAccepted`, `ReadTogether`,
`NoLostUpdate`) is an invariant. `NoLostUpdate` alone is not inductive: a writer
could have read a value without an update under the id the update wrote.
`ReadTogether` rules that out, an id belongs to one value, and needs in turn that an
id in use comes from an answered update, so that no later request writes it again
(`IdsOfAccepted`). `ValuesOnlyGrow` follows from the same invariant.

`ContentUpdate_proofs`:

* `TypeCorrect`: `[]TypeOK` for all constants and both kinds of isolation.
* `AcknowledgedUpdatesStay`: with `Serializable`, `[]NoLostUpdate`. The
  inductive invariant is `SerialInvariant`: to the two parts above it adds that
  whoever has begun to write holds the lock (`WriterHoldsLock`), and that what a
  request has checked is still so when it commits (`CheckStillHolds`). The latter is where
  the lock matters: between the check, which takes no lock, and the first write another
  could commit, and `MayCommit` (SQLite waits for the readers) is what prevents it.
* `HandlersImplementAtomicWrites`: with `Serializable`, every behaviour of the
  handlers is one of `VersionedContent` under the mapping `AtomicStored`,
  `AtomicAnswer`: a commit is an `Accept`, since its check still holds; a
  refusing check is a `Refuse`; a rejection or rollback is a `Fail`; the commit of
  the sweep is a `Drop`; everything else stutters.
* `RefusalsHaveCauses`: for either isolation, `[]RefusedOnlyIfOvertaken`. `RefusalInvariant` adds
  that an id in use belongs to an acknowledged update of the same content (`IdsOfOthers`), so
  that whoever finds another id than the one it read was overtaken.
* `MarksStay`: for either isolation, `UnmarkedOnlyByStaleSave`, action by action.
* `DeletedStaysDeleted`: with `Serializable`, `NoResurrection`, since what a request has
  checked is still so when it commits (`CheckStillHolds`): the row it saves is there.
* `RowsHaveTheirFiles`: with `Serializable`, `[]StorageMatches`. `StorageInvariant` says what the
  storage holds in the middle of a change too (`FilesOK`), and that an instance which can still
  pass its check has the id its request read (`InstanceIsRead`), so the old file a request
  deletes is that of the row it replaces.
* `UsageIsExact`: with `Serializable`, `[]UsageExact`. The usage of a net is kept by differences, and
  the old size in such a difference comes from an instance fetched long before. `UsageInvariant` counts
  from the rows, so that it holds in the middle of a change too (`UsageCounted`), and says that
  the old size of a request that can still pass its check is the one counted, unless somebody has
  the content between its file and its row, who then overtakes the request or breaks the
  content (`OldBytesOfRow`, `SweepBytesOfRow`). It needs the rules of sums: that the recursion behind
  `SumFunctionOnSet` exists, does not depend on the order, and changes by what one summand changes
  (`SumExists`, `SumsAgree`, `SumStep`).

`Retention_proofs`: `ContentsStayHoused`, `[]ContentsHaveClusters`. The inductive invariant
`Housed` adds only the types of `content` and `cluster`. The two steps that
matter are the save, which finds its cluster still there although it was resolved earlier,
and the deletion of a cluster that was empty when the sweep listed it and has got a content
since: `Protected` looks again at the moment of the deletion.

`TypeCorrect`, `DependentsAlwaysFollow` and `NothingElseGoes` rest on `EndInv`. The cascade
is a least closed set (`Cascade`), and so is what a content hangs on (`Supports`). That no
dependent outlives its target then needs that both ends of every reference are there (`RefsHere`), so
that the closure meets all of them. That nothing else goes needs the cause of every mark,
also of the one a save has captured (`MarksHaveCauses`), that the sweep takes an action for used up only
after a fetch (`UsesAreFetches`), and that what it has listed has a cause although the list is older
than the marks (`ListHasCauses`); a closure that starts from contents with a cause stays within what they
support. All of `Retention_proofs` assumes `RetentionAssumption`, which every run of `Retention` evaluates.

`Envelopes_proofs`: `SealedForTrusted`, `TrustedOpens`, `WholeVersions` and `TypeCorrect` for any
clients, keys, certificates and bounds. None of the three properties is inductive. `IInv` adds to
them what each carrier of a version knows: a job that is about to ask for the keys has witnesses
around the trusted ones of now, and one that has asked around those it was told (`JobOK`);
a cached value is encrypted with the shared key of its version or not at all
(`CacheOK`), which is why a node and a value that fit are of one version (`DecryptedOK`);
and nobody reads or writes before the registration is done (`Early`), so that keys and certificates
that appear with it disturb nothing. One lemma per action shows that `IInv` stays;
`ClientStep` collects what a step of one client leaves alone. It assumes `KeyAssumption`.

`ConfigSync_proofs`: `ReturnedIsStored`, `WrittenOnce`, `SlotsKeepUpdates` and `TypeCorrect` for any
clients, slots, numbers of attempts and failures. The safety of a synchronisation hangs on the
update id, and `IInv` says what an id is worth. An id in use comes from an acknowledged write
(`IdsAccepted`), so that a write to come brings an id nobody has. A value in a browser's cache is what is stored,
or an earlier part of it under another id (`CachesOK`); so a value whose key fits the node of a
client is the one the node belongs to, even when the network failed and the cache answered. A request on its
way therefore either starts from the value that is stored or will be refused (`SentOK`),
and the value it starts from has no update of its client yet, which is why a late
first try and the second one cannot both take effect. Attempts that have not begun have written nothing (`Fresh`), and an action that
counts as done has its update in the main slot (`MainOK`), because it was acknowledged (`StoredOK`) or was
found there. It assumes `SyncAssumption` and `InitialNoAttempt`, which both runs of
`ConfigSync` evaluate.

`FailuresAreCaused` is `[]FailuresHaveCauses` where nothing is signed; with a signature every attempt fails,
which is a finding above. An attempt is lost long before it fails, when another update gets into the slot.
So the invariant counts the doomed attempts too: what a client has spent in a slot, with the attempt
under way if it cannot succeed any more (`Doomed`, `Spent`), is at most the number of other updates in the
slot plus the faults (`Caused`). The step that matters is an accepted write: it dooms the attempts
of all others, and is itself the new cause of each. That it is new needs `MergedWere`: what is merged in a slot was
acknowledged, so the update that comes was not there before.

`ConfigMerge_proofs`: `OthersAreKept`, `MergedTwiceIsOnce`, `DifferentEntriesCommute` and
`OnlyTheseEscapeTheCount` for any hosts, tokens, clusters, contents and updates. The handlers are passed
as parameters through three levels of objects. The proofs bring this down to a statement about one entry
(`EntryOfMerge`): the merge does to each entry what the operation of the update on it says, and
nothing else. The properties are then facts about one entry and one or two operations, and the invariant only says
that `config` is what the last update made of `before`. The count does not go entry by entry, since
the handler of a cluster sets it back; it is followed through the levels. Assumed are `UpdatesAssumption`
and `Distinct` (null, undefined, arrays and objects are different values), which the run evaluates.

`ActionForm_proofs`: `TypeCorrect`, `TokensAreKept`, `SentIsFiled` and `UntouchedChangesNothing` for any
tokens, keys, kinds, forms and every editor.

* What a submit does is the result of a fold over the form. `ElementByElement` is the rule for it: a set
  of pairs of a number of elements and a result that is closed under `TransformOne` contains the whole result. The
  set takes the place of the predicate of an induction, and the rule is shown by the smallest number for which
  it would fail. `OneElement` says once what an element changes and what it keeps (`Effect`).
* `IInv` says of a mapper that an entry moves a hash to one of the same token, which the config
  or the link knows (`EntryOK`), although the hash of an entry is chosen by what finished last; and of a form that new
  elements stand behind those of the mapper and move no hash (`FormInv`). The first makes `TokensAreKept` true:
  a hash is dropped only together with storing another one of its token, and storing wins
  when results are merged. The second makes `SentIsFiled` true: an element that moved its hash after
  an action was filed there would take the place of the kinds filed before.
* `UntouchedChangesNothing` also needs that the form shows every entry (`FirstForm`), so that a token
  of the link is among them: `SetToSeq` is only known to list a finite set, and that the elements are
  finite takes `FiniteAssumption`.

It assumes `TokenAssumption`, `BoundAssumption`, `KindAssumption` (the names of three
values that are no kinds) and `FiniteAssumption`, which the run evaluates.

`Editors_proofs`: `WritesReplaceWhatTheyKnow`, `UntouchedFieldsStay`, `FullEntriesSaved` and
`TypeCorrect` for any tabs, editors, items, versions and changes. Queries come late, superseded
loads replace forms, contexts move without their forms, answers get lost, and through all of it a
pair of an update id and a value has to stay together. `IInv` says that each pair a
tab holds, in its last answer, in a load under way or superseded, in its form or in
its submit, is that of the item or of an earlier version (`Known`). An item only
changes to a newer id (`Newer`), which keeps all of these (`NewerKeeps`); so an accepted id, being that of
the item, brings the item's value with it (`KnownBase`). The cluster editor is excluded, for it
submits the id of the context, which is no part of such a pair; that is the finding above. For
workdays `IInv` adds that the last row of a form is never a full entry (`Closed`), so that the
save may drop it.

`OneItemForAForm` and `CreatedItemsAreFiled` are about the way of one submit: write, config, refetch,
answer, or for clusters another order. `FormInv` says that a form which still creates has made only faulty items,
but for the one whose answer is on its way and will move the form to it (`Creating`); one that does not create any more
submits the item of its context, which it has made itself or which was there before. So a second submit is an update. `Refetching`
says that whoever refetches after its config update has left the item filed or faulty. For these two the
many actions are first sorted into eight kinds of steps of a tab (`ShapedStep`), and each kind is treated
once. `Editors_proofs` assumes `KindAssumption`, `BoundAssumption` and, for the makers of items, `TabAssumption`,
which both runs of `Editors` evaluate.

The theorems on `ContentUpdate` assume `ConstantsAssumption` (the types of the
constants, which TLC evaluates in each run) and, where it says so above, `Serializable`;
those on `VersionedContent` assume only `NewIds` (no request is the initial id), which
they state as a hypothesis, as its instances have it in their own assumptions.

Only model-checked are the liveness properties (`Answered`, `SyncEnds`, `MarkedGoes`,
`MarkedClusterGoes`, `FetchedGoes`): liveness under fairness and ENABLED are out of the reach of the prover.
The theorems of the library for induction and recursive definitions take an operator, which no installed prover can
instantiate. Where an induction was needed, over the numbers of the elements of a form, the subsets of a set that is summed, or the contents
a cascade reaches, it is done by a smallest counterexample (`WFMin` on the numbers or on
the subsets of a finite set), or the definition is that of a least closed set.

## Not modelled

`PROJECT.json` gives the reason for each component. In short:

* *Server.* Creation of pairs of keys in one mutation and the bytes of a creation; cluster
  updates, transfer, access control (which objects tokens reach), views, subscriptions,
  admin, messaging, proxy. The lock of a transfer, and the bytes of a content that
  is created (creation adds less than deletion takes off), are hazards without a property.
* *Client.* The editor of keys: submitting an existing key always throws (`keys.tsx:939`), and so does
  the creation of a private key (`key.ts:115`); what is left of it is `CreateKey` of `Envelopes`.
  `updateTrust` and `updateTrustedKeys`, which nothing calls. Loading, exporting and
  cleaning a config, `updateCluster`, and the shell.
* The ciphers, hashes and signatures, which are those of libraries.

## Plan

1. Done: the modules and proofs above.
2. `Transfer`: the lock of a content, two transfers, an update with an instance
   older than the lock, the deletion on failure, `sg_unlock`. Properties: one transfer
   at a time, no unverified value stays readable, every lock ends.
3. `Access` and `Views`: from tokens to reachable objects, side effects of stored
   actions, fetch with freeze, used actions and their rollback.
4. `TrustLevels`, as soon as the client calls it.
5. Creation and cascade in the accounting of `ContentUpdate`; cluster updates, which
   also implement `VersionedContent`.
6. Proofs: that the creations of 5 keep `UsageInvariant`; that
   the updates of a config which `ConfigSync` treats as a set are those of `ConfigMerge` (`DifferentEntriesCommute`
   is the lemma for it); the promises of `Transfer`, once it is modelled.
