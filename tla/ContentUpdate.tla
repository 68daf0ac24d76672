--------------------------- MODULE ContentUpdate ---------------------------
(***************************************************************************)
(* Updating the contents of a net on the server                            *)
(* (actions/update/_contents.py), while others update, mark and sweep.     *)
(*                                                                         *)
(* A request prepares itself on an instance of the row it fetched          *)
(* (_update_or_create_content_or_key), and its save function later opens a *)
(* transaction, compares the update id, and writes the net, the file and   *)
(* the full row.  The requests run in threads of their own, so their       *)
(* statements interleave; sg_sweep and the delete mutation run beside      *)
(* them.                                                                   *)
(*                                                                         *)
(* The database is external.  Serializable = TRUE is the default SQLite    *)
(* file: one write lock, and a commit waits for every transaction that has *)
(* read.  Serializable = FALSE is READ COMMITTED with a lock per row, the  *)
(* default of the other databases Django is used with.                     *)
(***************************************************************************)
EXTENDS Integers, FiniteSets, FiniteSetsExt

CONSTANTS
    Contents, Requests, Nets,
    Initial,        \* the update id the contents start with
    Sizes,          \* sizes a value can have
    InitSize,       \* the size of the value each content starts with
    Overhead,       \* flexid, tags and references of a content
    HomeNet,        \* content -> the net it starts in
    Quota,          \* net -> its quota
    Moves,          \* may a request name another net?
    Faults,         \* may a transaction fail for a reason outside the model?
    Serializable,   \* the isolation of the database
    Sweeper, Database, Nobody

ASSUME ConstantsAssumption ==
    /\ IsFiniteSet(Contents)
    /\ Initial \notin Requests
    /\ Sizes \subseteq Nat \ {0} /\ InitSize \in Sizes /\ Overhead \in Nat
    /\ HomeNet \in [Contents -> Nets]
    /\ Quota \in [Nets -> Nat]
    /\ Moves \in BOOLEAN /\ Faults \in BOOLEAN /\ Serializable \in BOOLEAN
    /\ Sweeper \notin Requests
    /\ Nobody \notin Requests \cup {Sweeper}

VARIABLES
    row,        \* content -> its committed row
    files,      \* content -> files of it in the storage, named by their writer
    used,       \* net -> bytes_in_use
    target, base, seen,     \* as in VersionedContent
    pc,         \* request -> the step its handler is at
    inst,       \* request -> the instance fetched by the handler
    oldBytes,   \* request -> size_old, the size of that instance
    newSize,    \* request -> the size of the new value
    newNet,     \* request -> the net after the update
    owner,      \* lock -> who holds it
    sweepPc, sweepOf, sweepInst, sweepBytes,
    broken,     \* contents whose file went in a transaction that failed
    stale       \* a sweep has deleted a row other than the one it had read

reqVars == <<target, base, seen, pc, inst, oldBytes, newSize, newNet>>
sweepVars == <<sweepPc, sweepOf, sweepInst, sweepBytes>>
history == <<broken, stale>>
vars == <<row, files, used, reqVars, owner, sweepVars, history>>

UpdateIds == Requests \cup {Initial}

(* The columns that matter; "updateId" also names the file, which is       *)
(* written with a new name whenever the update id is.                      *)
Row == [here : BOOLEAN, updateId : UpdateIds, merged : SUBSET Requests,
        size : Sizes, net : Nets, marked : BOOLEAN]

Locks == IF Serializable THEN {Database} ELSE Contents \cup Nets

LockOf(x) == IF Serializable THEN Database ELSE x

Steps == {"idle", "read", "prepared", "checked", "net", "filed", "row",
          "ok", "refused", "failed"}

(* A request is answered, with an error in the last case.                  *)
Final == {"ok", "refused", "failed"}

(* The steps between the check and the commit.                             *)
InTransaction == {"checked", "net", "filed", "row"}

TypeOK ==
    /\ row \in [Contents -> Row]
    /\ files \in [Contents -> SUBSET UpdateIds]
    /\ used \in [Nets -> Int]
    /\ target \in [Requests -> Contents]
    /\ base \in [Requests -> UpdateIds]
    /\ seen \in [Requests -> SUBSET Requests]
    /\ pc \in [Requests -> Steps]
    /\ inst \in [Requests -> Row]
    /\ oldBytes \in [Requests -> Nat]
    /\ newSize \in [Requests -> Sizes]
    /\ newNet \in [Requests -> Nets]
    /\ owner \in [Locks -> Requests \cup {Sweeper, Nobody}]
    /\ sweepPc \in {"idle", "picked", "locked", "unfiled"}
    /\ sweepOf \in Contents
    /\ sweepInst \in Row
    /\ sweepBytes \in Nat
    /\ broken \in SUBSET Contents
    /\ stale \in BOOLEAN

InitRow(c) ==
    [here |-> TRUE, updateId |-> Initial, merged |-> {}, size |-> InitSize,
     net |-> HomeNet[c], marked |-> FALSE]

(* A bug: the fixed part is taken off instead of added.                    *)
BytesSubtracting(c, instance) ==
    (IF instance.updateId \in files[c] THEN instance.size ELSE 0) - Overhead

(* Content.size of an instance of c: its own file, if it is still stored,  *)
(* and the parts that are always counted.                                  *)
Bytes(c, instance) ==
    Overhead + (IF instance.updateId \in files[c] THEN instance.size ELSE 0)

(* Net.calculate_bytes_in_use *)
CalculatedBytes(n) ==
    SumFunctionOnSet([c \in Contents |-> Bytes(c, row[c])],
                     {c \in Contents : row[c].here /\ row[c].net = n})

Init ==
    /\ row = [c \in Contents |-> InitRow(c)]
    /\ files = [c \in Contents |-> {Initial}]
    /\ used = [n \in Nets |->
                 (Overhead + InitSize) * Cardinality({c \in Contents : HomeNet[c] = n})]
    /\ target \in [Requests -> Contents]
    /\ base = [r \in Requests |-> Initial]
    /\ seen = [r \in Requests |-> {}]
    /\ pc = [r \in Requests |-> "idle"]
    /\ inst = [r \in Requests |-> InitRow(target[r])]
    /\ oldBytes = [r \in Requests |-> 0]
    /\ newSize = [r \in Requests |-> InitSize]
    /\ newNet = [r \in Requests |-> HomeNet[target[r]]]
    /\ owner = [l \in Locks |-> Nobody]
    /\ sweepPc = "idle"
    /\ sweepOf \in Contents
    /\ sweepInst = InitRow(sweepOf)
    /\ sweepBytes = 0
    /\ broken = {}
    /\ stale = FALSE

-----------------------------------------------------------------------------
(* The database.                                                           *)

CanTake(p, x) == owner[LockOf(x)] \in {p, Nobody}

Take(p, x) == owner' = [owner EXCEPT ![LockOf(x)] = p]

ReleaseAll(p) == owner' = [l \in Locks |-> IF owner[l] = p THEN Nobody ELSE owner[l]]

(* SQLite commits once nobody else is in the middle of reading.            *)
MayCommit(p) == Serializable => \A r \in Requests \ {p} : pc[r] # "checked"

Moved(r) == newNet[r] # inst[r].net

(* The rows whose locks a transaction needs for its next statement.        *)
Wanted(p) ==
    IF p \in Requests
    THEN CASE pc[p] = "checked" -> {newNet[p]}
           [] pc[p] = "filed" -> {target[p]}
           [] pc[p] = "row" /\ Moved(p) -> {inst[p].net}
           [] OTHER -> {}
    ELSE CASE sweepPc = "picked" -> {sweepOf}
           [] sweepPc = "unfiled" -> {sweepInst.net}
           [] OTHER -> {}

Committing(p) ==
    IF p \in Requests THEN pc[p] = "row" ELSE sweepPc = "unfiled"

Waits(p, q) ==
    /\ p # q
    /\ \/ \E x \in Wanted(p) : owner[LockOf(x)] = q
       \/ Committing(p) /\ Serializable /\ q \in Requests /\ pc[q] = "checked"

(* Nobody in a set of transactions that wait for each other can go on: the *)
(* database makes one of them fail.                                        *)
Deadlocked(p) ==
    \E ps \in SUBSET (Requests \cup {Sweeper}) :
        p \in ps /\ \A q \in ps : \E o \in ps : Waits(q, o)

-----------------------------------------------------------------------------
(* A request.                                                              *)

(* A client fetches a content: its value and its update id.                *)
Read(r) ==
    /\ pc[r] = "idle"
    /\ row[target[r]].here
    /\ base' = [base EXCEPT ![r] = row[target[r]].updateId]
    /\ seen' = [seen EXCEPT ![r] = row[target[r]].merged]
    /\ pc' = [pc EXCEPT ![r] = "read"]
    /\ UNCHANGED <<row, files, used, target, inst, oldBytes, newSize, newNet,
                   owner, sweepVars, history>>

(* The quota, compared with the bytes_in_use that came with the instance.  *)
WithinQuota(r, s, n) ==
    LET current == row[target[r]]
        old == Bytes(target[r], current)
    IN  IF n = current.net
        THEN Overhead + s > old => used[n] + (Overhead + s) - old <= Quota[n]
        ELSE used[n] + Overhead + s <= Quota[n]

(* The handler fetches the row and prepares the save function.             *)
Prepare(r, s, n) ==
    /\ pc[r] = "read"
    /\ row[target[r]].here
    /\ Moves \/ n = row[target[r]].net
    /\ WithinQuota(r, s, n)
    /\ inst' = [inst EXCEPT ![r] = row[target[r]]]
    /\ oldBytes' = [oldBytes EXCEPT ![r] = Bytes(target[r], row[target[r]])]
    /\ newSize' = [newSize EXCEPT ![r] = s]
    /\ newNet' = [newNet EXCEPT ![r] = n]
    /\ pc' = [pc EXCEPT ![r] = "prepared"]
    /\ UNCHANGED <<row, files, used, target, base, seen, owner, sweepVars, history>>

(* The content is gone (DoesNotExist), or the value is too large for the   *)
(* net (ResourceLimitExceeded).                                            *)
Reject(r, s, n) ==
    /\ pc[r] = "read"
    /\ row[target[r]].here => (Moves \/ n = row[target[r]].net) /\ ~WithinQuota(r, s, n)
    /\ pc' = [pc EXCEPT ![r] = "failed"]
    /\ UNCHANGED <<row, files, used, target, base, seen, inst, oldBytes, newSize,
                   newNet, owner, sweepVars, history>>

(* Bugs: the update id is not compared; it is compared with the instance;  *)
(* a marked content is not found.                                          *)
MatchesById(r) == row[target[r]].here
MatchesInstance(r) == inst[r].updateId = base[r]
MatchesUnmarked(r) ==
    row[target[r]].here /\ row[target[r]].updateId = base[r] /\ ~row[target[r]].marked

(* Content.objects.get(id=content.id, updateId=updateId)                   *)
Matches(r) == row[target[r]].here /\ row[target[r]].updateId = base[r]

(* The transaction begins with that query; without a result it ends with   *)
(* writeok = False.                                                        *)
Check(r) ==
    /\ pc[r] = "prepared"
    /\ pc' = [pc EXCEPT ![r] = IF Matches(r) THEN "checked" ELSE "refused"]
    /\ UNCHANGED <<row, files, used, target, base, seen, inst, oldBytes, newSize,
                   newNet, owner, sweepVars, history>>

(* A bug: the old size is taken off even where it was never counted.       *)
GrowthAlwaysDiff(r) == Overhead + newSize[r] - oldBytes[r]

(* What F("bytes_in_use") is changed by in the net of the updated content. *)
Growth(r) ==
    Overhead + newSize[r] - (IF Moved(r) THEN 0 ELSE oldBytes[r])

(* bytes_in_use is a PositiveBigIntegerField: the database refuses a       *)
(* statement that makes it negative.                                       *)
Underflow(r) ==
    \/ pc[r] = "checked" /\ used[newNet[r]] + Growth(r) < 0
    \/ pc[r] = "row" /\ Moved(r) /\ used[inst[r].net] - oldBytes[r] < 0

(* content.net.save(update_fields=...)                                     *)
SaveNet(r) ==
    /\ pc[r] = "checked"
    /\ ~Underflow(r)
    /\ CanTake(r, newNet[r])
    /\ Take(r, newNet[r])
    /\ pc' = [pc EXCEPT ![r] = "net"]
    /\ UNCHANGED <<row, files, used, target, base, seen, inst, oldBytes, newSize,
                   newNet, sweepVars, history>>

(* A bug: the old file is kept.                                            *)
FilesKeepingOld(r) == files[target[r]] \cup {r}

(* content.file.delete(False) and the new file, under a new name.          *)
FilesAfter(r) == (files[target[r]] \ {inst[r].updateId}) \cup {r}

(* The storage knows nothing of transactions.                              *)
SaveFile(r) ==
    /\ pc[r] = "net"
    /\ files' = [files EXCEPT ![target[r]] = FilesAfter(r)]
    /\ pc' = [pc EXCEPT ![r] = "filed"]
    /\ UNCHANGED <<row, used, target, base, seen, inst, oldBytes, newSize, newNet,
                   owner, sweepVars, history>>

(* file.save ends in instance.save(): the lock of the row.                 *)
SaveRow(r) ==
    /\ pc[r] = "filed"
    /\ CanTake(r, target[r])
    /\ Take(r, target[r])
    /\ pc' = [pc EXCEPT ![r] = "row"]
    /\ UNCHANGED <<row, files, used, target, base, seen, inst, oldBytes, newSize,
                   newNet, sweepVars, history>>

(* A bug: an update also takes the mark away.                              *)
NewRowUnmarked(r) ==
    [here |-> TRUE, updateId |-> r, merged |-> seen[r] \cup {r},
     size |-> newSize[r], net |-> newNet[r], marked |-> FALSE]

(* Every column of the instance is written, the changed and the stale; a   *)
(* row that is gone is inserted again.                                     *)
NewRow(r) ==
    [here |-> TRUE, updateId |-> r, merged |-> seen[r] \cup {r},
     size |-> newSize[r], net |-> newNet[r], marked |-> inst[r].marked]

(* old_net.save(...), the tags and references, and the end of the          *)
(* transaction: writeok = True.                                            *)
Commit(r) ==
    /\ pc[r] = "row"
    /\ ~Underflow(r)
    /\ Moved(r) => CanTake(r, inst[r].net)
    /\ MayCommit(r)
    /\ row' = [row EXCEPT ![target[r]] = NewRow(r)]
    /\ used' = [n \in Nets |->
                  used[n] + (IF n = newNet[r] THEN Growth(r) ELSE 0)
                          - (IF Moved(r) /\ n = inst[r].net THEN oldBytes[r] ELSE 0)]
    /\ ReleaseAll(r)
    /\ pc' = [pc EXCEPT ![r] = "ok"]
    /\ UNCHANGED <<files, target, base, seen, inst, oldBytes, newSize, newNet,
                   sweepVars, history>>

(* The transaction is rolled back; the storage is not.                     *)
RollBack(r) ==
    /\ pc[r] \in InTransaction
    /\ ReleaseAll(r)
    /\ broken' = IF pc[r] \in {"filed", "row"} THEN broken \cup {target[r]} ELSE broken
    /\ pc' = [pc EXCEPT ![r] = "failed"]
    /\ UNCHANGED <<row, files, used, target, base, seen, inst, oldBytes, newSize,
                   newNet, sweepVars, stale>>

(* The database makes the transaction fail.                                *)
Abort(r) == (Deadlocked(r) \/ Underflow(r)) /\ RollBack(r)

(* A failing disk, a reference whose target has gone, a killed worker.     *)
Crash(r) == Faults /\ RollBack(r)

-----------------------------------------------------------------------------
(* Deletion.                                                               *)

(* The delete mutation, without "when": one UPDATE statement that leaves   *)
(* the update id alone.                                                    *)
Mark(c) ==
    /\ row[c].here /\ ~row[c].marked
    /\ CanTake(Nobody, c)
    /\ MayCommit(Nobody)
    /\ row' = [row EXCEPT ![c].marked = TRUE]
    /\ UNCHANGED <<files, used, reqVars, owner, sweepVars, history>>

(* sweepOutdated reads an expired content ...                              *)
SweepPick(c) ==
    /\ sweepPc = "idle"
    /\ row[c].here /\ row[c].marked
    /\ sweepPc' = "picked"
    /\ sweepOf' = c
    /\ sweepInst' = row[c]
    /\ UNCHANGED <<row, files, used, reqVars, owner, sweepBytes, history>>

(* ... and deletes that instance: deleteSizePreCb and the DELETE,          *)
SweepDelete ==
    /\ sweepPc = "picked"
    /\ CanTake(Sweeper, sweepOf)
    /\ Take(Sweeper, sweepOf)
    /\ sweepBytes' = Bytes(sweepOf, sweepInst)
    /\ sweepPc' = "locked"
    /\ UNCHANGED <<row, files, used, reqVars, sweepOf, sweepInst, history>>

(* deleteEncryptedFileCb, connected first,                                 *)
SweepFile ==
    /\ sweepPc = "locked"
    /\ files' = [files EXCEPT ![sweepOf] = @ \ {sweepInst.updateId}]
    /\ sweepPc' = "unfiled"
    /\ UNCHANGED <<row, used, reqVars, owner, sweepOf, sweepInst, sweepBytes, history>>

SweepUnderflow == sweepPc = "unfiled" /\ used[sweepInst.net] - sweepBytes < 0

(* deleteSizeCommitCb, and the end of the transaction.                     *)
SweepCommit ==
    /\ sweepPc = "unfiled"
    /\ ~SweepUnderflow
    /\ CanTake(Sweeper, sweepInst.net)
    /\ MayCommit(Sweeper)
    /\ row' = [row EXCEPT ![sweepOf].here = FALSE]
    /\ used' = [used EXCEPT ![sweepInst.net] = @ - sweepBytes]
    /\ ReleaseAll(Sweeper)
    /\ stale' = (stale \/ row[sweepOf] # sweepInst)
    /\ sweepPc' = "idle"
    /\ UNCHANGED <<files, reqVars, sweepOf, sweepInst, sweepBytes, broken>>

(* A bug: the failed transaction of the sweep is left open.                *)
SweepFailOpen ==
    /\ sweepPc \in {"locked", "unfiled"}
    /\ Deadlocked(Sweeper) \/ SweepUnderflow
    /\ broken' = IF sweepPc = "unfiled" THEN broken \cup {sweepOf} ELSE broken
    /\ sweepPc' = "idle"
    /\ UNCHANGED <<row, files, used, owner, reqVars, sweepOf, sweepInst, sweepBytes, stale>>

(* The error ends the sweep.                                               *)
SweepFail ==
    /\ sweepPc \in {"locked", "unfiled"}
    /\ Deadlocked(Sweeper) \/ SweepUnderflow
    /\ ReleaseAll(Sweeper)
    /\ broken' = IF sweepPc = "unfiled" THEN broken \cup {sweepOf} ELSE broken
    /\ sweepPc' = "idle"
    /\ UNCHANGED <<row, files, used, reqVars, sweepOf, sweepInst, sweepBytes, stale>>

-----------------------------------------------------------------------------
Handle(r) ==
    \/ \E s \in Sizes, n \in Nets : Prepare(r, s, n) \/ Reject(r, s, n)
    \/ Check(r) \/ SaveNet(r) \/ SaveFile(r) \/ SaveRow(r) \/ Commit(r)
    \/ Abort(r)

Sweep == SweepDelete \/ SweepFile \/ SweepCommit \/ SweepFail

(* Every request that can start is answered.                               *)
Done ==
    /\ \A r \in Requests : pc[r] \in Final \/ (pc[r] = "idle" /\ ~row[target[r]].here)
    /\ sweepPc = "idle"
    /\ UNCHANGED vars

Next ==
    \/ \E r \in Requests : Read(r) \/ Handle(r) \/ Crash(r)
    \/ \E c \in Contents : Mark(c) \/ SweepPick(c)
    \/ Sweep
    \/ Done

Spec == Init /\ [][Next]_vars

(* The threads run, and the lock queues of the database are served in      *)
(* turn.  Nobody has to call an endpoint or start a sweep.                 *)
Fairness ==
    /\ \A r \in Requests :
        /\ WF_vars(Handle(r))
        /\ SF_vars(SaveNet(r)) /\ SF_vars(SaveRow(r)) /\ SF_vars(Commit(r))
    /\ WF_vars(Sweep) /\ SF_vars(SweepDelete) /\ SF_vars(SweepCommit)

FairSpec == Spec /\ Fairness

-----------------------------------------------------------------------------
(* Properties.                                                             *)

(* An update answered with writeok = True is part of every later value of  *)
(* its content: design.md says of the update id that it "fixes problem     *)
(* with lost updates".  The check and the write are different statements,  *)
(* so this rests on what the database lets happen between them.            *)
NoLostUpdate ==
    \A r \in Requests :
        pc[r] = "ok" /\ row[target[r]].here => r \in row[target[r]].merged

(* Why it holds with one write lock.  The parts of the inductive invariant: *)

(* whoever has begun to write holds the lock;                              *)
WriterHoldsLock ==
    /\ \A r \in Requests : pc[r] \in {"net", "filed", "row"} => owner[Database] = r
    /\ sweepPc \in {"locked", "unfiled"} => owner[Database] = Sweeper

(* what was checked is still so;                                           *)
CheckStillHolds == \A r \in Requests : pc[r] \in InTransaction => Matches(r)

(* an update id belongs to one value, so who read the id read that value;  *)
ReadTogether ==
    \A r \in Requests :
        pc[r] \notin {"idle"} \cup Final /\ row[target[r]].updateId = base[r] =>
            seen[r] = row[target[r]].merged

(* the update ids in use come from updates that are done.                  *)
IdsOfDoneUpdates ==
    /\ \A c \in Contents : row[c].updateId # Initial => pc[row[c].updateId] = "ok"
    /\ \A r \in Requests : base[r] # Initial => pc[base[r]] = "ok"

SerialInvariant ==
    /\ TypeOK
    /\ WriterHoldsLock
    /\ CheckStillHolds
    /\ ReadTogether
    /\ IdsOfDoneUpdates
    /\ NoLostUpdate

(* The handlers together implement writes that check and store in one      *)
(* step; what a request does before its commit is invisible, and so are    *)
(* the marks.                                                              *)
AtomicStored ==
    [c \in Contents |-> [here |-> row[c].here, id |-> row[c].updateId,
                        merged |-> row[c].merged]]

AtomicAnswer ==
    [r \in Requests |-> IF pc[r] \in InTransaction \cup {"prepared"} THEN "read" ELSE pc[r]]

AtomicWrites == INSTANCE VersionedContent WITH
    stored <- AtomicStored, answer <- AtomicAnswer

ImplementsAtomicWrites == AtomicWrites!Spec

(* A content that is deleted stays deleted: the full-row save of an update *)
(* that passed its check inserts a row that has gone meanwhile.            *)
NoResurrection == [][\A c \in Contents : row'[c].here => row[c].here]_vars

(* Nothing is between its first change of the storage and its commit.      *)
Quiet(c) ==
    /\ \A r \in Requests : target[r] = c => pc[r] \notin {"filed", "row"}
    /\ sweepOf = c => sweepPc # "unfiled"

(* bytes_in_use, kept by differences computed from an instance fetched     *)
(* long before, is what calculate_bytes_in_use finds, unless a sweep has   *)
(* deleted a row that was updated after it had read it, or a rollback took *)
(* a file with it.                                                         *)
UsageExact ==
    (\A c \in Contents : Quiet(c)) /\ ~stale /\ broken = {} =>
        \A n \in Nets : used[n] = CalculatedBytes(n)

(* Rows and storage agree: a row has its file, and no other file of the    *)
(* content is left over.                                                   *)
StorageMatches ==
    \A c \in Contents :
        Quiet(c) /\ ~stale /\ c \notin broken =>
            files[c] = IF row[c].here THEN {row[c].updateId} ELSE {}

(* A request is refused only if an update that overtook it has changed the *)
(* content, or it is gone: a client that retries makes others progress.    *)
RefusedOnlyIfOvertaken ==
    \A r \in Requests :
        pc[r] = "refused" =>
            \/ ~row[target[r]].here
            \/ \E q \in Requests \ {r} : target[q] = target[r] /\ pc[q] = "ok"

(* A mark survives every update except one whose instance was fetched      *)
(* before the mark was set.                                                *)
UnmarkedOnlyByStaleSave ==
    [][\A c \in Contents :
        row[c].marked /\ ~row'[c].marked =>
            \E r \in Requests : target[r] = c /\ pc[r] = "row" /\ ~inst[r].marked]_vars

(* Every request is answered, although transactions wait for each other's  *)
(* locks in orders that cross.                                             *)
Answered == \A r \in Requests : pc[r] = "read" ~> pc[r] \in Final
=============================================================================
