------------------------ MODULE ContentUpdate_proofs ------------------------
(***************************************************************************)
(* Proofs about ContentUpdate.  For every isolation: type correctness,     *)
(* why requests are refused, and when a mark may go.  For a database with  *)
(* one write lock: that no acknowledged update is ever lost, that nothing  *)
(* deleted comes back, that rows and files agree, and that the handlers    *)
(* implement VersionedContent.  The argument of these is SerialInvariant:  *)
(* whoever has begun to write holds the lock, a commit waits for everyone  *)
(* who has checked, and so what was checked still holds when it is         *)
(* written.                                                                *)
(***************************************************************************)
EXTENDS ContentUpdate, FiniteSetTheorems, WellFoundedInduction, TLAPS

(* What ConstantsAssumption says of the sizes.                             *)
LEMMA SizesAreNumbers == Overhead \in Nat /\ \A s \in Sizes : s \in Nat
PROOF BY ConstantsAssumption DEF ConstantsAssumption

(* The size of an instance is a number.                                    *)
LEMMA BytesType ==
    ASSUME NEW c, NEW instance \in Row
    PROVE  Bytes(c, instance) \in Nat
PROOF
<1>1. instance.size \in Nat
    BY SizesAreNumbers DEF Row
<1> QED
    BY <1>1, SizesAreNumbers DEF Bytes

(* The initial states are of the types.                                    *)
LEMMA TypeInit == Init => TypeOK
PROOF
<1> SUFFICES ASSUME Init PROVE TypeOK
    OBVIOUS
<1>1. \A c \in Contents : InitRow(c) \in Row
    BY ConstantsAssumption DEF InitRow, Row, UpdateIds, ConstantsAssumption
<1>2. ASSUME NEW n \in Nets
      PROVE  Cardinality({c \in Contents : HomeNet[c] = n}) \in Nat
    BY ConstantsAssumption, FS_Subset, FS_CardinalityType DEF ConstantsAssumption
<1>3. used \in [Nets -> Int]
    <2>1. Overhead + InitSize \in Int
        BY ConstantsAssumption DEF ConstantsAssumption
    <2> QED
        BY <1>2, <2>1 DEF Init
<1>4. row \in [Contents -> Row] /\ sweepInst \in Row /\ inst \in [Requests -> Row]
    BY <1>1 DEF Init
<1>5. owner \in [Locks -> Requests \cup {Sweeper, Nobody}]
    BY DEF Init
<1>6. newNet \in [Requests -> Nets] /\ newSize \in [Requests -> Sizes]
    BY ConstantsAssumption DEF Init, ConstantsAssumption
<1> QED
    BY <1>3, <1>4, <1>5, <1>6 DEF Init, TypeOK, UpdateIds, Steps

(* Every step of a request keeps the types.                                *)
LEMMA TypeRequest ==
    ASSUME TypeOK, NEW r \in Requests, Read(r) \/ Handle(r) \/ Crash(r)
    PROVE  TypeOK'
PROOF
<1> USE DEF reqVars, sweepVars, history
<1>1. CASE Read(r)
    BY <1>1 DEF Read, TypeOK, Row, Steps
<1>2. ASSUME NEW s \in Sizes, NEW n \in Nets, Prepare(r, s, n) PROVE TypeOK'
    <2>1. Bytes(target[r], row[target[r]]) \in Nat
        BY BytesType DEF TypeOK
    <2> QED
        BY <1>2, <2>1 DEF Prepare, TypeOK, Steps
<1>3. ASSUME NEW s \in Sizes, NEW n \in Nets, Reject(r, s, n) PROVE TypeOK'
    BY <1>3 DEF Reject, TypeOK, Steps
<1>4. CASE Check(r)
    BY <1>4 DEF Check, TypeOK, Steps
<1>5. CASE SaveNet(r)
    BY <1>5 DEF SaveNet, Take, TypeOK, Steps
<1>6. CASE SaveFile(r)
    BY <1>6 DEF SaveFile, FilesAfter, TypeOK, Steps, UpdateIds
<1>7. CASE SaveRow(r)
    BY <1>7 DEF SaveRow, Take, TypeOK, Steps
<1>8. CASE Commit(r)
    <2>1. NewRow(r) \in Row
        BY DEF NewRow, TypeOK, Row, UpdateIds
    <2>2. row' \in [Contents -> Row]
        BY <1>8, <2>1 DEF Commit, TypeOK
    <2>3. Growth(r) \in Int
        BY SizesAreNumbers DEF Growth, TypeOK
    <2>4. used' \in [Nets -> Int]
        BY <1>8, <2>3 DEF Commit, TypeOK
    <2>5. owner' \in [Locks -> Requests \cup {Sweeper, Nobody}]
        BY <1>8 DEF Commit, ReleaseAll, TypeOK
    <2> QED
        BY <1>8, <2>2, <2>4, <2>5 DEF Commit, TypeOK, Steps
<1>9. CASE RollBack(r)
    <2>1. owner' \in [Locks -> Requests \cup {Sweeper, Nobody}]
        BY <1>9 DEF RollBack, ReleaseAll, TypeOK
    <2> QED
        BY <1>9, <2>1 DEF RollBack, TypeOK, Steps
<1> QED
    BY <1>1, <1>2, <1>3, <1>4, <1>5, <1>6, <1>7, <1>8, <1>9 DEF Handle, Abort, Crash

(* So does every step of a deletion.                                       *)
LEMMA TypeDeletion ==
    ASSUME TypeOK, (\E c \in Contents : Mark(c) \/ SweepPick(c)) \/ Sweep
    PROVE  TypeOK'
PROOF
<1> USE DEF reqVars, sweepVars, history
<1>1. ASSUME NEW c \in Contents, Mark(c) PROVE TypeOK'
    BY <1>1 DEF Mark, TypeOK, Row
<1>2. ASSUME NEW c \in Contents, SweepPick(c) PROVE TypeOK'
    BY <1>2 DEF SweepPick, TypeOK
<1>3. CASE SweepDelete
    <2>1. Bytes(sweepOf, sweepInst) \in Nat
        BY BytesType DEF TypeOK
    <2> QED
        BY <1>3, <2>1 DEF SweepDelete, Take, TypeOK
<1>4. CASE SweepFile
    BY <1>4 DEF SweepFile, TypeOK
<1>5. CASE SweepCommit
    <2>1. owner' \in [Locks -> Requests \cup {Sweeper, Nobody}]
        BY <1>5 DEF SweepCommit, ReleaseAll, TypeOK
    <2>2. row' \in [Contents -> Row]
        BY <1>5 DEF SweepCommit, TypeOK, Row
    <2>3. sweepInst.net \in Nets /\ used' \in [Nets -> Int]
        BY <1>5 DEF SweepCommit, TypeOK, Row
    <2> QED
        BY <1>5, <2>1, <2>2, <2>3 DEF SweepCommit, TypeOK
<1>6. CASE SweepFail
    <2>1. owner' \in [Locks -> Requests \cup {Sweeper, Nobody}]
        BY <1>6 DEF SweepFail, ReleaseAll, TypeOK
    <2> QED
        BY <1>6, <2>1 DEF SweepFail, TypeOK
<1> QED
    BY <1>1, <1>2, <1>3, <1>4, <1>5, <1>6 DEF Sweep

(* Every step keeps the types.                                             *)
LEMMA TypeStep == TypeOK /\ [Next]_vars => TypeOK'
PROOF
<1> SUFFICES ASSUME TypeOK, [Next]_vars PROVE TypeOK'
    OBVIOUS
<1>1. CASE UNCHANGED vars
    BY <1>1 DEF vars, reqVars, sweepVars, history, TypeOK
<1>2. CASE Next
    BY <1>1, <1>2, TypeRequest, TypeDeletion DEF Next, Done
<1> QED
    BY <1>1, <1>2

(* Rows, files, sizes and the states of the handlers keep their types,     *)
(* whatever the isolation of the database.                                 *)
THEOREM TypeCorrect == Spec => []TypeOK
PROOF
    BY TypeInit, TypeStep, PTL DEF Spec

-----------------------------------------------------------------------------
(* One write lock.                                                         *)

Parts == WriterHoldsLock /\ CheckStillHolds /\ ReadTogether /\ IdsOfDoneUpdates
           /\ NoLostUpdate

(* The initial states satisfy the invariant: nobody has done anything.     *)
LEMMA SerialInit == Init => SerialInvariant
PROOF
<1> SUFFICES ASSUME Init PROVE Parts
    BY TypeInit DEF SerialInvariant, Parts
<1>1. \A r \in Requests : pc[r] = "idle" /\ base[r] = Initial
    BY DEF Init
<1>2. \A c \in Contents : row[c].updateId = Initial
    BY DEF Init, InitRow
<1>3. WriterHoldsLock
    BY <1>1 DEF WriterHoldsLock, Init
<1>4. CheckStillHolds /\ ReadTogether
    BY <1>1 DEF CheckStillHolds, ReadTogether, InTransaction
<1>5. IdsOfDoneUpdates /\ NoLostUpdate
    BY <1>1, <1>2 DEF IdsOfDoneUpdates, NoLostUpdate
<1> QED
    BY <1>3, <1>4, <1>5 DEF Parts

(* With one lock, taking any row or net takes it, and needs it free.       *)
LEMMA OneLock ==
    ASSUME Serializable, TypeOK
    PROVE  /\ \A p, x : CanTake(p, x) <=> owner[Database] \in {p, Nobody}
           /\ \A p, x : Take(p, x) => owner'[Database] = p
           /\ \A p : ReleaseAll(p) /\ owner[Database] # p => owner'[Database] = owner[Database]
PROOF
    BY DEF CanTake, Take, ReleaseAll, LockOf, Locks, TypeOK

(* While a request commits, no other request is in a transaction.          *)
LEMMA CommitAlone ==
    ASSUME Serializable, TypeOK, WriterHoldsLock, NEW r \in Requests, Commit(r),
           NEW q \in Requests \ {r}
    PROVE  pc[q] \notin InTransaction
PROOF
<1>1. pc[q] # "checked"
    BY DEF Commit, MayCommit
<1>2. owner[Database] = r
    BY DEF Commit, WriterHoldsLock
<1>3. pc[q] \notin {"net", "filed", "row"}
    BY <1>2 DEF WriterHoldsLock
<1> QED
    BY <1>1, <1>3 DEF InTransaction

(* Nor while a sweep does.                                                 *)
LEMMA SweepAlone ==
    ASSUME Serializable, TypeOK, WriterHoldsLock, SweepCommit, NEW q \in Requests
    PROVE  pc[q] \notin InTransaction
PROOF
<1>1. pc[q] # "checked" /\ Sweeper # q
    BY ConstantsAssumption DEF SweepCommit, MayCommit, ConstantsAssumption
<1>2. owner[Database] = Sweeper
    BY DEF SweepCommit, WriterHoldsLock
<1>3. pc[q] \notin {"net", "filed", "row"}
    BY <1>1, <1>2 DEF WriterHoldsLock
<1> QED
    BY <1>1, <1>3 DEF InTransaction

(* Steps of a request before its first lock: they leave rows and locks     *)
(* alone, and their own record is in line with the row.                    *)
LEMMA SerialBefore ==
    ASSUME Serializable, SerialInvariant, NEW r \in Requests,
           \/ Read(r) \/ Check(r)
           \/ \E s \in Sizes, n \in Nets : Prepare(r, s, n) \/ Reject(r, s, n)
    PROVE  Parts'
PROOF
<1> USE DEF sweepVars, history
<1>1. row' = row /\ owner' = owner /\ target' = target /\ sweepPc' = sweepPc
    BY DEF Read, Check, Prepare, Reject
<1>2. \A q \in Requests \ {r} : pc'[q] = pc[q] /\ base'[q] = base[q] /\ seen'[q] = seen[q]
    BY DEF Read, Check, Prepare, Reject, SerialInvariant, TypeOK
<1>3. /\ pc[r] \in {"idle", "read", "prepared"}
      /\ pc'[r] \in {"read", "prepared", "checked", "refused", "failed"}
      /\ pc'[r] = "checked" => Matches(r)
    BY DEF Read, Check, Prepare, Reject, SerialInvariant, TypeOK
<1>4. \/ /\ base'[r] = row[target[r]].updateId
         /\ seen'[r] = row[target[r]].merged
      \/ /\ base'[r] = base[r] /\ seen'[r] = seen[r]
         /\ pc[r] \in {"read", "prepared"}
    BY DEF Read, Check, Prepare, Reject, SerialInvariant, TypeOK
<1>5. target[r] \in Contents
    BY DEF SerialInvariant, TypeOK
<1>6. WriterHoldsLock'
    BY <1>1, <1>2, <1>3 DEF SerialInvariant, WriterHoldsLock
<1>7. CheckStillHolds'
    <2>1. pc[r] # "idle" => base'[r] = base[r]
        BY DEF Read, Check, Prepare, Reject
    <2>2. pc[r] = "idle" => pc'[r] = "read"
        BY DEF Read, Check, Prepare, Reject, SerialInvariant, TypeOK
    <2>3. pc'[r] = "checked" => base'[r] = base[r]
        BY <2>1, <2>2
    <2> QED
        BY <1>1, <1>2, <1>3, <2>3
        DEF SerialInvariant, CheckStillHolds, Matches, InTransaction
<1>8. ReadTogether'
    BY <1>1, <1>2, <1>3, <1>4 DEF SerialInvariant, ReadTogether, Final
<1>9. IdsOfDoneUpdates'
    <2>1. \A id \in UpdateIds : id # Initial /\ pc[id] = "ok" => pc'[id] = "ok"
        BY <1>2, <1>3 DEF UpdateIds
    <2>2. \A c \in Contents : row[c].updateId \in UpdateIds
        BY DEF SerialInvariant, TypeOK, Row
    <2>3. \A q \in Requests : base'[q] # Initial => pc'[base'[q]] = "ok"
        <3>1. base[r] # Initial => pc'[base[r]] = "ok"
            BY <2>1 DEF SerialInvariant, TypeOK, IdsOfDoneUpdates
        <3>2. row[target[r]].updateId # Initial => pc'[row[target[r]].updateId] = "ok"
            BY <1>5, <2>1, <2>2 DEF SerialInvariant, IdsOfDoneUpdates
        <3>3. \A q \in Requests \ {r} : base[q] # Initial => pc'[base[q]] = "ok"
            BY <2>1 DEF SerialInvariant, TypeOK, IdsOfDoneUpdates
        <3> QED
            BY <1>2, <1>4, <3>1, <3>2, <3>3
    <2> QED
        BY <1>1, <2>1, <2>2, <2>3 DEF SerialInvariant, IdsOfDoneUpdates
<1>10. NoLostUpdate'
    BY <1>1, <1>2, <1>3 DEF SerialInvariant, NoLostUpdate
<1> QED
    BY <1>6, <1>7, <1>8, <1>9, <1>10 DEF Parts

(* Steps inside the transaction, and its rollback: rows stay as they are.  *)
LEMMA SerialInside ==
    ASSUME Serializable, SerialInvariant, NEW r \in Requests,
           SaveNet(r) \/ SaveFile(r) \/ SaveRow(r) \/ RollBack(r)
    PROVE  Parts'
PROOF
<1> USE DEF sweepVars, history
<1>1. /\ row' = row /\ target' = target /\ sweepPc' = sweepPc
      /\ base' = base /\ seen' = seen
    BY DEF SaveNet, SaveFile, SaveRow, RollBack
<1>2. /\ \A q \in Requests \ {r} : pc'[q] = pc[q]
      /\ pc[r] \in InTransaction
      /\ pc'[r] \in {"net", "filed", "row", "failed"}
    BY DEF SaveNet, SaveFile, SaveRow, RollBack, SerialInvariant, TypeOK, InTransaction
<1>3. WriterHoldsLock'
    <2>1. CASE SaveNet(r) \/ SaveRow(r)
        <3>1. owner[Database] \in {r, Nobody} /\ owner'[Database] = r
            BY <2>1, OneLock DEF SaveNet, SaveRow, SerialInvariant
        <3>2. Nobody \notin Requests \cup {Sweeper} /\ Sweeper \notin Requests
            BY ConstantsAssumption DEF ConstantsAssumption
        <3> QED
            BY <1>1, <1>2, <3>1, <3>2 DEF SerialInvariant, WriterHoldsLock
    <2>2. CASE SaveFile(r)
        BY <1>1, <1>2, <2>2 DEF SaveFile, SerialInvariant, WriterHoldsLock
    <2>3. CASE RollBack(r)
        <3>1. pc'[r] = "failed"
            BY <2>3 DEF RollBack, SerialInvariant, TypeOK
        <3>2. owner[Database] # r => owner'[Database] = owner[Database]
            BY <2>3, OneLock DEF RollBack, SerialInvariant
        <3>3. Sweeper # r
            BY ConstantsAssumption DEF ConstantsAssumption
        <3> QED
            BY <1>1, <1>2, <3>1, <3>2, <3>3 DEF SerialInvariant, WriterHoldsLock
    <2> QED
        BY <2>1, <2>2, <2>3
<1>4. CheckStillHolds'
    BY <1>1, <1>2 DEF SerialInvariant, CheckStillHolds, Matches, InTransaction
<1>5. ReadTogether'
    BY <1>1, <1>2 DEF SerialInvariant, ReadTogether, InTransaction, Final
<1>6. \A q \in Requests : pc[q] = "ok" <=> pc'[q] = "ok"
    BY <1>2 DEF InTransaction
<1>7. IdsOfDoneUpdates'
    BY <1>1, <1>6 DEF SerialInvariant, IdsOfDoneUpdates, TypeOK, Row, UpdateIds
<1>8. NoLostUpdate'
    BY <1>1, <1>6 DEF SerialInvariant, NoLostUpdate
<1> QED
    BY <1>3, <1>4, <1>5, <1>7, <1>8 DEF Parts

(* The commit: what r read is what it replaces.                            *)
LEMMA SerialCommit ==
    ASSUME Serializable, SerialInvariant, NEW r \in Requests, Commit(r)
    PROVE  Parts'
PROOF
<1> USE DEF sweepVars, history
<1>1. /\ target' = target /\ sweepPc' = sweepPc /\ base' = base /\ seen' = seen
      /\ pc[r] = "row" /\ pc'[r] = "ok"
      /\ \A q \in Requests \ {r} : pc'[q] = pc[q]
    BY DEF Commit, SerialInvariant, TypeOK
<1>2. /\ \A c \in Contents : c # target[r] => row'[c] = row[c]
      /\ row'[target[r]] = NewRow(r)
    BY DEF Commit, SerialInvariant, TypeOK
<1>3. \A q \in Requests \ {r} : pc[q] \notin InTransaction
    BY CommitAlone DEF SerialInvariant
<1>4. \A q \in Requests : base[q] # r
    BY <1>1, ConstantsAssumption
    DEF SerialInvariant, IdsOfDoneUpdates, ConstantsAssumption
<1>5. WriterHoldsLock'
    <2>1. owner[Database] = r /\ Sweeper # r
        BY <1>1, ConstantsAssumption DEF SerialInvariant, WriterHoldsLock, ConstantsAssumption
    <2> QED
        BY <1>1, <1>3, <2>1 DEF SerialInvariant, WriterHoldsLock, InTransaction
<1>6. CheckStillHolds'
    BY <1>1, <1>3 DEF CheckStillHolds, InTransaction
<1>7. ReadTogether'
    <2>1. NewRow(r).updateId = r
        BY DEF NewRow
    <2>2. ASSUME NEW q \in Requests, pc'[q] \notin {"idle"} \cup Final,
                 row'[target[q]].updateId = base[q]
          PROVE  seen[q] = row'[target[q]].merged
        <3>1. q # r /\ target[q] \in Contents
            BY <1>1, <2>2 DEF Final, SerialInvariant, TypeOK
        <3>2. target[q] # target[r]
            BY <1>2, <1>4, <2>1, <2>2
        <3>3. row'[target[q]] = row[target[q]]
            BY <1>2, <3>1, <3>2
        <3> QED
            BY <1>1, <2>2, <3>1, <3>3 DEF SerialInvariant, ReadTogether
    <2> QED
        BY <1>1, <2>2 DEF ReadTogether
<1>8. IdsOfDoneUpdates'
    <2>1. \A id \in UpdateIds : pc[id] = "ok" => pc'[id] = "ok"
        BY <1>1, ConstantsAssumption
        DEF UpdateIds, Commit, SerialInvariant, TypeOK, ConstantsAssumption
    <2>2. NewRow(r).updateId = r
        BY DEF NewRow
    <2>3. \A c \in Contents : row[c].updateId \in UpdateIds
        BY DEF SerialInvariant, TypeOK, Row
    <2>4. \A c \in Contents : row'[c].updateId # Initial => pc'[row'[c].updateId] = "ok"
        BY <1>1, <1>2, <2>1, <2>2, <2>3 DEF SerialInvariant, IdsOfDoneUpdates
    <2> QED
        BY <1>1, <2>1, <2>4 DEF SerialInvariant, IdsOfDoneUpdates, TypeOK
<1>9. NoLostUpdate'
    <2>1. Matches(r)
        BY <1>1 DEF SerialInvariant, CheckStillHolds, InTransaction
    <2>2. seen[r] = row[target[r]].merged
        BY <1>1, <2>1 DEF SerialInvariant, ReadTogether, Matches, Final
    <2>3. NewRow(r).merged = row[target[r]].merged \cup {r}
        BY <2>2 DEF NewRow
    <2>4. ASSUME NEW q \in Requests, pc'[q] = "ok", row'[target[q]].here
          PROVE  q \in row'[target[q]].merged
        <3>1. CASE q = r
            BY <1>2, <2>3, <3>1
        <3>2. CASE q # r /\ target[q] = target[r]
            <4>1. q \in row[target[r]].merged
                BY <1>1, <2>1, <2>4, <3>2 DEF SerialInvariant, NoLostUpdate, Matches
            <4> QED
                BY <1>2, <2>3, <3>2, <4>1
        <3>3. CASE q # r /\ target[q] # target[r]
            BY <1>1, <1>2, <2>4, <3>3 DEF SerialInvariant, NoLostUpdate, TypeOK
        <3> QED
            BY <3>1, <3>2, <3>3
    <2> QED
        BY <1>1, <2>4 DEF NoLostUpdate
<1> QED
    BY <1>5, <1>6, <1>7, <1>8, <1>9 DEF Parts

(* Marks and sweeps: update ids and values stay, a row may go.             *)
LEMMA SerialDeletion ==
    ASSUME Serializable, SerialInvariant,
           (\E c \in Contents : Mark(c) \/ SweepPick(c)) \/ Sweep
    PROVE  Parts'
PROOF
<1> USE DEF reqVars, sweepVars, history
<1>a. pc' = pc /\ target' = target /\ base' = base /\ seen' = seen
    BY DEF Mark, SweepPick, Sweep, SweepDelete, SweepFile, SweepCommit, SweepFail
<1>b. ASSUME NEW c \in Contents
      PROVE  /\ row'[c].updateId = row[c].updateId
             /\ row'[c].merged = row[c].merged
             /\ row'[c].here => row[c].here
             /\ ~SweepCommit => row'[c].here = row[c].here
    <2>1. row \in [Contents -> Row]
        BY DEF SerialInvariant, TypeOK
    <2>2. ASSUME NEW d \in Contents, Mark(d) PROVE row' = [row EXCEPT ![d].marked = TRUE]
        BY <2>2 DEF Mark
    <2>3. CASE SweepCommit
        BY <2>1, <2>3 DEF SweepCommit, Row
    <2>4. CASE \E d \in Contents : Mark(d)
        BY <2>1, <2>2, <2>4 DEF Row
    <2>5. CASE SweepDelete \/ SweepFile \/ SweepFail \/ \E d \in Contents : SweepPick(d)
        BY <2>5 DEF SweepPick, SweepDelete, SweepFile, SweepFail
    <2> QED
        BY <2>3, <2>4, <2>5 DEF Sweep
<1>1. /\ pc' = pc /\ target' = target /\ base' = base /\ seen' = seen
      /\ \A c \in Contents :
            /\ row'[c].updateId = row[c].updateId
            /\ row'[c].merged = row[c].merged
            /\ row'[c].here => row[c].here
    BY <1>a, <1>b
<1>2. Nobody \notin Requests \cup {Sweeper} /\ Sweeper \notin Requests
    BY ConstantsAssumption DEF ConstantsAssumption
<1>3. WriterHoldsLock'
    <2>1. CASE SweepDelete
        <3>1. owner[Database] \in {Sweeper, Nobody} /\ owner'[Database] = Sweeper
            BY <2>1, OneLock DEF SweepDelete, SerialInvariant
        <3> QED
            BY <1>1, <1>2, <2>1, <3>1 DEF SerialInvariant, WriterHoldsLock
    <2>2. CASE SweepCommit \/ SweepFail
        <3>1. sweepPc' = "idle" /\ owner[Database] = Sweeper
            BY <2>2 DEF SweepCommit, SweepFail, SerialInvariant, WriterHoldsLock
        <3> QED
            BY <1>1, <1>2, <3>1 DEF SerialInvariant, WriterHoldsLock
    <2>3. CASE SweepFile \/ \E c \in Contents : Mark(c) \/ SweepPick(c)
        BY <1>1, <2>3 DEF SweepFile, Mark, SweepPick, SerialInvariant, WriterHoldsLock
    <2> QED
        BY <2>1, <2>2, <2>3 DEF Sweep
<1>4. CheckStillHolds'
    <2>1. CASE SweepCommit
        BY <1>1, <2>1, SweepAlone DEF SerialInvariant, CheckStillHolds
    <2>2. CASE ~SweepCommit
        <3>1. \A c \in Contents : row'[c].here = row[c].here
            BY <1>b, <2>2
        <3> QED
            BY <1>1, <3>1 DEF SerialInvariant, CheckStillHolds, Matches, TypeOK
    <2> QED
        BY <2>1, <2>2
<1>5. ReadTogether' /\ IdsOfDoneUpdates' /\ NoLostUpdate'
    BY <1>1 DEF SerialInvariant, ReadTogether, IdsOfDoneUpdates, NoLostUpdate, TypeOK
<1> QED
    BY <1>3, <1>4, <1>5 DEF Parts

(* SerialInvariant is inductive.                                           *)
LEMMA SerialStep ==
    ASSUME Serializable
    PROVE  SerialInvariant /\ [Next]_vars => SerialInvariant'
PROOF
<1> SUFFICES ASSUME SerialInvariant, [Next]_vars PROVE Parts'
    BY TypeStep DEF SerialInvariant, Parts
<1>1. CASE UNCHANGED vars
    BY <1>1 DEF vars, reqVars, sweepVars, history, SerialInvariant, Parts, WriterHoldsLock,
                CheckStillHolds, Matches, ReadTogether, IdsOfDoneUpdates, NoLostUpdate
<1>2. ASSUME NEW r \in Requests, Read(r) \/ Handle(r) \/ Crash(r) PROVE Parts'
    BY <1>2, SerialBefore, SerialInside, SerialCommit DEF Handle, Abort, Crash
<1> QED
    BY <1>1, <1>2, SerialDeletion DEF Next, Done

(* No acknowledged update is lost as long as the database has one write    *)
(* lock (the default SQLite file), for any number of contents, nets and    *)
(* concurrent requests, with crashes and sweeps at any point.              *)
THEOREM AcknowledgedUpdatesStay ==
    ASSUME Serializable
    PROVE  Spec => []NoLostUpdate
PROOF
<1>1. SerialInvariant => NoLostUpdate
    BY DEF SerialInvariant
<1> QED
    BY <1>1, SerialInit, SerialStep, PTL DEF Spec

-----------------------------------------------------------------------------
(* The handlers implement atomic conditional writes.                       *)

(* The initial states are initial states of VersionedContent.              *)
LEMMA SimulateInit == Init => AtomicWrites!Init
PROOF
    BY DEF Init, InitRow, AtomicWrites!Init, AtomicStored, AtomicAnswer, InTransaction

(* A step of a request is a step of VersionedContent, or none.             *)
LEMMA SimulateRequest ==
    ASSUME Serializable, SerialInvariant, NEW r \in Requests,
           Read(r) \/ Handle(r) \/ Crash(r)
    PROVE  \/ AtomicWrites!Read(r) \/ AtomicWrites!Accept(r)
           \/ AtomicWrites!Refuse(r) \/ AtomicWrites!Fail(r)
           \/ UNCHANGED AtomicWrites!vars
PROOF
<1> USE DEF sweepVars, history, InTransaction
<1>1. /\ target[r] \in Contents /\ pc \in [Requests -> Steps]
      /\ row \in [Contents -> Row]
    BY DEF SerialInvariant, TypeOK
<1>2. CASE Read(r)
    BY <1>1, <1>2 DEF Read, AtomicWrites!Read, AtomicStored, AtomicAnswer
<1>3. CASE \E s \in Sizes, n \in Nets : Prepare(r, s, n)
    BY <1>1, <1>3 DEF Prepare, AtomicWrites!vars, AtomicStored, AtomicAnswer
<1>4. CASE \E s \in Sizes, n \in Nets : Reject(r, s, n)
    BY <1>1, <1>4 DEF Reject, AtomicWrites!Fail, AtomicStored, AtomicAnswer
<1>5. CASE Check(r) /\ Matches(r)
    BY <1>1, <1>5 DEF Check, AtomicWrites!vars, AtomicStored, AtomicAnswer
<1>6. CASE Check(r) /\ ~Matches(r)
    BY <1>1, <1>6 DEF Check, Matches, AtomicWrites!Refuse, AtomicWrites!Current,
                      AtomicStored, AtomicAnswer
<1>7. CASE SaveNet(r) \/ SaveFile(r) \/ SaveRow(r)
    BY <1>1, <1>7 DEF SaveNet, SaveFile, SaveRow, AtomicWrites!vars, AtomicStored, AtomicAnswer
<1>8. CASE RollBack(r)
    BY <1>1, <1>8 DEF RollBack, AtomicWrites!Fail, AtomicStored, AtomicAnswer
<1>9. CASE Commit(r)
    <2>1. Matches(r) /\ pc[r] = "row"
        BY <1>9 DEF Commit, SerialInvariant, CheckStillHolds
    <2>2. AtomicStored' = [AtomicStored EXCEPT ![target[r]] = AtomicWrites!Written(r)]
        BY <1>1, <1>9 DEF Commit, NewRow, AtomicStored, AtomicWrites!Written
    <2>3. AtomicAnswer[r] = "read" /\ AtomicAnswer' = [AtomicAnswer EXCEPT ![r] = "ok"]
        BY <1>1, <1>9, <2>1 DEF Commit, AtomicAnswer
    <2>4. AtomicWrites!Current(r)
        BY <1>1, <2>1 DEF Matches, AtomicWrites!Current, AtomicStored
    <2> QED
        BY <1>9, <2>2, <2>3, <2>4 DEF Commit, AtomicWrites!Accept
<1> QED
    BY <1>2, <1>3, <1>4, <1>5, <1>6, <1>7, <1>8, <1>9 DEF Handle, Abort, Crash

(* A step of a deletion drops a content, or does nothing.                  *)
LEMMA SimulateDeletion ==
    ASSUME SerialInvariant, (\E c \in Contents : Mark(c) \/ SweepPick(c)) \/ Sweep
    PROVE  (\E c \in Contents : AtomicWrites!Drop(c)) \/ UNCHANGED AtomicWrites!vars
PROOF
<1> USE DEF reqVars, sweepVars, history
<1>1. row \in [Contents -> Row] /\ sweepOf \in Contents
    BY DEF SerialInvariant, TypeOK
<1>2. CASE SweepCommit
    <2>1. AtomicStored' = [AtomicStored EXCEPT ![sweepOf].here = FALSE]
        BY <1>1, <1>2 DEF SweepCommit, AtomicStored, Row
    <2>2. UNCHANGED <<target, base, seen, AtomicAnswer>>
        BY <1>2 DEF SweepCommit, AtomicAnswer
    <2>3. CASE AtomicStored[sweepOf].here
        BY <1>1, <2>1, <2>2, <2>3 DEF AtomicWrites!Drop
    <2>4. CASE ~AtomicStored[sweepOf].here
        <3>1. AtomicStored' = AtomicStored
            BY <1>1, <2>1, <2>4 DEF AtomicStored, Row
        <3> QED
            BY <2>2, <3>1 DEF AtomicWrites!vars
    <2> QED
        BY <2>3, <2>4
<1>3. ASSUME NEW c \in Contents, Mark(c) PROVE UNCHANGED AtomicWrites!vars
    <2>1. AtomicStored' = AtomicStored
        BY <1>1, <1>3 DEF Mark, AtomicStored, Row
    <2> QED
        BY <1>3, <2>1 DEF Mark, AtomicWrites!vars, AtomicAnswer
<1>4. CASE SweepDelete \/ SweepFile \/ SweepFail \/ \E c \in Contents : SweepPick(c)
    BY <1>4 DEF SweepPick, SweepDelete, SweepFile, SweepFail, AtomicWrites!vars,
                AtomicStored, AtomicAnswer
<1> QED
    BY <1>2, <1>3, <1>4 DEF Sweep

(* Every step of the detailed specification is one of the abstract, or     *)
(* none.                                                                   *)
LEMMA SimulateStep ==
    ASSUME Serializable
    PROVE  SerialInvariant /\ [Next]_vars => [AtomicWrites!Next]_(AtomicWrites!vars)
PROOF
<1> SUFFICES ASSUME SerialInvariant, [Next]_vars
             PROVE  AtomicWrites!Next \/ UNCHANGED AtomicWrites!vars
    OBVIOUS
<1>1. CASE UNCHANGED vars
    BY <1>1 DEF vars, reqVars, AtomicWrites!vars, AtomicStored, AtomicAnswer
<1>2. ASSUME NEW r \in Requests, Read(r) \/ Handle(r) \/ Crash(r)
      PROVE  AtomicWrites!Next \/ UNCHANGED AtomicWrites!vars
    BY <1>2, SimulateRequest DEF AtomicWrites!Next
<1>3. CASE (\E c \in Contents : Mark(c) \/ SweepPick(c)) \/ Sweep
    BY <1>3, SimulateDeletion DEF AtomicWrites!Next
<1> QED
    BY <1>1, <1>2, <1>3 DEF Next, Done

(* With one write lock the server keeps the promise of the update id: its  *)
(* handlers, statement by statement, implement writes that check the id    *)
(* and store the value in one step.                                        *)
THEOREM HandlersImplementAtomicWrites ==
    ASSUME Serializable
    PROVE  Spec => ImplementsAtomicWrites
PROOF
<1>1. Spec => []SerialInvariant
    BY SerialInit, SerialStep, PTL DEF Spec
<1> QED
    BY <1>1, SimulateInit, SimulateStep, PTL DEF Spec, ImplementsAtomicWrites, AtomicWrites!Spec
-----------------------------------------------------------------------------
(* What the isolation of the database does not matter for.                 *)

(* An update id in use belongs to an update of the same content that is    *)
(* done.                                                                   *)
IdsOfOthers ==
    /\ \A c \in Contents :
        row[c].updateId # Initial =>
            target[row[c].updateId] = c /\ pc[row[c].updateId] = "ok"
    /\ \A r \in Requests :
        base[r] # Initial => target[base[r]] = target[r] /\ pc[base[r]] = "ok"

RefusalInvariant == TypeOK /\ IdsOfOthers /\ RefusedOnlyIfOvertaken

(* Who finds another update id than the one it read has been overtaken.    *)
LEMMA OvertakenByOther ==
    ASSUME TypeOK, IdsOfOthers, NEW r \in Requests, pc[r] # "ok",
           row[target[r]].updateId # base[r]
    PROVE  \E q \in Requests \ {r} : target[q] = target[r] /\ pc[q] = "ok"
PROOF
<1>1. /\ target[r] \in Contents /\ row[target[r]].updateId \in Requests \cup {Initial}
      /\ base[r] \in Requests \cup {Initial}
    BY DEF TypeOK, Row, UpdateIds
<1>2. CASE row[target[r]].updateId # Initial
    BY <1>1, <1>2 DEF IdsOfOthers
<1>3. CASE base[r] # Initial
    BY <1>1, <1>3 DEF IdsOfOthers
<1> QED
    BY <1>2, <1>3

(* Every step of a request keeps that.                                     *)
LEMMA RefusalRequest ==
    ASSUME RefusalInvariant, NEW r \in Requests, Read(r) \/ Handle(r) \/ Crash(r)
    PROVE  IdsOfOthers' /\ RefusedOnlyIfOvertaken'
PROOF
<1> USE DEF sweepVars, history
<1>1. /\ target' = target /\ target \in [Requests -> Contents]
      /\ row \in [Contents -> Row] /\ base \in [Requests -> UpdateIds]
      /\ \A c \in Contents : row[c].updateId \in UpdateIds
    BY DEF Read, Handle, Prepare, Reject, Check, SaveNet, SaveFile, SaveRow, Commit, Abort, Crash,
           RollBack, RefusalInvariant, TypeOK, Row
<1>2. /\ pc[r] # "ok" /\ pc[r] # "refused" /\ pc' = [pc EXCEPT ![r] = pc'[r]]
      /\ pc'[r] = "refused" => Check(r) /\ ~Matches(r)
    BY DEF Read, Handle, Prepare, Reject, Check, SaveNet, SaveFile, SaveRow, Commit, Abort, Crash,
           RollBack, InTransaction, RefusalInvariant, TypeOK
<1>3. \A id \in UpdateIds \ {Initial} : pc[id] = "ok" => pc'[id] = "ok"
    BY <1>2 DEF UpdateIds, RefusalInvariant, TypeOK
<1>4. \A q \in Requests : q # r => pc'[q] = pc[q]
    BY <1>2 DEF RefusalInvariant, TypeOK
<1>5. \/ /\ \A c \in Contents : row'[c] = row[c]
         /\ \A q \in Requests : base'[q] \in {base[q], row[target[q]].updateId}
      \/ /\ Commit(r) /\ base' = base /\ pc'[r] = "ok"
         /\ row' = [row EXCEPT ![target[r]] = NewRow(r)]
    BY DEF Read, Handle, Prepare, Reject, Check, SaveNet, SaveFile, SaveRow, Commit, Abort, Crash,
           RollBack, RefusalInvariant, TypeOK
<1>6. NewRow(r).updateId = r /\ NewRow(r).here
    BY DEF NewRow
<1>7. IdsOfOthers'
    <2>1. \A c \in Contents : row'[c].updateId # Initial =>
             target[row'[c].updateId] = c /\ pc'[row'[c].updateId] = "ok"
        BY <1>1, <1>3, <1>5, <1>6 DEF RefusalInvariant, IdsOfOthers
    <2>2. \A q \in Requests : base'[q] # Initial =>
             target[base'[q]] = target[q] /\ pc'[base'[q]] = "ok"
        BY <1>1, <1>3, <1>5 DEF RefusalInvariant, IdsOfOthers
    <2> QED
        BY <1>1, <2>1, <2>2 DEF IdsOfOthers
<1>8. RefusedOnlyIfOvertaken'
    <2> SUFFICES ASSUME NEW q \in Requests, pc'[q] = "refused", row'[target[q]].here
                 PROVE  \E p \in Requests \ {q} : target[p] = target[q] /\ pc'[p] = "ok"
        BY <1>1 DEF RefusedOnlyIfOvertaken
    <2>1. CASE q = r
        <3>1. row[target[r]].here /\ ~Matches(r)
            BY <1>2, <2>1 DEF Check
        <3>2. row[target[r]].updateId # base[r]
            BY <3>1 DEF Matches
        <3>3. PICK p \in Requests \ {r} : target[p] = target[r] /\ pc[p] = "ok"
            BY <1>2, <3>2, OvertakenByOther DEF RefusalInvariant
        <3> QED
            BY <1>4, <2>1, <3>3
    <2>2. CASE q # r /\ row[target[q]].here
        <3>1. PICK p \in Requests \ {q} : target[p] = target[q] /\ pc[p] = "ok"
            BY <1>4, <2>2 DEF RefusalInvariant, RefusedOnlyIfOvertaken
        <3> QED
            BY <1>2, <1>4, <3>1
    <2>3. CASE q # r /\ ~row[target[q]].here
        <3>1. Commit(r) /\ target[q] = target[r] /\ pc'[r] = "ok"
            BY <1>1, <1>5, <2>3
        <3> QED
            BY <2>3, <3>1
    <2> QED
        BY <2>1, <2>2, <2>3
<1> QED
    BY <1>7, <1>8

(* Marks and sweeps change no update id, size or net, and bring no row     *)
(* back.                                                                   *)
LEMMA DeletionKeepsIds ==
    ASSUME TypeOK, (\E c \in Contents : Mark(c) \/ SweepPick(c)) \/ Sweep
    PROVE  \A c \in Contents :
             /\ row'[c].updateId = row[c].updateId
             /\ row'[c].size = row[c].size /\ row'[c].net = row[c].net
             /\ row'[c].here => row[c].here
PROOF
<1> USE DEF reqVars, sweepVars, history
<1>1. row \in [Contents -> Row]
    BY DEF TypeOK
<1>2. ASSUME NEW d \in Contents, Mark(d) PROVE row' = [row EXCEPT ![d].marked = TRUE]
    BY <1>2 DEF Mark
<1>3. CASE \E d \in Contents : Mark(d)
    BY <1>1, <1>2, <1>3 DEF Row
<1>4. CASE SweepCommit
    BY <1>1, <1>4 DEF SweepCommit, Row
<1>5. CASE SweepDelete \/ SweepFile \/ SweepFail \/ \E d \in Contents : SweepPick(d)
    BY <1>5 DEF SweepPick, SweepDelete, SweepFile, SweepFail
<1> QED
    BY <1>3, <1>4, <1>5 DEF Sweep

(* So does every step of a deletion: it changes no update id, and brings   *)
(* no row back.                                                            *)
LEMMA RefusalDeletion ==
    ASSUME RefusalInvariant, (\E c \in Contents : Mark(c) \/ SweepPick(c)) \/ Sweep
    PROVE  IdsOfOthers' /\ RefusedOnlyIfOvertaken'
PROOF
<1> USE DEF reqVars, sweepVars, history
<1>1. pc' = pc /\ target' = target /\ base' = base
    BY DEF Mark, SweepPick, Sweep, SweepDelete, SweepFile, SweepCommit, SweepFail
<1>2. row \in [Contents -> Row] /\ target \in [Requests -> Contents]
    BY DEF RefusalInvariant, TypeOK
<1>3. \A c \in Contents : row'[c].updateId = row[c].updateId /\ (row'[c].here => row[c].here)
    BY DeletionKeepsIds DEF RefusalInvariant
<1>4. IdsOfOthers'
    BY <1>1, <1>3 DEF RefusalInvariant, IdsOfOthers
<1>5. RefusedOnlyIfOvertaken'
    BY <1>1, <1>2, <1>3 DEF RefusalInvariant, RefusedOnlyIfOvertaken
<1> QED
    BY <1>4, <1>5

(* Whatever the database, no update is refused because of a mark, a sweep  *)
(* in progress or a rolled back update: only if its content is gone or     *)
(* another update of it was acknowledged.                                  *)
THEOREM RefusalsHaveCauses == Spec => []RefusedOnlyIfOvertaken
PROOF
<1>1. Init => RefusalInvariant
    BY TypeInit DEF Init, InitRow, RefusalInvariant, IdsOfOthers, RefusedOnlyIfOvertaken
<1>2. RefusalInvariant /\ [Next]_vars => RefusalInvariant'
    <2> SUFFICES ASSUME RefusalInvariant, [Next]_vars
                 PROVE  IdsOfOthers' /\ RefusedOnlyIfOvertaken'
        BY TypeStep DEF RefusalInvariant
    <2>1. CASE UNCHANGED vars
        BY <2>1 DEF vars, reqVars, RefusalInvariant, IdsOfOthers, RefusedOnlyIfOvertaken
    <2> QED
        BY <2>1, RefusalRequest, RefusalDeletion DEF Next, Done
<1>3. RefusalInvariant => RefusedOnlyIfOvertaken
    BY DEF RefusalInvariant
<1> QED
    BY <1>1, <1>2, <1>3, PTL DEF Spec
(* A mark goes only with the row of a request that did not know of it.     *)
THEOREM MarksStay == Spec => UnmarkedOnlyByStaleSave
PROOF
<1>1. ASSUME TypeOK, [Next]_vars
      PROVE  [\A c \in Contents :
                row[c].marked /\ ~row'[c].marked =>
                    \E r \in Requests : target[r] = c /\ pc[r] = "row" /\ ~inst[r].marked]_vars
    <2> SUFFICES ASSUME NEW c \in Contents, row[c].marked, ~row'[c].marked
                 PROVE  \E r \in Requests : target[r] = c /\ pc[r] = "row" /\ ~inst[r].marked
        OBVIOUS
    <2>1. row \in [Contents -> Row] /\ target \in [Requests -> Contents]
        BY <1>1 DEF TypeOK
    <2>2. ~UNCHANGED row
        OBVIOUS
    <2>3. ASSUME NEW r \in Requests, Commit(r)
          PROVE  target[r] = c /\ pc[r] = "row" /\ ~inst[r].marked
        BY <2>1, <2>3 DEF Commit, NewRow
    <2>4. ASSUME NEW d \in Contents, Mark(d) PROVE FALSE
        BY <2>1, <2>4 DEF Mark, Row
    <2>5. ~SweepCommit
        BY <2>1 DEF SweepCommit, Row
    <2> QED
        BY <1>1, <2>2, <2>3, <2>4, <2>5
        DEF Next, Done, vars, Read, Handle, Prepare, Reject, Check, SaveNet, SaveFile, SaveRow,
            Abort, Crash, RollBack, SweepPick, Sweep, SweepDelete, SweepFile, SweepFail
<1> QED
    BY <1>1, TypeCorrect, PTL DEF Spec, UnmarkedOnlyByStaleSave

-----------------------------------------------------------------------------
(* Rows and files, with one write lock.                                    *)

(* A content that is gone is not inserted again: a commit still finds the  *)
(* row it has checked.                                                     *)
THEOREM DeletedStaysDeleted ==
    ASSUME Serializable
    PROVE  Spec => NoResurrection
PROOF
<1>1. ASSUME SerialInvariant, [Next]_vars
      PROVE  [\A c \in Contents : row'[c].here => row[c].here]_vars
    <2> SUFFICES ASSUME NEW c \in Contents, row'[c].here
                 PROVE  row[c].here
        OBVIOUS
    <2>1. row \in [Contents -> Row] /\ target \in [Requests -> Contents]
        BY <1>1 DEF SerialInvariant, TypeOK
    <2>2. ASSUME NEW r \in Requests, Commit(r)
          PROVE  row[c].here
        <3>1. Matches(r)
            BY <1>1, <2>2 DEF Commit, SerialInvariant, CheckStillHolds, InTransaction
        <3> QED
            BY <2>1, <2>2, <3>1 DEF Commit, Matches
    <2>3. ASSUME NEW d \in Contents, Mark(d) PROVE row[c].here
        BY <2>1, <2>3 DEF Mark, Row
    <2>4. CASE SweepCommit
        BY <2>1, <2>4 DEF SweepCommit, Row
    <2> QED
        BY <1>1, <2>2, <2>3, <2>4
        DEF Next, Done, vars, Read, Handle, Prepare, Reject, Check, SaveNet, SaveFile, SaveRow,
            Abort, Crash, RollBack, SweepPick, Sweep, SweepDelete, SweepFile, SweepFail
<1> QED
    BY <1>1, SerialInit, SerialStep, PTL DEF Spec, NoResurrection

(* The files of a content by its row.                                      *)
FilesOfRow(c) == IF row[c].here THEN {row[c].updateId} ELSE {}

(* Somebody has changed the storage and not committed: a request, or the   *)
(* sweep.                                                                  *)
FiledBy(r, c) == target[r] = c /\ pc[r] \in {"filed", "row"}
Unfiled(c) == sweepOf = c /\ sweepPc = "unfiled"

(* The instance of a request that can still match is of the update id the  *)
(* request has read, so that the old file it deletes is the row's, and the *)
(* size and net that it takes off are.                                     *)
InstanceIsRead ==
    \A r \in Requests :
        pc[r] \in InTransaction \cup {"prepared"} /\ row[target[r]].updateId = base[r] =>
            /\ inst[r].updateId = base[r]
            /\ inst[r].size = row[target[r]].size
            /\ inst[r].net = row[target[r]].net

(* What is in the storage, during a change as well.                        *)
FilesOK(c) ==
    /\ \A r \in Requests : FiledBy(r, c) => files[c] = {r}
    /\ Unfiled(c) => files[c] = FilesOfRow(c) \ {sweepInst.updateId}
    /\ Quiet(c) => files[c] = FilesOfRow(c)

StorageInvariant ==
    /\ SerialInvariant
    /\ InstanceIsRead
    /\ \A c \in Contents : ~stale /\ c \notin broken => FilesOK(c)

(* Instances and base ids go together from the preparation on; a commit    *)
(* brings an id that nobody has read.                                      *)
LEMMA InstanceStep ==
    ASSUME Serializable, StorageInvariant, Next
    PROVE  InstanceIsRead'
PROOF
<1> USE DEF reqVars, sweepVars, history
<1>1. row \in [Contents -> Row] /\ target \in [Requests -> Contents] /\ pc \in [Requests -> Steps]
    BY DEF StorageInvariant, SerialInvariant, TypeOK
<1>2. ASSUME NEW r \in Requests, Read(r) \/ Check(r) \/ SaveNet(r) \/ SaveFile(r) \/ SaveRow(r) \/ RollBack(r)
      PROVE  InstanceIsRead'
    <2>1. row' = row /\ target' = target /\ inst' = inst
        BY <1>2 DEF Read, Check, SaveNet, SaveFile, SaveRow, RollBack
    <2>2. \A q \in Requests : pc'[q] \in InTransaction \cup {"prepared"} =>
             pc[q] \in InTransaction \cup {"prepared"} /\ base'[q] = base[q]
        BY <1>1, <1>2 DEF Read, Check, SaveNet, SaveFile, SaveRow, RollBack, InTransaction,
                          StorageInvariant, SerialInvariant, TypeOK
    <2> QED
        BY <2>1, <2>2 DEF StorageInvariant, InstanceIsRead
<1>3. ASSUME NEW r \in Requests, NEW s \in Sizes, NEW n \in Nets, Prepare(r, s, n) \/ Reject(r, s, n)
      PROVE  InstanceIsRead'
    <2>1. row' = row /\ target' = target /\ base' = base
        BY <1>3 DEF Prepare, Reject
    <2>2. \A q \in Requests : q # r => pc'[q] = pc[q] /\ inst'[q] = inst[q]
        BY <1>3 DEF Prepare, Reject, StorageInvariant, SerialInvariant, TypeOK
    <2>3. pc'[r] = "failed" \/ inst'[r] = row[target[r]]
        BY <1>3 DEF Prepare, Reject, StorageInvariant, SerialInvariant, TypeOK
    <2> QED
        BY <2>1, <2>2, <2>3 DEF StorageInvariant, InstanceIsRead, InTransaction
<1>4. ASSUME NEW r \in Requests, Commit(r)
      PROVE  InstanceIsRead'
    <2>1. /\ target' = target /\ inst' = inst /\ base' = base /\ pc'[r] = "ok" /\ pc[r] = "row"
          /\ \A q \in Requests : q # r => pc'[q] = pc[q]
          /\ \A c \in Contents : row'[c] = row[c] \/ row'[c].updateId = r
        BY <1>1, <1>4 DEF Commit, NewRow
    <2>2. \A q \in Requests : base[q] # r
        BY <2>1, ConstantsAssumption
        DEF StorageInvariant, SerialInvariant, IdsOfDoneUpdates, ConstantsAssumption
    <2> QED
        BY <1>1, <2>1, <2>2 DEF StorageInvariant, InstanceIsRead, InTransaction
<1>5. ASSUME (\E c \in Contents : Mark(c) \/ SweepPick(c)) \/ Sweep
      PROVE  InstanceIsRead'
    <2>1. pc' = pc /\ target' = target /\ base' = base /\ inst' = inst
        BY <1>5 DEF Mark, SweepPick, Sweep, SweepDelete, SweepFile, SweepCommit, SweepFail
    <2>2. \A c \in Contents : /\ row'[c].updateId = row[c].updateId
                               /\ row'[c].size = row[c].size /\ row'[c].net = row[c].net
        BY <1>5, DeletionKeepsIds DEF StorageInvariant, SerialInvariant
    <2> QED
        BY <1>1, <2>1, <2>2 DEF StorageInvariant, InstanceIsRead
<1>6. CASE Done
    BY <1>6 DEF Done, vars, StorageInvariant, InstanceIsRead
<1> QED
    BY <1>2, <1>3, <1>4, <1>5, <1>6 DEF Next, Handle, Abort, Crash

(* At most one change of the storage is under way.                         *)
LEMMA OneChange ==
    ASSUME Serializable, SerialInvariant
    PROVE  /\ \A r, q \in Requests :
                pc[r] \in {"net", "filed", "row"} /\ pc[q] \in {"net", "filed", "row"} => r = q
           /\ \A r \in Requests :
                pc[r] \in {"net", "filed", "row"} => sweepPc \notin {"locked", "unfiled"}
PROOF
    BY ConstantsAssumption DEF SerialInvariant, WriterHoldsLock, ConstantsAssumption

(* A request changes the storage in line with the row it will write.       *)
LEMMA FilesRequest ==
    ASSUME Serializable, StorageInvariant, NEW r \in Requests, Read(r) \/ Handle(r) \/ Crash(r),
           NEW c \in Contents, ~stale', c \notin broken'
    PROVE  FilesOK(c)'
PROOF
<1> USE DEF sweepVars, history
<1>1. /\ row \in [Contents -> Row] /\ target \in [Requests -> Contents] /\ pc \in [Requests -> Steps]
      /\ files \in [Contents -> SUBSET UpdateIds]
    BY DEF StorageInvariant, SerialInvariant, TypeOK
<1>2. /\ target' = target /\ sweepPc' = sweepPc /\ sweepOf' = sweepOf /\ sweepInst' = sweepInst
      /\ pc' = [pc EXCEPT ![r] = pc'[r]] /\ stale' = stale /\ broken \subseteq broken'
    BY <1>1 DEF Read, Handle, Prepare, Reject, Check, SaveNet, SaveFile, SaveRow, Commit, Abort,
           Crash, RollBack
<1>3. FilesOK(c)
    BY <1>2 DEF StorageInvariant
<1>4. \A q \in Requests : q # r => pc'[q] = pc[q]
    BY <1>1, <1>2
<1>5. CASE /\ row' = row /\ files' = files
           /\ target[r] = c => (pc[r] \in {"filed", "row"} <=> pc'[r] \in {"filed", "row"})
    <2>1. \A q \in Requests : FiledBy(q, c)' <=> FiledBy(q, c)
        BY <1>2, <1>4, <1>5 DEF FiledBy
    <2>2. Quiet(c)' <=> Quiet(c)
        BY <1>2, <1>4, <1>5 DEF Quiet
    <2> QED
        BY <1>2, <1>3, <1>5, <2>1, <2>2 DEF FilesOK, Unfiled, FilesOfRow
<1>6. CASE SaveFile(r)
    <2>1. pc[r] = "net" /\ pc'[r] = "filed" /\ row' = row
          /\ files' = [files EXCEPT ![target[r]] = FilesAfter(r)]
        BY <1>1, <1>6 DEF SaveFile
    <2>2. sweepPc # "unfiled" /\ \A q \in Requests : pc[q] \in {"filed", "row"} => q = r
        BY <2>1, OneChange DEF StorageInvariant
    <2>3. CASE target[r] # c
        <3>1. files'[c] = files[c]
            BY <1>1, <2>1, <2>3
        <3>2. \A q \in Requests : FiledBy(q, c)' <=> FiledBy(q, c)
            BY <1>2, <1>4, <2>3 DEF FiledBy
        <3>3. Quiet(c)' <=> Quiet(c)
            BY <1>2, <1>4, <2>3 DEF Quiet
        <3> QED
            BY <1>2, <1>3, <2>1, <3>1, <3>2, <3>3 DEF FilesOK, Unfiled, FilesOfRow
    <2>4. CASE target[r] = c
        <3>1. Quiet(c)
            BY <2>1, <2>2 DEF Quiet
        <3>2. Matches(r) /\ inst[r].updateId = base[r]
            BY <2>1 DEF StorageInvariant, SerialInvariant, CheckStillHolds, InstanceIsRead, Matches,
                        InTransaction
        <3>3. files[c] = {inst[r].updateId}
            BY <1>3, <2>4, <3>1, <3>2 DEF FilesOK, FilesOfRow, Matches
        <3>4. files'[c] = {r}
            BY <1>1, <2>1, <2>4, <3>3 DEF FilesAfter
        <3>5. \A q \in Requests : FiledBy(q, c)' => q = r
            BY <1>4, <2>2 DEF FiledBy
        <3>6. ~Quiet(c)' /\ ~Unfiled(c)'
            BY <1>2, <2>1, <2>2, <2>4 DEF Quiet, Unfiled
        <3> QED
            BY <3>4, <3>5, <3>6 DEF FilesOK
    <2> QED
        BY <2>3, <2>4
<1>7. CASE Commit(r)
    <2>1. /\ pc[r] = "row" /\ pc'[r] = "ok" /\ files' = files
          /\ row' = [row EXCEPT ![target[r]] = NewRow(r)]
        BY <1>1, <1>7 DEF Commit
    <2>2. sweepPc # "unfiled" /\ \A q \in Requests : pc[q] \in {"filed", "row"} => q = r
        BY <2>1, OneChange DEF StorageInvariant
    <2>3. \A q \in Requests : pc'[q] \notin {"filed", "row"}
        BY <1>4, <2>1, <2>2
    <2>4. files[c] = FilesOfRow(c)'
        <3>1. CASE target[r] = c
            <4>1. row'[c].here /\ row'[c].updateId = r
                BY <1>1, <2>1, <3>1 DEF NewRow
            <4>2. files[c] = {r}
                BY <1>3, <2>1, <3>1 DEF FilesOK, FiledBy
            <4> QED
                BY <4>1, <4>2 DEF FilesOfRow
        <3>2. CASE target[r] # c
            <4>1. Quiet(c)
                BY <2>2, <3>2 DEF Quiet
            <4>2. row'[c] = row[c]
                BY <1>1, <2>1, <3>2
            <4> QED
                BY <1>3, <4>1, <4>2 DEF FilesOK, FilesOfRow
        <3> QED
            BY <3>1, <3>2
    <2> QED
        BY <1>2, <2>1, <2>2, <2>3, <2>4 DEF FilesOK, FiledBy, Unfiled
<1>8. CASE RollBack(r)
    <2>1. row' = row /\ files' = files /\ pc[r] \in InTransaction /\ pc'[r] = "failed"
        BY <1>1, <1>8 DEF RollBack
    <2>2. target[r] = c => pc[r] \notin {"filed", "row"}
        BY <1>8 DEF RollBack
    <2> QED
        BY <1>5, <2>1, <2>2
<1>9. CASE Read(r) \/ Check(r) \/ SaveNet(r) \/ SaveRow(r)
    <2>1. row' = row /\ files' = files
        BY <1>9 DEF Read, Check, SaveNet, SaveRow
    <2>2. pc[r] \in {"filed", "row"} <=> pc'[r] \in {"filed", "row"}
        BY <1>1, <1>9 DEF Read, Check, SaveNet, SaveRow
    <2> QED
        BY <1>5, <2>1, <2>2
<1>10. CASE \E s \in Sizes, n \in Nets : Prepare(r, s, n) \/ Reject(r, s, n)
    <2>1. row' = row /\ files' = files
        BY <1>10 DEF Prepare, Reject
    <2>2. pc[r] \in {"filed", "row"} <=> pc'[r] \in {"filed", "row"}
        BY <1>1, <1>10 DEF Prepare, Reject
    <2> QED
        BY <1>5, <2>1, <2>2
<1> QED
    BY <1>6, <1>7, <1>8, <1>9, <1>10 DEF Handle, Abort, Crash

(* So does a deletion, unless the sweep deletes another row than the one   *)
(* it has read.                                                            *)
LEMMA FilesDeletion ==
    ASSUME Serializable, StorageInvariant, (\E d \in Contents : Mark(d) \/ SweepPick(d)) \/ Sweep,
           NEW c \in Contents, ~stale', c \notin broken'
    PROVE  FilesOK(c)'
PROOF
<1> USE DEF reqVars, sweepVars, history
<1>1. /\ row \in [Contents -> Row] /\ target \in [Requests -> Contents] /\ pc \in [Requests -> Steps]
      /\ files \in [Contents -> SUBSET UpdateIds] /\ sweepOf \in Contents
    BY DEF StorageInvariant, SerialInvariant, TypeOK
<1>2. pc' = pc /\ target' = target
    BY DEF Mark, SweepPick, Sweep, SweepDelete, SweepFile, SweepCommit, SweepFail
<1>3. (stale => stale') /\ broken \subseteq broken'
    <2>1. broken \subseteq broken'
        BY DEF Mark, SweepPick, Sweep, SweepDelete, SweepFile, SweepCommit, SweepFail
    <2>2. stale' = stale \/ stale' = (stale \/ row[sweepOf] # sweepInst)
        BY DEF Mark, SweepPick, Sweep, SweepDelete, SweepFile, SweepCommit, SweepFail
    <2>3. stale => stale'
        BY <2>2, Zenon
    <2> QED
        BY <2>1, <2>3
<1>4. FilesOK(c)
    BY <1>3 DEF StorageInvariant
<1>5. \A q \in Requests : FiledBy(q, c)' <=> FiledBy(q, c)
    BY <1>2 DEF FiledBy
<1>6. CASE FilesOfRow(c)' = FilesOfRow(c) /\ files' = files /\ ~Unfiled(c) /\ ~Unfiled(c)'
    <2>1. Quiet(c)' <=> Quiet(c)
        BY <1>2, <1>6 DEF Quiet, Unfiled
    <2> QED
        BY <1>4, <1>5, <1>6, <2>1 DEF FilesOK
<1>7. ASSUME NEW d \in Contents, Mark(d) PROVE FilesOK(c)'
    <2>1. files' = files /\ sweepPc' = sweepPc /\ sweepOf' = sweepOf /\ sweepInst' = sweepInst
        BY <1>7 DEF Mark
    <2>2. row'[c].here = row[c].here /\ row'[c].updateId = row[c].updateId
        BY <1>1, <1>7 DEF Mark, Row
    <2>3. Quiet(c)' <=> Quiet(c)
        BY <1>2, <2>1 DEF Quiet
    <2> QED
        BY <1>4, <1>5, <2>1, <2>2, <2>3 DEF FilesOK, Unfiled, FilesOfRow
<1>8. CASE SweepDelete \/ \E d \in Contents : SweepPick(d)
    BY <1>6, <1>8 DEF SweepDelete, SweepPick, FilesOfRow, Unfiled
<1>9. CASE SweepFile
    <2>1. /\ sweepPc = "locked" /\ sweepPc' = "unfiled" /\ row' = row /\ sweepInst' = sweepInst
          /\ sweepOf' = sweepOf
          /\ files' = [files EXCEPT ![sweepOf] = @ \ {sweepInst.updateId}]
        BY <1>9 DEF SweepFile
    <2>2. \A q \in Requests : pc[q] \notin {"filed", "row"}
        BY <2>1, OneChange DEF StorageInvariant
    <2>3. Quiet(c)
        BY <2>1, <2>2 DEF Quiet
    <2>4. files[c] = FilesOfRow(c) /\ FilesOfRow(c)' = FilesOfRow(c)
        BY <1>4, <2>1, <2>3 DEF FilesOK, FilesOfRow
    <2>5. CASE sweepOf = c
        <3>1. files'[c] = FilesOfRow(c)' \ {sweepInst'.updateId}
            BY <1>1, <2>1, <2>4, <2>5
        <3>2. ~Quiet(c)'
            BY <2>1, <2>5 DEF Quiet
        <3> QED
            BY <1>5, <2>2, <3>1, <3>2 DEF FilesOK, FiledBy
    <2>6. CASE sweepOf # c
        <3>1. files'[c] = FilesOfRow(c)' /\ ~Unfiled(c)'
            BY <1>1, <2>1, <2>4, <2>6 DEF Unfiled
        <3> QED
            BY <1>5, <2>2, <3>1 DEF FilesOK, FiledBy
    <2> QED
        BY <2>5, <2>6
<1>10. CASE SweepCommit
    <2>1. /\ sweepPc = "unfiled" /\ sweepPc' = "idle" /\ files' = files
          /\ row' = [row EXCEPT ![sweepOf].here = FALSE]
          /\ stale' = (stale \/ row[sweepOf] # sweepInst)
        BY <1>10 DEF SweepCommit
    <2>2. \A q \in Requests : pc[q] \notin {"filed", "row"}
        BY <2>1, OneChange DEF StorageInvariant
    <2>3. files[c] = FilesOfRow(c)'
        <3>1. CASE sweepOf = c
            <4>1. row[c] = sweepInst
                BY <2>1, <3>1
            <4>2. files[c] = {}
                BY <1>4, <2>1, <3>1, <4>1 DEF FilesOK, Unfiled, FilesOfRow
            <4>3. ~row'[c].here
                BY <1>1, <2>1, <3>1 DEF Row
            <4> QED
                BY <4>2, <4>3 DEF FilesOfRow
        <3>2. CASE sweepOf # c
            <4>1. Quiet(c)
                BY <2>2, <3>2 DEF Quiet
            <4>2. row'[c] = row[c]
                BY <1>1, <2>1, <3>2
            <4> QED
                BY <1>4, <4>1, <4>2 DEF FilesOK, FilesOfRow
        <3> QED
            BY <3>1, <3>2
    <2> QED
        BY <1>5, <2>1, <2>2, <2>3 DEF FilesOK, FiledBy, Unfiled
<1>11. CASE SweepFail
    <2>1. row' = row /\ files' = files /\ sweepPc' = "idle" /\ (sweepPc = "unfiled" => sweepOf # c)
        BY <1>11 DEF SweepFail
    <2> QED
        BY <1>6, <2>1 DEF Unfiled, FilesOfRow
<1> QED
    BY <1>7, <1>8, <1>9, <1>10, <1>11 DEF Sweep

LEMMA StorageInit == Init => StorageInvariant
PROOF
<1> SUFFICES ASSUME Init PROVE InstanceIsRead /\ \A c \in Contents : FilesOK(c)
    BY SerialInit DEF StorageInvariant
<1>1. \A r \in Requests : pc[r] = "idle"
    BY DEF Init
<1>2. \A c \in Contents : files[c] = FilesOfRow(c) /\ ~Unfiled(c)
    BY DEF Init, InitRow, FilesOfRow, Unfiled
<1> QED
    BY <1>1, <1>2 DEF InstanceIsRead, InTransaction, FilesOK, FiledBy

LEMMA StorageStep ==
    ASSUME Serializable, StorageInvariant, [Next]_vars
    PROVE  StorageInvariant'
PROOF
<1> SUFFICES /\ InstanceIsRead'
             /\ \A c \in Contents : ~stale' /\ c \notin broken' => FilesOK(c)'
    BY SerialStep DEF StorageInvariant
<1>1. CASE UNCHANGED vars
    <2>1. UNCHANGED <<row, files, target, base, pc, inst, sweepPc, sweepOf, sweepInst, broken, stale>>
        BY <1>1 DEF vars, reqVars, sweepVars, history
    <2> QED
        BY <2>1 DEF StorageInvariant, InstanceIsRead, FilesOK, FiledBy, Unfiled, FilesOfRow, Quiet
<1>2. CASE Next
    BY <1>1, <1>2, InstanceStep, FilesRequest, FilesDeletion DEF Next, Done
<1> QED
    BY <1>1, <1>2

(* Rows and storage agree whenever nobody is between the two: an update    *)
(* deletes the file of the row it replaces, and a sweep that of the row it *)
(* deletes, except where the sweep is overtaken or a transaction fails     *)
(* after it has touched the storage.                                       *)
THEOREM RowsHaveTheirFiles ==
    ASSUME Serializable
    PROVE  Spec => []StorageMatches
PROOF
<1>1. StorageInvariant /\ [Next]_vars => StorageInvariant'
    BY StorageStep
<1>2. StorageInvariant => StorageMatches
    BY DEF StorageInvariant, StorageMatches, FilesOK, FilesOfRow
<1> QED
    BY <1>1, <1>2, StorageInit, PTL DEF Spec

-----------------------------------------------------------------------------
(* Sums.  The community modules sum a function over a set by a recursion   *)
(* that takes the elements off in an order of its own.  That such a        *)
(* recursion exists, and that its order does not matter, follows from a    *)
(* smallest set for which it would not be so.                              *)

LEMMA SmallestSet ==
    ASSUME NEW S, IsFiniteSet(S), NEW B, B \subseteq SUBSET S, B # {}
    PROVE  \E T \in B : \A U \in B : U \subseteq T => U = T
PROOF
<1>1. IsWellFoundedOn(StrictSubsetOrdering(S), SUBSET S)
    BY FS_StrictSubsetOrderingWellFounded, FS_FiniteSubsetsOfFinite
<1>2. PICK T \in B : \A U \in B : ~ (<<U, T>> \in StrictSubsetOrdering(S))
    BY <1>1, WFMin
<1> QED
    BY <1>2 DEF StrictSubsetOrdering

Some(s) == CHOOSE x \in s : TRUE

(* g is the recursion of the sum of f over the subsets of S.               *)
IsSum(g, f, S) ==
    g = [s \in SUBSET S |-> IF s = {} THEN 0 ELSE f[Some(s)] + g[s \ {Some(s)}]]

LEMMA SumUnfold ==
    ASSUME NEW f, NEW S
    PROVE  SumFunctionOnSet(f, S) = (CHOOSE g : IsSum(g, f, S))[S]
PROOF
    BY DEF SumFunctionOnSet, FoldFunctionOnSet, MapThenFoldSet, IsSum, Some

(* Two recursions agree where both are defined.                            *)
LEMMA SumsAgree ==
    ASSUME NEW f, NEW S, NEW T, NEW g, NEW h, IsSum(g, f, S), IsSum(h, f, T),
           NEW U, U \subseteq S, U \subseteq T, IsFiniteSet(U)
    PROVE  g[U] = h[U]
PROOF
<1> DEFINE bad == {s \in SUBSET U : g[s] # h[s]}
<1>1. SUFFICES bad = {}
    OBVIOUS
<1>2. SUFFICES ASSUME bad # {} PROVE FALSE
    OBVIOUS
<1>3. PICK s \in bad : \A t \in bad : t \subseteq s => t = s
    <2>1. bad \subseteq SUBSET U
        OBVIOUS
    <2> HIDE DEF bad
    <2> QED
        BY <1>2, <2>1, SmallestSet
<1>4. s \subseteq S /\ s \subseteq T /\ g[s] # h[s]
    BY <1>3
<1>5. /\ g[s] = IF s = {} THEN 0 ELSE f[Some(s)] + g[s \ {Some(s)}]
      /\ h[s] = IF s = {} THEN 0 ELSE f[Some(s)] + h[s \ {Some(s)}]
    BY <1>4 DEF IsSum
<1>6. CASE s = {}
    BY <1>4, <1>5, <1>6
<1>7. CASE s # {}
    <2>1. Some(s) \in s
        BY <1>7 DEF Some
    <2>2. s \ {Some(s)} \in SUBSET U /\ s \ {Some(s)} # s
        BY <1>3, <2>1
    <2>3. g[s \ {Some(s)}] = h[s \ {Some(s)}]
        BY <1>3, <2>2
    <2> QED
        BY <1>4, <1>5, <1>7, <2>3
<1> QED
    BY <1>6, <1>7

LEMMA SumExists ==
    ASSUME NEW f, NEW S, IsFiniteSet(S)
    PROVE  \E g : IsSum(g, f, S)
PROOF
<1> DEFINE bad == {T \in SUBSET S : ~ \E g : IsSum(g, f, T)}
<1>1. SUFFICES ASSUME bad # {} PROVE FALSE
    OBVIOUS
<1>2. PICK T \in bad : \A U \in bad : U \subseteq T => U = T
    <2>1. bad \subseteq SUBSET S
        OBVIOUS
    <2> HIDE DEF bad
    <2> QED
        BY <1>1, <2>1, SmallestSet
<1> DEFINE G(U) == (CHOOSE g : IsSum(g, f, U))[U]
           h == [s \in SUBSET T |-> IF s = {} THEN 0 ELSE f[Some(s)] + G(s \ {Some(s)})]
<1>3. ASSUME NEW U \in SUBSET T, U # T
      PROVE  h[U] = G(U)
    <2>1. IsSum(CHOOSE g : IsSum(g, f, U), f, U)
        BY <1>2, <1>3
    <2> DEFINE k == CHOOSE g : IsSum(g, f, U)
    <2>2. k[U] = IF U = {} THEN 0 ELSE f[Some(U)] + k[U \ {Some(U)}]
        BY <2>1 DEF IsSum
    <2>3. CASE U = {}
        BY <2>2, <2>3
    <2>4. CASE U # {}
        <3> DEFINE V == U \ {Some(U)}
                   l == CHOOSE g : IsSum(g, f, V)
        <3>1. Some(U) \in U
            BY <2>4 DEF Some
        <3>2. V \in SUBSET T /\ V # T
            BY <1>3, <3>1
        <3>3. IsSum(l, f, V)
            BY <1>2, <3>2
        <3>4. IsFiniteSet(V)
            BY FS_Subset, <1>2, <3>2
        <3> HIDE DEF k, l
        <3>5. IsSum(k, f, U)
            BY <2>1 DEF k
        <3>6. k[V] = l[V]
            BY <3>3, <3>4, <3>5, SumsAgree
        <3> QED
            BY <2>2, <2>4, <3>6 DEF k, l
    <2> QED
        BY <2>3, <2>4
<1>4. ASSUME NEW s \in SUBSET T, s # {}
      PROVE  h[s \ {Some(s)}] = G(s \ {Some(s)})
    <2>1. Some(s) \in s
        BY <1>4 DEF Some
    <2>2. s \ {Some(s)} \in SUBSET T /\ s \ {Some(s)} # T
        BY <2>1
    <2> HIDE DEF h, G
    <2> QED
        BY <1>3, <2>2
<1>5. IsSum(h, f, T)
    <2>1. \A s \in SUBSET T : (IF s = {} THEN 0 ELSE f[Some(s)] + G(s \ {Some(s)}))
                              = (IF s = {} THEN 0 ELSE f[Some(s)] + h[s \ {Some(s)}])
        <3> HIDE DEF h, G
        <3> QED
            BY <1>4
    <2> HIDE DEF G
    <2> QED
        BY <2>1 DEF IsSum
<1> QED
    BY <1>2, <1>5

(* The recursion itself.                                                   *)
LEMMA SumStep ==
    ASSUME NEW f, NEW S, IsFiniteSet(S)
    PROVE  SumFunctionOnSet(f, S) =
             IF S = {} THEN 0 ELSE f[Some(S)] + SumFunctionOnSet(f, S \ {Some(S)})
PROOF
<1> DEFINE T == S \ {Some(S)}
           g == CHOOSE k : IsSum(k, f, S)
           h == CHOOSE k : IsSum(k, f, T)
<1>1. IsFiniteSet(T) /\ T \subseteq S
    BY FS_Subset
<1>2. IsSum(g, f, S) /\ IsSum(h, f, T)
    BY <1>1, SumExists
<1>3. SumFunctionOnSet(f, S) = g[S] /\ SumFunctionOnSet(f, T) = h[T]
    BY SumUnfold
<1> HIDE DEF g, h
<1>4. g[T] = h[T]
    BY <1>1, <1>2, SumsAgree
<1>5. g[S] = IF S = {} THEN 0 ELSE f[Some(S)] + g[S \ {Some(S)}]
    BY <1>2 DEF IsSum
<1> QED
    BY <1>3, <1>4, <1>5

LEMMA SumOfNone ==
    ASSUME NEW f
    PROVE  SumFunctionOnSet(f, {}) = 0
PROOF
    BY SumStep, FS_EmptySet

(* A sum of numbers is a number.                                           *)
LEMMA SumType ==
    ASSUME NEW f, NEW S, IsFiniteSet(S), \A x \in S : f[x] \in Int
    PROVE  SumFunctionOnSet(f, S) \in Int
PROOF
<1> DEFINE bad == {T \in SUBSET S : SumFunctionOnSet(f, T) \notin Int}
<1>1. SUFFICES ASSUME bad # {} PROVE FALSE
    OBVIOUS
<1>2. PICK T \in bad : \A U \in bad : U \subseteq T => U = T
    <2>1. bad \subseteq SUBSET S
        OBVIOUS
    <2> HIDE DEF bad
    <2> QED
        BY <1>1, <2>1, SmallestSet
<1>3. T # {}
    BY <1>2, SumOfNone
<1>4. Some(T) \in T
    BY <1>3 DEF Some
<1>5. SumFunctionOnSet(f, T) = f[Some(T)] + SumFunctionOnSet(f, T \ {Some(T)})
    BY <1>2, <1>3, SumStep, FS_Subset
<1>6. SumFunctionOnSet(f, T \ {Some(T)}) \in Int
    BY <1>2, <1>4
<1> QED
    BY <1>2, <1>4, <1>5, <1>6

(* The order does not matter: any element may be taken off.                *)
LEMMA SumWithout ==
    ASSUME NEW f, NEW S, IsFiniteSet(S), \A x \in S : f[x] \in Int, NEW c \in S
    PROVE  SumFunctionOnSet(f, S) = f[c] + SumFunctionOnSet(f, S \ {c})
PROOF
<1> DEFINE Fine(T) == \A x \in T : SumFunctionOnSet(f, T) = f[x] + SumFunctionOnSet(f, T \ {x})
           bad == {T \in SUBSET S : ~Fine(T)}
<1>1. SUFFICES ASSUME bad # {} PROVE FALSE
    OBVIOUS
<1>2. PICK T \in bad : \A U \in bad : U \subseteq T => U = T
    <2>1. bad \subseteq SUBSET S
        OBVIOUS
    <2> HIDE DEF bad
    <2> QED
        BY <1>1, <2>1, SmallestSet
<1>3. \A U \in SUBSET T : U # T => Fine(U)
    BY <1>2
<1>4. \A U \in SUBSET T : IsFiniteSet(U) /\ SumFunctionOnSet(f, U) \in Int
    BY <1>2, FS_Subset, SumType
<1>5. ASSUME NEW x \in T
      PROVE  SumFunctionOnSet(f, T) = f[x] + SumFunctionOnSet(f, T \ {x})
    <2> DEFINE y == Some(T)
    <2>1. y \in T
        BY <1>5 DEF Some
    <2>2. SumFunctionOnSet(f, T) = f[y] + SumFunctionOnSet(f, T \ {y})
        BY <1>4, <1>5, SumStep
    <2> HIDE DEF y
    <2>3. CASE x = y
        BY <2>2, <2>3
    <2>4. CASE x # y
        <3>1. SumFunctionOnSet(f, T \ {y}) = f[x] + SumFunctionOnSet(f, (T \ {y}) \ {x})
            BY <1>3, <2>1, <2>4
        <3>2. SumFunctionOnSet(f, T \ {x}) = f[y] + SumFunctionOnSet(f, (T \ {x}) \ {y})
            BY <1>3, <1>5, <2>1, <2>4
        <3>3. (T \ {y}) \ {x} = (T \ {x}) \ {y}
            OBVIOUS
        <3>4. SumFunctionOnSet(f, (T \ {x}) \ {y}) \in Int /\ f[x] \in Int /\ f[y] \in Int
            BY <1>2, <1>4, <2>1
        <3>5. SumFunctionOnSet(f, T) = f[y] + (f[x] + SumFunctionOnSet(f, (T \ {x}) \ {y}))
            BY <2>2, <3>1, <3>3
        <3>6. \A i, j, k \in Int : i + (j + k) = j + (i + k)
            OBVIOUS
        <3> QED
            BY <3>2, <3>4, <3>5, <3>6
    <2> QED
        BY <2>3, <2>4
<1> QED
    BY <1>2, <1>5

(* Functions that agree on the set have the same sum.                      *)
LEMMA SumSame ==
    ASSUME NEW f, NEW g, NEW S, IsFiniteSet(S), \A x \in S : f[x] = g[x]
    PROVE  SumFunctionOnSet(f, S) = SumFunctionOnSet(g, S)
PROOF
<1> DEFINE bad == {T \in SUBSET S : SumFunctionOnSet(f, T) # SumFunctionOnSet(g, T)}
<1>1. SUFFICES ASSUME bad # {} PROVE FALSE
    OBVIOUS
<1>2. PICK T \in bad : \A U \in bad : U \subseteq T => U = T
    <2>1. bad \subseteq SUBSET S
        OBVIOUS
    <2> HIDE DEF bad
    <2> QED
        BY <1>1, <2>1, SmallestSet
<1>3. T # {}
    BY <1>2, SumOfNone
<1>4. Some(T) \in T
    BY <1>3 DEF Some
<1>5. /\ SumFunctionOnSet(f, T) = f[Some(T)] + SumFunctionOnSet(f, T \ {Some(T)})
      /\ SumFunctionOnSet(g, T) = g[Some(T)] + SumFunctionOnSet(g, T \ {Some(T)})
    BY <1>2, <1>3, SumStep, FS_Subset
<1>6. SumFunctionOnSet(f, T \ {Some(T)}) = SumFunctionOnSet(g, T \ {Some(T)})
    BY <1>2, <1>4
<1> QED
    BY <1>2, <1>4, <1>5, <1>6

(* The sum of a constant.                                                  *)
LEMMA SumOfSame ==
    ASSUME NEW f, NEW S, IsFiniteSet(S), NEW k \in Nat, \A x \in S : f[x] = k
    PROVE  SumFunctionOnSet(f, S) = k * Cardinality(S)
PROOF
<1> DEFINE bad == {T \in SUBSET S : SumFunctionOnSet(f, T) # k * Cardinality(T)}
<1>1. SUFFICES ASSUME bad # {} PROVE FALSE
    OBVIOUS
<1>2. PICK T \in bad : \A U \in bad : U \subseteq T => U = T
    <2>1. bad \subseteq SUBSET S
        OBVIOUS
    <2> HIDE DEF bad
    <2> QED
        BY <1>1, <2>1, SmallestSet
<1>3. T # {}
    <2>1. k * Cardinality({}) = 0
        BY FS_EmptySet
    <2> QED
        BY <1>2, <2>1, SumOfNone
<1>4. Some(T) \in T
    BY <1>3 DEF Some
<1>5. SumFunctionOnSet(f, T) = k + SumFunctionOnSet(f, T \ {Some(T)})
    BY <1>2, <1>3, <1>4, SumStep, FS_Subset
<1>6. SumFunctionOnSet(f, T \ {Some(T)}) = k * Cardinality(T \ {Some(T)})
    BY <1>2, <1>4
<1>7. /\ Cardinality(T) \in Nat
      /\ Cardinality(T \ {Some(T)}) = Cardinality(T) - 1
    BY <1>2, <1>4, FS_Subset, FS_CardinalityType, FS_RemoveElement
<1>8. \A n \in Nat : k + k * (n - 1) = k * n
    OBVIOUS
<1> QED
    BY <1>2, <1>5, <1>6, <1>7, <1>8

-----------------------------------------------------------------------------
(* The usage of the nets.                                                  *)

(* What bytes_in_use of a net has to be, by the rows alone.                *)
CountedIn(rows, n) ==
    SumFunctionOnSet([c \in Contents |-> Overhead + rows[c].size],
                     {c \in Contents : rows[c].here /\ rows[c].net = n})

(* What one row takes of a net.                                            *)
Part(x, n) == IF x.here /\ x.net = n THEN Overhead + x.size ELSE 0

(* A sum over rows is a number; a step that rewrites one row changes it by *)
(* that row's part.                                                        *)
LEMMA CountedType ==
    ASSUME NEW rows \in [Contents -> Row], NEW n
    PROVE  CountedIn(rows, n) \in Int
PROOF
<1> DEFINE members == {c \in Contents : rows[c].here /\ rows[c].net = n}
           weights == [c \in Contents |-> Overhead + rows[c].size]
<1>1. IsFiniteSet(members)
    BY ConstantsAssumption, FS_Subset DEF ConstantsAssumption
<1>2. \A c \in members : weights[c] \in Int
    BY SizesAreNumbers DEF Row
<1> HIDE DEF members, weights
<1>3. SumFunctionOnSet(weights, members) \in Int
    BY <1>1, <1>2, SumType
<1> QED
    BY <1>3 DEF CountedIn, members, weights

LEMMA OneRowRewritten ==
    ASSUME NEW old \in [Contents -> Row], NEW new \in [Contents -> Row], NEW t \in Contents,
           \A c \in Contents \ {t} : new[c] = old[c], NEW n
    PROVE  CountedIn(new, n) = CountedIn(old, n) - Part(old[t], n) + Part(new[t], n)
PROOF
<1> DEFINE of(rows) == {c \in Contents : rows[c].here /\ rows[c].net = n}
           weights(rows) == [c \in Contents |-> Overhead + rows[c].size]
           rest(rows) == SumFunctionOnSet(weights(rows), of(rows) \ {t})
<1>1. ASSUME NEW rows \in [Contents -> Row]
      PROVE  /\ IsFiniteSet(of(rows)) /\ IsFiniteSet(of(rows) \ {t})
             /\ \A c \in of(rows) : weights(rows)[c] \in Int
             /\ Part(rows[t], n) \in Int
    <2>1. IsFiniteSet(of(rows)) /\ IsFiniteSet(of(rows) \ {t})
        BY ConstantsAssumption, FS_Subset DEF ConstantsAssumption
    <2>2. \A c \in of(rows) : weights(rows)[c] \in Int
        BY SizesAreNumbers DEF Row
    <2>3. Part(rows[t], n) \in Int
        BY SizesAreNumbers DEF Row, Part
    <2> QED
        BY <2>1, <2>2, <2>3
<1>2. of(new) \ {t} = of(old) \ {t} /\ \A c \in of(old) \ {t} : weights(new)[c] = weights(old)[c]
    OBVIOUS
<1>3. ASSUME NEW rows \in [Contents -> Row]
      PROVE  /\ rest(rows) \in Int
             /\ CountedIn(rows, n) = Part(rows[t], n) + rest(rows)
    <2>1. CountedIn(rows, n) = SumFunctionOnSet(weights(rows), of(rows))
        BY DEF CountedIn
    <2>2. CASE t \in of(rows)
        <3>1. Part(rows[t], n) = weights(rows)[t]
            BY <2>2 DEF Part
        <3> HIDE DEF of, weights
        <3>2. SumFunctionOnSet(weights(rows), of(rows)) = weights(rows)[t] + rest(rows)
            BY <1>1, <2>2, SumWithout
        <3>3. rest(rows) \in Int
            BY <1>1, SumType
        <3> QED
            BY <2>1, <3>1, <3>2, <3>3
    <2>3. CASE t \notin of(rows)
        <3>1. Part(rows[t], n) = 0 /\ of(rows) \ {t} = of(rows)
            BY <2>3 DEF Part
        <3> HIDE DEF of, weights
        <3>2. rest(rows) \in Int
            BY <1>1, SumType
        <3> QED
            BY <2>1, <3>1, <3>2
    <2> QED
        BY <2>2, <2>3
<1>4. rest(new) = rest(old)
    <2> HIDE DEF of, weights
    <2>1. SumFunctionOnSet(weights(new), of(old) \ {t}) = SumFunctionOnSet(weights(old), of(old) \ {t})
        BY <1>1, <1>2, SumSame
    <2> QED
        BY <1>2, <2>1
<1>5. /\ CountedIn(old, n) = Part(old[t], n) + rest(old)
      /\ CountedIn(new, n) = Part(new[t], n) + rest(old)
      /\ Part(old[t], n) \in Int /\ Part(new[t], n) \in Int /\ rest(old) \in Int
    <2> HIDE DEF rest, of, weights
    <2> QED
        BY <1>1, <1>3, <1>4
<1> HIDE DEF rest, of, weights
<1> QED
    BY <1>5

(* The inductive invariant.  It counts from the rows, so that it also      *)
(* holds while a file is away:                                             *)
UsageCounted == \A n \in Nets : used[n] = CountedIn(row, n)

(* the old size of a request that can still match is the one counted,      *)
(* unless somebody else has the content between its file and its row, who  *)
(* then overtakes the request or breaks the content;                       *)
OldBytesOfRow ==
    \A r \in Requests :
        pc[r] \in InTransaction \cup {"prepared"} /\ Matches(r) =>
            \/ oldBytes[r] = Overhead + inst[r].size
            \/ \E q \in Requests \ {r} : FiledBy(q, target[r])
            \/ Unfiled(target[r])

(* and the same for the sweep, which picks a row that is there.            *)
SweepBytesOfRow ==
    sweepPc \in {"locked", "unfiled"} /\ row[sweepOf] = sweepInst =>
        sweepBytes = Overhead + sweepInst.size

UsageInvariant ==
    /\ StorageInvariant
    /\ sweepPc # "idle" => sweepInst.here
    /\ ~stale /\ broken = {} => UsageCounted /\ OldBytesOfRow /\ SweepBytesOfRow

LEMMA UsageInit == Init => UsageInvariant
PROOF
<1> SUFFICES ASSUME Init PROVE UsageCounted /\ OldBytesOfRow /\ SweepBytesOfRow
    BY StorageInit DEF UsageInvariant, Init
<1>1. OldBytesOfRow /\ SweepBytesOfRow
    BY DEF Init, OldBytesOfRow, SweepBytesOfRow, InTransaction
<1>2. ASSUME NEW n \in Nets
      PROVE  used[n] = CountedIn(row, n)
    <2> DEFINE members == {c \in Contents : HomeNet[c] = n}
               weights == [c \in Contents |-> Overhead + row[c].size]
    <2>1. {c \in Contents : row[c].here /\ row[c].net = n} = members
        BY DEF Init, InitRow
    <2>2. IsFiniteSet(members)
        BY ConstantsAssumption, FS_Subset DEF ConstantsAssumption
    <2>3. \A c \in members : weights[c] = Overhead + InitSize
        BY DEF Init, InitRow
    <2>4. Overhead + InitSize \in Nat
        BY ConstantsAssumption DEF ConstantsAssumption
    <2> HIDE DEF members, weights
    <2>5. SumFunctionOnSet(weights, members) = (Overhead + InitSize) * Cardinality(members)
        BY <2>2, <2>3, <2>4, SumOfSame
    <2>6. CountedIn(row, n) = SumFunctionOnSet(weights, members)
        BY <2>1 DEF CountedIn, weights
    <2>7. used[n] = (Overhead + InitSize) * Cardinality(members)
        BY DEF Init, members
    <2> QED
        BY <2>5, <2>6, <2>7
<1> QED
    BY <1>1, <1>2 DEF UsageCounted

(* An instance of a row that nobody is changing has its file.              *)
LEMMA QuietBytes ==
    ASSUME StorageInvariant, ~stale, NEW c \in Contents, c \notin broken, row[c].here,
           Quiet(c)
    PROVE  Bytes(c, row[c]) = Overhead + row[c].size
PROOF
<1>1. files[c] = {row[c].updateId}
    BY DEF StorageInvariant, FilesOK, FilesOfRow
<1> QED
    BY <1>1 DEF Bytes

(* The steps of a request other than its commit change no row and no net.  *)
LEMMA UsageBefore ==
    ASSUME Serializable, UsageInvariant, ~stale, broken = {}, broken' = {},
           NEW r \in Requests, Read(r) \/ Handle(r) \/ Crash(r), ~Commit(r)
    PROVE  UsageCounted' /\ OldBytesOfRow' /\ SweepBytesOfRow'
PROOF
<1> USE DEF sweepVars, history
<1>1. /\ row \in [Contents -> Row] /\ target \in [Requests -> Contents] /\ pc \in [Requests -> Steps]
      /\ inst \in [Requests -> Row] /\ oldBytes \in [Requests -> Nat] /\ base \in [Requests -> UpdateIds]
    BY DEF UsageInvariant, StorageInvariant, SerialInvariant, TypeOK
<1>2. /\ row' = row /\ used' = used /\ target' = target /\ sweepPc' = sweepPc /\ sweepOf' = sweepOf
      /\ sweepInst' = sweepInst /\ sweepBytes' = sweepBytes
    BY DEF Read, Handle, Prepare, Reject, Check, SaveNet, SaveFile, SaveRow, Abort, Crash, RollBack
<1>3. UsageCounted /\ OldBytesOfRow /\ SweepBytesOfRow
    BY DEF UsageInvariant
<1>4. UsageCounted' /\ SweepBytesOfRow'
    BY <1>2, <1>3 DEF UsageCounted, SweepBytesOfRow
<1>5. \A q \in Requests \ {r} : pc'[q] = pc[q] /\ base'[q] = base[q] /\ inst'[q] = inst[q]
                               /\ oldBytes'[q] = oldBytes[q]
    BY <1>1 DEF Read, Handle, Prepare, Reject, Check, SaveNet, SaveFile, SaveRow, Abort, Crash, RollBack
<1>6. pc[r] \in {"filed", "row"} => pc'[r] \in {"filed", "row"}
    BY <1>1 DEF Read, Handle, Prepare, Reject, Check, SaveNet, SaveFile, SaveRow, Abort, Crash, RollBack
<1>7. \A p, q \in Requests : FiledBy(p, target[q]) => FiledBy(p, target[q])'
    BY <1>1, <1>2, <1>5, <1>6 DEF FiledBy
<1>8. \A q \in Requests : Unfiled(target[q]) => Unfiled(target[q])'
    BY <1>2 DEF Unfiled
<1>9. ASSUME NEW q \in Requests, pc'[q] \in InTransaction \cup {"prepared"}, Matches(q)'
      PROVE  \/ oldBytes'[q] = Overhead + inst'[q].size
             \/ \E p \in Requests \ {q} : FiledBy(p, target[q])'
             \/ Unfiled(target[q])'
    <2>1. target[q] \in Contents
        BY <1>1
    <2>2. CASE /\ pc[q] \in InTransaction \cup {"prepared"} /\ base'[q] = base[q]
               /\ inst'[q] = inst[q] /\ oldBytes'[q] = oldBytes[q]
        <3>1. Matches(q)
            BY <1>2, <1>9, <2>2 DEF Matches
        <3> QED
            BY <1>3, <1>7, <1>8, <2>1, <2>2, <3>1 DEF OldBytesOfRow
    <2>3. CASE q = r /\ \E s \in Sizes, n \in Nets : Prepare(r, s, n)
        <3>1. /\ row[target[r]].here /\ inst'[r] = row[target[r]]
              /\ oldBytes'[r] = Bytes(target[r], row[target[r]])
              /\ pc[r] = "read"
            BY <1>1, <2>3 DEF Prepare
        <3>2. CASE Quiet(target[r])
            BY <2>1, <2>3, <3>1, <3>2, QuietBytes DEF UsageInvariant
        <3>3. CASE ~Quiet(target[r])
            <4>1. Unfiled(target[r]) \/ \E p \in Requests : FiledBy(p, target[r])
                BY <3>3 DEF Quiet, Unfiled, FiledBy
            <4>2. ~FiledBy(r, target[r])
                BY <3>1 DEF FiledBy
            <4> QED
                BY <1>7, <1>8, <2>1, <2>3, <4>1, <4>2
        <3> QED
            BY <3>2, <3>3
    <2>4. CASE q = r /\ ~ \E s \in Sizes, n \in Nets : Prepare(r, s, n)
        <3>1. /\ pc[r] \in InTransaction \cup {"prepared"} /\ base'[r] = base[r]
              /\ inst'[r] = inst[r] /\ oldBytes'[r] = oldBytes[r]
            BY <1>1, <1>9, <2>4
            DEF Read, Handle, Reject, Check, SaveNet, SaveFile, SaveRow, Abort, Crash, RollBack,
                InTransaction
        <3> QED
            BY <2>2, <2>4, <3>1
    <2> QED
        BY <1>5, <1>9, <2>2, <2>3, <2>4
<1>10. OldBytesOfRow'
    BY <1>2, <1>9 DEF OldBytesOfRow
<1> QED
    BY <1>4, <1>10

(* The commit takes off what the row it replaces was counted with, and     *)
(* adds what the new row is counted with.                                  *)
LEMMA UsageCommit ==
    ASSUME Serializable, UsageInvariant, ~stale, broken = {}, NEW r \in Requests, Commit(r)
    PROVE  UsageCounted' /\ OldBytesOfRow' /\ SweepBytesOfRow'
PROOF
<1> USE DEF sweepVars, history
<1> DEFINE t == target[r]
<1>1. /\ row \in [Contents -> Row] /\ target \in [Requests -> Contents] /\ pc \in [Requests -> Steps]
      /\ inst \in [Requests -> Row] /\ oldBytes \in [Requests -> Nat] /\ used \in [Nets -> Int]
      /\ newSize \in [Requests -> Sizes] /\ newNet \in [Requests -> Nets]
    BY DEF UsageInvariant, StorageInvariant, SerialInvariant, TypeOK
<1>2. UsageCounted /\ OldBytesOfRow /\ SweepBytesOfRow
    BY DEF UsageInvariant
<1>3. /\ pc[r] = "row" /\ pc'[r] = "ok" /\ row' = [row EXCEPT ![t] = NewRow(r)]
      /\ \A q \in Requests \ {r} : pc'[q] = pc[q]
      /\ UNCHANGED <<target, base, inst, oldBytes, sweepPc, sweepOf, sweepInst, sweepBytes>>
    BY <1>1 DEF Commit
<1>4. NewRow(r) \in Row /\ row' \in [Contents -> Row]
    <2>1. NewRow(r) \in Row
        BY DEF NewRow, Row, UpdateIds, UsageInvariant, StorageInvariant, SerialInvariant, TypeOK
    <2> QED
        BY <1>1, <1>3, <2>1
<1>5. sweepPc \notin {"locked", "unfiled"} /\ \A q \in Requests : pc[q] \in {"filed", "row"} => q = r
    BY <1>3, OneChange DEF UsageInvariant, StorageInvariant
<1>6. /\ Matches(r) /\ inst[r].size = row[t].size /\ inst[r].net = row[t].net
    BY <1>3 DEF UsageInvariant, StorageInvariant, SerialInvariant, CheckStillHolds, InstanceIsRead,
                Matches, InTransaction
<1>7. oldBytes[r] = Overhead + row[t].size
    BY <1>2, <1>3, <1>5, <1>6 DEF OldBytesOfRow, InTransaction, FiledBy, Unfiled
<1>8. ASSUME NEW n \in Nets PROVE used'[n] = CountedIn(row', n)
    <2>1. CountedIn(row', n) = CountedIn(row, n) - Part(row[t], n) + Part(NewRow(r), n)
        <3>1. t \in Contents /\ row'[t] = NewRow(r) /\ \A c \in Contents \ {t} : row'[c] = row[c]
            BY <1>1, <1>3
        <3> HIDE DEF t
        <3> QED
            BY <1>1, <1>4, <3>1, OneRowRewritten
    <2>2. used[n] = CountedIn(row, n) /\ used[n] \in Int
        BY <1>1, <1>2 DEF UsageCounted
    <2>3. Part(row[t], n) = IF n = inst[r].net THEN oldBytes[r] ELSE 0
        BY <1>6, <1>7 DEF Part, Matches
    <2>4. Part(NewRow(r), n) = IF n = newNet[r] THEN Overhead + newSize[r] ELSE 0
        BY DEF Part, NewRow
    <2>5. used'[n] = used[n] + (IF n = newNet[r] THEN Growth(r) ELSE 0)
                              - (IF Moved(r) /\ n = inst[r].net THEN oldBytes[r] ELSE 0)
        BY DEF Commit
    <2>6. oldBytes[r] \in Int /\ newSize[r] \in Int /\ Overhead \in Int
        BY <1>1, SizesAreNumbers
    <2> QED
        BY <2>1, <2>2, <2>3, <2>4, <2>5, <2>6 DEF Growth, Moved
<1>9. ASSUME NEW q \in Requests, pc'[q] \in InTransaction \cup {"prepared"}, Matches(q)'
      PROVE  oldBytes'[q] = Overhead + inst'[q].size
    <2>1. q # r
        BY <1>3, <1>9 DEF InTransaction
    <2>2. target[q] # t
        <3>1. base[q] # r
            BY <1>3, ConstantsAssumption
            DEF UsageInvariant, StorageInvariant, SerialInvariant, IdsOfDoneUpdates, ConstantsAssumption
        <3> QED
            BY <1>1, <1>3, <1>9, <3>1 DEF Matches, NewRow
    <2>3. Matches(q) /\ pc[q] \in InTransaction \cup {"prepared"}
        BY <1>1, <1>3, <1>9, <2>1, <2>2 DEF Matches
    <2> QED
        BY <1>2, <1>3, <1>5, <2>2, <2>3 DEF OldBytesOfRow, FiledBy, Unfiled
<1> QED
    BY <1>3, <1>5, <1>8, <1>9 DEF UsageCounted, OldBytesOfRow, SweepBytesOfRow

(* A sweep takes off what the row was counted with when it deletes the row *)
(* it has read; a mark changes nothing that is counted.                    *)
LEMMA UsageDeletion ==
    ASSUME Serializable, UsageInvariant, ~stale, ~stale', broken = {}, broken' = {},
           (\E d \in Contents : Mark(d) \/ SweepPick(d)) \/ Sweep
    PROVE  UsageCounted' /\ OldBytesOfRow' /\ SweepBytesOfRow'
PROOF
<1> USE DEF reqVars, sweepVars, history
<1>1. /\ row \in [Contents -> Row] /\ target \in [Requests -> Contents] /\ pc \in [Requests -> Steps]
      /\ used \in [Nets -> Int] /\ sweepOf \in Contents /\ sweepInst \in Row /\ sweepBytes \in Nat
    BY DEF UsageInvariant, StorageInvariant, SerialInvariant, TypeOK
<1>2. UsageCounted /\ OldBytesOfRow /\ SweepBytesOfRow
    BY DEF UsageInvariant
<1>3. pc' = pc /\ target' = target /\ base' = base /\ inst' = inst /\ oldBytes' = oldBytes
    BY DEF Mark, SweepPick, Sweep, SweepDelete, SweepFile, SweepCommit, SweepFail
<1>4. \A c \in Contents : row'[c].updateId = row[c].updateId /\ (row'[c].here => row[c].here)
    BY DeletionKeepsIds DEF UsageInvariant, StorageInvariant, SerialInvariant
<1>5. ASSUME \A c \in Contents : Unfiled(c) /\ row'[c].here => Unfiled(c)'
      PROVE  OldBytesOfRow'
    <2>1. ASSUME NEW q \in Requests, pc'[q] \in InTransaction \cup {"prepared"}, Matches(q)'
          PROVE  \/ oldBytes'[q] = Overhead + inst'[q].size
                 \/ \E p \in Requests \ {q} : FiledBy(p, target[q])'
                 \/ Unfiled(target[q])'
        <3>1. target[q] \in Contents /\ row'[target[q]].here
            BY <1>1, <1>3, <2>1 DEF Matches
        <3>2. Matches(q) /\ pc[q] \in InTransaction \cup {"prepared"}
            BY <1>3, <1>4, <2>1, <3>1 DEF Matches
        <3>3. \A p \in Requests : FiledBy(p, target[q])' <=> FiledBy(p, target[q])
            BY <1>3 DEF FiledBy
        <3> QED
            BY <1>2, <1>3, <1>5, <3>1, <3>2, <3>3 DEF OldBytesOfRow
    <2> QED
        BY <1>3, <2>1 DEF OldBytesOfRow
<1>6. ASSUME NEW d \in Contents, Mark(d)
      PROVE  UsageCounted' /\ OldBytesOfRow' /\ SweepBytesOfRow'
    <2>1. /\ row' = [row EXCEPT ![d] = [row[d] EXCEPT !.marked = TRUE]]
          /\ UNCHANGED <<used, sweepPc, sweepOf, sweepInst, sweepBytes>>
        BY <1>6 DEF Mark
    <2>2. row' \in [Contents -> Row]
        BY <1>1, <2>1 DEF Row
    <2>3. \A n : Part(row'[d], n) = Part(row[d], n) /\ Part(row[d], n) \in Int
        <3>1. row'[d] = [row[d] EXCEPT !.marked = TRUE] /\ row[d] \in Row
            BY <1>1, <2>1
        <3> QED
            BY <3>1, SizesAreNumbers DEF Part, Row
    <2>4. ASSUME NEW n \in Nets PROVE CountedIn(row', n) = CountedIn(row, n)
        <3>1. CountedIn(row', n) = CountedIn(row, n) - Part(row[d], n) + Part(row'[d], n)
            <4>1. \A c \in Contents \ {d} : row'[c] = row[c]
                BY <1>1, <2>1
            <4> QED
                BY <1>1, <2>2, <4>1, OneRowRewritten
        <3>2. CountedIn(row, n) \in Int
            BY <1>1, CountedType
        <3> QED
            BY <2>3, <3>1, <3>2
    <2>5. sweepPc \notin {"locked", "unfiled"}
        <3>1. owner[Database] = Nobody
            BY <1>6, OneLock DEF Mark, UsageInvariant, StorageInvariant, SerialInvariant
        <3> QED
            BY <3>1, ConstantsAssumption
            DEF UsageInvariant, StorageInvariant, SerialInvariant, WriterHoldsLock, ConstantsAssumption
    <2> QED
        BY <1>2, <1>5, <2>1, <2>4, <2>5 DEF UsageCounted, SweepBytesOfRow, Unfiled
<1>7. ASSUME NEW d \in Contents, SweepPick(d)
      PROVE  UsageCounted' /\ OldBytesOfRow' /\ SweepBytesOfRow'
    BY <1>2, <1>5, <1>7 DEF SweepPick, UsageCounted, SweepBytesOfRow, Unfiled
<1>8. CASE SweepDelete
    <2>1. /\ UNCHANGED <<row, used, sweepOf, sweepInst>> /\ sweepPc = "picked" /\ sweepPc' = "locked"
          /\ sweepBytes' = Bytes(sweepOf, sweepInst)
        BY <1>8 DEF SweepDelete
    <2>2. ASSUME row[sweepOf] = sweepInst PROVE Bytes(sweepOf, sweepInst) = Overhead + sweepInst.size
        <3>1. owner[Database] \in {Sweeper, Nobody}
            BY <1>8, OneLock DEF SweepDelete, UsageInvariant, StorageInvariant, SerialInvariant
        <3>2. \A q \in Requests : pc[q] \notin {"filed", "row"}
            BY <3>1, ConstantsAssumption
            DEF UsageInvariant, StorageInvariant, SerialInvariant, WriterHoldsLock, ConstantsAssumption
        <3>3. Quiet(sweepOf)
            BY <2>1, <3>2 DEF Quiet
        <3>4. row[sweepOf].here
            BY <2>1, <2>2 DEF UsageInvariant
        <3> QED
            BY <1>1, <2>2, <3>3, <3>4, QuietBytes DEF UsageInvariant
    <2> QED
        BY <1>2, <1>5, <2>1, <2>2 DEF UsageCounted, SweepBytesOfRow, Unfiled
<1>9. CASE SweepFile
    BY <1>2, <1>5, <1>9 DEF SweepFile, UsageCounted, SweepBytesOfRow, Unfiled
<1>10. CASE SweepCommit
    <2>1. /\ sweepPc = "unfiled" /\ sweepPc' = "idle" /\ row[sweepOf] = sweepInst
          /\ row' = [row EXCEPT ![sweepOf] = [row[sweepOf] EXCEPT !.here = FALSE]]
          /\ used' = [used EXCEPT ![sweepInst.net] = @ - sweepBytes]
        BY <1>10 DEF SweepCommit
    <2>2. row' \in [Contents -> Row] /\ ~row'[sweepOf].here
        BY <1>1, <2>1 DEF Row
    <2>3. sweepBytes = Overhead + sweepInst.size /\ sweepInst.here
        BY <1>2, <2>1 DEF SweepBytesOfRow, UsageInvariant
    <2>4. ASSUME NEW n \in Nets PROVE used'[n] = CountedIn(row', n)
        <3>1. CountedIn(row', n) = CountedIn(row, n) - Part(row[sweepOf], n) + Part(row'[sweepOf], n)
            <4>1. \A c \in Contents \ {sweepOf} : row'[c] = row[c]
                BY <1>1, <2>1
            <4> QED
                BY <1>1, <2>2, <4>1, OneRowRewritten
        <3>2. Part(row'[sweepOf], n) = 0
            BY <2>2 DEF Part
        <3>3. Part(row[sweepOf], n) = IF n = sweepInst.net THEN sweepBytes ELSE 0
            BY <2>1, <2>3 DEF Part
        <3>4. used[n] = CountedIn(row, n) /\ used[n] \in Int
            BY <1>1, <1>2 DEF UsageCounted
        <3>5. used'[n] = used[n] - (IF n = sweepInst.net THEN sweepBytes ELSE 0)
            BY <1>1, <2>1, <3>4
        <3> QED
            BY <1>1, <3>1, <3>2, <3>3, <3>4, <3>5
    <2>5. \A c \in Contents : Unfiled(c) => ~row'[c].here
        BY <2>2 DEF Unfiled
    <2> QED
        BY <1>5, <2>1, <2>4, <2>5 DEF UsageCounted, SweepBytesOfRow
<1>11. CASE SweepFail
    <2>1. sweepPc # "unfiled"
        BY <1>1, <1>11 DEF SweepFail
    <2> QED
        BY <1>2, <1>5, <1>11, <2>1 DEF SweepFail, UsageCounted, SweepBytesOfRow, Unfiled
<1> QED
    BY <1>6, <1>7, <1>8, <1>9, <1>10, <1>11 DEF Sweep

(* Flags are only raised.                                                  *)
LEMMA FlagsStay ==
    ASSUME TypeOK, Next
    PROVE  (~stale' => ~stale) /\ broken \subseteq broken'
PROOF
<1> USE DEF reqVars, sweepVars, history
<1>1. broken \subseteq broken'
    BY DEF Next, Done, vars, Read, Handle, Prepare, Reject, Check, SaveNet, SaveFile, SaveRow, Commit,
           Abort, Crash, RollBack, Mark, SweepPick, Sweep, SweepDelete, SweepFile, SweepCommit, SweepFail
<1>2. stale' = stale \/ stale' = (stale \/ row[sweepOf] # sweepInst)
    BY DEF Next, Done, vars, Read, Handle, Prepare, Reject, Check, SaveNet, SaveFile, SaveRow, Commit,
           Abort, Crash, RollBack, Mark, SweepPick, Sweep, SweepDelete, SweepFile, SweepCommit, SweepFail
<1>3. stale => stale'
    BY <1>2, Zenon
<1> QED
    BY <1>1, <1>3

LEMMA UsageStep ==
    ASSUME Serializable, UsageInvariant, [Next]_vars
    PROVE  UsageInvariant'
PROOF
<1> USE DEF reqVars, sweepVars, history
<1>1. CASE UNCHANGED vars
    <2>1. /\ UNCHANGED <<row, files, used, target, base, pc, inst, oldBytes>>
          /\ UNCHANGED <<sweepPc, sweepOf, sweepInst, sweepBytes, broken, stale>>
        BY <1>1 DEF vars
    <2>2. StorageInvariant'
        BY <1>1, StorageStep DEF UsageInvariant
    <2> QED
        BY <2>1, <2>2
        DEF UsageInvariant, UsageCounted, OldBytesOfRow, SweepBytesOfRow, FiledBy, Unfiled, Matches
<1>2. CASE Next /\ ~UNCHANGED vars
    <2>1. StorageInvariant'
        BY <1>2, StorageStep DEF UsageInvariant
    <2>2. (~stale' => ~stale) /\ broken \subseteq broken'
        BY <1>2, FlagsStay DEF UsageInvariant, StorageInvariant, SerialInvariant
    <2>3. sweepPc' # "idle" => sweepInst'.here
        BY <1>2 DEF UsageInvariant, Next, Done, Read, Handle, Prepare, Reject, Check, SaveNet, SaveFile,
            SaveRow, Commit, Abort, Crash, RollBack, Mark, SweepPick, Sweep, SweepDelete, SweepFile,
            SweepCommit, SweepFail
    <2>4. ASSUME ~stale', broken' = {} PROVE UsageCounted' /\ OldBytesOfRow' /\ SweepBytesOfRow'
        <3>1. ~stale /\ broken = {}
            BY <2>2, <2>4
        <3>2. ASSUME NEW r \in Requests, Read(r) \/ Handle(r) \/ Crash(r)
              PROVE  UsageCounted' /\ OldBytesOfRow' /\ SweepBytesOfRow'
            BY <2>4, <3>1, <3>2, UsageBefore, UsageCommit
        <3>3. ASSUME (\E c \in Contents : Mark(c) \/ SweepPick(c)) \/ Sweep
              PROVE  UsageCounted' /\ OldBytesOfRow' /\ SweepBytesOfRow'
            BY <2>4, <3>1, <3>3, UsageDeletion
        <3> QED
            BY <1>2, <3>2, <3>3 DEF Next, Done
    <2> QED
        BY <2>1, <2>3, <2>4 DEF UsageInvariant
<1> QED
    BY <1>1, <1>2

(* bytes_in_use of every net is what calculate_bytes_in_use would find,    *)
(* for any number of contents, nets, sizes and overlapping updates, moves, *)
(* deletions and crashes, as long as no sweep has deleted a row it had not *)
(* read and no rollback has left a content without its file.               *)
THEOREM UsageIsExact ==
    ASSUME Serializable
    PROVE  Spec => []UsageExact
PROOF
<1>1. UsageInvariant /\ [Next]_vars => UsageInvariant'
    BY UsageStep
<1>2. UsageInvariant => UsageExact
    <2> SUFFICES ASSUME UsageInvariant, \A c \in Contents : Quiet(c), ~stale, broken = {},
                        NEW n \in Nets
                 PROVE  used[n] = CalculatedBytes(n)
        BY DEF UsageExact
    <2> DEFINE members == {c \in Contents : row[c].here /\ row[c].net = n}
               weights == [c \in Contents |-> Overhead + row[c].size]
               bytes == [c \in Contents |-> Bytes(c, row[c])]
    <2>1. \A c \in members : weights[c] = bytes[c]
        BY QuietBytes DEF UsageInvariant
    <2>2. IsFiniteSet(members)
        BY ConstantsAssumption, FS_Subset DEF ConstantsAssumption
    <2>3. CountedIn(row, n) = SumFunctionOnSet(weights, members)
          /\ CalculatedBytes(n) = SumFunctionOnSet(bytes, members)
        BY DEF CountedIn, CalculatedBytes
    <2>4. used[n] = CountedIn(row, n)
        BY DEF UsageInvariant, UsageCounted
    <2> HIDE DEF members, weights, bytes
    <2>5. SumFunctionOnSet(weights, members) = SumFunctionOnSet(bytes, members)
        BY <2>1, <2>2, SumSame
    <2> QED
        BY <2>3, <2>4, <2>5
<1> QED
    BY <1>1, <1>2, UsageInit, PTL DEF Spec
=============================================================================
