------------------------------ MODULE ConfigSync ------------------------------
(***************************************************************************)
(* Several clients keep their config in slots on a server, and carry their *)
(* updates to all the slots they know (updateConfigRemoteReducer in        *)
(* js-packages/misc/src/utils/operations/config.ts).                       *)
(*                                                                         *)
(* A slot is a content of the server, and module VersionedContent is what  *)
(* the server does with it.  A client reads its slots in one query, and    *)
(* then works on each of them on its own: it fetches and decrypts the      *)
(* value, merges its update, and writes with the update id it read.  What  *)
(* goes wrong is tried again, from a new read, three times at most.        *)
(***************************************************************************)
EXTENDS Naturals, FiniteSets

CONSTANTS
    Clients,    \* each with one update of its config
    Slots,
    MainOf,     \* client -> its main slot, the first of its config
    SlotsOf,    \* client -> all of its slots
    Carries,    \* client -> the kinds of keys in its update
    Signing,    \* the clients whose config names a key to sign with
    NeedsSignature, \* the slots are outside the cluster "@system"
    MaxAttempts,    \* of retry(), 3
    Initial,
    MaxFaults,  \* bound: how often the network may fail
    Drops       \* the slots that may be deleted

ASSUME SyncAssumption ==
    /\ MainOf \in [Clients -> Slots]
    /\ SlotsOf \in [Clients -> SUBSET Slots]
    /\ \A k \in Clients : MainOf[k] \in SlotsOf[k]
    /\ Carries \in [Clients -> (SUBSET {"shared", "private"}) \ {{}}]
    /\ Signing \subseteq Clients /\ NeedsSignature \in BOOLEAN
    /\ MaxAttempts \in Nat \ {0}
    /\ MaxFaults \in Nat /\ Drops \subseteq Slots

Tries == 0 .. MaxAttempts - 1

(* The write requests: one for each try of a client to update a slot.      *)
Attempts == [client : Clients, slot : Slots, try : Tries]

ASSUME InitialNoAttempt == Initial \notin Attempts

VARIABLES
    stored, target, base, seen, answer,     \* as in VersionedContent
    sync,       \* client -> its call of updateConfigRemoteReducer
    step,       \* client, slot -> where the retried action for the slot is
    try,        \* client, slot -> its number of failed attempts
    sent,       \* the write requests on their way
    cached,     \* client, slot -> the value in the cache of the browser
    faults      \* how often the network has failed

server == <<stored, target, base, seen, answer, sent>>
vars == <<server, sync, step, try, cached, faults>>

Server == INSTANCE VersionedContent WITH Contents <- Slots, Requests <- Attempts

Tasks == Clients \X Slots

TypeOK ==
    /\ Server!TypeOK
    /\ sync \in [Clients -> {"idle", "running", "done", "failed"}]
    /\ step \in [Tasks -> {"off", "fetch", "node", "sent", "done", "failed"}]
    /\ try \in [Tasks -> Tries]
    /\ sent \in SUBSET Attempts
    /\ cached \in [Tasks -> Server!Stored]
    /\ faults \in 0 .. MaxFaults

(* Every client has seen the slots before: the browser has a value of them. *)
Init ==
    /\ target = [a \in Attempts |-> a.slot]
    /\ Server!Init
    /\ sync = [k \in Clients |-> "idle"]
    /\ step = [t \in Tasks |-> "off"]
    /\ try = [t \in Tasks |-> 0]
    /\ sent = {}
    /\ cached = [t \in Tasks |-> stored[t[2]]]
    /\ faults = 0

Attempt(k, s) == [client |-> k, slot |-> s, try |-> try[<<k, s>>]]

(* The update of k is part of a value that merged these attempts.          *)
Includes(merged, k, s) == \E n \in Tries : [client |-> k, slot |-> s, try |-> n] \in merged

-----------------------------------------------------------------------------
(* The slots the first query finds.                                        *)
Found(k) == {s \in SlotsOf[k] : stored[s].here}

(* Private keys go to the main slot only.                                  *)
Portion(k, s) == IF s = MainOf[k] THEN Carries[k] ELSE Carries[k] \ {"private"}

(* An update of nothing but private keys skips the main slot.              *)
Skipped(k, s) == s = MainOf[k] /\ Carries[k] = {"private"}

(* The nodes of these slots come with their update ids.                    *)
ReadNodes(k, slots) ==
    LET read == {Attempt(k, s) : s \in slots}
    IN  /\ base' = [a \in Attempts |-> IF a \in read THEN stored[a.slot].id ELSE base[a]]
        /\ answer' = [a \in Attempts |-> IF a \in read THEN "read" ELSE answer[a]]
        /\ step' = [t \in Tasks |-> IF t[1] = k /\ t[2] \in slots THEN "node" ELSE step[t]]

(* The query for all slots; without the main slot there is an error.       *)
Begin(k) ==
    /\ sync[k] = "idle"
    /\ IF MainOf[k] \in Found(k)
       THEN /\ sync' = [sync EXCEPT ![k] = "running"]
            /\ ReadNodes(k, {s \in Found(k) : ~Skipped(k, s)})
       ELSE /\ sync' = [sync EXCEPT ![k] = "failed"]
            /\ UNCHANGED <<step, base, answer>>
    /\ UNCHANGED <<stored, target, seen, sent, try, cached, faults>>

(* A bug: the action is not tried again.                                   *)
GiveUpAtOnce(k, s) == step' = [step EXCEPT ![<<k, s>>] = "failed"] /\ UNCHANGED try

(* A bug: there is no end to the attempts.                                 *)
TryForever(k, s) ==
    /\ try' = [try EXCEPT ![<<k, s>>] = @ + 1]
    /\ step' = [step EXCEPT ![<<k, s>>] = "fetch"]

(* retry(): the action has thrown.                                         *)
TryAgain(k, s) ==
    IF try[<<k, s>>] + 1 < MaxAttempts
    THEN /\ try' = [try EXCEPT ![<<k, s>>] = @ + 1]
         /\ step' = [step EXCEPT ![<<k, s>>] = "fetch"]
    ELSE step' = [step EXCEPT ![<<k, s>>] = "failed"] /\ UNCHANGED try

(* A bug: a later attempt goes on with the node of the one before.         *)
RefetchNothing(k, s) ==
    /\ step[<<k, s>>] = "fetch"
    /\ base' = [base EXCEPT ![Attempt(k, s)] = base[[Attempt(k, s) EXCEPT !.try = @ - 1]]]
    /\ answer' = [answer EXCEPT ![Attempt(k, s)] = "read"]
    /\ step' = [step EXCEPT ![<<k, s>>] = "node"]
    /\ UNCHANGED <<stored, target, seen, sent, sync, try, cached, faults>>

(* A later attempt asks for the slot again.                                *)
Refetch(k, s) ==
    /\ step[<<k, s>>] = "fetch"
    /\ IF stored[s].here
       THEN ReadNodes(k, {s}) /\ UNCHANGED try
       ELSE TryAgain(k, s) /\ UNCHANGED <<base, answer>>
    /\ UNCHANGED <<stored, target, seen, sent, sync, cached, faults>>

(* A bug: a value is taken whether the key of the node opens it or not.    *)
DecryptsAny(k, s, value) == value.here

(* The value is fetched after the node.  Every write takes a new key, so   *)
(* the key of the node opens the value that was written with it only.      *)
Decrypts(k, s, value) == value.here /\ value.id = base[Attempt(k, s)]

(* A bug: the merged config is always written.                             *)
ChangesAlways(k, s, value) == Portion(k, s) # {}

(* The count of changes of updateConfig.                                   *)
Changes(k, s, value) == Portion(k, s) # {} /\ ~Includes(value.merged, k, s)

(* The value is merged with the update; without changes nothing is sent.   *)
(* updateContent is called without a signature algorithm and has no        *)
(* default, so that it throws as soon as there is a key to sign with.      *)
Merge(k, s, value) ==
    /\ seen' = [seen EXCEPT ![Attempt(k, s)] = value.merged]
    /\ CASE ~Changes(k, s, value) ->
              step' = [step EXCEPT ![<<k, s>>] = "done"] /\ UNCHANGED <<sent, try>>
         [] Changes(k, s, value) /\ k \in Signing -> TryAgain(k, s) /\ UNCHANGED sent
         [] OTHER -> /\ sent' = sent \cup {Attempt(k, s)}
                     /\ step' = [step EXCEPT ![<<k, s>>] = "sent"]
                     /\ UNCHANGED try

Use(k, s, value) ==
    /\ step[<<k, s>>] = "node"
    /\ IF Decrypts(k, s, value)
       THEN Merge(k, s, value)
       ELSE TryAgain(k, s) /\ UNCHANGED <<seen, sent>>
    /\ UNCHANGED <<stored, target, base, answer, sync>>

(* The network fails once more.                                            *)
Fault == faults < MaxFaults /\ faults' = faults + 1

(* fallback_fetch; the cache is tracked where it may be needed.            *)
FetchValue(k, s) ==
    /\ Use(k, s, stored[s])
    /\ cached' = IF MaxFaults > 0 /\ stored[s].here
                 THEN [cached EXCEPT ![<<k, s>>] = stored[s]] ELSE cached
    /\ UNCHANGED faults

(* The network fails, and the browser answers from its cache.              *)
FetchCached(k, s) ==
    /\ Fault
    /\ Use(k, s, cached[<<k, s>>])
    /\ UNCHANGED cached

(* A bug: every answer is taken for writeok = True.                        *)
AnsweredAny(k, s) ==
    /\ step[<<k, s>>] = "sent"
    /\ Attempt(k, s) \notin sent
    /\ step' = [step EXCEPT ![<<k, s>>] = "done"]
    /\ UNCHANGED <<server, sync, try, cached, faults>>

(* The answer to the mutation.                                             *)
Answered(k, s) ==
    /\ step[<<k, s>>] = "sent"
    /\ Attempt(k, s) \notin sent
    /\ IF answer[Attempt(k, s)] = "ok"
       THEN step' = [step EXCEPT ![<<k, s>>] = "done"] /\ UNCHANGED try
       ELSE TryAgain(k, s)
    /\ UNCHANGED <<server, sync, cached, faults>>

(* The network fails while the client waits: the request may be lost, may  *)
(* have been handled, or may still be handled later.                       *)
Interrupted(k, s) ==
    /\ Fault
    /\ step[<<k, s>>] = "sent"
    /\ TryAgain(k, s)
    /\ UNCHANGED <<server, sync, cached>>

(* A bug: the result waits for the success of every slot.                  *)
FinishAllDone(k) ==
    /\ sync[k] = "running"
    /\ sync' = [sync EXCEPT ![k] = IF \A s \in Slots : step[<<k, s>>] \in {"off", "done"}
                                   THEN "done" ELSE "running"]
    /\ UNCHANGED <<server, step, try, cached, faults>>

(* Promise.allSettled, and the result of the main slot.                    *)
Finish(k) ==
    /\ sync[k] = "running"
    /\ \A s \in Slots : step[<<k, s>>] \in {"off", "done", "failed"}
    /\ sync' = [sync EXCEPT ![k] = IF step[<<k, MainOf[k]>>] = "failed" THEN "failed" ELSE "done"]
    /\ UNCHANGED <<server, step, try, cached, faults>>

-----------------------------------------------------------------------------
(* The server, which knows nothing of who still waits.  What is sent never *)
(* is signed (see Merge), and an unsigned value is an error where contents *)
(* need a signature.                                                       *)
Handle(a) ==
    /\ a \in sent
    /\ IF NeedsSignature THEN Server!Fail(a) ELSE Server!Accept(a) \/ Server!Refuse(a)
    /\ sent' = sent \ {a}
    /\ UNCHANGED <<sync, step, try, cached, faults>>

(* A request is lost, or ends in an error.                                 *)
Lose(a) ==
    /\ Fault
    /\ a \in sent
    /\ Server!Fail(a)
    /\ sent' = sent \ {a}
    /\ UNCHANGED <<sync, step, try, cached>>

DropSlot(s) ==
    /\ s \in Drops
    /\ Server!Drop(s)
    /\ UNCHANGED <<sent, sync, step, try, cached, faults>>

Work(k) ==
    \/ \E s \in Slots : Refetch(k, s) \/ FetchValue(k, s) \/ Answered(k, s)
    \/ Finish(k)

Done ==
    /\ \A k \in Clients : sync[k] \in {"done", "failed"}
    /\ sent = {}
    /\ UNCHANGED vars

Next ==
    \/ \E k \in Clients : Begin(k) \/ Work(k)
    \/ \E k \in Clients, s \in Slots : FetchCached(k, s) \/ Interrupted(k, s)
    \/ \E a \in sent : Handle(a) \/ Lose(a)
    \/ \E s \in Slots : DropSlot(s)
    \/ Done

Spec == Init /\ [][Next]_vars

(* A running client goes on, and the server answers what reaches it.       *)
Fairness ==
    /\ \A k \in Clients : WF_vars(Work(k))
    /\ \A a \in Attempts : WF_vars(Handle(a))

FairSpec == Spec /\ Fairness

-----------------------------------------------------------------------------
(* Properties.                                                             *)

(* When updateConfigRemoteReducer returns, the update is in the main slot  *)
(* and stays there, whoever writes: whatever was lost, late, refused or    *)
(* answered from a cache on the way.                                       *)
UpdateInMainSlot ==
    \A k \in Clients :
        sync[k] = "done" /\ stored[MainOf[k]].here /\ Carries[k] # {"private"} =>
            Includes(stored[MainOf[k]].merged, k, MainOf[k])

(* A retried write, of which an earlier try may still be on its way, takes *)
(* effect once: a late request meets an update id that has moved on.       *)
AppliedOnce ==
    \A s \in Slots, k \in Clients :
        Cardinality({a \in stored[s].merged : a.client = k}) <= 1

(* No update of another client vanishes from a slot.                       *)
SlotsOnlyGrow == Server!OnlyGrows

(* No attempt is wasted: each failed one has a cause of its own, another   *)
(* update that got into the slot, an earlier attempt of the same client    *)
(* that was still on its way, or a failing network.  So the three attempts *)
(* are enough for three clients at once on a working network.              *)
Failures(k, s) == try[<<k, s>>] + (IF step[<<k, s>>] = "failed" THEN 1 ELSE 0)

FailuresHaveCauses ==
    \A k \in Clients, s \in Slots :
        stored[s].here =>
            Failures(k, s) <= Cardinality(stored[s].merged \ {Attempt(k, s)}) + faults

(* A call of updateConfigRemoteReducer ends, however its attempts fare.    *)
SyncEnds == \A k \in Clients : sync[k] = "running" ~> sync[k] \in {"done", "failed"}
===============================================================================
