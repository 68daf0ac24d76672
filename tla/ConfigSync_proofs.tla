--------------------------- MODULE ConfigSync_proofs ---------------------------
(***************************************************************************)
(* Whoever the clients are, which slots they know, and however often the   *)
(* network fails: slots only grow, an update is applied once, and one that *)
(* was reported as done is in the main slot; and where nothing is signed,  *)
(* no attempt fails without a cause of its own.                            *)
(***************************************************************************)
EXTENDS ConfigSync, FiniteSetTheorems, TLAPS

-----------------------------------------------------------------------------
(* The inductive invariant *)

\* A value holds updates of its own slot, and one of each client at most.
Sound(merged, s) ==
    /\ merged \subseteq Attempts
    /\ \A a \in merged : a.slot = s
    /\ \A a, b \in merged : a.client = b.client => a = b

\* The requests name the slot they are for.
Targets == target = [a \in Attempts |-> a.slot]

\* An update id in use comes from an acknowledged write.
Accepted(id, answers) == id = Initial \/ answers[id] = "ok"
IdsAccepted ==
    /\ \A s \in Slots : Accepted(stored[s].id, answer)
    /\ \A a \in Attempts : Accepted(base[a], answer)
    /\ \A t \in Tasks : Accepted(cached[t].id, answer)

\* A slot holds all that was acknowledged for it.
StoredOK ==
    /\ \A s \in Slots : Sound(stored[s].merged, s)
    /\ \A a \in Attempts : answer[a] = "ok" => a \in stored[a.slot].merged

\* A value that a client can get for a slot is the one stored, or an earlier
\* one with less in it and another update id.
ValueOK(value, s) ==
    /\ value.merged \subseteq stored[s].merged
    /\ value.id = stored[s].id => value.merged = stored[s].merged
CachesOK == \A t \in Tasks : ValueOK(cached[t], t[2])

\* What is on its way adds to the value its client has read.
SentOK ==
    \A a \in sent :
        /\ base[a] = stored[a.slot].id => seen[a] = stored[a.slot].merged
        /\ \A b \in seen[a] : b.client # a.client
        /\ a.try <= try[<<a.client, a.slot>>]
        /\ a.try = try[<<a.client, a.slot>>] => step[<<a.client, a.slot>>] \in {"sent", "failed"}

\* An attempt to come has neither read nor written.
Fresh ==
    \A k \in Clients, s \in Slots, n \in Tries :
        n > try[<<k, s>>] \/ (n = try[<<k, s>>] /\ step[<<k, s>>] \in {"off", "fetch"})
            => answer[[client |-> k, slot |-> s, try |-> n]] = "idle"

\* Before its first query a client does nothing.
Resting == \A k \in Clients : sync[k] = "idle" => \A s \in Slots : step[<<k, s>>] = "off"

\* A finished action has its update in the main slot.
MainOK ==
    \A k \in Clients : Carries[k] # {"private"} =>
        /\ sync[k] \in {"running", "done"} => step[<<k, MainOf[k]>>] # "off"
        /\ sync[k] = "done" => step[<<k, MainOf[k]>>] = "done"
        /\ step[<<k, MainOf[k]>>] = "done" => Includes(stored[MainOf[k]].merged, k, MainOf[k])

IInv == TypeOK /\ Targets /\ IdsAccepted /\ StoredOK /\ CachesOK /\ SentOK /\ Fresh /\ Resting /\ MainOK

-----------------------------------------------------------------------------
(* Facts about attempts *)

\* The number of an attempt, and the attempt of a number.
LEMMA AttemptTypes ==
    ASSUME NEW a \in Attempts
    PROVE  /\ a.client \in Clients /\ a.slot \in Slots /\ a.try \in Tries /\ a.try \in Nat
           /\ a = [client |-> a.client, slot |-> a.slot, try |-> a.try]
           /\ <<a.client, a.slot>> \in Tasks /\ a # Initial
PROOF
    BY SyncAssumption, InitialNoAttempt DEF Attempts, Tries, Tasks, SyncAssumption, InitialNoAttempt

\* The attempt a client works on.
LEMMA CurrentAttempt ==
    ASSUME TypeOK, NEW k \in Clients, NEW s \in Slots
    PROVE  /\ Attempt(k, s) \in Attempts /\ Attempt(k, s).client = k /\ Attempt(k, s).slot = s
           /\ Attempt(k, s).try = try[<<k, s>>] /\ try[<<k, s>>] \in Tries /\ try[<<k, s>>] \in Nat
           /\ <<k, s>> \in Tasks
PROOF
    BY SyncAssumption DEF Attempt, Attempts, TypeOK, Tasks, Tries, SyncAssumption

\* The types of the server.
LEMMA ServerTypes ==
    ASSUME TypeOK
    PROVE  /\ stored \in [Slots -> [here : BOOLEAN, id : Attempts \cup {Initial}, merged : SUBSET Attempts]]
           /\ target \in [Attempts -> Slots]
           /\ base \in [Attempts -> Attempts \cup {Initial}]
           /\ seen \in [Attempts -> SUBSET Attempts]
           /\ answer \in [Attempts -> {"idle", "read", "ok", "refused", "failed"}]
           /\ cached \in [Tasks -> [here : BOOLEAN, id : Attempts \cup {Initial}, merged : SUBSET Attempts]]
PROOF
    BY DEF TypeOK, Server!TypeOK, Server!Stored, Server!UpdateIds, Server!Answers

\* And back.
LEMMA TypesOfServer ==
    ASSUME stored \in [Slots -> [here : BOOLEAN, id : Attempts \cup {Initial}, merged : SUBSET Attempts]],
           target \in [Attempts -> Slots],
           base \in [Attempts -> Attempts \cup {Initial}],
           seen \in [Attempts -> SUBSET Attempts],
           answer \in [Attempts -> {"idle", "read", "ok", "refused", "failed"}]
    PROVE  Server!TypeOK
PROOF
    BY DEF Server!TypeOK, Server!Stored, Server!UpdateIds, Server!Answers

-----------------------------------------------------------------------------
(* Initially *)

\* Nobody has read or written.
LEMMA IInvInit == Init => IInv
PROOF
<1> SUFFICES ASSUME Init PROVE IInv
    OBVIOUS
<1>1. /\ stored = [s \in Slots |-> [here |-> TRUE, id |-> Initial, merged |-> {}]]
      /\ target = [a \in Attempts |-> a.slot]
      /\ base = [a \in Attempts |-> Initial] /\ seen = [a \in Attempts |-> {}]
      /\ answer = [a \in Attempts |-> "idle"]
    BY DEF Init, Server!Init
<1>2. \A t \in Tasks : t[2] \in Slots /\ cached[t] = [here |-> TRUE, id |-> Initial, merged |-> {}]
    BY <1>1 DEF Init, Tasks
<1>3. TypeOK
    <2>1. target \in [Attempts -> Slots]
        BY <1>1, AttemptTypes
    <2>2. Server!TypeOK
        BY <1>1, <2>1, TypesOfServer
    <2>3. cached \in [Tasks -> Server!Stored]
        BY <1>1 DEF Init, Tasks, Server!Stored, Server!UpdateIds
    <2>4. 0 \in Tries /\ faults \in 0 .. MaxFaults
        BY SyncAssumption DEF Init, Tries, SyncAssumption
    <2> QED
        BY <2>2, <2>3, <2>4 DEF Init, TypeOK
<1>4. Targets /\ IdsAccepted
    BY <1>1, <1>2 DEF Targets, IdsAccepted, Accepted
<1>5. StoredOK
    BY <1>1 DEF StoredOK, Sound
<1>6. CachesOK
    BY <1>1, <1>2 DEF CachesOK, ValueOK
<1>7. SentOK /\ Resting
    BY DEF Init, SentOK, Resting, Tasks
<1>8. Fresh
    BY <1>1 DEF Fresh, Attempts
<1>9. MainOK
    <2>1. \A k \in Clients : sync[k] = "idle" /\ step[<<k, MainOf[k]>>] = "off"
        BY SyncAssumption DEF Init, Tasks, SyncAssumption
    <2> QED
        BY <2>1 DEF MainOK
<1> QED
    BY <1>3, <1>4, <1>5, <1>6, <1>7, <1>8, <1>9 DEF IInv

-----------------------------------------------------------------------------
(* Reading nodes *)

\* The nodes of slots whose attempts are fresh.
LEMMA ReadNodesKeeps ==
    ASSUME IInv, NEW k \in Clients, NEW slots \in SUBSET Slots, ReadNodes(k, slots),
           \A s \in slots : step[<<k, s>>] \in {"off", "fetch"},
           UNCHANGED <<stored, target, seen, sent, try, cached, faults>>,
           sync' \in [Clients -> {"idle", "running", "done", "failed"}],
           \A j \in Clients : j # k => sync'[j] = sync[j],
           sync'[k] # "idle", sync'[k] = "done" => sync[k] = "done",
           sync'[k] = "running" /\ sync[k] # "running" => MainOf[k] \in slots \/ Carries[k] = {"private"}
    PROVE  IInv'
PROOF
<1> USE DEF IInv
<1> DEFINE read == {Attempt(k, s) : s \in slots}
<1>1. /\ base' = [a \in Attempts |-> IF a \in read THEN stored[a.slot].id ELSE base[a]]
      /\ answer' = [a \in Attempts |-> IF a \in read THEN "read" ELSE answer[a]]
      /\ step' = [t \in Tasks |-> IF t[1] = k /\ t[2] \in slots THEN "node" ELSE step[t]]
    BY DEF ReadNodes
<1>2. \A a \in read : a \in Attempts /\ a.client = k /\ a.slot \in slots /\ a.try = try[<<k, a.slot>>]
                      /\ answer[a] = "idle"
    <2>1. ASSUME NEW s \in slots
          PROVE  /\ Attempt(k, s) \in Attempts /\ Attempt(k, s).client = k
                 /\ Attempt(k, s).slot = s /\ Attempt(k, s).try = try[<<k, s>>]
                 /\ answer[Attempt(k, s)] = "idle"
        BY CurrentAttempt DEF Fresh, Attempt
    <2> TAKE a \in read
    <2>2. PICK s \in slots : a = Attempt(k, s)
        OBVIOUS
    <2> QED
        BY <2>1, <2>2
<1>3. \A id \in Attempts \cup {Initial} : Accepted(id, answer) => Accepted(id, answer')
    BY <1>1, <1>2 DEF Accepted
<1>4. TypeOK'
    <2>1. base' \in [Attempts -> Attempts \cup {Initial}]
          /\ answer' \in [Attempts -> {"idle", "read", "ok", "refused", "failed"}]
        BY <1>1, <1>2, ServerTypes, AttemptTypes
    <2>2. Server!TypeOK'
        BY <2>1, ServerTypes DEF Server!TypeOK, Server!Stored, Server!UpdateIds, Server!Answers
    <2>3. step' \in [Tasks -> {"off", "fetch", "node", "sent", "done", "failed"}]
        BY <1>1 DEF TypeOK
    <2> QED
        BY <2>2, <2>3 DEF TypeOK, Server!Stored, Server!UpdateIds
<1>5. Targets' /\ CachesOK'
    BY DEF Targets, CachesOK, ValueOK
<1>6. IdsAccepted'
    <2>1. ASSUME NEW a \in Attempts PROVE Accepted(base'[a], answer')
        <3>1. base'[a] \in {base[a], stored[a.slot].id} /\ a.slot \in Slots
            BY <1>1, AttemptTypes
        <3>2. Accepted(base[a], answer) /\ Accepted(stored[a.slot].id, answer)
            BY <3>1 DEF IdsAccepted
        <3> QED
            BY <1>3, <3>1, <3>2, ServerTypes
    <2>2. \A s \in Slots : Accepted(stored[s].id, answer')
        BY <1>3, ServerTypes DEF IdsAccepted
    <2>3. \A t \in Tasks : Accepted(cached[t].id, answer')
        BY <1>3, ServerTypes DEF IdsAccepted
    <2> QED
        BY <2>1, <2>2, <2>3 DEF IdsAccepted
<1>7. StoredOK'
    <2>1. \A a \in Attempts : answer'[a] = "ok" => answer[a] = "ok"
        BY <1>1
    <2> QED
        BY <2>1 DEF StoredOK
<1>8. \A t \in Tasks : step'[t] = step[t] \/ (step'[t] = "node" /\ step[t] \in {"off", "fetch"})
    BY <1>1 DEF Tasks
<1>9. SentOK'
    <2>1. ASSUME NEW a \in sent
          PROVE  /\ base'[a] = base[a]
                 /\ step'[<<a.client, a.slot>>] = step[<<a.client, a.slot>>] \/ a.try < try[<<a.client, a.slot>>]
                 /\ a \notin read
        <3>1. a \in Attempts /\ <<a.client, a.slot>> \in Tasks
            BY AttemptTypes DEF TypeOK
        <3>2. a.try <= try[<<a.client, a.slot>>]
              /\ (a.try = try[<<a.client, a.slot>>] => step[<<a.client, a.slot>>] \in {"sent", "failed"})
            BY DEF SentOK
        <3>3. a \notin read
            BY <1>2, <3>2
        <3>4. a.try \in Nat /\ try[<<a.client, a.slot>>] \in Nat
            BY <3>1, AttemptTypes, CurrentAttempt
        <3> QED
            BY <1>1, <1>8, <3>1, <3>2, <3>3, <3>4
    <2>2. ASSUME NEW a \in sent PROVE a \in Attempts /\ a.try \in Nat /\ try[<<a.client, a.slot>>] \in Nat
        BY AttemptTypes, CurrentAttempt DEF TypeOK
    <2>3. ASSUME NEW a \in sent, a.try = try[<<a.client, a.slot>>]
          PROVE step'[<<a.client, a.slot>>] \in {"sent", "failed"}
        BY <2>1, <2>2, <2>3 DEF SentOK
    <2>4. ASSUME NEW a \in sent
          PROVE  /\ base'[a] = stored[a.slot].id => seen[a] = stored[a.slot].merged
                 /\ \A b \in seen[a] : b.client # a.client
                 /\ a.try <= try[<<a.client, a.slot>>]
        BY <2>1 DEF SentOK
    <2> QED
        BY <2>3, <2>4 DEF SentOK
<1>10. Fresh'
    <2> SUFFICES ASSUME NEW j \in Clients, NEW s \in Slots, NEW n \in Tries,
                        n > try[<<j, s>>] \/ (n = try[<<j, s>>] /\ step'[<<j, s>>] \in {"off", "fetch"})
                 PROVE  answer'[[client |-> j, slot |-> s, try |-> n]] = "idle"
        BY DEF Fresh
    <2> DEFINE a == [client |-> j, slot |-> s, try |-> n]
    <2>1. a \in Attempts /\ a.client = j /\ a.slot = s /\ a.try = n
        BY DEF Attempts
    <2>2. <<j, s>> \in Tasks /\ try[<<j, s>>] \in Nat /\ n \in Nat
        BY CurrentAttempt, SyncAssumption DEF Tries, SyncAssumption
    <2>3. answer[a] = "idle"
        BY <1>8, <2>2 DEF Fresh
    <2>4. a \notin read
        <3> SUFFICES ASSUME a \in read PROVE FALSE
            OBVIOUS
        <3>1. j = k /\ s \in slots /\ n = try[<<j, s>>]
            BY <1>2, <2>1
        <3>2. step'[<<j, s>>] = "node"
            BY <1>1, <2>2, <3>1
        <3> QED
            BY <2>2, <3>1, <3>2
    <2> HIDE DEF read
    <2> QED
        BY <1>1, <2>1, <2>3, <2>4
<1>11. Resting'
    <2>1. \A j \in Clients : sync'[j] = "idle" => j # k /\ sync[j] = "idle"
        OBVIOUS
    <2> QED
        BY <1>1, <2>1 DEF Resting, Tasks
<1>12. MainOK'
    <2> SUFFICES ASSUME NEW j \in Clients, Carries[j] # {"private"}
                 PROVE  /\ sync'[j] \in {"running", "done"} => step'[<<j, MainOf[j]>>] # "off"
                        /\ sync'[j] = "done" => step'[<<j, MainOf[j]>>] = "done"
                        /\ step'[<<j, MainOf[j]>>] = "done" => Includes(stored[MainOf[j]].merged, j, MainOf[j])
        BY DEF MainOK, Includes
    <2>1. MainOf[j] \in Slots /\ <<j, MainOf[j]>> \in Tasks
        BY SyncAssumption DEF SyncAssumption, Tasks
    <2>2. /\ sync[j] \in {"running", "done"} => step[<<j, MainOf[j]>>] # "off"
          /\ sync[j] = "done" => step[<<j, MainOf[j]>>] = "done"
          /\ step[<<j, MainOf[j]>>] = "done" => Includes(stored[MainOf[j]].merged, j, MainOf[j])
        BY DEF MainOK
    <2>3. step'[<<j, MainOf[j]>>] \in {step[<<j, MainOf[j]>>], "node"}
          /\ (step'[<<j, MainOf[j]>>] # step[<<j, MainOf[j]>>] => step[<<j, MainOf[j]>>] # "done")
        BY <1>8, <2>1
    <2>4. CASE j # k
        BY <2>2, <2>3, <2>4
    <2>5. CASE j = k
        <3>1. sync'[k] = "running" => step'[<<k, MainOf[k]>>] # "off"
            BY <1>1, <2>1, <2>2, <2>3, <2>5
        <3> QED
            BY <2>2, <2>3, <2>5, <3>1
    <2> QED
        BY <2>4, <2>5
<1> QED
    BY <1>4, <1>5, <1>6, <1>7, <1>9, <1>10, <1>11, <1>12

\* The step of a client that is refused its main slot.
LEMMA BeginKeeps == ASSUME IInv, NEW k \in Clients, Begin(k) PROVE IInv'
PROOF
<1>1. /\ sync[k] = "idle" /\ \A s \in Slots : step[<<k, s>>] = "off"
      /\ UNCHANGED <<stored, target, seen, sent, try, cached, faults>>
    BY DEF Begin, IInv, Resting
<1>2. sync \in [Clients -> {"idle", "running", "done", "failed"}]
    BY DEF IInv, TypeOK
<1>3. CASE MainOf[k] \in Found(k)
    <2> DEFINE slots == {s \in Found(k) : ~Skipped(k, s)}
    <2>1. sync' = [sync EXCEPT ![k] = "running"] /\ ReadNodes(k, slots)
        BY <1>3 DEF Begin
    <2>2. slots \subseteq Slots
        BY SyncAssumption DEF Found, SyncAssumption
    <2>3. MainOf[k] \in slots \/ Carries[k] = {"private"}
        BY <1>3 DEF Skipped
    <2> HIDE DEF slots
    <2> QED
        BY <1>1, <1>2, <2>1, <2>2, <2>3, ReadNodesKeeps
<1>4. CASE MainOf[k] \notin Found(k)
    <2>1. sync' = [sync EXCEPT ![k] = "failed"] /\ UNCHANGED <<step, base, answer>>
        BY <1>4 DEF Begin
    <2>2. TypeOK'
        BY <1>1, <1>2, <2>1 DEF IInv, TypeOK, Server!TypeOK, Server!Stored, Server!UpdateIds
    <2>3. Targets' /\ IdsAccepted' /\ StoredOK' /\ CachesOK' /\ SentOK' /\ Fresh'
        BY <1>1, <2>1 DEF IInv, Targets, IdsAccepted, StoredOK, CachesOK, ValueOK, SentOK, Fresh
    <2>4. Resting' /\ MainOK'
        BY <1>1, <1>2, <2>1 DEF IInv, Resting, MainOK, Includes
    <2> QED
        BY <2>2, <2>3, <2>4 DEF IInv
<1> QED
    BY <1>3, <1>4

-----------------------------------------------------------------------------
(* The steps of an action *)

\* An action for one slot goes on, is tried again or ends.
LEMMA TaskStep ==
    ASSUME IInv, NEW k \in Clients, NEW s \in Slots, step[<<k, s>>] \in {"fetch", "node", "sent"},
           NEW x \in {"fetch", "sent", "done", "failed"},
           UNCHANGED <<stored, target, base, answer, sync>>, faults' \in 0 .. MaxFaults,
           cached' \in [Tasks -> Server!Stored],
           \A t \in Tasks : ValueOK(cached'[t], t[2]) /\ Accepted(cached'[t].id, answer),
           step' = [step EXCEPT ![<<k, s>>] = x],
           \/ x # "fetch" /\ try' = try
           \/ x = "fetch" /\ try[<<k, s>>] + 1 < MaxAttempts
              /\ try' = [try EXCEPT ![<<k, s>>] = @ + 1],
           sent \subseteq sent', sent' \subseteq sent \cup {Attempt(k, s)},
           seen' \in [Attempts -> SUBSET Attempts],
           \A a \in Attempts : a # Attempt(k, s) => seen'[a] = seen[a],
           Attempt(k, s) \in sent' =>
               /\ x # "done"
               /\ base[Attempt(k, s)] = stored[s].id => seen'[Attempt(k, s)] = stored[s].merged
               /\ \A b \in seen'[Attempt(k, s)] : b.client # k,
           x = "done" /\ s = MainOf[k] /\ Carries[k] # {"private"} => Includes(stored[s].merged, k, s)
    PROVE  IInv'
PROOF
<1> DEFINE A == Attempt(k, s)
<1>0. /\ TypeOK /\ A \in Attempts /\ A.client = k /\ A.slot = s /\ A.try = try[<<k, s>>]
      /\ <<k, s>> \in Tasks /\ try[<<k, s>>] \in Nat /\ MaxAttempts \in Nat
    BY CurrentAttempt, SyncAssumption DEF IInv, SyncAssumption
<1>1. /\ step'[<<k, s>>] = x
      /\ \A t \in Tasks : t # <<k, s>> => step'[t] = step[t] /\ try'[t] = try[t]
    BY <1>0 DEF TypeOK
<1>2. \/ x # "fetch" /\ try'[<<k, s>>] = try[<<k, s>>]
      \/ x = "fetch" /\ try'[<<k, s>>] = try[<<k, s>>] + 1
    BY <1>0 DEF TypeOK
<1>3. TypeOK'
    <2>1. try' \in [Tasks -> Tries]
        <3>1. CASE try' = try
            BY <1>0, <3>1 DEF TypeOK
        <3>2. CASE try[<<k, s>>] + 1 < MaxAttempts /\ try' = [try EXCEPT ![<<k, s>>] = @ + 1]
            <4>1. try[<<k, s>>] + 1 \in Tries
                BY <1>0, <3>2 DEF Tries
            <4> QED
                BY <1>0, <3>2, <4>1 DEF TypeOK
        <3> QED
            BY <3>1, <3>2
    <2>2. step' \in [Tasks -> {"off", "fetch", "node", "sent", "done", "failed"}]
        BY <1>0 DEF TypeOK
    <2>3. sent' \in SUBSET Attempts
        BY <1>0 DEF TypeOK
    <2>4. Server!TypeOK'
        BY <1>0, ServerTypes DEF Server!TypeOK, Server!Stored, Server!UpdateIds, Server!Answers
    <2>5. cached' \in [Tasks -> Server!Stored]'
        BY DEF Server!Stored, Server!UpdateIds
    <2> QED
        BY <1>0, <2>1, <2>2, <2>3, <2>4, <2>5 DEF TypeOK
<1>4. Targets' /\ IdsAccepted' /\ StoredOK' /\ CachesOK'
    BY DEF IInv, Targets, IdsAccepted, StoredOK, CachesOK, ValueOK
<1>5. SentOK'
    <2> SUFFICES ASSUME NEW a \in sent'
                 PROVE  /\ base[a] = stored[a.slot].id => seen'[a] = stored[a.slot].merged
                        /\ \A b \in seen'[a] : b.client # a.client
                        /\ a.try <= try'[<<a.client, a.slot>>]
                        /\ a.try = try'[<<a.client, a.slot>>] => step'[<<a.client, a.slot>>] \in {"sent", "failed"}
        BY DEF SentOK
    <2>1. CASE a = A
        BY <1>0, <1>1, <1>2, <2>1
    <2>2. CASE a # A
        <3>1. a \in sent /\ a \in Attempts
            BY <2>2, <1>0 DEF TypeOK
        <3>2. /\ base[a] = stored[a.slot].id => seen[a] = stored[a.slot].merged
              /\ \A b \in seen[a] : b.client # a.client
              /\ a.try <= try[<<a.client, a.slot>>]
              /\ a.try = try[<<a.client, a.slot>>] => step[<<a.client, a.slot>>] \in {"sent", "failed"}
            BY <3>1 DEF IInv, SentOK
        <3>3. /\ <<a.client, a.slot>> \in Tasks /\ a.try \in Nat
              /\ a = [client |-> a.client, slot |-> a.slot, try |-> a.try]
            BY <3>1, AttemptTypes
        <3>4. CASE <<a.client, a.slot>> = <<k, s>>
            <4>1. a.try # try[<<k, s>>]
                BY <2>2, <3>3, <3>4 DEF Attempt
            <4> QED
                BY <1>0, <1>2, <2>2, <3>1, <3>2, <3>3, <3>4, <4>1
        <3>5. CASE <<a.client, a.slot>> # <<k, s>>
            BY <1>1, <2>2, <3>1, <3>2, <3>3, <3>5
        <3> QED
            BY <3>4, <3>5
    <2> QED
        BY <2>1, <2>2
<1>6. Fresh'
    <2> SUFFICES ASSUME NEW j \in Clients, NEW r \in Slots, NEW n \in Tries,
                        n > try'[<<j, r>>] \/ (n = try'[<<j, r>>] /\ step'[<<j, r>>] \in {"off", "fetch"})
                 PROVE  answer[[client |-> j, slot |-> r, try |-> n]] = "idle"
        BY DEF Fresh
    <2>1. <<j, r>> \in Tasks /\ try[<<j, r>>] \in Nat /\ n \in Nat
        BY <1>0, CurrentAttempt, SyncAssumption DEF Tries, SyncAssumption
    <2>2. n > try[<<j, r>>] \/ (n = try[<<j, r>>] /\ step[<<j, r>>] \in {"off", "fetch"})
        BY <1>0, <1>1, <1>2, <2>1
    <2> QED
        BY <2>2 DEF IInv, Fresh
<1>7. Resting'
    <2>1. sync[k] # "idle"
        BY DEF IInv, Resting
    <2> QED
        BY <1>1, <2>1 DEF IInv, Resting, Tasks
<1>8. MainOK'
    <2> SUFFICES ASSUME NEW j \in Clients, Carries[j] # {"private"}
                 PROVE  /\ sync[j] \in {"running", "done"} => step'[<<j, MainOf[j]>>] # "off"
                        /\ sync[j] = "done" => step'[<<j, MainOf[j]>>] = "done"
                        /\ step'[<<j, MainOf[j]>>] = "done" => Includes(stored[MainOf[j]].merged, j, MainOf[j])
        BY DEF MainOK, Includes
    <2>1. <<j, MainOf[j]>> \in Tasks
        BY SyncAssumption DEF SyncAssumption, Tasks
    <2>2. /\ sync[j] \in {"running", "done"} => step[<<j, MainOf[j]>>] # "off"
          /\ sync[j] = "done" => step[<<j, MainOf[j]>>] = "done"
          /\ step[<<j, MainOf[j]>>] = "done" => Includes(stored[MainOf[j]].merged, j, MainOf[j])
        BY DEF IInv, MainOK
    <2>3. CASE <<j, MainOf[j]>> = <<k, s>>
        BY <1>1, <2>2, <2>3
    <2>4. CASE <<j, MainOf[j]>> # <<k, s>>
        BY <1>1, <2>1, <2>2, <2>4
    <2> QED
        BY <2>3, <2>4
<1> QED
    BY <1>3, <1>4, <1>5, <1>6, <1>7, <1>8 DEF IInv

\* What the browser has cached satisfies what TaskStep asks of a cache.
LEMMA CacheTypes ==
    ASSUME IInv
    PROVE  /\ cached \in [Tasks -> Server!Stored] /\ faults \in 0 .. MaxFaults
           /\ \A t \in Tasks : ValueOK(cached[t], t[2]) /\ Accepted(cached[t].id, answer)
           /\ seen \in [Attempts -> SUBSET Attempts]
PROOF
    BY ServerTypes DEF IInv, TypeOK, CachesOK, IdsAccepted

\* What was sent in the current attempt.
LEMMA CurrentSent ==
    ASSUME IInv, NEW k \in Clients, NEW s \in Slots, Attempt(k, s) \in sent
    PROVE  /\ base[Attempt(k, s)] = stored[s].id => seen[Attempt(k, s)] = stored[s].merged
           /\ \A b \in seen[Attempt(k, s)] : b.client # k
           /\ step[<<k, s>>] \in {"sent", "failed"}
PROOF
    BY CurrentAttempt DEF IInv, SentOK

\* An action is tried again, or was tried often enough.
LEMMA TryAgainKeeps ==
    ASSUME IInv, NEW k \in Clients, NEW s \in Slots, step[<<k, s>>] \in {"fetch", "node", "sent"},
           TryAgain(k, s), UNCHANGED <<stored, target, base, answer, sync, sent>>,
           faults' \in 0 .. MaxFaults, cached' \in [Tasks -> Server!Stored],
           \A t \in Tasks : ValueOK(cached'[t], t[2]) /\ Accepted(cached'[t].id, answer),
           seen' \in [Attempts -> SUBSET Attempts],
           \A a \in Attempts : a # Attempt(k, s) => seen'[a] = seen[a],
           Attempt(k, s) \in sent => seen' = seen
    PROVE  IInv'
PROOF
<1>1. CASE /\ try[<<k, s>>] + 1 < MaxAttempts /\ try' = [try EXCEPT ![<<k, s>>] = @ + 1]
           /\ step' = [step EXCEPT ![<<k, s>>] = "fetch"]
    BY <1>1, CurrentSent, TaskStep
<1>2. CASE step' = [step EXCEPT ![<<k, s>>] = "failed"] /\ try' = try
    BY <1>2, CurrentSent, TaskStep
<1> QED
    BY <1>1, <1>2 DEF TryAgain

\* A later attempt reads the node of its slot.
LEMMA RefetchKeeps ==
    ASSUME IInv, NEW k \in Clients, NEW s \in Slots, Refetch(k, s)
    PROVE  IInv'
PROOF
<1>1. /\ step[<<k, s>>] = "fetch"
      /\ UNCHANGED <<stored, target, seen, sent, sync, cached, faults>>
    BY DEF Refetch
<1>2. CASE ReadNodes(k, {s}) /\ UNCHANGED try
    <2>1. sync[k] # "idle" /\ sync \in [Clients -> {"idle", "running", "done", "failed"}]
        BY <1>1 DEF IInv, Resting, TypeOK
    <2>2. {s} \in SUBSET Slots /\ \A r \in {s} : step[<<k, r>>] \in {"off", "fetch"}
        BY <1>1
    <2> QED
        BY <1>1, <1>2, <2>1, <2>2, ReadNodesKeeps
<1>3. CASE TryAgain(k, s) /\ UNCHANGED <<base, answer>>
    BY <1>1, <1>3, CacheTypes, TryAgainKeeps
<1> QED
    BY <1>2, <1>3 DEF Refetch

\* The value a client uses is stored or cached, so what it merges with is what
\* is stored under the update id it has read.
LEMMA UseKeeps ==
    ASSUME IInv, NEW k \in Clients, NEW s \in Slots, NEW value \in Server!Stored,
           ValueOK(value, s), Use(k, s, value),
           faults' \in 0 .. MaxFaults, cached' \in [Tasks -> Server!Stored],
           \A t \in Tasks : ValueOK(cached'[t], t[2]) /\ Accepted(cached'[t].id, answer)
    PROVE  IInv'
PROOF
<1> DEFINE A == Attempt(k, s)
<1>1. step[<<k, s>>] = "node" /\ UNCHANGED <<stored, target, base, answer, sync>>
    BY DEF Use
<1>2. A \in Attempts /\ A \notin sent /\ value.merged \in SUBSET Attempts
      /\ seen \in [Attempts -> SUBSET Attempts]
    BY <1>1, CurrentAttempt, CurrentSent, ServerTypes DEF IInv, Server!Stored
<1>3. CASE TryAgain(k, s) /\ UNCHANGED <<seen, sent>>
    BY <1>1, <1>2, <1>3, TryAgainKeeps
<1>4. CASE Decrypts(k, s, value) /\ Merge(k, s, value)
    <2>1. /\ seen' = [seen EXCEPT ![A] = value.merged]
          /\ seen' \in [Attempts -> SUBSET Attempts] /\ seen'[A] = value.merged
          /\ \A a \in Attempts : a # A => seen'[a] = seen[a]
        BY <1>2, <1>4 DEF Merge
    <2>2. base[A] = value.id
        BY <1>4 DEF Decrypts
    <2>3. CASE ~Changes(k, s, value)
        <3>1. step' = [step EXCEPT ![<<k, s>>] = "done"] /\ UNCHANGED <<sent, try>>
            BY <1>4, <2>3 DEF Merge
        <3>2. s = MainOf[k] /\ Carries[k] # {"private"} => Includes(stored[s].merged, k, s)
            <4> SUFFICES ASSUME s = MainOf[k], Carries[k] # {"private"}
                         PROVE  Includes(stored[s].merged, k, s)
                OBVIOUS
            <4>1. Portion(k, s) # {}
                BY SyncAssumption DEF Portion, SyncAssumption
            <4>2. Includes(value.merged, k, s)
                BY <2>3, <4>1 DEF Changes
            <4> QED
                BY <4>2 DEF Includes, ValueOK
        <3> QED
            BY <1>1, <1>2, <2>1, <3>1, <3>2, TaskStep
    <2>4. CASE Changes(k, s, value) /\ k \in Signing
        <3>1. TryAgain(k, s) /\ UNCHANGED sent
            BY <1>4, <2>4 DEF Merge
        <3> QED
            BY <1>1, <1>2, <2>1, <3>1, TryAgainKeeps
    <2>5. CASE Changes(k, s, value) /\ k \notin Signing
        <3>1. /\ sent' = sent \cup {A} /\ step' = [step EXCEPT ![<<k, s>>] = "sent"]
              /\ UNCHANGED try
            BY <1>4, <2>5 DEF Merge
        <3>2. base[A] = stored[s].id => seen'[A] = stored[s].merged
            BY <2>1, <2>2 DEF ValueOK
        <3>3. \A b \in seen'[A] : b.client # k
            <4> SUFFICES ASSUME NEW b \in value.merged, b.client = k PROVE FALSE
                BY <2>1
            <4>1. b \in Attempts /\ b.slot = s
                BY <1>2 DEF ValueOK, IInv, StoredOK, Sound
            <4>2. b = [client |-> k, slot |-> s, try |-> b.try] /\ b.try \in Tries
                BY <4>1, AttemptTypes
            <4> QED
                BY <2>5, <4>2 DEF Changes, Includes
        <3> QED
            BY <1>1, <1>2, <2>1, <3>1, <3>2, <3>3, TaskStep
    <2> QED
        BY <2>3, <2>4, <2>5
<1> QED
    BY <1>3, <1>4 DEF Use

\* The value comes from the server, or from the cache.
LEMMA FetchKeeps ==
    ASSUME IInv, NEW k \in Clients, NEW s \in Slots, FetchValue(k, s) \/ FetchCached(k, s)
    PROVE  IInv'
PROOF
<1>1. /\ stored[s] \in Server!Stored /\ ValueOK(stored[s], s) /\ Accepted(stored[s].id, answer)
      /\ <<k, s>> \in Tasks
    BY CurrentAttempt DEF IInv, TypeOK, Server!TypeOK, ValueOK, IdsAccepted
<1>2. CASE FetchValue(k, s)
    <2>1. Use(k, s, stored[s]) /\ faults' = faults /\ cached' \in {cached, [cached EXCEPT ![<<k, s>>] = stored[s]]}
        BY <1>2 DEF FetchValue
    <2>2. cached' \in [Tasks -> Server!Stored]
        BY <1>1, <2>1, CacheTypes
    <2>3. \A t \in Tasks : ValueOK(cached'[t], t[2]) /\ Accepted(cached'[t].id, answer)
        BY <1>1, <2>1, CacheTypes
    <2> QED
        BY <1>1, <2>1, <2>2, <2>3, CacheTypes, UseKeeps
<1>3. CASE FetchCached(k, s)
    <2>1. Use(k, s, cached[<<k, s>>]) /\ cached' = cached /\ faults' \in 0 .. MaxFaults
        BY <1>3, CacheTypes, SyncAssumption DEF FetchCached, Fault, SyncAssumption
    <2>2. cached[<<k, s>>] \in Server!Stored /\ ValueOK(cached[<<k, s>>], s)
        BY <1>1, CacheTypes
    <2> QED
        BY <2>1, <2>2, CacheTypes, UseKeeps
<1> QED
    BY <1>2, <1>3

\* The answer comes, or the wait ends.
LEMMA AnsweredKeeps ==
    ASSUME IInv, NEW k \in Clients, NEW s \in Slots, Answered(k, s) \/ Interrupted(k, s)
    PROVE  IInv'
PROOF
<1>1. /\ step[<<k, s>>] = "sent" /\ UNCHANGED <<server, sync, cached>> /\ faults' \in 0 .. MaxFaults
    BY CacheTypes, SyncAssumption DEF Answered, Interrupted, Fault, SyncAssumption
<1>2. CASE TryAgain(k, s)
    BY <1>1, <1>2, CacheTypes, TryAgainKeeps DEF server
<1>3. CASE /\ Attempt(k, s) \notin sent /\ answer[Attempt(k, s)] = "ok"
           /\ step' = [step EXCEPT ![<<k, s>>] = "done"] /\ UNCHANGED try
    <2>1. Attempt(k, s) \in stored[s].merged
        BY <1>3, CurrentAttempt DEF IInv, StoredOK
    <2>2. Includes(stored[s].merged, k, s)
        BY <2>1, CurrentAttempt DEF Includes, Attempt, IInv
    <2> QED
        BY <1>1, <1>3, <2>2, CacheTypes, TaskStep DEF server
<1> QED
    BY <1>2, <1>3 DEF Answered, Interrupted

\* The result is that of the main slot.
LEMMA FinishKeeps == ASSUME IInv, NEW k \in Clients, Finish(k) PROVE IInv'
PROOF
<1>1. /\ sync[k] = "running" /\ \A s \in Slots : step[<<k, s>>] \in {"off", "done", "failed"}
      /\ sync' = [sync EXCEPT ![k] = IF step[<<k, MainOf[k]>>] = "failed" THEN "failed" ELSE "done"]
      /\ UNCHANGED <<server, step, try, cached, faults>>
    BY DEF Finish
<1>2. sync \in [Clients -> {"idle", "running", "done", "failed"}] /\ MainOf[k] \in Slots
    BY SyncAssumption DEF IInv, TypeOK, SyncAssumption
<1>3. TypeOK'
    BY <1>1, <1>2 DEF IInv, TypeOK, server, Server!TypeOK, Server!Stored, Server!UpdateIds
<1>4. Targets' /\ IdsAccepted' /\ StoredOK' /\ CachesOK' /\ SentOK' /\ Fresh'
    BY <1>1 DEF IInv, server, Targets, IdsAccepted, StoredOK, CachesOK, ValueOK, SentOK, Fresh
<1>5. Resting'
    BY <1>1, <1>2 DEF IInv, Resting
<1>6. MainOK'
    <2>1. step[<<k, MainOf[k]>>] \in {"off", "done", "failed"}
        BY <1>1, <1>2
    <2> QED
        BY <1>1, <1>2, <2>1 DEF IInv, MainOK, Includes, server
<1> QED
    BY <1>3, <1>4, <1>5, <1>6 DEF IInv
-----------------------------------------------------------------------------
(* The server *)

\* An accepted write starts from what is stored, and its id is new: no other
\* request has read it, and no cache has a value with it.
LEMMA AcceptKeeps ==
    ASSUME IInv, NEW a \in sent, Server!Accept(a), sent' = sent \ {a},
           UNCHANGED <<sync, step, try, cached, faults>>
    PROVE  IInv' /\ \A s \in Slots : stored[s].merged \subseteq stored'[s].merged
PROOF
<1>0. a \in Attempts /\ a.slot \in Slots /\ a # Initial /\ target[a] = a.slot
    BY AttemptTypes DEF IInv, TypeOK, Targets
<1> DEFINE new == [here |-> TRUE, id |-> a, merged |-> seen[a] \cup {a}]
<1>1. /\ answer[a] = "read" /\ stored[a.slot].id = base[a]
      /\ stored' = [stored EXCEPT ![a.slot] = new] /\ answer' = [answer EXCEPT ![a] = "ok"]
      /\ UNCHANGED <<target, base, seen>>
    BY <1>0 DEF Server!Accept, Server!Current, Server!Written
<1>2. new.id = a /\ new.merged = seen[a] \cup {a}
      /\ new \in [here : BOOLEAN, id : Attempts \cup {Initial}, merged : SUBSET Attempts]
    BY <1>0, ServerTypes DEF IInv
<1> HIDE DEF new
<1>3. /\ stored'[a.slot] = new /\ \A s \in Slots : s # a.slot => stored'[s] = stored[s]
      /\ answer'[a] = "ok" /\ \A b \in Attempts : b # a => answer'[b] = answer[b]
    BY <1>0, <1>1, ServerTypes DEF IInv
<1>4. seen[a] = stored[a.slot].merged /\ \A b \in seen[a] : b.client # a.client
    BY <1>1 DEF IInv, SentOK
<1>5. \A s \in Slots : stored[s].merged \subseteq stored'[s].merged
    BY <1>2, <1>3, <1>4
<1>6. \A id \in Attempts \cup {Initial} :
        Accepted(id, answer) => id # a /\ Accepted(id, answer')
    BY <1>0, <1>1, <1>3 DEF Accepted
<1>7. TypeOK'
    <2>1. stored' \in [Slots -> [here : BOOLEAN, id : Attempts \cup {Initial}, merged : SUBSET Attempts]]
          /\ answer' \in [Attempts -> {"idle", "read", "ok", "refused", "failed"}]
        BY <1>0, <1>1, <1>2, ServerTypes DEF IInv
    <2>2. Server!TypeOK'
        BY <1>1, <2>1, ServerTypes DEF IInv, Server!TypeOK, Server!Stored, Server!UpdateIds, Server!Answers
    <2> QED
        BY <2>2 DEF IInv, TypeOK, Server!Stored, Server!UpdateIds
<1>8. Targets' /\ Resting'
    BY <1>1 DEF IInv, Targets, Resting
<1>9. IdsAccepted'
    <2>1. ASSUME NEW s \in Slots PROVE Accepted(stored'[s].id, answer')
        <3>1. CASE s = a.slot
            BY <1>2, <1>3, <3>1 DEF Accepted
        <3>2. CASE s # a.slot
            BY <1>3, <1>6, <3>2, ServerTypes DEF IInv, IdsAccepted
        <3> QED
            BY <3>1, <3>2
    <2>2. \A b \in Attempts : Accepted(base[b], answer')
        BY <1>6, ServerTypes DEF IInv, IdsAccepted
    <2>3. \A t \in Tasks : Accepted(cached[t].id, answer')
        BY <1>6, ServerTypes DEF IInv, IdsAccepted
    <2> QED
        BY <1>1, <2>1, <2>2, <2>3 DEF IdsAccepted
<1>10. StoredOK'
    <2>1. \A s \in Slots : Sound(stored[s].merged, s)
        BY DEF IInv, StoredOK
    <2>2. Sound(new.merged, a.slot)
        BY <1>0, <1>2, <1>4, <2>1 DEF Sound
    <2>3. \A s \in Slots : Sound(stored'[s].merged, s)
        BY <1>3, <2>1, <2>2
    <2>4. \A b \in Attempts : answer'[b] = "ok" => b \in stored'[b.slot].merged
        BY <1>0, <1>2, <1>3, <1>5, AttemptTypes DEF IInv, StoredOK
    <2> QED
        BY <2>3, <2>4 DEF StoredOK
<1>11. CachesOK'
    <2> SUFFICES ASSUME NEW t \in Tasks
                 PROVE  /\ cached[t].merged \subseteq stored'[t[2]].merged
                        /\ cached[t].id = stored'[t[2]].id => cached[t].merged = stored'[t[2]].merged
        BY DEF CachesOK, ValueOK
    <2>1. t[2] \in Slots /\ ValueOK(cached[t], t[2]) /\ Accepted(cached[t].id, answer)
          /\ cached[t].id \in Attempts \cup {Initial}
        BY ServerTypes DEF Tasks, IInv, CachesOK, IdsAccepted
    <2>2. cached[t].id # a
        BY <1>6, <2>1
    <2> QED
        BY <1>2, <1>3, <1>5, <2>1, <2>2 DEF ValueOK
<1>12. SentOK'
    <2> SUFFICES ASSUME NEW b \in sent, b # a
                 PROVE  /\ base[b] = stored'[b.slot].id => seen[b] = stored'[b.slot].merged
                        /\ \A c \in seen[b] : c.client # b.client
                        /\ b.try <= try[<<b.client, b.slot>>]
                        /\ b.try = try[<<b.client, b.slot>>] => step[<<b.client, b.slot>>] \in {"sent", "failed"}
        BY <1>1 DEF SentOK
    <2>1. b \in Attempts /\ b.slot \in Slots
        BY AttemptTypes DEF IInv, TypeOK
    <2>2. base[b] # a
        BY <1>6, <2>1, ServerTypes DEF IInv, IdsAccepted
    <2> QED
        BY <1>2, <1>3, <2>1, <2>2 DEF IInv, SentOK
<1>13. Fresh'
    <2>1. \A b \in Attempts : answer[b] = "idle" => answer'[b] = "idle"
        BY <1>1, <1>3
    <2>2. \A k \in Clients, s \in Slots, n \in Tries : [client |-> k, slot |-> s, try |-> n] \in Attempts
        BY DEF Attempts
    <2> QED
        BY <2>1, <2>2 DEF IInv, Fresh
<1>14. MainOK'
    <2>1. \A k \in Clients : MainOf[k] \in Slots
        BY SyncAssumption DEF SyncAssumption
    <2>2. \A k \in Clients : Includes(stored[MainOf[k]].merged, k, MainOf[k])
                             => Includes(stored'[MainOf[k]].merged, k, MainOf[k])
        BY <1>5, <2>1 DEF Includes
    <2> QED
        BY <2>2 DEF IInv, MainOK, Includes
<1> QED
    BY <1>5, <1>7, <1>8, <1>9, <1>10, <1>11, <1>12, <1>13, <1>14 DEF IInv

\* A refusal and an error change nothing but the answer.
LEMMA RefuseKeeps ==
    ASSUME IInv, NEW a \in sent, Server!Refuse(a) \/ Server!Fail(a), sent' = sent \ {a},
           UNCHANGED <<sync, step, try, cached>>, faults' \in 0 .. MaxFaults
    PROVE  IInv' /\ stored' = stored
PROOF
<1>0. a \in Attempts
    BY DEF IInv, TypeOK
<1>1. /\ answer[a] = "read" /\ UNCHANGED <<stored, target, base, seen>>
      /\ \E x \in {"refused", "failed"} : answer' = [answer EXCEPT ![a] = x]
    BY DEF Server!Refuse, Server!Fail
<1>2. /\ answer' \in [Attempts -> {"idle", "read", "ok", "refused", "failed"}]
      /\ \A b \in Attempts : /\ answer[b] \in {"ok", "idle"} => answer'[b] = answer[b]
                             /\ answer'[b] = "ok" => answer[b] = "ok"
    BY <1>0, <1>1, ServerTypes DEF IInv
<1>3. TypeOK'
    <2>1. Server!TypeOK'
        BY <1>1, <1>2, ServerTypes DEF IInv, Server!TypeOK, Server!Stored, Server!UpdateIds, Server!Answers
    <2> QED
        BY <2>1 DEF IInv, TypeOK, Server!Stored, Server!UpdateIds
<1>4. IdsAccepted'
    <2>1. \A id \in Attempts \cup {Initial} : Accepted(id, answer) => Accepted(id, answer')
        BY <1>2 DEF Accepted
    <2> QED
        BY <1>1, <2>1, ServerTypes DEF IInv, IdsAccepted
<1>5. Targets' /\ StoredOK' /\ CachesOK' /\ SentOK' /\ Resting' /\ MainOK'
    BY <1>1, <1>2 DEF IInv, Targets, StoredOK, CachesOK, ValueOK, SentOK, Resting, MainOK, Includes
<1>6. Fresh'
    <2>1. \A k \in Clients, s \in Slots, n \in Tries : [client |-> k, slot |-> s, try |-> n] \in Attempts
        BY DEF Attempts
    <2> QED
        BY <1>2, <2>1 DEF IInv, Fresh
<1> QED
    BY <1>1, <1>3, <1>4, <1>5, <1>6 DEF IInv

\* A request is handled, or lost.
LEMMA HandleKeeps ==
    ASSUME IInv, NEW a \in sent, Handle(a) \/ Lose(a)
    PROVE  IInv' /\ \A s \in Slots : stored[s].merged \subseteq stored'[s].merged
PROOF
<1>1. faults' \in 0 .. MaxFaults
    BY CacheTypes, SyncAssumption DEF Handle, Lose, Fault, SyncAssumption
<1>2. CASE Handle(a) /\ Server!Accept(a)
    BY <1>2, AcceptKeeps DEF Handle
<1>3. CASE Handle(a) /\ (Server!Refuse(a) \/ Server!Fail(a))
    BY <1>1, <1>3, RefuseKeeps DEF Handle
<1>4. CASE Lose(a)
    BY <1>1, <1>4, RefuseKeeps DEF Lose
<1> QED
    BY <1>2, <1>3, <1>4 DEF Handle

\* A deleted slot keeps its last value, and is not written again.
LEMMA DropKeeps ==
    ASSUME IInv, NEW s \in Slots, DropSlot(s)
    PROVE  IInv' /\ \A r \in Slots : stored[r].merged \subseteq stored'[r].merged
PROOF
<1>1. /\ stored' = [stored EXCEPT ![s].here = FALSE]
      /\ UNCHANGED <<target, base, seen, answer, sent, sync, step, try, cached, faults>>
    BY DEF DropSlot, Server!Drop
<1>2. /\ stored' \in [Slots -> [here : BOOLEAN, id : Attempts \cup {Initial}, merged : SUBSET Attempts]]
      /\ \A r \in Slots : stored'[r].id = stored[r].id /\ stored'[r].merged = stored[r].merged
    <2>1. stored \in [Slots -> [here : BOOLEAN, id : Attempts \cup {Initial}, merged : SUBSET Attempts]]
        BY ServerTypes DEF IInv
    <2>2. stored' = [stored EXCEPT ![s] = [stored[s] EXCEPT !.here = FALSE]]
        BY <1>1
    <2>3. /\ [stored[s] EXCEPT !.here = FALSE]
                \in [here : BOOLEAN, id : Attempts \cup {Initial}, merged : SUBSET Attempts]
          /\ [stored[s] EXCEPT !.here = FALSE].id = stored[s].id
          /\ [stored[s] EXCEPT !.here = FALSE].merged = stored[s].merged
        BY <2>1
    <2> QED
        BY <2>1, <2>2, <2>3
<1>3. TypeOK'
    <2>1. Server!TypeOK'
        BY <1>1, <1>2, ServerTypes DEF IInv, Server!TypeOK, Server!Stored, Server!UpdateIds, Server!Answers
    <2> QED
        BY <1>1, <2>1 DEF IInv, TypeOK, Server!Stored, Server!UpdateIds
<1>4. Targets' /\ IdsAccepted' /\ Resting' /\ Fresh'
    BY <1>1, <1>2 DEF IInv, Targets, IdsAccepted, Resting, Fresh
<1>5. StoredOK'
    BY <1>1, <1>2, AttemptTypes DEF IInv, StoredOK
<1>6. CachesOK'
    BY <1>1, <1>2 DEF IInv, CachesOK, ValueOK, Tasks
<1>7. SentOK'
    <2>1. \A a \in sent : a.slot \in Slots
        BY AttemptTypes DEF IInv, TypeOK
    <2>2. SentOK
        BY DEF IInv
    <2>3. \A a \in sent : stored'[a.slot].id = stored[a.slot].id /\ stored'[a.slot].merged = stored[a.slot].merged
        BY <1>2, <2>1
    <2> QED
        BY <1>1, <2>2, <2>3 DEF SentOK
<1>8. MainOK'
    <2>1. \A k \in Clients : MainOf[k] \in Slots
        BY SyncAssumption DEF SyncAssumption
    <2> QED
        BY <1>1, <1>2, <2>1 DEF IInv, MainOK, Includes
<1> QED
    BY <1>2, <1>3, <1>4, <1>5, <1>6, <1>7, <1>8 DEF IInv

-----------------------------------------------------------------------------
(* The theorems *)

\* Every step preserves the invariant, and no slot loses an update.
LEMMA IInvStep ==
    IInv /\ [Next]_vars => IInv' /\ \A s \in Slots : stored[s].merged \subseteq stored'[s].merged
PROOF
<1> SUFFICES ASSUME IInv, [Next]_vars
             PROVE  IInv' /\ \A s \in Slots : stored[s].merged \subseteq stored'[s].merged
    OBVIOUS
<1>1. ASSUME NEW k \in Clients, Begin(k) \/ Work(k)
      PROVE  IInv' /\ stored' = stored
    <2>1. CASE Begin(k)
        BY <2>1, BeginKeeps DEF Begin
    <2>2. ASSUME NEW s \in Slots, Refetch(k, s) \/ FetchValue(k, s) \/ Answered(k, s)
          PROVE  IInv' /\ stored' = stored
        BY <2>2, RefetchKeeps, FetchKeeps, AnsweredKeeps DEF Refetch, FetchValue, Use, Answered, server
    <2>3. CASE Finish(k)
        BY <2>3, FinishKeeps DEF Finish, server
    <2> QED
        BY <1>1, <2>1, <2>2, <2>3 DEF Work
<1>2. ASSUME NEW k \in Clients, NEW s \in Slots, FetchCached(k, s) \/ Interrupted(k, s)
      PROVE  IInv' /\ stored' = stored
    BY <1>2, FetchKeeps, AnsweredKeeps DEF FetchCached, Use, Interrupted, server
<1>3. ASSUME NEW a \in sent, Handle(a) \/ Lose(a)
      PROVE  IInv' /\ \A s \in Slots : stored[s].merged \subseteq stored'[s].merged
    BY <1>3, HandleKeeps
<1>4. ASSUME NEW s \in Slots, DropSlot(s)
      PROVE  IInv' /\ \A r \in Slots : stored[r].merged \subseteq stored'[r].merged
    BY <1>4, DropKeeps
<1>5. CASE UNCHANGED vars
    <2>1. UNCHANGED <<stored, target, base, seen, answer, sent, sync, step, try, cached, faults>>
        BY <1>5 DEF vars, server
    <2>2. TypeOK'
        BY <2>1 DEF IInv, TypeOK, Server!TypeOK
    <2>3. Targets' /\ IdsAccepted' /\ StoredOK' /\ Fresh' /\ Resting'
        BY <2>1 DEF IInv, Targets, IdsAccepted, StoredOK, Fresh, Resting
    <2>4. CachesOK'
        BY <2>1 DEF IInv, CachesOK, ValueOK
    <2>5. SentOK'
        BY <2>1 DEF IInv, SentOK
    <2>6. MainOK'
        BY <2>1 DEF IInv, MainOK, Includes
    <2> QED
        BY <2>1, <2>2, <2>3, <2>4, <2>5, <2>6 DEF IInv
<1> QED
    BY <1>1, <1>2, <1>3, <1>4, <1>5 DEF Next, Done

\* So it always holds.
LEMMA Invariance == Spec => []IInv
PROOF
    BY IInvInit, IInvStep, PTL DEF Spec

\* The clients, the requests and the caches keep their types.
THEOREM TypeCorrect == Spec => []TypeOK
PROOF
<1>1. IInv => TypeOK
    BY DEF IInv
<1> QED
    BY <1>1, Invariance, PTL

\* When a call returns, its update is in the main slot, and stays there.
THEOREM ReturnedIsStored == Spec => []UpdateInMainSlot
PROOF
<1>1. IInv => UpdateInMainSlot
    BY DEF IInv, MainOK, UpdateInMainSlot
<1> QED
    BY <1>1, Invariance, PTL

\* However often a write is tried, it takes effect once.
THEOREM WrittenOnce == Spec => []AppliedOnce
PROOF
<1>1. IInv => AppliedOnce
    <2> SUFFICES ASSUME IInv, NEW s \in Slots, NEW k \in Clients
                 PROVE  Cardinality({a \in stored[s].merged : a.client = k}) <= 1
        BY DEF AppliedOnce
    <2> DEFINE mine == {a \in stored[s].merged : a.client = k}
    <2>1. \A a, b \in mine : a = b
        BY DEF IInv, StoredOK, Sound
    <2>2. CASE mine = {}
        BY <2>2, FS_EmptySet
    <2>3. CASE mine # {}
        <3>1. PICK a \in mine : mine = {a}
            BY <2>1, <2>3
        <3> QED
            BY <3>1, FS_Singleton
    <2> QED
        BY <2>2, <2>3
<1> QED
    BY <1>1, Invariance, PTL

\* No update of another client vanishes from a slot, whatever is lost, late or
\* answered from a cache.
THEOREM SlotsKeepUpdates == Spec => SlotsOnlyGrow
PROOF
<1>1. IInv /\ [Next]_vars =>
        [\A c \in Slots :
            stored'[c].here => stored[c].merged \subseteq stored'[c].merged]_<<stored, target, base, seen, answer>>
    BY IInvStep
<1>2. Spec =>
        [][\A c \in Slots :
            stored'[c].here => stored[c].merged \subseteq stored'[c].merged]_<<stored, target, base, seen, answer>>
    BY <1>1, Invariance, PTL DEF Spec
<1>3. [][\A c \in Slots :
            stored'[c].here => stored[c].merged \subseteq stored'[c].merged]_<<stored, target, base, seen, answer>>
        => SlotsOnlyGrow
    BY PTL DEF SlotsOnlyGrow, Server!OnlyGrows, Server!vars
<1> QED
    BY <1>2, <1>3

-----------------------------------------------------------------------------
(* The causes of failures *)

\* The attempt has failed, or cannot succeed any more: the slot has been written
\* since its node was read, or there was no good answer.
Doomed(k, s) ==
    LET a == Attempt(k, s)
        t == <<k, s>>
    IN  \/ step[t] = "failed"
        \/ (step[t] = "node" \/ (step[t] = "sent" /\ a \in sent)) /\ base[a] # stored[s].id
        \/ step[t] = "sent" /\ a \notin sent /\ answer[a] # "ok"

Spent(k, s) == IF Doomed(k, s) THEN try[<<k, s>>] + 1 ELSE try[<<k, s>>]
Causes(k, s) == Cardinality(stored[s].merged \ {Attempt(k, s)}) + faults

MergedWere == \A s \in Slots :
    IsFiniteSet(stored[s].merged) /\ \A a \in stored[s].merged : answer[a] = "ok"

Caused(k, s) == stored[s].here => Spent(k, s) <= Causes(k, s)

CInv == MergedWere /\ \A k \in Clients, s \in Slots : Caused(k, s)

\* All these are numbers.
LEMMA CausesType ==
    ASSUME IInv, MergedWere, NEW k \in Clients, NEW s \in Slots
    PROVE  /\ try[<<k, s>>] \in Nat /\ Spent(k, s) \in {try[<<k, s>>], try[<<k, s>>] + 1}
           /\ IsFiniteSet(stored[s].merged \ {Attempt(k, s)})
           /\ Cardinality(stored[s].merged \ {Attempt(k, s)}) \in Nat
           /\ Cardinality(stored[s].merged) \in Nat /\ faults \in Nat
           /\ Cardinality(stored[s].merged \ {Attempt(k, s)}) <= Cardinality(stored[s].merged)
PROOF
<1>1. try[<<k, s>>] \in Nat /\ faults \in Nat
    BY CurrentAttempt, SyncAssumption DEF IInv, TypeOK, SyncAssumption
<1>2. IsFiniteSet(stored[s].merged)
    BY DEF MergedWere
<1>3. /\ IsFiniteSet(stored[s].merged \ {Attempt(k, s)})
      /\ Cardinality(stored[s].merged \ {Attempt(k, s)}) <= Cardinality(stored[s].merged)
    BY <1>2, FS_Subset
<1> QED
    BY <1>1, <1>2, <1>3, FS_CardinalityType DEF Spent

\* An action of which nothing changes, but for more faults.
LEMMA Untouched ==
    ASSUME IInv, CInv, NEW k \in Clients, NEW s \in Slots,
           stored'[s] = stored[s], try'[<<k, s>>] = try[<<k, s>>], step'[<<k, s>>] = step[<<k, s>>],
           base'[Attempt(k, s)] = base[Attempt(k, s)], answer'[Attempt(k, s)] = answer[Attempt(k, s)],
           Attempt(k, s) \in sent' <=> Attempt(k, s) \in sent,
           faults' \in Nat, faults' >= faults
    PROVE  Caused(k, s)'
PROOF
<1>1. Attempt(k, s)' = Attempt(k, s)
    BY DEF Attempt
<1>2. Spent(k, s)' = Spent(k, s)
    BY <1>1 DEF Spent, Doomed
<1> QED
    BY <1>1, <1>2, CausesType DEF CInv, Caused, Causes

\* An attempt that fails and was doomed, or has met a fault.
LEMMA Retried ==
    ASSUME IInv, IInv', CInv, NEW k \in Clients, NEW s \in Slots, TryAgain(k, s),
           stored' = stored, answer' = answer, faults' \in Nat,
           (Doomed(k, s) /\ faults' = faults) \/ faults' = faults + 1
    PROVE  Caused(k, s)'
PROOF
<1> SUFFICES ASSUME stored[s].here PROVE Spent(k, s)' <= Causes(k, s)'
    BY DEF Caused
<1>1. /\ Spent(k, s) <= Causes(k, s) /\ MergedWere /\ <<k, s>> \in Tasks
      /\ try \in [Tasks -> Tries] /\ step \in [Tasks -> {"off", "fetch", "node", "sent", "done", "failed"}]
    BY CurrentAttempt DEF CInv, Caused, IInv, TypeOK
<1>2. try[<<k, s>>] + 1 <= Cardinality(stored[s].merged \ {Attempt(k, s)}) + faults'
    BY <1>1, CausesType DEF Spent, Causes
<1>3. CASE step' = [step EXCEPT ![<<k, s>>] = "failed"] /\ try' = try
    <2>1. Attempt(k, s)' = Attempt(k, s) /\ Spent(k, s)' = try[<<k, s>>] + 1
        BY <1>1, <1>3 DEF Attempt, Spent, Doomed
    <2> QED
        BY <1>2, <2>1 DEF Causes
<1>4. CASE try' = [try EXCEPT ![<<k, s>>] = @ + 1] /\ step' = [step EXCEPT ![<<k, s>>] = "fetch"]
    <2>1. try'[<<k, s>>] = try[<<k, s>>] + 1 /\ step'[<<k, s>>] = "fetch"
        BY <1>1, <1>4
    <2>2. Spent(k, s)' = try[<<k, s>>] + 1
        BY <2>1 DEF Spent, Doomed
    <2>3. answer'[Attempt(k, s)'] = "idle"
        <3>1. try'[<<k, s>>] \in Tries
            BY <1>1 DEF IInv, TypeOK
        <3> QED
            BY <2>1, <3>1 DEF IInv, Fresh, Attempt
    <2>4. Attempt(k, s)' \notin stored[s].merged
        BY <1>1, <2>3 DEF MergedWere
    <2>5. stored'[s].merged \ {Attempt(k, s)'} = stored[s].merged
        BY <2>4
    <2>6. Causes(k, s)' = Cardinality(stored[s].merged) + faults'
        BY <2>5 DEF Causes
    <2> QED
        BY <1>1, <1>2, <2>2, <2>6, CausesType
<1> QED
    BY <1>3, <1>4 DEF TryAgain

\* The actions of others are not touched by the steps of one.
LEMMA OthersUntouched ==
    ASSUME IInv, IInv', CInv, NEW k \in Clients, NEW slots \in SUBSET Slots,
           UNCHANGED stored, \A a \in Attempts : a.client # k \/ a.slot \notin slots =>
                /\ base'[a] = base[a] /\ answer'[a] = answer[a] /\ (a \in sent' <=> a \in sent),
           \A t \in Tasks : t[1] # k \/ t[2] \notin slots => try'[t] = try[t] /\ step'[t] = step[t],
           faults' \in Nat, faults' >= faults, MergedWere',
           \A s \in slots : Caused(k, s)'
    PROVE  CInv'
PROOF
<1>1. ASSUME NEW j \in Clients, NEW s \in Slots, j # k \/ s \notin slots
      PROVE  Caused(j, s)'
    <2>1. /\ Attempt(j, s) \in Attempts /\ Attempt(j, s).client = j /\ Attempt(j, s).slot = s
          /\ <<j, s>> \in Tasks
        BY CurrentAttempt DEF IInv
    <2> QED
        BY <1>1, <2>1, Untouched
<1> QED
    BY <1>1 DEF CInv

\* A node is read from what is stored.
LEMMA ReadCaused ==
    ASSUME IInv, IInv', CInv, NEW k \in Clients, NEW slots \in SUBSET Slots, ReadNodes(k, slots),
           \A s \in slots : step[<<k, s>>] \in {"off", "fetch"},
           UNCHANGED <<stored, seen, sent, try, faults>>
    PROVE  CInv'
PROOF
<1> DEFINE read == {Attempt(k, s) : s \in slots}
<1>1. /\ base' = [a \in Attempts |-> IF a \in read THEN stored[a.slot].id ELSE base[a]]
      /\ answer' = [a \in Attempts |-> IF a \in read THEN "read" ELSE answer[a]]
      /\ step' = [t \in Tasks |-> IF t[1] = k /\ t[2] \in slots THEN "node" ELSE step[t]]
    BY DEF ReadNodes
<1>2. ASSUME NEW s \in slots
      PROVE  /\ Attempt(k, s) \in Attempts /\ Attempt(k, s).client = k
             /\ Attempt(k, s).slot = s /\ answer[Attempt(k, s)] = "idle" /\ <<k, s>> \in Tasks
             /\ Attempt(k, s) \in read
    BY CurrentAttempt DEF IInv, Fresh, Attempt
<1>3. MergedWere'
    <2>1. ASSUME NEW s \in Slots, NEW a \in stored[s].merged PROVE answer'[a] = "ok"
        <3>1. answer[a] = "ok" /\ a \in Attempts
            BY ServerTypes DEF CInv, MergedWere, IInv
        <3>2. a \notin read
            BY <1>2, <3>1
        <3> HIDE DEF read
        <3> QED
            BY <1>1, <3>1, <3>2
    <2> QED
        BY <2>1 DEF CInv, MergedWere
<1>4. ASSUME NEW s \in slots PROVE Caused(k, s)'
    <2>1. Attempt(k, s)' = Attempt(k, s) /\ step'[<<k, s>>] = "node" /\ base'[Attempt(k, s)] = stored[s].id
        BY <1>1, <1>2 DEF Attempt
    <2>2. Spent(k, s)' = try[<<k, s>>]
        BY <2>1 DEF Spent, Doomed
    <2> QED
        BY <2>1, <2>2, CausesType DEF CInv, Caused, Causes
<1>5. ASSUME NEW a \in read PROVE a.client = k /\ a.slot \in slots
    <2>1. PICK s \in slots : a = Attempt(k, s)
        OBVIOUS
    <2> QED
        BY <1>2, <2>1
<1>6. faults' \in Nat /\ faults' >= faults
    BY SyncAssumption DEF IInv, TypeOK, SyncAssumption
<1> HIDE DEF read
<1>7. /\ \A a \in Attempts : a.client # k \/ a.slot \notin slots =>
            /\ base'[a] = base[a] /\ answer'[a] = answer[a] /\ (a \in sent' <=> a \in sent)
      /\ \A t \in Tasks : t[1] # k \/ t[2] \notin slots => try'[t] = try[t] /\ step'[t] = step[t]
    BY <1>1, <1>5
<1> QED
    BY <1>3, <1>4, <1>6, <1>7, OthersUntouched

\* A step of one action that leaves the server alone, but for what is sent.
LEMMA ActionCaused ==
    ASSUME IInv, IInv', CInv, NEW k \in Clients, NEW s \in Slots, UNCHANGED <<stored, base, answer>>,
           sent' \in {sent, sent \cup {Attempt(k, s)}},
           \E x \in {"fetch", "sent", "done", "failed"} : step' = [step EXCEPT ![<<k, s>>] = x],
           try' = try \/ try' = [try EXCEPT ![<<k, s>>] = @ + 1],
           faults' \in {faults, faults + 1}, Caused(k, s)'
    PROVE  CInv'
PROOF
<1>1. faults \in Nat /\ faults' \in Nat /\ faults' >= faults
    BY SyncAssumption DEF IInv, TypeOK, SyncAssumption
<1>2. Attempt(k, s).client = k /\ Attempt(k, s).slot = s
    BY CurrentAttempt DEF IInv
<1>3. \A t \in Tasks : t[1] # k \/ t[2] \notin {s} => try'[t] = try[t] /\ step'[t] = step[t]
    BY DEF IInv, TypeOK, Tasks
<1>4. MergedWere'
    BY DEF CInv, MergedWere
<1>5. \A a \in Attempts : a.client # k \/ a.slot \notin {s} =>
          /\ base'[a] = base[a] /\ answer'[a] = answer[a] /\ (a \in sent' <=> a \in sent)
    BY <1>2
<1>6. {s} \in SUBSET Slots /\ \A r \in {s} : Caused(k, r)'
    OBVIOUS
<1> QED
    BY <1>1, <1>3, <1>4, <1>5, <1>6, OthersUntouched

\* What TryAgain does to the step and the number of an action.
LEMMA TriesAgain ==
    ASSUME NEW k, NEW s, TryAgain(k, s)
    PROVE  /\ \E x \in {"fetch", "sent", "done", "failed"} : step' = [step EXCEPT ![<<k, s>>] = x]
           /\ try' = try \/ try' = [try EXCEPT ![<<k, s>>] = @ + 1]
PROOF
    BY DEF TryAgain

\* The value is used, or it does not fit its node.
LEMMA UseCaused ==
    ASSUME Signing = {}, IInv, IInv', CInv, NEW k \in Clients, NEW s \in Slots, NEW value,
           Use(k, s, value), faults' \in {faults, faults + 1},
           value = stored[s] \/ faults' = faults + 1
    PROVE  CInv'
PROOF
<1> DEFINE A == Attempt(k, s)
<1>1. /\ step[<<k, s>>] = "node" /\ UNCHANGED <<stored, base, answer>>
      /\ faults \in Nat /\ faults' \in Nat /\ <<k, s>> \in Tasks
      /\ step \in [Tasks -> {"off", "fetch", "node", "sent", "done", "failed"}]
    BY CurrentAttempt, SyncAssumption DEF Use, IInv, TypeOK, SyncAssumption
<1>2. CASE ~Decrypts(k, s, value)
    <2>1. TryAgain(k, s) /\ UNCHANGED <<seen, sent>>
        BY <1>2 DEF Use
    <2>2. CASE stored[s].here
        <3>1. Doomed(k, s) \/ faults' = faults + 1
            BY <1>1, <1>2, <2>2 DEF Decrypts, Doomed
        <3>2. Caused(k, s)'
            BY <1>1, <2>1, <3>1, Retried
        <3> QED
            BY <1>1, <2>1, <3>2, TriesAgain, ActionCaused
    <2>3. CASE ~stored[s].here
        <3>1. Caused(k, s)'
            BY <1>1, <2>3 DEF Caused
        <3> QED
            BY <1>1, <2>1, <3>1, TriesAgain, ActionCaused
    <2> QED
        BY <2>2, <2>3
<1>3. CASE Decrypts(k, s, value) /\ ~Changes(k, s, value)
    <2>1. step' = [step EXCEPT ![<<k, s>>] = "done"] /\ UNCHANGED <<sent, try>>
        BY <1>3 DEF Use, Merge
    <2>2. Attempt(k, s)' = Attempt(k, s) /\ Spent(k, s)' = try[<<k, s>>]
        BY <1>1, <2>1 DEF Attempt, Spent, Doomed
    <2>3. Caused(k, s)'
        BY <1>1, <2>2, CausesType DEF CInv, Caused, Causes
    <2> QED
        BY <1>1, <2>1, <2>3, ActionCaused
<1>4. CASE Decrypts(k, s, value) /\ Changes(k, s, value)
    <2>1. step' = [step EXCEPT ![<<k, s>>] = "sent"] /\ sent' = sent \cup {A} /\ UNCHANGED try
        BY <1>4 DEF Use, Merge
    <2>2. Attempt(k, s)' = A /\ A \in sent' /\ step'[<<k, s>>] = "sent"
        BY <1>1, <2>1 DEF Attempt
    <2>3. Spent(k, s)' = Spent(k, s)
        BY <1>1, <2>1, <2>2 DEF Spent, Doomed
    <2>4. Causes(k, s)' = Cardinality(stored[s].merged \ {Attempt(k, s)}) + faults'
        BY <1>1, <2>2 DEF Causes
    <2>5. Caused(k, s)'
        <3> HIDE DEF A
        <3>1. MergedWere /\ Caused(k, s)
            BY DEF CInv
        <3>2. /\ try[<<k, s>>] \in Nat /\ Cardinality(stored[s].merged \ {Attempt(k, s)}) \in Nat
              /\ Spent(k, s) \in {try[<<k, s>>], try[<<k, s>>] + 1}
            BY <3>1, CausesType
        <3> QED
            BY <1>1, <2>3, <2>4, <3>1, <3>2 DEF Caused, Causes
    <2> QED
        BY <1>1, <2>1, <2>5, ActionCaused
<1> QED
    BY <1>2, <1>3, <1>4

\* The answer comes, or the wait ends.
LEMMA AnswerCaused ==
    ASSUME IInv, IInv', CInv, NEW k \in Clients, NEW s \in Slots, Answered(k, s) \/ Interrupted(k, s)
    PROVE  CInv'
PROOF
<1>1. /\ step[<<k, s>>] = "sent" /\ UNCHANGED <<stored, base, answer, sent>>
      /\ faults' \in {faults, faults + 1}
      /\ faults \in Nat /\ faults' \in Nat /\ <<k, s>> \in Tasks
      /\ step \in [Tasks -> {"off", "fetch", "node", "sent", "done", "failed"}]
    BY CurrentAttempt, SyncAssumption DEF Answered, Interrupted, Fault, server, IInv, TypeOK, SyncAssumption
<1>2. CASE TryAgain(k, s) /\ (faults' = faults + 1 \/ Doomed(k, s))
    <2>1. Caused(k, s)'
        BY <1>1, <1>2, Retried
    <2> QED
        BY <1>1, <1>2, <2>1, TriesAgain, ActionCaused
<1>3. CASE step' = [step EXCEPT ![<<k, s>>] = "done"] /\ UNCHANGED try
    <2>1. Attempt(k, s)' = Attempt(k, s) /\ Spent(k, s)' = try[<<k, s>>]
        BY <1>1, <1>3 DEF Attempt, Spent, Doomed
    <2>2. Caused(k, s)'
        BY <1>1, <2>1, CausesType DEF CInv, Caused, Causes
    <2> QED
        BY <1>1, <1>3, <2>2, ActionCaused
<1>4. ASSUME Answered(k, s), answer[Attempt(k, s)] # "ok" PROVE TryAgain(k, s) /\ Doomed(k, s)
    BY <1>1, <1>4 DEF Answered, Doomed
<1>5. ASSUME Interrupted(k, s) PROVE TryAgain(k, s) /\ faults' = faults + 1
    BY <1>5 DEF Interrupted, Fault
<1>6. ASSUME Answered(k, s), answer[Attempt(k, s)] = "ok"
      PROVE  step' = [step EXCEPT ![<<k, s>>] = "done"] /\ UNCHANGED try
    BY <1>6 DEF Answered
<1> QED
    BY <1>2, <1>3, <1>4, <1>5, <1>6

\* Another update in the slot is another cause.
LEMMA AcceptCaused ==
    ASSUME IInv, IInv', CInv, NEW a \in sent, Server!Accept(a), sent' = sent \ {a},
           UNCHANGED <<step, try, faults>>
    PROVE  CInv'
PROOF
<1>1. a \in Attempts /\ a.slot \in Slots /\ target[a] = a.slot
    BY AttemptTypes DEF IInv, TypeOK, Targets
<1>2. /\ answer[a] = "read" /\ stored[a.slot].here /\ stored[a.slot].id = base[a] /\ base' = base
      /\ stored' = [stored EXCEPT ![a.slot] = [here |-> TRUE, id |-> a, merged |-> seen[a] \cup {a}]]
      /\ answer' = [answer EXCEPT ![a] = "ok"]
    BY <1>1 DEF Server!Accept, Server!Current, Server!Written
<1>3. /\ stored'[a.slot].merged = stored[a.slot].merged \cup {a} /\ a \notin stored[a.slot].merged
      /\ \A s \in Slots : s # a.slot => stored'[s] = stored[s]
      /\ answer'[a] = "ok" /\ \A b \in Attempts : b # a => answer'[b] = answer[b]
    <2>1. seen[a] = stored[a.slot].merged
        BY <1>2 DEF IInv, SentOK
    <2>2. a \notin stored[a.slot].merged
        BY <1>1, <1>2 DEF CInv, MergedWere
    <2> QED
        BY <1>1, <1>2, <2>1, <2>2, ServerTypes DEF IInv
<1>4. MergedWere'
    <2> SUFFICES ASSUME NEW s \in Slots
                 PROVE  IsFiniteSet(stored'[s].merged) /\ \A b \in stored'[s].merged : answer'[b] = "ok"
        BY DEF MergedWere
    <2>1. /\ IsFiniteSet(stored[s].merged) /\ stored[s].merged \subseteq Attempts
          /\ \A b \in stored[s].merged : answer[b] = "ok"
        BY ServerTypes DEF CInv, MergedWere, IInv
    <2>2. IsFiniteSet(stored[s].merged \cup {a})
        BY <2>1, FS_AddElement
    <2>3. stored'[s].merged \in {stored[s].merged, stored[s].merged \cup {a}}
        BY <1>3
    <2> QED
        BY <1>3, <2>1, <2>2, <2>3
<1>5. ASSUME NEW k \in Clients, NEW s \in Slots PROVE Caused(k, s)'
    <2> DEFINE A == Attempt(k, s)
    <2>1. /\ A \in Attempts /\ A.client = k /\ A.slot = s /\ Attempt(k, s)' = A
          /\ Caused(k, s) /\ MergedWere
        BY CurrentAttempt DEF IInv, CInv, Attempt
    <2>2. CASE s # a.slot
        <3>1. A # a
            BY <2>1, <2>2
        <3>2. faults \in Nat
            BY <2>1, CausesType
        <3> QED
            BY <1>2, <1>3, <2>1, <2>2, <3>1, <3>2, Untouched
    <2>3. CASE s = a.slot /\ A = a
        <3>1. step[<<k, s>>] \in {"sent", "failed"}
            BY <2>1, <2>3, CurrentSent
        <3>2. Spent(k, s)' = Spent(k, s)
            BY <1>2, <1>3, <2>1, <2>3, <3>1 DEF Spent, Doomed
        <3>3. stored'[s].merged \ {A} = stored[s].merged \ {A}
            BY <1>3, <2>3
        <3> QED
            BY <1>2, <2>1, <2>3, <3>2, <3>3 DEF Caused, Causes
    <2>4. CASE s = a.slot /\ A # a
        <3>1. stored'[s].merged \ {A} = (stored[s].merged \ {A}) \cup {a} /\ a \notin stored[s].merged \ {A}
            BY <1>3, <2>4
        <3>2. /\ Cardinality(stored[s].merged \ {A}) \in Nat /\ IsFiniteSet(stored[s].merged \ {A})
              /\ try[<<k, s>>] \in Nat /\ faults \in Nat
              /\ Spent(k, s) \in {try[<<k, s>>], try[<<k, s>>] + 1}
            BY <2>1, CausesType
        <3>3. Cardinality(stored'[s].merged \ {A}) = Cardinality(stored[s].merged \ {A}) + 1
            BY <3>1, <3>2, FS_AddElement
        <3>4. Spent(k, s)' \in {try[<<k, s>>], try[<<k, s>>] + 1}
            BY DEF Spent
        <3>5. stored[s].here
            BY <1>2, <2>4
        <3>6. Spent(k, s) <= Cardinality(stored[s].merged \ {A}) + faults
            BY <2>1, <3>5 DEF Caused, Causes
        <3>7. Causes(k, s)' = Cardinality(stored[s].merged \ {A}) + 1 + faults
            BY <2>1, <3>3 DEF Causes
        <3> HIDE DEF A
        <3> QED
            BY <3>2, <3>4, <3>6, <3>7 DEF Caused
    <2> QED
        BY <2>2, <2>3, <2>4
<1> QED
    BY <1>4, <1>5 DEF CInv

\* A refusal has a cause, and a loss is one.
LEMMA RefuseCaused ==
    ASSUME IInv, IInv', CInv, NEW a \in sent, sent' = sent \ {a}, UNCHANGED <<step, try>>,
           \/ Server!Refuse(a) /\ faults' = faults
           \/ Server!Fail(a) /\ faults' = faults + 1
    PROVE  CInv'
PROOF
<1>1. a \in Attempts /\ a.slot \in Slots /\ target[a] = a.slot
    BY AttemptTypes DEF IInv, TypeOK, Targets
<1>2. /\ answer[a] = "read" /\ UNCHANGED <<stored, base>>
      /\ answer'[a] # "ok" /\ \A b \in Attempts : b # a => answer'[b] = answer[b]
      /\ (Server!Refuse(a) /\ stored[a.slot].here => base[a] # stored[a.slot].id)
    BY <1>1, ServerTypes DEF IInv, Server!Refuse, Server!Fail, Server!Current
<1>3. MergedWere'
    BY <1>1, <1>2, ServerTypes DEF IInv, CInv, MergedWere
<1>4. ASSUME NEW k \in Clients, NEW s \in Slots PROVE Caused(k, s)'
    <2> DEFINE A == Attempt(k, s)
    <2>1. /\ A \in Attempts /\ A.client = k /\ A.slot = s /\ Attempt(k, s)' = A
          /\ Caused(k, s) /\ MergedWere /\ faults \in Nat
        BY CurrentAttempt, CausesType DEF IInv, CInv, Attempt
    <2>2. CASE A # a
        BY <1>2, <2>1, <2>2, Untouched
    <2>3. CASE A = a /\ Server!Refuse(a) /\ faults' = faults /\ stored[s].here
        <3>1. step[<<k, s>>] \in {"sent", "failed"}
            BY <2>1, <2>3, CurrentSent
        <3>2. Spent(k, s)' = Spent(k, s)
            BY <1>2, <2>1, <2>3, <3>1 DEF Spent, Doomed
        <3> QED
            BY <1>2, <2>1, <2>3, <3>2 DEF Caused, Causes
    <2>4. CASE faults' = faults + 1
        <3>1. Spent(k, s)' \in {try[<<k, s>>], try[<<k, s>>] + 1}
            BY DEF Spent
        <3>2. /\ try[<<k, s>>] \in Nat /\ Spent(k, s) \in {try[<<k, s>>], try[<<k, s>>] + 1}
              /\ Cardinality(stored[s].merged \ {A}) \in Nat
            BY <2>1, CausesType
        <3> HIDE DEF A
        <3> QED
            BY <1>2, <2>1, <2>4, <3>1, <3>2 DEF Caused, Causes, A
    <2>5. CASE ~stored[s].here
        BY <1>2, <2>5 DEF Caused
    <2> QED
        BY <2>2, <2>3, <2>4, <2>5
<1> QED
    BY <1>3, <1>4 DEF CInv

\* A deleted slot excuses every failure.
LEMMA DropCaused ==
    ASSUME IInv, CInv, NEW s \in Slots, DropSlot(s)
    PROVE  CInv'
PROOF
<1>1. /\ stored' = [stored EXCEPT ![s].here = FALSE]
      /\ UNCHANGED <<base, answer, sent, step, try, faults>>
    BY DEF DropSlot, Server!Drop
<1>2. /\ ~stored'[s].here /\ \A r \in Slots : r # s => stored'[r] = stored[r]
      /\ \A r \in Slots : stored'[r].merged = stored[r].merged
    <2>1. stored[s] \in [here : BOOLEAN, id : Attempts \cup {Initial}, merged : SUBSET Attempts]
          /\ DOMAIN stored = Slots
        BY ServerTypes DEF IInv
    <2>2. stored' = [stored EXCEPT ![s] = [stored[s] EXCEPT !.here = FALSE]]
        BY <1>1
    <2>3. /\ ~[stored[s] EXCEPT !.here = FALSE].here
          /\ [stored[s] EXCEPT !.here = FALSE].merged = stored[s].merged
        BY <2>1
    <2> QED
        BY <2>1, <2>2, <2>3
<1>3. MergedWere'
    BY <1>1, <1>2 DEF CInv, MergedWere
<1>4. ASSUME NEW k \in Clients, NEW r \in Slots PROVE Caused(k, r)'
    <2>1. CASE r = s
        BY <1>2, <2>1 DEF Caused
    <2>2. CASE r # s
        <3>1. faults \in Nat
            BY CausesType DEF CInv
        <3> QED
            BY <1>1, <1>2, <2>2, <3>1, Untouched
    <2> QED
        BY <2>1, <2>2
<1> QED
    BY <1>3, <1>4 DEF CInv

\* Initially nothing has failed.
LEMMA CInvInit == Init => CInv
PROOF
<1> SUFFICES ASSUME Init PROVE CInv
    OBVIOUS
<1>1. /\ \A s \in Slots : stored[s].merged = {} /\ IsFiniteSet(stored[s].merged)
      /\ faults = 0
    BY FS_EmptySet DEF Init, Server!Init
<1>2. ASSUME NEW k \in Clients, NEW s \in Slots PROVE Caused(k, s)
    <2>1. try[<<k, s>>] = 0 /\ step[<<k, s>>] = "off"
        BY DEF Init, Tasks
    <2>2. Spent(k, s) = 0
        BY <2>1 DEF Spent, Doomed
    <2>3. Causes(k, s) = 0
        <3>1. stored[s].merged \ {Attempt(k, s)} = {}
            BY <1>1
        <3>2. Cardinality(stored[s].merged \ {Attempt(k, s)}) = 0
            BY <3>1, FS_EmptySet
        <3> QED
            BY <1>1, <3>2 DEF Causes
    <2> QED
        BY <2>2, <2>3 DEF Caused
<1> QED
    BY <1>1, <1>2 DEF CInv, MergedWere

\* Where no write needs a signature and nobody signs, every failure has a cause.
LEMMA CInvStep ==
    ASSUME Signing = {}, ~NeedsSignature, IInv, CInv, [Next]_vars
    PROVE  CInv'
PROOF
<1>1. IInv'
    BY IInvStep
<1>2. CASE UNCHANGED <<stored, base, answer, sent, step, try, faults>>
    <2>1. faults \in Nat
        BY SyncAssumption DEF IInv, TypeOK, SyncAssumption
    <2>2. \A k \in Clients, s \in Slots : Caused(k, s)'
        BY <1>2, <2>1, Untouched
    <2> QED
        BY <1>2, <2>2 DEF CInv, MergedWere
<1>3. ASSUME NEW k \in Clients, Begin(k) PROVE CInv'
    <2>1. CASE MainOf[k] \notin Found(k)
        BY <1>2, <1>3, <2>1 DEF Begin
    <2>2. CASE MainOf[k] \in Found(k)
        <3> DEFINE slots == {s \in Found(k) : ~Skipped(k, s)}
        <3>1. ReadNodes(k, slots) /\ UNCHANGED <<stored, seen, sent, try, faults>>
            BY <1>3, <2>2 DEF Begin
        <3>2. slots \in SUBSET Slots
            BY SyncAssumption DEF Found, SyncAssumption
        <3>3. \A s \in Slots : step[<<k, s>>] = "off"
            BY <1>3 DEF Begin, IInv, Resting
        <3> HIDE DEF slots
        <3> QED
            BY <1>1, <3>1, <3>2, <3>3, ReadCaused
    <2> QED
        BY <2>1, <2>2
<1>4. ASSUME NEW k \in Clients, NEW s \in Slots, Refetch(k, s) PROVE CInv'
    <2>1. step[<<k, s>>] = "fetch" /\ UNCHANGED <<stored, seen, sent, faults>>
        BY <1>4 DEF Refetch
    <2>2. CASE stored[s].here
        <3>1. ReadNodes(k, {s}) /\ UNCHANGED try
            BY <1>4, <2>2 DEF Refetch
        <3>2. {s} \in SUBSET Slots /\ \A r \in {s} : step[<<k, r>>] \in {"off", "fetch"}
            BY <2>1
        <3> QED
            BY <1>1, <2>1, <3>1, <3>2, ReadCaused
    <2>3. CASE ~stored[s].here
        <3>1. TryAgain(k, s) /\ UNCHANGED <<base, answer>>
            BY <1>4, <2>3 DEF Refetch
        <3>2. Caused(k, s)'
            BY <2>1, <2>3 DEF Caused
        <3> QED
            BY <1>1, <2>1, <3>1, <3>2, TriesAgain, ActionCaused
    <2> QED
        BY <2>2, <2>3
<1>5. ASSUME NEW k \in Clients, NEW s \in Slots, FetchValue(k, s) PROVE CInv'
    BY <1>1, <1>5, UseCaused DEF FetchValue
<1>6. ASSUME NEW k \in Clients, NEW s \in Slots, FetchCached(k, s) PROVE CInv'
    BY <1>1, <1>6, UseCaused DEF FetchCached, Fault
<1>7. ASSUME NEW k \in Clients, NEW s \in Slots, Answered(k, s) \/ Interrupted(k, s) PROVE CInv'
    BY <1>1, <1>7, AnswerCaused
<1>8. ASSUME NEW k \in Clients, Finish(k) PROVE CInv'
    BY <1>2, <1>8 DEF Finish, server
<1>9. ASSUME NEW a \in sent, Handle(a) PROVE CInv'
    <2>1. Server!Accept(a) \/ Server!Refuse(a)
        BY <1>9 DEF Handle
    <2> QED
        BY <1>1, <1>9, <2>1, AcceptCaused, RefuseCaused DEF Handle
<1>10. ASSUME NEW a \in sent, Lose(a) PROVE CInv'
    BY <1>1, <1>10, RefuseCaused DEF Lose, Fault
<1>11. ASSUME NEW s \in Slots, DropSlot(s) PROVE CInv'
    BY <1>11, DropCaused
<1>12. CASE UNCHANGED vars
    BY <1>2, <1>12 DEF vars, server
<1> QED
    BY <1>3, <1>4, <1>5, <1>6, <1>7, <1>8, <1>9, <1>10, <1>11, <1>12 DEF Next, Work, Done

\* For any clients and slots, where nobody signs and nothing needs a signature:
\* an attempt fails for another update in its slot, for an earlier attempt that
\* was still on its way, or for a fault of the network, and no two attempts of
\* an action fail for the same.
THEOREM FailuresAreCaused ==
    ASSUME Signing = {}, ~NeedsSignature
    PROVE  Spec => []FailuresHaveCauses
PROOF
<1>1. ASSUME IInv, CInv PROVE FailuresHaveCauses
    <2> SUFFICES ASSUME NEW k \in Clients, NEW s \in Slots, stored[s].here
                 PROVE  Failures(k, s) <= Causes(k, s)
        BY DEF FailuresHaveCauses, Causes
    <2>1. /\ Spent(k, s) <= Causes(k, s) /\ Causes(k, s) \in Nat /\ try[<<k, s>>] \in Nat
          /\ Spent(k, s) \in {try[<<k, s>>], try[<<k, s>>] + 1}
        BY <1>1, CausesType DEF CInv, Caused, Causes
    <2>2. CASE step[<<k, s>>] = "failed"
        BY <2>1, <2>2 DEF Failures, Spent, Doomed
    <2>3. CASE step[<<k, s>>] # "failed"
        BY <2>1, <2>3 DEF Failures
    <2> QED
        BY <2>2, <2>3
<1>2. IInv /\ CInv /\ [Next]_vars => CInv'
    BY CInvStep
<1> QED
    BY <1>1, <1>2, CInvInit, Invariance, PTL DEF Spec
================================================================================
