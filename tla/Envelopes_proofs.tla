-------------------------- MODULE Envelopes_proofs --------------------------
(***************************************************************************)
(* Whoever the clients, the keys and the trust in them are: a protected    *)
(* content is sealed for keys that were trusted when it was written, a key *)
(* trusted all the while opens it, and what is read is one version.        *)
(***************************************************************************)
EXTENDS Envelopes, TLAPS

-----------------------------------------------------------------------------
(* The inductive invariant *)

\* A version is protected with a shared key of its own, and is sealed for the
\* keys that were trusted all the while, and for none that never was.
VersionOK(v) ==
    /\ v \in Version
    /\ v.key = IF v.state = "protected" THEN v.n ELSE 0
    /\ v.state = "protected" => v.lo \subseteq v.refs /\ v.refs \subseteq v.hi

\* A value is encrypted with the shared key of its version, or with none.
CacheOK(value, w) ==
    /\ value \in [data : 0..w, key : 0..w]
    /\ value.key # 0 => value.key = value.data

Loads == {Unloaded} \cup [pc : {"node", "unreadable", "broken"}, node : Version]
           \cup [pc : {"ready"}, node : Version, tags : 0..MaxWrites, text : 0..MaxWrites]

\* What a client has read is a version, opened with its certificates cs.
LoadOK(l, cs) ==
    /\ l \in Loads
    /\ l.pc # "idle" => VersionOK(l.node)
    /\ l.pc = "ready" /\ l.node.state = "protected" => l.text = l.tags /\ l.text = l.node.n
    /\ l.pc = "unreadable" => cs \cap l.node.lo = {}

Jobs == {NoJob} \cup
    [pc : Working, kind : {"edit", "sync"}, n : 1..MaxWrites,
     state : {"public", "protected"}, flag : BOOLEAN, base : 0..MaxWrites,
     named : SUBSET Keys, keys : SUBSET Keys, lo : SUBSET Keys, hi : SUBSET Keys,
     tries : 1..Attempts]

\* A client that is about to ask for the keys will be told the trusted ones;
\* afterwards it writes for the keys it has got.
JobOK(j, trusted, w) ==
    /\ j \in Jobs
    /\ j.pc # "idle" => j.n <= w
    /\ j.pc = "asking" => j.kind = "edit" /\ j.lo \subseteq trusted /\ trusted \subseteq j.hi
    /\ j.pc \in {"sealing", "sent", "again"} /\ j.state = "protected"
         => j.lo \subseteq j.keys /\ j.keys \subseteq j.hi
    /\ j.pc = "again" => j.kind = "sync"

Simple ==
    /\ type \in {"Config", "Custom"}
    /\ stage \in {"form", "cluster", "config", "done", "lost"}
    /\ keyState \in [Keys -> {"gone", "public", "trusted", "required"}]
    /\ injected \in BOOLEAN /\ exempt \in BOOLEAN
    /\ knows \subseteq Clients /\ certs \in [Clients -> SUBSET Keys]
    /\ writes \in 0..MaxWrites /\ changes \in 0..MaxChanges

ItemOK == item # None => (VersionOK(item) /\ item.n <= writes)

\* Nobody reads or writes before the registration is done.
Early ==
    /\ stage # "done" =>
         knows = {} /\ \A c \in Clients : job[c] = NoJob /\ load[c] = Unloaded
    /\ stage \in {"form", "cluster"} => writes = 0

\* What has been read, or is synchronised, is there.
Begun == \A c \in Clients :
            /\ load[c].pc # "idle" => item # None
            /\ (job[c].pc # "idle" /\ job[c].kind = "sync") => item # None

CachesOK == /\ cache \in [Clients -> [data : 0..MaxWrites, key : 0..MaxWrites]]
            /\ \A c \in Clients : CacheOK(cache[c], writes)
LoadsOK == /\ load \in [Clients -> Loads]
           /\ \A c \in Clients : LoadOK(load[c], certs[c])
JobsOK == /\ job \in [Clients -> Jobs]
          /\ \A c \in Clients : JobOK(job[c], Trusted, writes)

IInv == Simple /\ ItemOK /\ CachesOK /\ LoadsOK /\ JobsOK /\ Early /\ Begun
-----------------------------------------------------------------------------
(* The parts of the invariant that more writes do not disturb *)

\* What a cache holds stays sound when more is written.
LEMMA CacheMore ==
    ASSUME NEW w \in Nat, NEW x \in Nat, w <= x, NEW value, CacheOK(value, w)
    PROVE  CacheOK(value, x)
PROOF
    BY DEF CacheOK

\* So does what a client is writing.
LEMMA JobMore ==
    ASSUME NEW w \in Nat, NEW x \in Nat, w <= x, NEW trusted, NEW j, JobOK(j, trusted, w)
    PROVE  JobOK(j, trusted, x)
PROOF
<1>1. CASE j.pc = "idle"
    BY <1>1 DEF JobOK
<1>2. CASE j.pc # "idle"
    <2>1. j.n \in Nat
        BY <1>2 DEF JobOK, Jobs, NoJob
    <2> QED
        BY <1>2, <2>1 DEF JobOK
<1> QED
    BY <1>1, <1>2

(* A client changes what is its own, and perhaps the content.              *)
LEMMA ClientStep ==
    ASSUME IInv, NEW c \in Clients, stage = "done",
           UNCHANGED <<type, exempt, stage, keyState, knows, injected, certs, changes>>,
           writes' \in writes..MaxWrites,
           ItemOK', item # None => item' # None,
           cache' \in [Clients -> [data : 0..MaxWrites, key : 0..MaxWrites]],
           load' \in [Clients -> Loads], job' \in [Clients -> Jobs],
           \A d \in Clients : d # c =>
                cache'[d] = cache[d] /\ load'[d] = load[d] /\ job'[d] = job[d],
           CacheOK(cache'[c], writes'), LoadOK(load'[c], certs[c]),
           JobOK(job'[c], Trusted, writes'),
           load'[c].pc # "idle" => item' # None,
           (job'[c].pc # "idle" /\ job'[c].kind = "sync") => item' # None
    PROVE  IInv'
PROOF
<1> USE DEF IInv
<1>1. /\ writes \in Nat /\ writes' \in Nat /\ writes <= writes'
      /\ writes' \in 0..MaxWrites
    BY KeyAssumption DEF Simple, KeyAssumption
<1>2. Simple'
    BY <1>1 DEF Simple
<1>3. CachesOK'
    <2>1. \A d \in Clients : CacheOK(cache'[d], writes')
        BY <1>1, CacheMore DEF CachesOK
    <2> QED
        BY <2>1 DEF CachesOK
<1>4. LoadsOK'
    BY DEF LoadsOK
<1>5. Trusted' = Trusted
    BY DEF Trusted
<1>6. JobsOK'
    <2>1. \A d \in Clients : JobOK(job'[d], Trusted, writes')
        BY <1>1, JobMore DEF JobsOK
    <2> QED
        BY <1>5, <2>1 DEF JobsOK
<1>7. Early'
    BY DEF Early
<1>8. Begun'
    BY DEF Begun
<1> QED
    BY <1>2, <1>3, <1>4, <1>6, <1>7, <1>8

-----------------------------------------------------------------------------
(* The steps of a client *)

\* What the invariant says of one client.
LEMMA Own ==
    ASSUME IInv, NEW c \in Clients
    PROVE  /\ writes \in 0..MaxWrites /\ MaxWrites \in Nat /\ certs[c] \subseteq Keys
           /\ cache \in [Clients -> [data : 0..MaxWrites, key : 0..MaxWrites]]
           /\ load \in [Clients -> Loads] /\ job \in [Clients -> Jobs]
           /\ CacheOK(cache[c], writes) /\ LoadOK(load[c], certs[c])
           /\ JobOK(job[c], Trusted, writes)
           /\ ItemOK
           /\ load[c].pc # "idle" => item # None
           /\ (job[c].pc # "idle" /\ job[c].kind = "sync") => item # None
           /\ Authorized(c) \/ load[c].pc # "idle" \/ job[c].pc # "idle" => stage = "done"
PROOF
<1>1. NoJob.pc = "idle" /\ Unloaded.pc = "idle"
    BY DEF NoJob, Unloaded
<1>2. Authorized(c) \/ load[c].pc # "idle" \/ job[c].pc # "idle" => stage = "done"
    BY <1>1 DEF IInv, Early, Authorized
<1> QED
    BY <1>2, KeyAssumption DEF IInv, Simple, CachesOK, LoadsOK, JobsOK, Begun, KeyAssumption

\* The node is the content as it is.
LEMMA LoadNodeKeeps == ASSUME IInv, NEW c \in Clients, LoadNode(c) PROVE IInv'
PROOF
<1>1. VersionOK(item)
    BY Own DEF LoadNode, ItemOK
<1> DEFINE l == [pc |-> "node", node |-> item]
<1>2. l \in Loads /\ LoadOK(l, certs[c])
    BY <1>1 DEF LoadOK, Loads, VersionOK
<1>3. load' = [load EXCEPT ![c] = l]
    BY DEF LoadNode
<1> HIDE DEF l
<1>4. load' \in [Clients -> Loads] /\ load'[c] = l /\ \A d \in Clients : d # c => load'[d] = load[d]
    BY <1>2, <1>3, Own
<1>5. stage = "done"
    BY Own DEF LoadNode
<1>6. ItemOK'
    BY Own DEF LoadNode, ItemOK
<1> QED
    BY <1>2, <1>4, <1>5, <1>6, Own, ClientStep DEF LoadNode

\* What a value of the server or of the cache gives with a node.
LEMMA DecryptedOK ==
    ASSUME NEW c \in Clients, NEW v, VersionOK(v), MaxWrites \in Nat, certs[c] \subseteq Keys,
           NEW w \in 0..MaxWrites, NEW value, CacheOK(value, w)
    PROVE  Decrypted(c, v, value) \in Loads /\ LoadOK(Decrypted(c, v, value), certs[c])
PROOF
<1>1. /\ v \in Version /\ v.n \in 1..MaxWrites /\ v.state \in {"public", "protected"}
      /\ v.lo \subseteq Keys
    BY DEF VersionOK, Version
<1>2. value.data \in 0..MaxWrites /\ value.key \in 0..MaxWrites
    BY DEF CacheOK
<1>3. CASE v.state = "public"
    <2> DEFINE text == IF value.key = 0 THEN value.data ELSE Garbled
    <2>1. text \in 0..MaxWrites
        BY <1>2 DEF Garbled
    <2>2. Decrypted(c, v, value) = [pc |-> "ready", node |-> v, tags |-> v.n, text |-> text]
        BY <1>3 DEF Decrypted, ReadRaw
    <2> HIDE DEF text
    <2> QED
        BY <1>1, <1>3, <2>1, <2>2 DEF LoadOK, Loads
<1>4. CASE v.state = "protected" /\ Candidates(c, v) = {}
    <2>1. Decrypted(c, v, value) = [pc |-> "unreadable", node |-> v]
        BY <1>4 DEF Decrypted
    <2>2. certs[c] \cap v.lo = {}
        BY <1>4 DEF Candidates, VersionOK
    <2> QED
        BY <1>1, <2>1, <2>2 DEF LoadOK, Loads
<1>5. CASE v.state = "protected" /\ Candidates(c, v) # {} /\ Fits(v, value)
    <2>1. Decrypted(c, v, value) = [pc |-> "ready", node |-> v, tags |-> v.n, text |-> value.data]
        BY <1>5 DEF Decrypted
    <2>2. value.data = v.n
        BY <1>1, <1>5 DEF Fits, VersionOK, CacheOK
    <2> QED
        BY <1>1, <1>2, <2>1, <2>2 DEF LoadOK, Loads
<1>6. CASE v.state = "protected" /\ Candidates(c, v) # {} /\ ~Fits(v, value)
    <2>1. Decrypted(c, v, value) = [pc |-> "broken", node |-> v]
        BY <1>6 DEF Decrypted
    <2> QED
        BY <1>1, <2>1 DEF LoadOK, Loads
<1> QED
    BY <1>1, <1>3, <1>4, <1>5, <1>6

\* Node and value are of one version, or do not fit.
LEMMA OpenValueKeeps == ASSUME IInv, NEW c \in Clients, OpenValue(c) PROVE IInv'
PROOF
<1>1. PICK value \in {ValueOf(item), cache[c]} \ {NoValue} :
          /\ load' = [load EXCEPT ![c] = Decrypted(c, load[c].node, value)]
          /\ cache' = [cache EXCEPT ![c] = value]
    BY DEF OpenValue
<1>2. load[c].pc = "node" /\ item # None /\ stage = "done"
    BY Own DEF OpenValue
<1>3. VersionOK(item) /\ item.n \in 0..writes /\ item.key \in 0..writes
    BY <1>2, Own DEF ItemOK, VersionOK, Version
<1>4. CacheOK(value, writes) /\ value \in [data : 0..MaxWrites, key : 0..MaxWrites]
    <2>1. CacheOK(ValueOf(item), writes)
        BY <1>3 DEF ValueOf, CacheOK, VersionOK
    <2>2. CacheOK(value, writes)
        BY <1>1, <2>1, Own
    <2>3. 0..writes \subseteq 0..MaxWrites
        BY Own
    <2> QED
        BY <2>2, <2>3 DEF CacheOK
<1>5. VersionOK(load[c].node)
    BY <1>2, Own DEF LoadOK
<1> DEFINE l == Decrypted(c, load[c].node, value)
<1>6. l \in Loads /\ LoadOK(l, certs[c])
    BY <1>4, <1>5, Own, DecryptedOK
<1> HIDE DEF l
<1>7. /\ load' \in [Clients -> Loads] /\ load'[c] = l
      /\ cache' \in [Clients -> [data : 0..MaxWrites, key : 0..MaxWrites]] /\ cache'[c] = value
      /\ \A d \in Clients : d # c => load'[d] = load[d] /\ cache'[d] = cache[d]
    BY <1>1, <1>4, <1>6, Own DEF l
<1>8. ItemOK'
    BY Own DEF OpenValue, ItemOK
<1> QED
    BY <1>2, <1>4, <1>6, <1>7, <1>8, Own, ClientStep DEF OpenValue

\* A step that changes the job of a client, and perhaps the content.
LEMMA JobStep ==
    ASSUME IInv, NEW c \in Clients, job[c].pc # "idle",
           UNCHANGED <<type, exempt, stage, keyState, knows, injected, certs, cache, load, writes, changes>>,
           ItemOK', item # None => item' # None,
           NEW j, j \in Jobs, JobOK(j, Trusted, writes), job' = [job EXCEPT ![c] = j],
           (j.pc # "idle" /\ j.kind = "sync") => item' # None
    PROVE  IInv'
PROOF
<1>1. job' \in [Clients -> Jobs] /\ job'[c] = j /\ \A d \in Clients : d # c => job'[d] = job[d]
    BY Own
<1>2. stage = "done"
    BY Own
<1>3. writes \in writes..MaxWrites
    BY Own
<1> QED
    BY <1>1, <1>2, <1>3, Own, ClientStep

\* A client without a job.
LEMMA NoJobOK == NoJob \in Jobs /\ NoJob.pc = "idle" /\ \A t, w : JobOK(NoJob, t, w)
PROOF
    BY DEF NoJob, Jobs, JobOK

\* What is true of a job at work.
LEMMA AtWork ==
    ASSUME IInv, NEW c \in Clients, job[c].pc # "idle"
    PROVE  /\ job[c] \in Jobs \ {NoJob} /\ job[c].n \in 1..writes
           /\ job[c].pc \in Working /\ job[c].kind \in {"edit", "sync"}
           /\ job[c].state \in {"public", "protected"} /\ job[c].flag \in BOOLEAN
           /\ job[c].base \in 0..MaxWrites /\ job[c].tries \in 1..Attempts
           /\ job[c].named \subseteq Keys /\ job[c].keys \subseteq Keys
           /\ job[c].lo \subseteq Keys /\ job[c].hi \subseteq Keys
PROOF
<1>1. job[c] \in Jobs /\ job[c].n <= writes /\ writes \in 0..MaxWrites /\ MaxWrites \in Nat
    BY Own DEF JobOK
<1>2. job[c] \in Jobs \ {NoJob}
    BY <1>1 DEF NoJob
<1>3. job[c] \in [pc : Working, kind : {"edit", "sync"}, n : 1..MaxWrites,
                  state : {"public", "protected"}, flag : BOOLEAN, base : 0..MaxWrites,
                  named : SUBSET Keys, keys : SUBSET Keys, lo : SUBSET Keys,
                  hi : SUBSET Keys, tries : 1..Attempts]
    BY <1>2 DEF Jobs
<1> QED
    BY <1>1, <1>2, <1>3

\* An edit starts with the trusted keys as its witnesses.
LEMMA SubmitKeeps ==
    ASSUME IInv, NEW c \in Clients, NEW s \in {"public", "protected"}, NEW flag \in BOOLEAN,
           Submit(c, s, flag)
    PROVE  IInv'
PROOF
<1> DEFINE base == IF item = None THEN None ELSE load[c].node
           named == IF base = None THEN {} ELSE base.named
           j == [pc |-> IF s = "public" THEN "sealing" ELSE "asking",
                 kind |-> "edit", n |-> writes + 1, state |-> s, flag |-> flag,
                 base |-> base.n, named |-> named,
                 keys |-> {}, lo |-> Trusted, hi |-> Trusted, tries |-> 1]
<1>1. /\ Authorized(c) /\ job[c].pc = "idle" /\ writes < MaxWrites /\ writes' = writes + 1
      /\ item # None => load[c].pc = "ready"
      /\ load' = [load EXCEPT ![c] = Unloaded] /\ job' = [job EXCEPT ![c] = j]
      /\ UNCHANGED <<type, exempt, stage, keyState, knows, injected, certs, item, cache, changes>>
    BY DEF Submit
<1>2. writes \in Nat /\ MaxWrites \in Nat /\ writes' \in 1..MaxWrites /\ Attempts \in Nat \ {0}
    BY <1>1, Own, KeyAssumption DEF KeyAssumption
<1>3. base.n \in 0..MaxWrites /\ named \subseteq Keys
    <2>1. CASE item = None
        BY <1>2, <2>1 DEF None
    <2>2. CASE item # None
        <3>1. load[c].node \in Version
            BY <1>1, <2>2, Own DEF LoadOK, VersionOK
        <3> QED
            BY <1>2, <2>2, <3>1 DEF Version
    <2> QED
        BY <2>1, <2>2
<1> HIDE DEF base, named
<1>4. Trusted \subseteq Keys
    BY DEF Trusted
<1>5. j \in Jobs
    <2>1. j.pc \in Working
        BY DEF Working
    <2> QED
        BY <1>1, <1>2, <1>3, <1>4, <2>1 DEF Jobs
<1>6. JobOK(j, Trusted, writes')
    BY <1>1, <1>2, <1>5 DEF JobOK
<1>7. j.kind = "edit"
    OBVIOUS
<1> HIDE DEF j
<1>8. Unloaded \in Loads /\ LoadOK(Unloaded, certs[c]) /\ Unloaded.pc = "idle"
    BY DEF Unloaded, Loads, LoadOK
<1>9. /\ load' \in [Clients -> Loads] /\ load'[c] = Unloaded
      /\ job' \in [Clients -> Jobs] /\ job'[c] = j
      /\ \A d \in Clients : d # c => load'[d] = load[d] /\ job'[d] = job[d]
    BY <1>1, <1>5, <1>8, Own
<1>10. ItemOK'
    BY <1>1, <1>2, Own DEF ItemOK, VersionOK, Version
<1>11. CacheOK(cache'[c], writes') /\ writes' \in writes..MaxWrites /\ stage = "done"
    BY <1>1, <1>2, Own, CacheMore
<1> QED
    BY <1>1, <1>6, <1>7, <1>8, <1>9, <1>10, <1>11, Own, ClientStep

\* The keys asked for are the trusted ones, and its witnesses know them.
LEMMA AskKeysKeeps == ASSUME IInv, NEW c \in Clients, AskKeys(c) PROVE IInv'
PROOF
<1>1. /\ job[c].pc = "asking"
      /\ UNCHANGED <<type, exempt, stage, keyState, knows, injected, certs, item, cache, load, writes, changes>>
    BY DEF AskKeys
<1>2. ItemOK'
    BY <1>1, Own DEF ItemOK
<1>3. CASE Drop(c)
    BY <1>1, <1>2, <1>3, NoJobOK, JobStep DEF Drop
<1>4. CASE job' = [job EXCEPT ![c].pc = "sealing", ![c].keys = Trusted]
    <2> DEFINE j == [job[c] EXCEPT !.pc = "sealing", !.keys = Trusted]
    <2>1. job' = [job EXCEPT ![c] = j]
        BY <1>4, Own
    <2>2. Trusted \subseteq Keys /\ "sealing" \in Working
        BY DEF Trusted, Working
    <2>3. j \in Jobs
        BY <1>1, <2>2, AtWork DEF Jobs
    <2>4. JobOK(j, Trusted, writes)
        BY <1>1, <2>3, AtWork, Own DEF JobOK
    <2>5. j.kind = "edit"
        BY <1>1, Own, AtWork DEF JobOK
    <2> QED
        BY <1>1, <1>2, <2>1, <2>3, <2>4, <2>5, JobStep
<1> QED
    BY <1>3, <1>4 DEF AskKeys

\* A sync is sealed for all that could read the version it has read.
LEMMA SyncKeeps == ASSUME IInv, NEW c \in Clients, Sync(c) PROVE IInv'
PROOF
<1> DEFINE v == load[c].node
           j == [pc |-> "sealing", kind |-> "sync", n |-> writes + 1, state |-> "protected",
                 flag |-> FALSE, base |-> v.n, named |-> {}, keys |-> KeysOfReferences(v),
                 lo |-> v.lo, hi |-> v.hi \cup KeysOfReferences(v), tries |-> 1]
<1>1. /\ load[c].pc = "ready" /\ job[c].pc = "idle" /\ v.state = "protected"
      /\ writes < MaxWrites /\ writes' = writes + 1
      /\ load' = [load EXCEPT ![c] = Unloaded] /\ job' = [job EXCEPT ![c] = j]
      /\ UNCHANGED <<type, exempt, stage, keyState, knows, injected, certs, item, cache, changes>>
    BY DEF Sync
<1>2. writes \in Nat /\ MaxWrites \in Nat /\ writes' \in 1..MaxWrites /\ Attempts \in Nat \ {0}
    BY <1>1, Own, KeyAssumption DEF KeyAssumption
<1>3. VersionOK(v) /\ item # None /\ stage = "done"
    BY <1>1, Own DEF LoadOK
<1>4. v.n \in 0..MaxWrites /\ v.lo \subseteq Keys /\ v.hi \subseteq Keys /\ KeysOfReferences(v) \subseteq Keys
    BY <1>2, <1>3 DEF VersionOK, Version, KeysOfReferences
<1>5. v.lo \subseteq KeysOfReferences(v)
    BY <1>1, <1>3 DEF VersionOK, KeysOfReferences
<1> HIDE DEF v
<1>6. j \in Jobs
    <2>1. j.pc \in Working
        BY DEF Working
    <2> QED
        BY <1>1, <1>2, <1>4, <2>1 DEF Jobs
<1>7. JobOK(j, Trusted, writes')
    BY <1>1, <1>2, <1>5, <1>6 DEF JobOK
<1> HIDE DEF j
<1>8. Unloaded \in Loads /\ LoadOK(Unloaded, certs[c]) /\ Unloaded.pc = "idle"
    BY DEF Unloaded, Loads, LoadOK
<1>9. /\ load' \in [Clients -> Loads] /\ load'[c] = Unloaded
      /\ job' \in [Clients -> Jobs] /\ job'[c] = j
      /\ \A d \in Clients : d # c => load'[d] = load[d] /\ job'[d] = job[d]
    BY <1>1, <1>6, <1>8, Own
<1>10. ItemOK'
    BY <1>1, <1>2, Own DEF ItemOK, VersionOK, Version
<1>11. CacheOK(cache'[c], writes') /\ writes' \in writes..MaxWrites
    BY <1>1, <1>2, Own, CacheMore
<1> QED
    BY <1>1, <1>3, <1>7, <1>8, <1>9, <1>10, <1>11, Own, ClientStep

\* Sealing changes no keys.
LEMMA SealKeeps == ASSUME IInv, NEW c \in Clients, Seal(c) PROVE IInv'
PROOF
<1> DEFINE j == [job[c] EXCEPT !.pc = "sent"]
<1>1. /\ job[c].pc = "sealing"
      /\ UNCHANGED <<type, exempt, stage, keyState, knows, injected, certs, item, cache, load, writes, changes>>
      /\ job' = [job EXCEPT ![c] = j]
    BY Own DEF Seal
<1>2. j \in Jobs
    BY <1>1, AtWork DEF Jobs, Working
<1>3. JobOK(j, Trusted, writes)
    BY <1>1, <1>2, AtWork, Own DEF JobOK
<1>4. (j.pc # "idle" /\ j.kind = "sync") => item # None
    BY <1>1, AtWork, Own
<1>5. ItemOK'
    BY <1>1, Own DEF ItemOK
<1> QED
    BY <1>1, <1>2, <1>3, <1>4, <1>5, JobStep

\* A job that failed is given up or, if it is a sync, tried again.
LEMMA RetryKeeps ==
    ASSUME IInv, NEW c \in Clients, job[c].pc \in {"sealing", "sent", "again"}, GiveUpOrRetry(c),
           UNCHANGED <<type, exempt, stage, keyState, knows, injected, certs, item, cache, load, writes, changes>>
    PROVE  IInv'
PROOF
<1>1. ItemOK'
    BY Own DEF ItemOK
<1>2. CASE Drop(c)
    BY <1>1, <1>2, NoJobOK, JobStep DEF Drop
<1>3. CASE /\ job[c].kind = "sync" /\ job[c].tries < Attempts
           /\ job' = [job EXCEPT ![c].pc = "again", ![c].tries = @ + 1]
    <2> DEFINE j == [job[c] EXCEPT !.pc = "again", !.tries = @ + 1]
    <2>1. job' = [job EXCEPT ![c] = j]
        BY <1>3, Own
    <2>2. "again" \in Working /\ job[c].tries + 1 \in 1..Attempts
        BY <1>3, AtWork, KeyAssumption DEF Working, KeyAssumption
    <2>3. j \in Jobs
        BY <1>3, <2>2, AtWork DEF Jobs
    <2>4. JobOK(j, Trusted, writes)
        BY <1>3, <2>3, AtWork, Own DEF JobOK
    <2>5. item # None
        BY <1>3, Own
    <2> QED
        BY <1>1, <2>1, <2>3, <2>4, <2>5, JobStep
<1> QED
    BY <1>2, <1>3 DEF GiveUpOrRetry

\* A failed attempt changes nothing but the job.
LEMMA SealFailsKeeps == ASSUME IInv, NEW c \in Clients, SealFails(c) PROVE IInv'
PROOF
    BY RetryKeeps DEF SealFails

\* Another attempt keeps the keys of the first.
LEMMA AgainKeeps == ASSUME IInv, NEW c \in Clients, Again(c) PROVE IInv'
PROOF
<1>1. /\ job[c].pc = "again"
      /\ UNCHANGED <<type, exempt, stage, keyState, knows, injected, certs, item, cache, load, writes, changes>>
    BY DEF Again
<1>2. CASE GiveUpOrRetry(c)
    BY <1>1, <1>2, RetryKeeps
<1>3. CASE job' = [job EXCEPT ![c].pc = "sealing", ![c].base = item.n,
                              ![c].lo = @ \cap item.lo, ![c].hi = @ \cup item.hi]
    <2> DEFINE j == [job[c] EXCEPT !.pc = "sealing", !.base = item.n,
                                   !.lo = @ \cap item.lo, !.hi = @ \cup item.hi]
    <2>1. job' = [job EXCEPT ![c] = j]
        BY <1>3, Own
    <2>2. item # None /\ item.n \in 0..MaxWrites /\ item.hi \subseteq Keys
        BY <1>1, Own DEF JobOK, ItemOK, VersionOK, Version
    <2>3. "sealing" \in Working
        BY DEF Working
    <2>4. j \in Jobs
        BY <1>1, <2>2, <2>3, AtWork DEF Jobs
    <2>5. JobOK(j, Trusted, writes)
        BY <1>1, <2>4, AtWork, Own DEF JobOK
    <2>6. ItemOK'
        BY <1>1, Own DEF ItemOK
    <2> QED
        BY <1>1, <2>1, <2>2, <2>4, <2>5, <2>6, JobStep
<1> QED
    BY <1>2, <1>3 DEF Again

\* What the server stores is sealed for the keys of the job that are left.
LEMMA WrittenOK ==
    ASSUME IInv, NEW c \in Clients, job[c].pc = "sent"
    PROVE  /\ VersionOK(Written(job[c], SignKeys(c)))
           /\ Written(job[c], SignKeys(c)).n \in 1..writes
PROOF
<1> DEFINE j == job[c]
           v == Written(j, SignKeys(c))
<1>1. v = [n |-> j.n, state |-> j.state, key |-> SharedKey(j), flag |-> j.flag,
           named |-> NamedKeys(j), refs |-> Resolved(j), signed |-> SignKeys(c) \cap Present,
           lo |-> j.lo \cap Present, hi |-> j.hi]
    BY DEF Written
<1>2. Present \subseteq Keys /\ writes \in 0..MaxWrites /\ MaxWrites \in Nat
    BY Own DEF Present
<1>3. j.n \in 1..writes /\ j.n \in 1..MaxWrites
    BY <1>2, AtWork
<1>4. SharedKey(j) = (IF j.state = "protected" THEN j.n ELSE 0) /\ SharedKey(j) \in 0..MaxWrites
    BY <1>2, <1>3, AtWork DEF SharedKey
<1>5. NamedKeys(j) \subseteq Keys /\ Resolved(j) \subseteq Keys
    BY <1>2, AtWork DEF NamedKeys, Resolved
<1>6. v \in Version
    BY <1>1, <1>2, <1>3, <1>4, <1>5, AtWork DEF Version
<1>7. j.state = "protected" =>
        /\ j.lo \cap Present \subseteq Resolved(j)
        /\ Resolved(j) \subseteq j.hi
    BY Own DEF JobOK, Resolved
<1> HIDE DEF v
<1>8. VersionOK(v)
    BY <1>1, <1>4, <1>6, <1>7 DEF VersionOK
<1> QED
    BY <1>1, <1>3, <1>8 DEF v

\* The content is what the server has written, or what it was.
LEMMA ServeKeeps == ASSUME IInv, NEW c \in Clients, Serve(c) PROVE IInv'
PROOF
<1>1. /\ job[c].pc = "sent"
      /\ UNCHANGED <<type, exempt, stage, keyState, knows, injected, certs, cache, load, writes, changes>>
    BY DEF Serve
<1>2. CASE GiveUpOrRetry(c) /\ item' = item
    BY <1>1, <1>2, RetryKeeps
<1>3. CASE item' = Written(job[c], SignKeys(c)) /\ Drop(c)
    <2>1. VersionOK(item') /\ item'.n \in 1..writes
        BY <1>1, <1>3, WrittenOK
    <2>2. item' # None
        BY <2>1 DEF None
    <2>3. ItemOK'
        BY <1>1, <2>1, Own DEF ItemOK
    <2> QED
        BY <1>1, <1>3, <2>2, <2>3, NoJobOK, JobStep DEF Drop
<1> QED
    BY <1>2, <1>3 DEF Serve

-----------------------------------------------------------------------------
(* Registration *)

\* The invariant holds before anybody has registered.
LEMMA IInvInit == Init => IInv
PROOF
<1> SUFFICES ASSUME Init PROVE IInv
    OBVIOUS
<1>1. Simple
    <2>1. injected \in BOOLEAN
        BY Zenon DEF Init
    <2>2. keyState \in [Keys -> {"gone", "public", "trusted", "required"}]
        BY DEF Init
    <2>3. certs \in [Clients -> SUBSET Keys]
        BY KeyAssumption DEF Init, KeyAssumption
    <2>4. writes \in 0..MaxWrites /\ changes \in 0..MaxChanges
        BY KeyAssumption DEF Init, KeyAssumption
    <2>5. type \in {"Config", "Custom"} /\ stage \in {"form", "done"}
        BY DEF Init
    <2>6. exempt \in BOOLEAN
        BY Zenon DEF Init
    <2>7. knows \subseteq Clients
        BY KeyAssumption DEF Init, KeyAssumption
    <2>8. stage \in {"form", "cluster", "config", "done", "lost"}
        BY <2>5
    <2> QED
        BY <2>1, <2>2, <2>3, <2>4, <2>5, <2>6, <2>7, <2>8, Zenon DEF Simple
<1>2. ItemOK
    BY DEF Init, ItemOK
<1>3. 0 \in 0..0 /\ 0 \in 0..MaxWrites
    BY KeyAssumption DEF KeyAssumption
<1>4. CachesOK
    BY <1>3 DEF Init, CachesOK, CacheOK, NoValue
<1>5. LoadsOK
    BY DEF Init, LoadsOK, LoadOK, Loads, Unloaded
<1>6. JobsOK
    BY NoJobOK DEF Init, JobsOK
<1>7. Early
    BY DEF Init, Early
<1>8. Begun
    BY DEF Init, Begun, Unloaded, NoJob
<1> QED
    BY <1>1, <1>2, <1>4, <1>5, <1>6, <1>7, <1>8 DEF IInv

\* While the client registers nobody else is at work, so that the trusted keys
\* and the certificates change beside no read and no write.
LEMMA RegistrationKeeps == ASSUME IInv, Registration PROVE IInv'
PROOF
<1>1. /\ stage # "done" /\ UNCHANGED <<exempt, injected, cache, load, job, changes>>
      /\ type' = type /\ stage' \in {"cluster", "config", "done", "lost"}
    BY DEF Registration, CreateCluster, RegisterConfig, RegisterDone, RegisterFails
<1>2. \A c \in Clients : job[c] = NoJob /\ load[c] = Unloaded
    BY <1>1 DEF IInv, Early
<1>3. /\ writes \in Nat /\ writes \in 0..MaxWrites /\ MaxWrites \in Nat \ {0}
      /\ RegKey \in Keys /\ Registrant \in Clients
    BY KeyAssumption DEF IInv, Simple, KeyAssumption
<1>4. CASE CreateCluster
    <2>1. Simple'
        BY <1>3, <1>4 DEF CreateCluster, IInv, Simple
    <2>2. ItemOK' /\ CachesOK' /\ LoadsOK'
        BY <1>4 DEF CreateCluster, IInv, ItemOK, CachesOK, LoadsOK
    <2>3. JobsOK'
        BY <1>1, <1>2, NoJobOK DEF IInv, JobsOK
    <2>4. Early' /\ Begun'
        BY <1>4 DEF CreateCluster, IInv, Early, Begun
    <2> QED
        BY <2>1, <2>2, <2>3, <2>4 DEF IInv
<1>5. CASE RegisterConfig
    <2>1. writes = 0 /\ writes' \in {0, 1} /\ UNCHANGED <<keyState, knows, certs>>
          /\ stage' = "config"
        BY <1>5 DEF RegisterConfig, IInv, Early
    <2>2. Simple'
        BY <1>1, <1>3, <2>1 DEF IInv, Simple
    <2>3. ItemOK'
        <3>1. CASE UNCHANGED <<writes, item>>
            BY <3>1 DEF IInv, ItemOK
        <3>2. CASE /\ writes' = 1
                   /\ item' = [n |-> 1, state |-> "protected", key |-> 1, flag |-> FALSE,
                               named |-> {RegKey}, refs |-> {RegKey}, signed |-> {RegKey},
                               lo |-> {RegKey}, hi |-> {RegKey}]
            <4>1. item' \in Version
                BY <1>3, <3>2 DEF Version
            <4>2. VersionOK(item')
                BY <3>2, <4>1 DEF VersionOK
            <4> QED
                BY <3>2, <4>2 DEF ItemOK
        <3> QED
            BY <1>5, <3>1, <3>2 DEF RegisterConfig
    <2>4. CachesOK'
        <3>1. \A c \in Clients : CacheOK(cache[c], writes')
            BY <2>1, CacheMore DEF IInv, CachesOK
        <3> QED
            BY <1>1, <3>1 DEF IInv, CachesOK
    <2>5. LoadsOK'
        BY <1>1, <2>1 DEF IInv, LoadsOK
    <2>6. JobsOK'
        BY <1>1, <1>2, NoJobOK DEF IInv, JobsOK
    <2>7. Early'
        BY <1>1, <2>1 DEF IInv, Early
    <2>8. Begun'
        BY <1>1, <1>2 DEF Begun, NoJob, Unloaded
    <2> QED
        BY <2>2, <2>3, <2>4, <2>5, <2>6, <2>7, <2>8 DEF IInv
<1>6. CASE RegisterDone
    <2>1. /\ stage' = "done" /\ knows' = {Registrant} /\ UNCHANGED <<keyState, item, writes>>
          /\ certs' \in [Clients -> SUBSET Keys]
        BY <1>3, <1>6 DEF RegisterDone, IInv, Simple
    <2>2. Simple'
        BY <1>1, <1>3, <2>1 DEF IInv, Simple
    <2>3. ItemOK' /\ CachesOK'
        BY <1>1, <2>1 DEF IInv, ItemOK, CachesOK
    <2>4. LoadsOK'
        BY <1>1, <1>2 DEF IInv, LoadsOK, LoadOK, Loads, Unloaded
    <2>5. JobsOK'
        BY <1>1, <1>2, NoJobOK DEF IInv, JobsOK
    <2>6. Early'
        BY <2>1 DEF Early
    <2>7. Begun'
        BY <1>1, <1>2 DEF Begun, NoJob, Unloaded
    <2> QED
        BY <2>2, <2>3, <2>4, <2>5, <2>6, <2>7 DEF IInv
<1>7. CASE RegisterFails
    <2>1. /\ stage' = "lost" /\ UNCHANGED <<keyState, knows, certs, item, writes>>
        BY <1>7 DEF RegisterFails
    <2>2. Simple' /\ ItemOK' /\ CachesOK' /\ LoadsOK'
        BY <1>1, <2>1 DEF IInv, Simple, ItemOK, CachesOK, LoadsOK
    <2>3. JobsOK'
        BY <1>1, <1>2, NoJobOK DEF IInv, JobsOK
    <2>4. Early' /\ Begun'
        BY <1>1, <2>1 DEF IInv, Early, Begun
    <2> QED
        BY <2>2, <2>3, <2>4 DEF IInv
<1> QED
    BY <1>4, <1>5, <1>6, <1>7 DEF Registration

-----------------------------------------------------------------------------
(* Changes of keys *)

\* A running edit takes notice of the keys trusted from now on.
LEMMA ChangeKeyJobs ==
    ASSUME IInv, NEW k \in Keys, NEW s \in {"gone", "public", "trusted", "required"}, ChangeKey(k, s)
    PROVE  JobsOK' /\ \A c \in Clients : job'[c].pc = job[c].pc /\
                        (job[c].pc # "idle" => job'[c].kind = job[c].kind)
PROOF
<1>1. job' = Witnessed(Trusted') /\ Trusted' \subseteq Keys /\ writes' = writes
    BY DEF ChangeKey, Trusted
<1>2. ASSUME NEW c \in Clients
      PROVE  /\ job'[c] \in Jobs /\ JobOK(job'[c], Trusted', writes) /\ job'[c].pc = job[c].pc
             /\ job[c].pc # "idle" => job'[c].kind = job[c].kind
    <2>1. CASE job[c].pc \in Working /\ job[c].kind = "edit"
        <3> DEFINE j == [job[c] EXCEPT !.lo = @ \cap Trusted', !.hi = @ \cup Trusted']
        <3>1. job'[c] = j
            BY <1>1, <2>1 DEF Witnessed
        <3>2. job[c].pc # "idle"
            BY <2>1 DEF Working
        <3>3. j \in Jobs
            BY <1>1, <3>2, AtWork DEF Jobs
        <3>4. j.pc = job[c].pc /\ j.kind = job[c].kind /\ j.lo = job[c].lo \cap Trusted'
              /\ j.hi = job[c].hi \cup Trusted' /\ j.n = job[c].n /\ j.state = job[c].state
              /\ j.keys = job[c].keys
            BY <3>2, AtWork DEF Jobs
        <3>5. JobOK(j, Trusted', writes)
            BY <2>1, <3>3, <3>4, Own DEF JobOK
        <3> QED
            BY <3>1, <3>3, <3>4, <3>5
    <2>2. CASE ~(job[c].pc \in Working /\ job[c].kind = "edit")
        <3>1. job'[c] = job[c]
            BY <1>1, <2>2 DEF Witnessed
        <3>2. job[c].pc # "asking"
            BY <2>2, Own DEF JobOK, Working
        <3> QED
            BY <3>1, <3>2, Own DEF JobOK
    <2> QED
        BY <2>1, <2>2
<1>3. job' \in [Clients -> Jobs]
    BY <1>1, <1>2 DEF Witnessed
<1> QED
    BY <1>1, <1>2, <1>3 DEF JobsOK

\* A change of a key is a change of the trusted keys at most.
LEMMA ChangeKeyKeeps ==
    ASSUME IInv, NEW k \in Keys, NEW s \in {"gone", "public", "trusted", "required"}, ChangeKey(k, s),
           ItemOK', item # None => item' # None
    PROVE  IInv'
PROOF
<1>1. /\ stage = "done" /\ changes < MaxChanges /\ changes' = changes + 1
      /\ keyState' = [keyState EXCEPT ![k] = s]
      /\ UNCHANGED <<type, exempt, stage, knows, injected, certs, cache, load, writes>>
    BY DEF ChangeKey
<1>2. Simple'
    BY <1>1, KeyAssumption DEF IInv, Simple, KeyAssumption
<1>3. CachesOK' /\ LoadsOK' /\ Early'
    BY <1>1 DEF IInv, CachesOK, LoadsOK, Early
<1>4. Begun'
    BY <1>1, ChangeKeyJobs DEF IInv, Begun
<1> QED
    BY <1>2, <1>3, <1>4, ChangeKeyJobs DEF IInv

\* A deleted key leaves the references and the keys that were trusted all the
\* while.
LEMMA KeyChangeKeeps == ASSUME IInv, KeyChange PROVE IInv'
PROOF
<1>1. ASSUME NEW k \in Keys, CreateKey(k) \/ UpdateKey(k) PROVE IInv'
    <2>1. PICK s \in {"gone", "public", "trusted", "required"} : ChangeKey(k, s) /\ item' = item
        BY <1>1 DEF CreateKey, UpdateKey, TrustedStates
    <2>2. ItemOK'
        BY <2>1 DEF ChangeKey, IInv, ItemOK
    <2> QED
        BY <2>1, <2>2, ChangeKeyKeeps
<1>2. ASSUME NEW k \in Keys, DeleteKey(k) PROVE IInv'
    <2>1. ChangeKey(k, "gone") /\ writes' = writes
        BY <1>2 DEF DeleteKey, ChangeKey
    <2>2. CASE item = None
        <3>1. item' = None
            BY <1>2, <2>2 DEF DeleteKey
        <3> QED
            BY <2>1, <2>2, <3>1, ChangeKeyKeeps DEF ItemOK
    <2>3. CASE item # None
        <3> DEFINE v == [item EXCEPT !.refs = @ \ {k}, !.signed = @ \ {k}, !.lo = @ \ {k}]
        <3>1. item' = v /\ VersionOK(item) /\ item.n <= writes
            BY <1>2, <2>3 DEF DeleteKey, IInv, ItemOK
        <3>2. /\ v \in Version /\ v.n = item.n /\ v.n \in 1..MaxWrites /\ v.key = item.key
              /\ v.state = item.state /\ v.refs = item.refs \ {k} /\ v.lo = item.lo \ {k}
              /\ v.hi = item.hi
            BY <3>1 DEF VersionOK, Version
        <3> HIDE DEF v
        <3>3. VersionOK(v)
            BY <3>1, <3>2 DEF VersionOK
        <3>4. v # None
            BY <3>2 DEF None
        <3> QED
            BY <2>1, <3>1, <3>2, <3>3, <3>4, ChangeKeyKeeps DEF ItemOK
    <2> QED
        BY <2>2, <2>3
<1>3. CASE InjectKeys
    BY <1>3, KeyAssumption DEF InjectKeys, IInv, Simple, ItemOK, CachesOK, LoadsOK, JobsOK, Trusted,
                Early, Begun, KeyAssumption
<1>4. ASSUME NEW c \in Clients, Share(c) PROVE IInv'
    BY <1>4 DEF Share, IInv, Simple, ItemOK, CachesOK, LoadsOK, JobsOK, Trusted, Early, Begun
<1> QED
    BY <1>1, <1>2, <1>3, <1>4 DEF KeyChange

-----------------------------------------------------------------------------
(* The theorems *)

\* Every step preserves the invariant.
LEMMA IInvStep == IInv /\ [Next]_vars => IInv'
PROOF
<1> SUFFICES ASSUME IInv, [Next]_vars PROVE IInv'
    OBVIOUS
<1>1. CASE Registration
    BY <1>1, RegistrationKeeps
<1>2. CASE KeyChange
    BY <1>2, KeyChangeKeeps
<1>3. ASSUME NEW c \in Clients, Client(c) PROVE IInv'
    BY <1>3, LoadNodeKeeps, OpenValueKeeps, SubmitKeeps, AskKeysKeeps, SyncKeeps, SealKeeps,
       SealFailsKeeps, AgainKeeps, ServeKeeps DEF Client
<1>4. CASE UNCHANGED vars
    BY <1>4 DEF vars, IInv, Simple, ItemOK, CachesOK, LoadsOK, JobsOK, Trusted, Early, Begun
<1> QED
    BY <1>1, <1>2, <1>3, <1>4 DEF Next

\* So it always holds.
LEMMA Invariance == Spec => []IInv
PROOF
    BY IInvInit, IInvStep, PTL DEF Spec

\* The content, the keys, the reads and the writes keep their types, and a
\* retried write ends.
THEOREM TypeCorrect == Spec => []TypeOK
PROOF
<1>1. IInv => TypeOK
    <2> SUFFICES ASSUME IInv PROVE TypeOK
        OBVIOUS
    <2>1. item \in Version \cup {None}
        BY DEF IInv, ItemOK, VersionOK
    <2>2. ASSUME NEW c \in Clients
          PROVE  /\ cache[c] \in [data : 0..writes, key : 0..writes]
                 /\ load[c].pc \in {"idle", "node", "ready", "unreadable", "broken"}
                 /\ load[c].pc # "idle" => load[c].node \in Version
                 /\ job[c].pc \in Working \cup {"idle"}
                 /\ job[c].pc # "idle" => job[c].tries \in 1..Attempts /\ job[c].n \in 1..writes
        <3>1. cache[c] \in [data : 0..writes, key : 0..writes]
            BY Own DEF CacheOK
        <3>2. load[c] \in Loads /\ (load[c].pc # "idle" => load[c].node \in Version)
            BY Own DEF LoadOK, VersionOK
        <3>3. load[c].pc \in {"idle", "node", "ready", "unreadable", "broken"}
            BY <3>2 DEF Loads, Unloaded
        <3> QED
            BY <3>1, <3>2, <3>3, AtWork
    <2> QED
        BY <2>1, <2>2 DEF IInv, Simple, TypeOK
<1> QED
    BY <1>1, Invariance, PTL

\* A protected content is sealed for every key that was trusted all the while
\* its writer was at work, and for no key that was not trusted at any time.
THEOREM SealedForTrusted == Spec => []ReadersAreTrusted
PROOF
<1>1. IInv => ReadersAreTrusted
    BY DEF IInv, ItemOK, VersionOK, ReadersAreTrusted
<1> QED
    BY <1>1, Invariance, PTL

\* Whoever has the certificate of such a key opens the content.
THEOREM TrustedOpens == Spec => []TrustedCanRead
PROOF
<1>1. IInv => TrustedCanRead
    BY DEF IInv, LoadsOK, LoadOK, TrustedCanRead
<1> QED
    BY <1>1, Invariance, PTL

\* Node and value of what is read are of one version, whatever is written
\* between the two answers.
THEOREM WholeVersions == Spec => []ReadsAreWhole
PROOF
<1>1. IInv => ReadsAreWhole
    BY DEF IInv, LoadsOK, LoadOK, ReadsAreWhole
<1> QED
    BY <1>1, Invariance, PTL
=============================================================================
