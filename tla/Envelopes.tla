------------------------------ MODULE Envelopes ------------------------------
(***************************************************************************)
(* Who can read a content.  A protected content is encrypted with a shared *)
(* key, and the shared key is sealed in one "key" reference for each       *)
(* public key that the writer finds trusted in the cluster.  Clients       *)
(* register, ask for the trusted keys, write, read, and synchronise the    *)
(* config content of the cluster, while others trust, distrust and delete  *)
(* keys.  Encryption is symbolic: a shared key is a number, and what is    *)
(* sealed for a public key is opened by the certificate of the same hash.  *)
(* src/js-packages/misc/src/utils/references.ts, encryption.ts, crypto.ts  *)
(* and operations/content.ts, cluster.ts, config.ts.                       *)
(***************************************************************************)
EXTENDS Naturals, FiniteSets

CONSTANTS Clients,        \* browsers with a config
          Keys,           \* key pairs, named by the hash of the public key
          Registrant,     \* the client that creates the cluster
          RegKey,         \* the key pair it generates
          Held,           \* the certificates in the config of every client
          Signs,          \* clients with certificates in signWith
          Attempts,       \* attempts of retry
          MaxWrites,      \* bound on the writes
          MaxChanges      \* bound on the changes of keys

ASSUME KeyAssumption == /\ Registrant \in Clients
                        /\ RegKey \in Keys
                        /\ Held \in [Clients -> SUBSET Keys]
                        /\ Signs \subseteq Clients
                        /\ {Attempts, MaxWrites, MaxChanges} \subseteq Nat \ {0}

VARIABLES
    type,       \* of the content: "Config" or "Custom"
    exempt,     \* it is in the cluster "@system", whose contents need no signature
    stage,      \* of the registration: "form", "cluster", "config",
                \* "done", "lost"
    keyState,   \* of the public keys of the cluster; "gone" when there is none
    knows,      \* clients with tokens of the cluster in their config
    injected,   \* a group of the cluster has injected keys
    certs,      \* config.certificates that belong to the cluster
    item,       \* the content, or None
    cache,      \* the answer to its last fetch of the value
    load,       \* what the editor or the synchronisation of a client has read
    job,        \* what it is writing
    writes,     \* values written or about to be, the last shared key
    changes     \* of keys

vars == <<type, exempt, stage, keyState, knows, injected, certs, item, cache, load, job,
          writes, changes>>

None == [n |-> 0]
Garbled == 0

TrustedStates == {"trusted", "required"}

\* extractPubKeysClusterAndInjected, of what contentGetConfigurationQuery
\* answers.
Trusted == {k \in Keys : keyState[k] \in TrustedStates}
Required == {k \in Keys : keyState[k] = "required"}
Present == {k \in Keys : keyState[k] # "gone"}

\* authInfoFromConfig finds tokens.
Authorized(c) == c \in knows

\* extractPrivKeys with onlySignKeys
SignKeys(c) == IF c \in Signs THEN certs[c] ELSE {}

\* A version: its update id n, the shared key (0 when public), whether a tag
\* is a flag, the keys its tags name, and the targets of its references.
\* lo and hi say nothing of the code: the keys trusted all the while, and at
\* some time, between the decision to write and the write.
Version == [n : 1..MaxWrites, state : {"public", "protected"}, key : 0..MaxWrites,
            flag : BOOLEAN, named : SUBSET Keys, refs : SUBSET Keys,
            signed : SUBSET Keys, lo : SUBSET Keys, hi : SUBSET Keys]

\* What the link of the content serves.
ValueOf(v) == [data |-> v.n, key |-> v.key]
NoValue == [data |-> 0, key |-> 0]

Unloaded == [pc |-> "idle"]
NoJob == [pc |-> "idle"]
Working == {"asking", "sealing", "sent", "again"}

\* The cluster "@system" an administrator has set up, with a key of the
\* registrant, is looked at for configs only: elsewhere clients that do not
\* sign have nothing to synchronise.  It counts as a change of keys.
Init == /\ type \in {"Config", "Custom"}
        /\ exempt \in BOOLEAN /\ (exempt => type = "Config")
        /\ stage = IF exempt THEN "done" ELSE "form"
        /\ keyState = [k \in Keys |-> IF exempt /\ k = RegKey THEN "trusted" ELSE "gone"]
        /\ knows = IF exempt THEN {Registrant} ELSE {}
        /\ injected = FALSE
        /\ certs = IF exempt THEN [Held EXCEPT ![Registrant] = @ \cup {RegKey}] ELSE Held
        /\ item = None
        /\ cache = [c \in Clients |-> NoValue]
        /\ load = [c \in Clients |-> Unloaded]
        /\ job = [c \in Clients |-> NoJob]
        /\ writes = 0
        /\ changes = IF exempt THEN 1 ELSE 0

-----------------------------------------------------------------------------
(* Registration *)

\* createCluster: the cluster, its public key and the private key, sealed for
\* the public key; the config that can open it is in memory only.
CreateCluster ==
    /\ stage = "form"
    /\ stage' = "cluster"
    /\ keyState' = [keyState EXCEPT ![RegKey] = "trusted"]
    /\ UNCHANGED <<type, exempt, knows, injected, certs, item, cache, load, job, writes,
                   changes>>

\* initializeCluster writes the config for the key it has just generated, and
\* signs it with that key.
RegisterConfig ==
    /\ stage = "cluster"
    /\ stage' = "config"
    /\ IF type = "Config"
       THEN /\ writes' = 1
            /\ item' = [n |-> 1, state |-> "protected", key |-> 1, flag |-> FALSE,
                        named |-> {RegKey}, refs |-> {RegKey}, signed |-> {RegKey},
                        lo |-> {RegKey}, hi |-> {RegKey}]
       ELSE UNCHANGED <<writes, item>>
    /\ UNCHANGED <<type, exempt, keyState, knows, injected, certs, cache, load, job, changes>>

\* Only now the browser gets the config with the tokens and the certificate.
RegisterDone ==
    /\ stage = "config"
    /\ stage' = "done"
    /\ knows' = {Registrant}
    /\ certs' = [certs EXCEPT ![Registrant] = @ \cup {RegKey}]
    /\ UNCHANGED <<type, exempt, keyState, injected, item, cache, load, job, writes, changes>>

\* Any error restores the old config, and nobody has the tokens of the cluster.
\* With a lock password there always is one, after the config is written: its
\* second write names no signature algorithm.
RegisterFails ==
    /\ stage \in {"cluster", "config"}
    /\ stage' = "lost"
    /\ UNCHANGED <<type, exempt, keyState, knows, injected, certs, item, cache, load, job,
                   writes, changes>>

-----------------------------------------------------------------------------
(* Keys *)

\* What the ghosts of a running write make of a change of the trusted keys.
Witnessed(trusted) ==
    [c \in Clients |-> IF job[c].pc \in Working /\ job[c].kind = "edit"
                       THEN [job[c] EXCEPT !.lo = @ \cap trusted, !.hi = @ \cup trusted]
                       ELSE job[c]]

ChangeKey(k, s) ==
    /\ stage = "done"
    /\ changes < MaxChanges
    /\ changes' = changes + 1
    /\ keyState' = [keyState EXCEPT ![k] = s]
    /\ job' = Witnessed({x \in Keys : keyState'[x] \in TrustedStates})
    /\ UNCHANGED <<type, exempt, stage, knows, injected, certs, cache, load, writes>>

\* createKeys, which works for a public key without its private key.
CreateKey(k) == /\ keyState[k] = "gone"
                /\ \E s \in {"public"} \cup TrustedStates : ChangeKey(k, s)
                /\ UNCHANGED item

\* updateKey, given the state alone.
UpdateKey(k) == /\ keyState[k] # "gone"
                /\ \E s \in ({"public"} \cup TrustedStates) \ {keyState[k]} : ChangeKey(k, s)
                /\ UNCHANGED item

\* The references to a deleted key go with it.
DeleteKey(k) ==
    /\ keyState[k] # "gone"
    /\ ChangeKey(k, "gone")
    /\ item' = IF item = None THEN None
               ELSE [item EXCEPT !.refs = @ \ {k}, !.signed = @ \ {k}, !.lo = @ \ {k}]

\* The tokens of the cluster are shared.
Share(c) ==
    /\ stage = "done" /\ c \notin knows
    /\ knows' = knows \cup {c}
    /\ UNCHANGED <<type, exempt, stage, keyState, injected, certs, item, cache, load, job,
                   writes, changes>>

\* The administrator gives the group of the cluster injected keys.
InjectKeys ==
    /\ stage = "done" /\ ~injected
    /\ changes < MaxChanges
    /\ injected' = TRUE
    /\ changes' = changes + 1
    /\ UNCHANGED <<type, exempt, stage, keyState, knows, certs, item, cache, load, job, writes>>

-----------------------------------------------------------------------------
(* Reading *)

\* The node with its references and tags, from the server.
LoadNode(c) ==
    /\ Authorized(c) /\ job[c].pc = "idle" /\ item # None
    /\ load' = [load EXCEPT ![c] = [pc |-> "node", node |-> item]]
    /\ UNCHANGED <<type, exempt, stage, keyState, knows, injected, certs, item, cache, job,
                   writes, changes>>

\* (mutant) The references of another group.
CandidatesOfSignatures(c, v) == v.signed \cap certs[c]

\* findCertCandidatesForRefs
Candidates(c, v) == v.refs \cap certs[c]

\* The tags of a public node are taken as they are, and so is the value: a
\* ciphertext when the content has become protected meanwhile.
ReadRaw(v, value) ==
    [pc |-> "ready", node |-> v, tags |-> v.n,
     text |-> IF value.key = 0 THEN value.data ELSE Garbled]

\* Whether the shared key decrypts the value.
Fits(v, value) == value.key = v.key

\* decryptContentObject: the tags and the shared key come from the node, the
\* value from the link; a shared key that does not fit is a KeyMissmatchError.
Decrypted(c, v, value) ==
    IF v.state = "public" THEN ReadRaw(v, value)
    ELSE IF Candidates(c, v) = {} THEN [pc |-> "unreadable", node |-> v]
    ELSE IF Fits(v, value)
    THEN [pc |-> "ready", node |-> v, tags |-> v.n, text |-> value.data]
    ELSE [pc |-> "broken", node |-> v]

\* fallback_fetch asks the cache of the browser when the request fails.
OpenValue(c) ==
    /\ load[c].pc = "node"
    /\ \E value \in {ValueOf(item), cache[c]} \ {NoValue} :
         /\ load' = [load EXCEPT ![c] = Decrypted(c, load[c].node, value)]
         /\ cache' = [cache EXCEPT ![c] = value]
    /\ UNCHANGED <<type, exempt, stage, keyState, knows, injected, certs, item, job, writes,
                   changes>>

-----------------------------------------------------------------------------
(* Writing *)

\* The custom editor, the config editor: a new value and the tags it has read,
\* those that name keys among them.  Public values are sent as they are.  (A
\* second content made from the same form is another item and is left out.)
Submit(c, state, flag) ==
    LET base == IF item = None THEN None ELSE load[c].node
    IN /\ Authorized(c) /\ job[c].pc = "idle"
       /\ writes < MaxWrites
       /\ IF item = None THEN type = "Custom" \/ exempt ELSE load[c].pc = "ready"
       /\ writes' = writes + 1
       /\ load' = [load EXCEPT ![c] = Unloaded]
       /\ job' = [job EXCEPT ![c] =
              [pc |-> IF state = "public" THEN "sealing" ELSE "asking",
               kind |-> "edit", n |-> writes + 1, state |-> state, flag |-> flag,
               base |-> base.n, named |-> IF base = None THEN {} ELSE base.named,
               keys |-> {}, lo |-> Trusted, hi |-> Trusted, tries |-> 1]]
       /\ UNCHANGED <<type, exempt, stage, keyState, knows, injected, certs, item, cache, changes>>

Drop(c) == job' = [job EXCEPT ![c] = NoJob]

\* (mutant) An answer of the cache: the keys the loaded version names.
AskKeysOfCache(c) ==
    /\ job[c].pc = "asking"
    /\ job' = [job EXCEPT ![c].pc = "sealing",
                         ![c].keys = IF job[c].base = 0 THEN Trusted ELSE job[c].named]
    /\ UNCHANGED <<type, exempt, stage, keyState, knows, injected, certs, item, cache, load,
                   writes, changes>>

\* extractGroupKeys throws as soon as there is an injected key; the config
\* editor hands over an empty object instead of calling it.
GroupKeysThrow == injected /\ type # "Config"

\* The query of the trusted keys, past every cache.
AskKeys(c) ==
    /\ job[c].pc = "asking"
    /\ IF GroupKeysThrow
       THEN Drop(c)
       ELSE job' = [job EXCEPT ![c].pc = "sealing", ![c].keys = Trusted]
    /\ UNCHANGED <<type, exempt, stage, keyState, knows, injected, certs, item, cache, load,
                   writes, changes>>

\* The keys that the references of a config content name, those of signatures
\* among them: updateConfigRemoteReducer encrypts for these.
KeysOfReferences(v) == v.refs \cup v.signed

\* updateConfigRemoteReducer, from the node it has queried and opened.
Sync(c) ==
    LET v == load[c].node
    IN /\ type = "Config" /\ load[c].pc = "ready" /\ job[c].pc = "idle"
       /\ v.state = "protected"
       /\ writes < MaxWrites
       /\ writes' = writes + 1
       /\ load' = [load EXCEPT ![c] = Unloaded]
       /\ job' = [job EXCEPT ![c] =
              [pc |-> "sealing", kind |-> "sync", n |-> writes + 1, state |-> "protected",
               flag |-> FALSE, base |-> v.n, named |-> {}, keys |-> KeysOfReferences(v),
               lo |-> v.lo, hi |-> v.hi \cup KeysOfReferences(v), tries |-> 1]]
       /\ UNCHANGED <<type, exempt, stage, keyState, knows, injected, certs, item, cache, changes>>

\* finalizeTag throws on a tag without a value.
TagsCanSeal(j) == j.state = "protected" => ~j.flag

\* createSignatureReferences throws without a signature algorithm, and
\* updateRemoteConfig names none.
CanSign(j, signkeys) == j.kind = "sync" => signkeys = {}

\* updateContent and createContent encrypt for somebody or not at all.
CanSeal(j, signkeys) ==
    /\ j.state = "protected" => j.keys # {}
    /\ TagsCanSeal(j)
    /\ CanSign(j, signkeys)

\* The requests for the keys, the encryption of the value with a new shared
\* key and of the shared key for each public key, the signatures, and the
\* mutation.
Seal(c) ==
    /\ job[c].pc = "sealing"
    /\ CanSeal(job[c], SignKeys(c))
    /\ job' = [job EXCEPT ![c].pc = "sent"]
    /\ UNCHANGED <<type, exempt, stage, keyState, knows, injected, certs, item, cache, load,
                   writes, changes>>

\* (mutant) Without an end.
RetryForever(c) ==
    IF job[c].kind = "sync"
    THEN job' = [job EXCEPT ![c].pc = "again", ![c].tries = @ + 1]
    ELSE Drop(c)

\* The sync tries again.
GiveUpOrRetry(c) ==
    IF job[c].kind = "sync" /\ job[c].tries < Attempts
    THEN job' = [job EXCEPT ![c].pc = "again", ![c].tries = @ + 1]
    ELSE Drop(c)

\* It cannot be sealed, or one of the keys could not be fetched.
SealFails(c) ==
    /\ job[c].pc = "sealing"
    /\ \/ ~CanSeal(job[c], SignKeys(c))
       \/ job[c].state = "protected"
    /\ GiveUpOrRetry(c)
    /\ UNCHANGED <<type, exempt, stage, keyState, knows, injected, certs, item, cache, load,
                   writes, changes>>

\* A retried sync queries and opens the node again, and keeps the public keys
\* of the first attempt.
Again(c) ==
    /\ job[c].pc = "again"
    /\ IF item.state = "public" \/ Candidates(c, item) # {}
       THEN job' = [job EXCEPT ![c].pc = "sealing", ![c].base = item.n,
                               ![c].lo = @ \cap item.lo, ![c].hi = @ \cup item.hi]
       ELSE GiveUpOrRetry(c)
    /\ UNCHANGED <<type, exempt, stage, keyState, knows, injected, certs, item, cache, load,
                   writes, changes>>

-----------------------------------------------------------------------------
(* The server *)

\* References to deleted keys are dropped.
Resolved(j) == IF j.state = "protected" THEN j.keys \cap Present ELSE {}

NamedKeys(j) == j.named \cup (IF j.state = "protected" THEN j.keys ELSE {})

\* needs_signature: a key of the cluster has signed the value.
IsSigned(signkeys) == exempt \/ signkeys \cap Present # {}

\* A protected content is sealed for somebody, and for every required key; the
\* tags name every required key.  For a new content the hashes of the required
\* keys keep their prefix and equal no other.
Admitted(j, signkeys) ==
    /\ IsSigned(signkeys)
    /\ j.state = "protected" => Resolved(j) # {}
    /\ j.base = 0 => Required = {}
    /\ j.state = "protected" /\ type # "Config" => Required \subseteq Resolved(j)
    /\ Required \subseteq NamedKeys(j)

\* (mutant) The shared key of the version before.
SharedKeyKept(j) ==
    IF j.state = "public" THEN 0
    ELSE IF item = None THEN j.n
    ELSE IF item.key = 0 THEN j.n ELSE item.key

\* A new shared key for every value.
SharedKey(j) == IF j.state = "public" THEN 0 ELSE j.n

Written(j, signkeys) ==
    [n |-> j.n, state |-> j.state, key |-> SharedKey(j), flag |-> j.flag,
     named |-> NamedKeys(j), refs |-> Resolved(j), signed |-> signkeys \cap Present,
     lo |-> j.lo \cap Present, hi |-> j.hi]

Serve(c) ==
    LET j == job[c]
    IN /\ j.pc = "sent"
       /\ IF j.base = item.n /\ Admitted(j, SignKeys(c))
          THEN /\ item' = Written(j, SignKeys(c))
               /\ Drop(c)
          ELSE /\ GiveUpOrRetry(c)
               /\ UNCHANGED item
       /\ UNCHANGED <<type, exempt, stage, keyState, knows, injected, certs, cache, load,
                   writes, changes>>

Client(c) == \/ LoadNode(c) \/ OpenValue(c)
             \/ \E state \in {"public", "protected"}, flag \in BOOLEAN : Submit(c, state, flag)
             \/ AskKeys(c) \/ Sync(c) \/ Seal(c) \/ SealFails(c) \/ Again(c) \/ Serve(c)

KeyChange == \/ \E k \in Keys : CreateKey(k) \/ UpdateKey(k) \/ DeleteKey(k)
             \/ InjectKeys
             \/ \E c \in Clients : Share(c)

Registration == CreateCluster \/ RegisterConfig \/ RegisterDone \/ RegisterFails

Next == \/ Registration
        \/ KeyChange
        \/ \E c \in Clients : Client(c)

Spec == Init /\ [][Next]_vars

-----------------------------------------------------------------------------
(* Properties *)

\* Type invariant of the content, the keys, the reads and the writes.
TypeOK ==
    /\ type \in {"Config", "Custom"}
    /\ stage \in {"form", "cluster", "config", "done", "lost"}
    /\ keyState \in [Keys -> {"gone", "public", "trusted", "required"}]
    /\ injected \in BOOLEAN /\ exempt \in BOOLEAN
    /\ knows \subseteq Clients /\ certs \in [Clients -> SUBSET Keys]
    /\ item \in Version \cup {None}
    /\ writes \in 0..MaxWrites /\ changes \in 0..MaxChanges
    /\ \A c \in Clients :
         /\ cache[c] \in [data : 0..writes, key : 0..writes]
         /\ load[c].pc \in {"idle", "node", "ready", "unreadable", "broken"}
         /\ load[c].pc # "idle" => load[c].node \in Version
         /\ job[c].pc \in Working \cup {"idle"}
         /\ job[c].pc # "idle" => job[c].tries \in 1..Attempts /\ job[c].n \in 1..writes

\* A protected content can be read with the keys that were trusted all the
\* while it was written, and with none that was not trusted at any time of it:
\* a key distrusted before a write does not open what is written.
ReadersAreTrusted ==
    item # None /\ item.state = "protected" => item.lo \subseteq item.refs /\ item.refs \subseteq item.hi

\* Whoever holds the certificate of a key that was trusted all the while is
\* never told that the content is unreadable.
TrustedCanRead ==
    \A c \in Clients : load[c].pc = "unreadable" => certs[c] \cap load[c].node.lo = {}

\* What is read of a protected content is the value of the very version that
\* the tags, the state and the update id belong to, although they come in two
\* answers between which others write.
ReadsAreWhole ==
    \A c \in Clients : load[c].pc = "ready" /\ load[c].node.state = "protected"
                         => load[c].text = load[c].tags /\ load[c].text = load[c].node.n
==============================================================================
