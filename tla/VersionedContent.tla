-------------------------- MODULE VersionedContent --------------------------
(***************************************************************************)
(* What the update id of a content promises (docs/implementation/         *)
(* design.md, "Why id for updates"): a writer hands in the update id it    *)
(* read together with the value it started from, and the write happens     *)
(* only while that id is still the stored one.                             *)
(*                                                                         *)
(* Every write is one step here; module ContentUpdate shows how the server *)
(* gets there in several, and module ConfigSync uses it as the storage     *)
(* that several clients share.                                             *)
(***************************************************************************)
EXTENDS Naturals

CONSTANTS
    Contents,   \* the contents written to
    Requests,   \* update requests; each is answered at most once
    Initial     \* the update id a content is created with

(* Initial is none of the ids that requests write.                         *)
NewIds == Initial \notin Requests

VARIABLES
    stored,     \* content -> what the database holds of it
    target,     \* request -> the content it updates
    base,       \* request -> the update id its client read
    seen,       \* request -> the updates merged in the value its client read
    answer      \* request -> how far it got

vars == <<stored, target, base, seen, answer>>

(* uuid4() is new at every write, so a request names the id it writes.     *)
UpdateIds == Requests \cup {Initial}

(* "merged" stands for the value: the set of updates it incorporates.      *)
Stored == [here : BOOLEAN, id : UpdateIds, merged : SUBSET Requests]

Answers == {"idle", "read", "ok", "refused", "failed"}

TypeOK ==
    /\ stored \in [Contents -> Stored]
    /\ target \in [Requests -> Contents]
    /\ base \in [Requests -> UpdateIds]
    /\ seen \in [Requests -> SUBSET Requests]
    /\ answer \in [Requests -> Answers]

Init ==
    /\ stored = [c \in Contents |-> [here |-> TRUE, id |-> Initial, merged |-> {}]]
    /\ target \in [Requests -> Contents]
    /\ base = [r \in Requests |-> Initial]
    /\ seen = [r \in Requests |-> {}]
    /\ answer = [r \in Requests |-> "idle"]

(* The client fetches the value and its update id.                         *)
Read(r) ==
    /\ answer[r] = "idle"
    /\ stored[target[r]].here
    /\ base' = [base EXCEPT ![r] = stored[target[r]].id]
    /\ seen' = [seen EXCEPT ![r] = stored[target[r]].merged]
    /\ answer' = [answer EXCEPT ![r] = "read"]
    /\ UNCHANGED <<stored, target>>

(* The id read is the id stored.                                           *)
Current(r) ==
    /\ stored[target[r]].here
    /\ stored[target[r]].id = base[r]

(* The stored content after r: a new id, r merged into what r had read.    *)
Written(r) == [here |-> TRUE, id |-> r, merged |-> seen[r] \cup {r}]

(* writeok = True *)
Accept(r) ==
    /\ answer[r] = "read"
    /\ Current(r)
    /\ stored' = [stored EXCEPT ![target[r]] = Written(r)]
    /\ answer' = [answer EXCEPT ![r] = "ok"]
    /\ UNCHANGED <<target, base, seen>>

(* writeok = False *)
Refuse(r) ==
    /\ answer[r] = "read"
    /\ ~Current(r)
    /\ answer' = [answer EXCEPT ![r] = "refused"]
    /\ UNCHANGED <<stored, target, base, seen>>

(* An error instead of an answer: the request changed nothing.             *)
Fail(r) ==
    /\ answer[r] = "read"
    /\ answer' = [answer EXCEPT ![r] = "failed"]
    /\ UNCHANGED <<stored, target, base, seen>>

(* The content is deleted.                                                 *)
Drop(c) ==
    /\ stored[c].here
    /\ stored' = [stored EXCEPT ![c].here = FALSE]
    /\ UNCHANGED <<target, base, seen, answer>>

Next ==
    \/ \E r \in Requests : Read(r) \/ Accept(r) \/ Refuse(r) \/ Fail(r)
    \/ \E c \in Contents : Drop(c)

Spec == Init /\ [][Next]_vars

-----------------------------------------------------------------------------
(* An acknowledged update is part of every later value of its content: no  *)
(* later writer can have started from a value that lacks it.               *)
NoLostUpdate ==
    \A r \in Requests :
        answer[r] = "ok" /\ stored[target[r]].here => r \in stored[target[r]].merged

(* The values of a content form a chain: a write only adds to what was     *)
(* there, whoever writes.                                                  *)
OnlyGrows ==
    [][\A c \in Contents :
        stored'[c].here => stored[c].merged \subseteq stored'[c].merged]_vars

(* Why they hold: an update id in use comes from an answered update, and   *)
(* belongs to one value.                                                   *)
IdsOfAccepted ==
    /\ \A c \in Contents : stored[c].id # Initial => answer[stored[c].id] = "ok"
    /\ \A r \in Requests : base[r] # Initial => answer[base[r]] = "ok"

ReadTogether ==
    \A r \in Requests :
        answer[r] = "read" /\ stored[target[r]].id = base[r] =>
            seen[r] = stored[target[r]].merged

Inductive == TypeOK /\ IdsOfAccepted /\ ReadTogether /\ NoLostUpdate
=============================================================================
