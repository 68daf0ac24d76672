----------------------------- MODULE ActionForm -----------------------------
(***************************************************************************)
(* The access control form of the client.  A token opens an item of the    *)
(* server; the client config keeps the tokens under their hashes, and for  *)
(* every item the hashes and the kinds of action they are good for.  An    *)
(* editor merges what the config and the server know of the item into a    *)
(* mapper (generateActionMapper), shows it as a list of elements           *)
(* (mappersToArray), lets the user change the list (ActionsDialog), and    *)
(* turns it into actions for the server and an update for the config       *)
(* (transformActions).  The share dialog sends actions past the form.      *)
(* A hash is a pair of a token and the hash algorithm: "new" is the first  *)
(* of the server's algorithms, "old" one the config may have been written  *)
(* with.                                                                   *)
(***************************************************************************)
EXTENDS Naturals, Sequences, FiniteSets, SequencesExt

CONSTANTS Tokens,        \* the data of tokens
          Certificates,  \* the data of private keys, which config.certificates keeps
          System,        \* the tokens the client marks as its own
          ClusterTokens, \* the tokens that may manage the cluster of the item
          Kinds,         \* kinds of action the dialog offers
          CanSign,       \* the editor passes sign keys (auth actions)
          MaxElements,   \* bound: elements in the form
          MaxEdits,      \* bound: changes of one form
          MaxRounds      \* bound: submits and shares

ASSUME TokenAssumption == System \cup ClusterTokens \subseteq Tokens /\ Tokens \cap Certificates = {}
ASSUME BoundAssumption == MaxElements \in Nat /\ MaxEdits \in Nat /\ MaxRounds \in Nat
ASSUME KindAssumption == Kinds \cap {"other", "absent", "null"} = {} /\ CanSign \in BOOLEAN
ASSUME FiniteAssumption == IsFiniteSet(Tokens) /\ IsFiniteSet(Certificates) /\ IsFiniteSet(Kinds)

VARIABLES editor,    \* which editor is open: "content", "cluster" or "keys"
          url,       \* tokens that came with the link, perhaps unknown
          stored,    \* config.tokens and config.certificates: hashes with data
          rights,    \* config.hosts[url]: per item and hash the kinds, or Absent
          server,    \* <<item, hash, kind>>: the actions of the server
          mapper,    \* per item the action mapper the form was built from
          form,      \* the elements of the form
          edits,     \* changes of the form so far
          sent,      \* what the last answered submit sent for each item
          rounds     \* submits and shares so far

vars == <<editor, url, stored, rights, server, mapper, form, edits, sent, rounds>>

Algorithms == {"new", "old"}
Hashes == (Tokens \cup Certificates) \X Algorithms
NewHash(t) == <<t, "new">>
NoHash == <<>>
Absent == {"absent"}   \* the config has no entry for the hash
Null == {"null"}       \* the update deletes the entry
Rights == SUBSET (Kinds \cup {"other"})
DataOf(hashes) == {h[1] : h \in hashes}

\* validFor of the keys editor; the others have one item and no validFor.
Items == IF editor = "keys" THEN {"PublicKey", "PrivateKey"} ELSE {"Item"}
AllItems == {"PublicKey", "PrivateKey", "Item"}
OfCluster == editor = "cluster"

-----------------------------------------------------------------------------
(* generateActionMapper *)

\* helper(): what the config and the server know of the item and its cluster,
\* as pairs of a kind and whether it is the cluster's.
Named(i, h) ==
    {<<k, OfCluster>> : k \in {x \in Kinds : <<i, h, x>> \in server}
                              \cup (IF rights[i][h] = Absent THEN {} ELSE rights[i][h])}
    \cup {<<"manage", TRUE>> : t \in {x \in ClusterTokens : ~ OfCluster /\ h = NewHash(x)}}

Found(i) == {h \in Hashes : rights[i][h] # Absent \/ Named(i, h) # {}}

\* The kind "other" goes when a more specific one is known.
Known(i, h) ==
    LET others == {"other"} \X BOOLEAN
    IN IF Cardinality(Named(i, h)) > 1 /\ Named(i, h) # others
       THEN Named(i, h) \ others ELSE Named(i, h)

\* upgradeHash: a hash whose token is in the config is moved to the first
\* algorithm.  A token of the link is hashed with all algorithms at once, and
\* the hash that is ready first is taken for the newest; when its token is
\* also in the config, the assignment that comes last stays.
Upgrade(h, first, last) ==
    IF h[1] \in url /\ (h \notin stored \/ h[1] \in last) THEN <<h[1], first[h[1]]>>
    ELSE IF h \in stored THEN NewHash(h[1]) ELSE h

\* The entries of hashes whose token or key is in the config.  Of two hashes
\* of one token the old one is taken; its update can be chosen when the new
\* one came first.
FromConfig(i, first, last, shown) ==
    LET up(h) == Upgrade(h, first, last)
        usable == {h \in Found(i) : {h, up(h)} \cap stored # {}}
        source(n) == LET hs == {h \in usable : up(h) = n}
                     IN IF hs \ {n} # {} THEN CHOOSE h \in hs : h # n ELSE n
    IN [n \in {up(h) : h \in usable} |->
          [old |-> source(n),
           acts |-> IF n[1] \in Certificates THEN {<<"certificate", FALSE>>} ELSE Known(i, source(n)),
           update |-> IF shown /\ source(n) # n /\ n \in usable THEN "no" ELSE "hidden"]]

\* The entries of the tokens of the link; only editors of one item get them.
FromUrl(first, last, known) ==
    LET up(t) == Upgrade(<<t, first[t]>>, first, last)
        new == {t \in url : <<t, first[t]>> \notin DOMAIN known}
        added == {t \in new : up(t) \notin DOMAIN known}
    IN [n \in DOMAIN known \cup {up(t) : t \in added} |->
          IF n \in DOMAIN known
          THEN IF n[1] \in new /\ up(n[1]) = n /\ known[n].old = n
               THEN [known[n] EXCEPT !.update = "yes"] ELSE known[n]
          ELSE [old |-> <<n[1], first[n[1]]>>, acts |-> {<<"other", FALSE>>},
                update |-> IF {n, <<n[1], first[n[1]]>>} \cap stored = {} THEN "yes" ELSE "no"]]

GenerateMapper(i, first, last, shown) ==
    LET known == FromConfig(i, first, last, shown)
    IN IF editor = "keys" THEN known ELSE FromUrl(first, last, known)

-----------------------------------------------------------------------------
(* annotateAndMergeMappers and mapperToArray *)

\* An element of the form.
Element(h, old, kind, update, readonly, locked, for) ==
    [hash |-> h, old |-> old, kind |-> kind, update |-> update,
     readonly |-> readonly, locked |-> locked, delete |-> FALSE,
     renoted |-> FALSE, for |-> for]

\* Entries of several mappers with the same hash and kinds become one, valid
\* for all of them.
ElementsOf(ms) ==
    UNION {UNION {
        {Element(n, ms[i][n].old, a[1], ms[i][n].update,
                 n[1] \in System \/ (a[2] /\ ~ OfCluster), TRUE,
                 {j \in DOMAIN ms : n \in DOMAIN ms[j] /\ ms[j][n].acts = ms[i][n].acts})
            : a \in ms[i][n].acts} : n \in DOMAIN ms[i]} : i \in DOMAIN ms}

\* extractMapperValue: with validFor the key of an annotated mapper is looked
\* for, but transformActions is handed the mapper before its annotation.
\* The keys editor hands over the mapper of the private key for both items.
Lookup(el) ==
    LET m == mapper[IF editor = "keys" THEN "PrivateKey" ELSE "Item"]
    IN IF (editor # "keys" \/ el.kind = "certificate") /\ el.hash \in DOMAIN m
       THEN {m[el.hash]} ELSE {}

-----------------------------------------------------------------------------
(* transformActions *)

Nothing == [ok |-> TRUE, actions |-> {}, stored |-> [h \in Hashes |-> "same"],
            hashes |-> [h \in Hashes |-> Absent]]

\* The kinds an update writes for its hash: the filter of the cluster's
\* actions compares a string, and leaves none.
Recorded(entry) == IF OfCluster THEN {a[1] : a \in entry.acts} \ {"certificate"} ELSE {}

\* The token moves to its new hash.
Moved(el, entry) == el.update = "yes" /\ entry.old # el.hash

\* What an updated element changes in the config: hashes and tokens.
Upgraded(acc, el, found) ==
    IF el.update # "yes" THEN acc
    ELSE LET entry == CHOOSE e \in found : TRUE
             base == [acc EXCEPT !.hashes[el.hash] = Recorded(entry)]
         IN IF Moved(el, entry)
            THEN [base EXCEPT !.hashes[entry.old] = Null, !.stored[entry.old] = "drop"]
            ELSE base

\* The hash under which the element is filed.
Active(el, found) ==
    IF el.update = "yes" \/ found = {} THEN el.hash ELSE (CHOOSE e \in found : TRUE).old

\* A mistake the checks must find.
StoreTokenUnmoved(acc, el, found) ==
    IF found = {} \/ el.renoted THEN [acc EXCEPT !.stored[Active(el, found)] = "store"] ELSE acc

StoreToken(acc, el, found) ==
    IF found = {} \/ el.update = "yes" \/ el.renoted
    THEN [acc EXCEPT !.stored[Active(el, found)] = "store"]
    ELSE acc

\* A mistake the checks must find.
SendActionUnfiled(acc, el, found) ==
    IF el.locked \/ el.kind \in {"other", "certificate"} THEN acc
    ELSE [acc EXCEPT !.actions = @ \cup {<<el.hash[1], el.kind>>}]

\* A mistake the checks must find.
SendActionUnlocked(acc, el, found) ==
    LET h == Active(el, found)
        filed == IF acc.hashes[h] \in {Absent, Null} THEN {} ELSE acc.hashes[h]
    IN IF el.kind \in {"other", "certificate"} THEN acc
       ELSE [acc EXCEPT !.hashes[h] = filed \cup {el.kind},
                        !.actions = @ \cup {<<el.hash[1], el.kind>>}]

\* A new action is filed under its hash and sent to the server.
SendAction(acc, el, found) ==
    LET h == Active(el, found)
        filed == IF acc.hashes[h] \in {Absent, Null} THEN {} ELSE acc.hashes[h]
    IN IF el.locked \/ el.kind \in {"other", "certificate"} THEN acc
       ELSE IF el.kind = "auth" /\ ~ CanSign THEN [acc EXCEPT !.ok = FALSE]
       ELSE [acc EXCEPT !.hashes[h] = filed \cup {el.kind},
                        !.actions = @ \cup {<<el.hash[1], el.kind>>}]

\* One element, the body of the callback of actions.map.
TransformOne(i, acc, el) ==
    LET found == Lookup(el)
    IN IF el.readonly \/ (editor = "keys" /\ i \notin el.for) THEN acc
       ELSE IF el.delete
            THEN IF el.old = NoHash THEN [acc EXCEPT !.ok = FALSE]
                 ELSE [acc EXCEPT !.actions = @ \cup {<<el.old, "delete">>}]
       ELSE IF el.update = "yes" /\ found = {} THEN [acc EXCEPT !.ok = FALSE]
       ELSE SendAction(StoreToken(Upgraded(acc, el, found), el, found), el, found)

\* All elements in the order of the form: each callback runs to its end
\* before the next, the signatures of an auth action apart, which come last.
Transform(i) == FoldLeft(LAMBDA acc, el : TransformOne(i, acc, el), Nothing, form)

-----------------------------------------------------------------------------
(* The config and the server after a submit *)

MergeStored(results) ==
    {h \in Hashes : \/ \E i \in DOMAIN results : results[i].stored[h] = "store"
                    \/ h \in stored /\ \A i \in DOMAIN results : results[i].stored[h] # "drop"}

\* A mistake the checks must find.
MergeRightsRaw(old, hashes) == [h \in Hashes |-> IF hashes[h] = Absent THEN old[h] ELSE hashes[h]]

\* updateConfig replaces the kinds of every hash the update names.  The keys
\* editor names none.
MergeRights(old, hashes) ==
    [h \in Hashes |-> CASE hashes[h] = Absent -> old[h]
                        [] hashes[h] = Null -> Absent
                        [] OTHER -> hashes[h]]

\* The server files a new action under the first algorithm, and deletes the
\* actions of a hash.
ServerApply(results) ==
    {a \in server : ~ (a[1] \in Items /\ <<a[2], "delete">> \in results[a[1]].actions)}
    \cup UNION {{<<i, NewHash(a[1]), a[2]>> : a \in {b \in results[i].actions : b[2] # "delete"}}
                : i \in Items}

-----------------------------------------------------------------------------
Empty == [i \in {} |-> {}]

TypeOK ==
    /\ editor \in {"content", "cluster", "keys"} /\ url \subseteq Tokens
    /\ stored \subseteq Hashes
    /\ rights \in [AllItems -> [Hashes -> Rights \cup {Absent}]]
    /\ server \subseteq AllItems \X Hashes \X Kinds
    /\ DOMAIN mapper \in {{}, Items}
    /\ \A n \in 1..Len(form) : form[n].hash \in Hashes /\ form[n].for \subseteq Items
    /\ edits \in 0..MaxEdits /\ rounds \in 0..MaxRounds

\* The config and the server agree: what an earlier client wrote, perhaps
\* with the old algorithm.
Init ==
    /\ editor \in {"content", "cluster", "keys"}
    /\ url \in IF editor = "keys" THEN {{}} ELSE SUBSET (Tokens \ System)
    /\ \E old \in SUBSET Hashes, kinds \in [Tokens -> SUBSET (Kinds \ {"auth"})] :
          /\ \A s \in Tokens \cup Certificates : ~ ({s} \X Algorithms \subseteq old)
          /\ stored = old
          /\ rights = [i \in AllItems |-> [h \in Hashes |->
                          IF i \notin Items \/ h \notin old THEN Absent
                          ELSE IF h[1] \in Certificates THEN {} ELSE kinds[h[1]]]]
          /\ server = {a \in Items \X {h \in Hashes : h[2] = "new"} \X Kinds :
                          a[2][1] \in Tokens /\ a[3] \in kinds[a[2][1]]}
    /\ mapper = Empty /\ form = <<>> /\ edits = 0 /\ sent = Empty /\ rounds = 0

InitialForm(ms) == SetToSeq(ElementsOf(ms))

\* The mappers are generated, and the form is shown.
Load(first, last, shown) ==
    /\ mapper = Empty /\ rounds < MaxRounds
    /\ mapper' = [i \in Items |-> GenerateMapper(i, first, last, shown)]
    /\ form' = InitialForm(mapper')
    /\ edits' = 0
    /\ UNCHANGED <<editor, url, stored, rights, server, sent, rounds>>

Loaded == mapper # Empty

\* A change of the form, and of nothing else.
Edit(changed) ==
    /\ Loaded /\ edits < MaxEdits
    /\ form' = changed /\ edits' = edits + 1
    /\ UNCHANGED <<editor, url, stored, rights, server, mapper, sent, rounds>>

\* ActionConfigurator: a new element, for a new token or one typed in.
Add(t, k, i) ==
    /\ Len(form) < MaxElements
    /\ Edit(Append(form, Element(NewHash(t), NoHash, k, "hidden", FALSE, FALSE,
                                IF editor = "keys" THEN {i} ELSE {})))

\* The note of a token, its trash and its update checkbox (HashEntry).  Of the
\* rows of one old hash only the first has them; the row of a new element
\* has them when a row with an old hash stands before it.
FirstRow(n) ==
    LET first == {m \in 1..Len(form) : form[m].old = form[n].old /\ ~ form[m].delete}
    IN /\ ~ form[n].delete /\ \A m \in first : n <= m
       /\ form[n].old = NoHash => \E m \in 1..Len(form) : form[m].old # NoHash

Renote(n) ==
    /\ ~ form[n].readonly /\ ~ form[n].renoted /\ ~ form[n].delete
    /\ Edit([form EXCEPT ![n].renoted = TRUE])

Delete(n) ==
    /\ FirstRow(n) /\ ~ form[n].readonly
    /\ Edit([form EXCEPT ![n].delete = TRUE])

Toggle(n) ==
    /\ FirstRow(n) /\ ~ form[n].readonly /\ form[n].update # "hidden"
    /\ Edit([form EXCEPT ![n].update = IF @ = "yes" THEN "no" ELSE "yes"])

\* "Accept all updates of actions" and "Reset Tokens".
AcceptAll ==
    /\ \E n \in 1..Len(form) : form[n].update = "yes"
    /\ Edit([n \in 1..Len(form) |->
              IF form[n].update = "hidden" THEN form[n] ELSE [form[n] EXCEPT !.update = "yes"]])

Reset == Edit(InitialForm(mapper))

\* The editor writes the item and then the config; the form is built again.
\* An element that cannot be transformed fails the whole submit.
Submit ==
    /\ Loaded /\ rounds < MaxRounds
    /\ LET results == [i \in Items |-> Transform(i)]
       IN /\ \A i \in Items : results[i].ok
          /\ server' = ServerApply(results)
          /\ stored' = MergeStored(results)
          /\ rights' = [i \in AllItems |-> IF editor # "keys" /\ i \in Items
                          THEN MergeRights(rights[i], results[i].hashes) ELSE rights[i]]
          /\ sent' = [i \in Items |-> results[i].actions]
    /\ rounds' = rounds + 1 /\ mapper' = Empty /\ form' = <<>> /\ edits' = 0
    /\ UNCHANGED <<editor, url>>

\* SimpleShareDialog: the tokens that authorise it are those of the page when
\* they may update or manage, and else what the config has for the item.
MayShare ==
    \E t \in url \cup DataOf(stored) :
        t \in ClusterTokens \/ \E k \in {"update", "manage"} : <<"Item", NewHash(t), k>> \in server

\* The actions of one token go to the server at once.  The form is not
\* involved, and the config is not updated, whether or not the box "Store in
\* Config" is ticked.
ShareActions(t, ks) ==
    /\ rounds < MaxRounds /\ editor # "keys" /\ MayShare
    /\ server' = server \cup {<<"Item", NewHash(t), k>> : k \in ks}
    /\ rounds' = rounds + 1
    /\ UNCHANGED <<editor, url, stored, rights, mapper, form, edits, sent>>

\* The kinds a share offers: all but auth.
Shareable == Kinds \ {"auth"}

\* The tab "New": one action.  The tab "Auth": view, update, both or none.
ShareNew(t, k) == ShareActions(t, {k})
ShareAuth(t, ks) == ShareActions(t, ks)

Next ==
    \/ \E first \in [url -> Algorithms], last \in SUBSET url, shown \in BOOLEAN :
          Load(first, last, shown)
    \/ \E t \in Tokens, k \in Kinds, i \in Items : Add(t, k, i)
    \/ \E n \in 1..Len(form) : Renote(n) \/ Delete(n) \/ Toggle(n)
    \/ AcceptAll \/ Reset \/ Submit
    \/ \E t \in Tokens, k \in Shareable : ShareNew(t, k)
    \/ \E t \in Tokens, ks \in SUBSET (Shareable \cap {"view", "update"}) : ShareAuth(t, ks)

Spec == Init /\ [][Next]_vars

-----------------------------------------------------------------------------
\* No submit makes the config forget the data of a token or of a key, however
\* hashes move and whatever is deleted: it may be good for another item.
TokensStay == [][DataOf(stored) \subseteq DataOf(stored')]_vars

\* What the last submit made the server accept is known to the config, its
\* token and its kind (the keys editor keeps the token only).  A token of the
\* link may be declined in the form, and stays out of the config then.
SentFiled ==
    \A i \in DOMAIN sent : \A a \in sent[i] :
        a[2] # "delete" =>
            /\ a[1] \in DataOf(stored) \cup url
            /\ editor # "keys" => \E h \in Hashes : h[1] = a[1] /\ rights[i][h] # Absent
                                                   /\ a[2] \in rights[i][h]

\* A form nobody touched takes over the tokens of the link, and is otherwise
\* without effect: what the server lets whom do stays, and so does what the
\* config knows of it.
UntouchedSubmit ==
    [][rounds' # rounds /\ Loaded /\ mapper' = Empty /\ form = InitialForm(mapper)
       => /\ server' = server /\ url \subseteq DataOf(stored')
          /\ url = {} => rights' = rights /\ DataOf(stored') = DataOf(stored)]_vars
=============================================================================
