------------------------------ MODULE ConfigMerge ------------------------------
(***************************************************************************)
(* Merging an update into a config (updateConfig in                        *)
(* js-packages/misc/src/utils/config.ts).  Clients merge the same update   *)
(* into the configs of several slots, again after a lost answer, and in    *)
(* different orders; and when no change is counted they write nothing      *)
(* (updateRemoteConfig), which module ConfigSync builds on.                *)
(*                                                                         *)
(* The code counts the changes and asks only whether there were any; here  *)
(* a merge yields that.  Left out: the keys that are replaced as a whole,  *)
(* signWith and trustedKeys, which are merged like tokens and primary, and *)
(* the repair of old formats (cleanConfig).                                *)
(***************************************************************************)
EXTENDS Naturals, FiniteSets

CONSTANTS
    Tokens, Hosts,
    Roles,          \* the keys of "primary"
    Clusters, Items,    \* what a host has in "clusters" and in "contents"
    Hashes,
    Values,         \* arrays of permissions and of token hashes, token data
    None,           \* the key is missing in the config
    Keep,           \* the key is missing in the update
    Delete,         \* the key is null in the update
    Updates         \* the updates tried

VARIABLES config, before, update, changed
vars == <<config, before, update, changed>>

ClusterEntry == [hashes : [Hashes -> Values \cup {None}]]
ItemEntry == [hashes : [Hashes -> Values \cup {None}], cluster : Clusters]
Host == [primary : [Roles -> Values \cup {None}],
         clusters : [Clusters -> ClusterEntry \cup {None}],
         contents : [Items -> ItemEntry \cup {None}]]
\* What config and before range over.
Config == [tokens : [Tokens -> Values \cup {None}], hosts : [Hosts -> Host \cup {None}]]

Ops(S) == S \cup {Keep, Delete}
HashOps == [Hashes -> Ops(Values)]
ClusterUpdate == [hashes : HashOps]
ItemUpdate == [hashes : HashOps, cluster : Clusters \cup {Keep}]
HostUpdate == [primary : [Roles -> Ops(Values)],
               clusters : [Clusters -> Ops(ClusterUpdate)],
               contents : [Items -> Ops(ItemUpdate)]]
Update == [tokens : [Tokens -> Ops(Values)], hosts : [Hosts -> Ops(HostUpdate)]]

ASSUME UpdatesAssumption == Updates \subseteq Update

(* undefined and null are no arrays and no objects.                        *)
ASSUME Distinct ==
    /\ None \notin Values \cup Host \cup ClusterEntry \cup ItemEntry
    /\ \A op \in {Keep, Delete} :
         op \notin Values \cup Clusters \cup HostUpdate \cup ClusterUpdate \cup ItemUpdate
    /\ Keep # Delete

-----------------------------------------------------------------------------
Result(value, c) == [value |-> value, changed |-> c]

(* mergeDeleteObjects with a handler for the values that are objects.      *)
MergeObjects(old, new, Handle(_, _)) ==
    LET merged == [k \in DOMAIN new |->
            CASE new[k] = Keep -> Result(old[k], FALSE)
              [] new[k] = Delete -> Result(None, old[k] # None)
              [] OTHER -> Handle(old[k], new[k])]
    IN  Result([k \in DOMAIN new |-> merged[k].value], \E k \in DOMAIN new : merged[k].changed)

(* A bug: an array that is replaced is not counted.                        *)
ReplaceUncounted(old, new) == Result(new, old = None)

(* An array is replaced.                                                   *)
ReplaceArray(old, new) == Result(new, old # new)

(* A token always counts as changed.                                       *)
ReplaceToken(old, new) == Result(new, TRUE)

NoHashes == [h \in Hashes |-> None]

(* A bug: a new cluster starts without the hashes of the update.           *)
MergeClusterEmpty(old, new) ==
    LET hashes == MergeObjects(old.hashes, new.hashes, ReplaceArray)
    IN  IF old = None THEN Result([hashes |-> NoHashes], TRUE)
        ELSE Result([hashes |-> hashes.value], hashes.changed)

MergeCluster(old, new) ==
    LET hashes == MergeObjects(IF old = None THEN NoHashes ELSE old.hashes, new.hashes, ReplaceArray)
    IN  Result([hashes |-> hashes.value], hashes.changed)

(* A content without a cluster is an error.                                *)
Homeless(old, new) == old = None /\ new.cluster = Keep

(* A change of the cluster of a content is not counted.                    *)
MergeItem(old, new) ==
    LET hashes == MergeObjects(IF old = None THEN NoHashes ELSE old.hashes, new.hashes, ReplaceArray)
        cluster == IF new.cluster = Keep THEN old.cluster ELSE new.cluster
    IN  Result([hashes |-> hashes.value, cluster |-> cluster], hashes.changed)

EmptyHost == [primary |-> [p \in Roles |-> None], clusters |-> [c \in Clusters |-> None],
              contents |-> [i \in Items |-> None]]

(* A bug: the host is made anew.                                           *)
MergeHostAnew(old, new) ==
    LET primary == MergeObjects(EmptyHost.primary, new.primary, ReplaceArray)
        clusters == MergeObjects(EmptyHost.clusters, new.clusters, MergeCluster)
        contents == MergeObjects(EmptyHost.contents, new.contents, MergeItem)
    IN  Result([primary |-> primary.value, clusters |-> clusters.value, contents |-> contents.value],
               primary.changed \/ clusters.changed \/ contents.changed)

(* The handler of a cluster sets the count of the host back to zero, and   *)
(* with it what was counted for "primary".                                 *)
MergeHost(old, new) ==
    LET host == IF old = None THEN EmptyHost ELSE old
        primary == MergeObjects(host.primary, new.primary, ReplaceArray)
        clusters == MergeObjects(host.clusters, new.clusters, MergeCluster)
        contents == MergeObjects(host.contents, new.contents, MergeItem)
        reset == \E c \in Clusters : new.clusters[c] \notin {Keep, Delete}
    IN  Result([primary |-> primary.value, clusters |-> clusters.value, contents |-> contents.value],
               (primary.changed /\ ~reset) \/ clusters.changed \/ contents.changed)

(* updateConfig *)
Merge(old, new) ==
    LET tokens == MergeObjects(old.tokens, new.tokens, ReplaceToken)
        hosts == MergeObjects(old.hosts, new.hosts, MergeHost)
    IN  Result([tokens |-> tokens.value, hosts |-> hosts.value], tokens.changed \/ hosts.changed)

(* A handler throws, and nothing is merged.                                *)
Invalid(old, new) ==
    \E h \in Hosts, i \in Items :
        /\ new.hosts[h] \notin {Keep, Delete}
        /\ new.hosts[h].contents[i] \notin {Keep, Delete}
        /\ Homeless(IF old.hosts[h] = None THEN None ELSE old.hosts[h].contents[i],
                    new.hosts[h].contents[i])

Nothing == [tokens |-> [t \in Tokens |-> Keep], hosts |-> [h \in Hosts |-> Keep]]

Init ==
    /\ config = [tokens |-> [t \in Tokens |-> None], hosts |-> [h \in Hosts |-> None]]
    /\ before = config
    /\ update = Nothing
    /\ changed = FALSE

UpdateConfig(u) ==
    /\ ~Invalid(config, u)
    /\ before' = config
    /\ update' = u
    /\ config' = Merge(config, u).value
    /\ changed' = Merge(config, u).changed

Next == \E u \in Updates : UpdateConfig(u)

Spec == Init /\ [][Next]_vars

-----------------------------------------------------------------------------
(* Properties.                                                             *)

(* The entries of a config, at the grain at which two clients can work     *)
(* side by side.                                                           *)
Entries ==
    ({"tokens"} \X Tokens) \cup ({"primary"} \X Hosts \X Roles)
    \cup ({"clusters"} \X Hosts \X Clusters) \cup ({"contents"} \X Hosts \X Items)

Entry(c, e) ==
    CASE e[1] = "tokens" -> c.tokens[e[2]]
      [] e[1] # "tokens" /\ c.hosts[e[2]] = None -> None
      [] OTHER -> c.hosts[e[2]][e[1]][e[3]]

(* The entries an update speaks of.                                        *)
Named(u) ==
    {e \in Entries :
        CASE e[1] = "tokens" -> u.tokens[e[2]] # Keep
          [] e[1] # "tokens" /\ u.hosts[e[2]] \in {Keep, Delete} -> u.hosts[e[2]] = Delete
          [] OTHER -> u.hosts[e[2]][e[1]][e[3]] # Keep}

(* What an update does not speak of stays: a client that merges into the   *)
(* config of another slot loses nothing there.                             *)
OthersStay == \A e \in Entries \ Named(update) : Entry(config, e) = Entry(before, e)

(* Merging again changes nothing, so a retry after a lost answer is safe.  *)
MergedOnce == Merge(config, update).value = config

(* Updates of different entries commute: slots that get them in different  *)
(* orders agree in the end.                                                *)
OrderIsFree ==
    \A u \in Updates :
        Named(u) \cap Named(update) = {} /\ ~Invalid(before, u) =>
            \A e \in Entries :
                Entry(Merge(config, u).value, e)
                    = Entry(Merge(Merge(before, u).value, update).value, e)

(* What escapes the count: a new entry that is still empty, the cluster of *)
(* a content, and "primary" beside a cluster.                              *)
UncountedAtMost ==
    ~changed => \A e \in Entries :
        Entry(config, e) # Entry(before, e) =>
            \/ e[1] = "primary" /\ \E c \in Clusters : <<"clusters", e[2], c>> \in Named(update)
            \/ e[1] \in {"clusters", "contents"} /\ Entry(config, e).hashes =
                 (IF Entry(before, e) = None THEN NoHashes ELSE Entry(before, e).hashes)
================================================================================
