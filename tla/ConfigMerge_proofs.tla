-------------------------- MODULE ConfigMerge_proofs --------------------------
(***************************************************************************)
(* Proofs about ConfigMerge, for every set of hosts, tokens, clusters and  *)
(* contents, every set of updates and every sequence of them.              *)
(*                                                                         *)
(* The handlers of the merge are passed as parameters.  Here each of them  *)
(* is first said to do what Put... says of one key, and the whole merge to *)
(* do so for every entry on its own (EntryOfMerge).  What the merge        *)
(* promises then is a matter of one entry and one operation: an operation  *)
(* that is missing keeps the entry, the same operation again yields the    *)
(* same, and of two operations on an entry one is missing.                 *)
(***************************************************************************)
EXTENDS ConfigMerge, TLAPS

(* One key of an object by its old value and the operation of the update.  *)
PutValue(o, n) == IF n = Keep THEN o ELSE IF n = Delete THEN None ELSE n

PutHashes(o, n) == [h \in Hashes |-> PutValue(o[h], n[h])]

HashesOf(o) == IF o = None THEN NoHashes ELSE o.hashes

PutCluster(o, n) ==
    IF n = Keep THEN o ELSE IF n = Delete THEN None
    ELSE [hashes |-> PutHashes(HashesOf(o), n.hashes)]

PutItem(o, n) ==
    IF n = Keep THEN o ELSE IF n = Delete THEN None
    ELSE [hashes |-> PutHashes(HashesOf(o), n.hashes),
          cluster |-> IF n.cluster = Keep THEN o.cluster ELSE n.cluster]

HostOf(o) == IF o = None THEN EmptyHost ELSE o

PutHost(o, n) ==
    IF n = Keep THEN o ELSE IF n = Delete THEN None
    ELSE [primary |-> [p \in Roles |-> PutValue(HostOf(o).primary[p], n.primary[p])],
          clusters |-> [c \in Clusters |-> PutCluster(HostOf(o).clusters[c], n.clusters[c])],
          contents |-> [i \in Items |-> PutItem(HostOf(o).contents[i], n.contents[i])]]

Put(o, u) ==
    [tokens |-> [t \in Tokens |-> PutValue(o.tokens[t], u.tokens[t])],
     hosts |-> [h \in Hosts |-> PutHost(o.hosts[h], u.hosts[h])]]

-----------------------------------------------------------------------------
(* The merge, level by level.                                              *)

LEMMA MergeOfHashes ==
    ASSUME NEW o, NEW n \in HashOps
    PROVE  /\ MergeObjects(o, n, ReplaceArray).value = PutHashes(o, n)
           /\ ~MergeObjects(o, n, ReplaceArray).changed => \A h \in Hashes : PutValue(o[h], n[h]) = o[h]
PROOF
<1>1. DOMAIN n = Hashes
    BY DEF HashOps
<1>2. Keep # Delete
    BY Distinct
<1>3. ASSUME NEW h \in Hashes
      PROVE  LET m == CASE n[h] = Keep -> Result(o[h], FALSE)
                        [] n[h] = Delete -> Result(None, o[h] # None)
                        [] OTHER -> ReplaceArray(o[h], n[h])
             IN  /\ m.value = PutValue(o[h], n[h])
                 /\ ~m.changed => PutValue(o[h], n[h]) = o[h]
    BY <1>2 DEF ReplaceArray, Result, PutValue
<1> QED
    BY <1>1, <1>3 DEF MergeObjects, Result, PutHashes

LEMMA MergeOfCluster ==
    ASSUME NEW o, NEW n \in ClusterUpdate
    PROVE  /\ MergeCluster(o, n).value = [hashes |-> PutHashes(HashesOf(o), n.hashes)]
           /\ ~MergeCluster(o, n).changed =>
                \A h \in Hashes : PutValue(HashesOf(o)[h], n.hashes[h]) = HashesOf(o)[h]
PROOF
<1>1. n.hashes \in HashOps
    BY DEF ClusterUpdate
<1> QED
    BY <1>1, MergeOfHashes DEF MergeCluster, Result, HashesOf

LEMMA MergeOfItem ==
    ASSUME NEW o, NEW n \in ItemUpdate
    PROVE  /\ MergeItem(o, n).value =
                [hashes |-> PutHashes(HashesOf(o), n.hashes),
                 cluster |-> IF n.cluster = Keep THEN o.cluster ELSE n.cluster]
           /\ ~MergeItem(o, n).changed =>
                \A h \in Hashes : PutValue(HashesOf(o)[h], n.hashes[h]) = HashesOf(o)[h]
PROOF
<1>1. n.hashes \in HashOps
    BY DEF ItemUpdate
<1> QED
    BY <1>1, MergeOfHashes DEF MergeItem, Result, HashesOf

(* The three objects of a host.                                            *)
LEMMA MergeOfPrimary ==
    ASSUME NEW o, NEW n \in [Roles -> Ops(Values)]
    PROVE  /\ MergeObjects(o, n, ReplaceArray).value = [p \in Roles |-> PutValue(o[p], n[p])]
           /\ ~MergeObjects(o, n, ReplaceArray).changed => \A p \in Roles : PutValue(o[p], n[p]) = o[p]
PROOF
<1>1. DOMAIN n = Roles
    OBVIOUS
<1>2. Keep # Delete
    BY Distinct
<1>3. ASSUME NEW p \in Roles
      PROVE  LET m == CASE n[p] = Keep -> Result(o[p], FALSE)
                        [] n[p] = Delete -> Result(None, o[p] # None)
                        [] OTHER -> ReplaceArray(o[p], n[p])
             IN  /\ m.value = PutValue(o[p], n[p])
                 /\ ~m.changed => PutValue(o[p], n[p]) = o[p]
    BY <1>2 DEF ReplaceArray, Result, PutValue
<1> QED
    BY <1>1, <1>3 DEF MergeObjects, Result

LEMMA MergeOfClusters ==
    ASSUME NEW o, NEW n \in [Clusters -> Ops(ClusterUpdate)]
    PROVE  /\ MergeObjects(o, n, MergeCluster).value = [c \in Clusters |-> PutCluster(o[c], n[c])]
           /\ ~MergeObjects(o, n, MergeCluster).changed =>
                \A c \in Clusters :
                    /\ n[c] = Delete => o[c] = None
                    /\ n[c] \notin {Keep, Delete} =>
                         \A h \in Hashes : PutValue(HashesOf(o[c])[h], n[c].hashes[h]) = HashesOf(o[c])[h]
PROOF
<1>1. \A c \in Clusters : n[c] \notin {Keep, Delete} => n[c] \in ClusterUpdate
    BY DEF Ops
<1>2. DOMAIN n = Clusters /\ Keep # Delete
    BY Distinct
<1>3. ASSUME NEW c \in Clusters
      PROVE  (CASE n[c] = Keep -> Result(o[c], FALSE)
                [] n[c] = Delete -> Result(None, o[c] # None)
                [] OTHER -> MergeCluster(o[c], n[c])).value = PutCluster(o[c], n[c])
    BY <1>1, <1>2, MergeOfCluster DEF PutCluster, Result
<1>4. ASSUME NEW c \in Clusters,
             ~ (CASE n[c] = Keep -> Result(o[c], FALSE)
                  [] n[c] = Delete -> Result(None, o[c] # None)
                  [] OTHER -> MergeCluster(o[c], n[c])).changed
      PROVE  /\ n[c] = Delete => o[c] = None
             /\ n[c] \notin {Keep, Delete} =>
                  \A h \in Hashes : PutValue(HashesOf(o[c])[h], n[c].hashes[h]) = HashesOf(o[c])[h]
    <2>1. CASE n[c] = Delete
        BY <1>2, <1>4, <2>1 DEF Result
    <2>2. CASE n[c] \notin {Keep, Delete}
        BY <1>1, <1>4, <2>2, MergeOfCluster
    <2> QED
        BY <1>2, <2>1, <2>2
<1> QED
    BY <1>2, <1>3, <1>4 DEF MergeObjects, Result

LEMMA MergeOfContents ==
    ASSUME NEW o, NEW n \in [Items -> Ops(ItemUpdate)]
    PROVE  /\ MergeObjects(o, n, MergeItem).value = [i \in Items |-> PutItem(o[i], n[i])]
           /\ ~MergeObjects(o, n, MergeItem).changed =>
                \A i \in Items :
                    /\ n[i] = Delete => o[i] = None
                    /\ n[i] \notin {Keep, Delete} =>
                         \A h \in Hashes : PutValue(HashesOf(o[i])[h], n[i].hashes[h]) = HashesOf(o[i])[h]
PROOF
<1>1. \A i \in Items : n[i] \notin {Keep, Delete} => n[i] \in ItemUpdate
    BY DEF Ops
<1>2. DOMAIN n = Items /\ Keep # Delete
    BY Distinct
<1>3. ASSUME NEW i \in Items
      PROVE  (CASE n[i] = Keep -> Result(o[i], FALSE)
                [] n[i] = Delete -> Result(None, o[i] # None)
                [] OTHER -> MergeItem(o[i], n[i])).value = PutItem(o[i], n[i])
    BY <1>1, <1>2, MergeOfItem DEF PutItem, Result
<1>4. ASSUME NEW i \in Items,
             ~ (CASE n[i] = Keep -> Result(o[i], FALSE)
                  [] n[i] = Delete -> Result(None, o[i] # None)
                  [] OTHER -> MergeItem(o[i], n[i])).changed
      PROVE  /\ n[i] = Delete => o[i] = None
             /\ n[i] \notin {Keep, Delete} =>
                  \A h \in Hashes : PutValue(HashesOf(o[i])[h], n[i].hashes[h]) = HashesOf(o[i])[h]
    <2>1. CASE n[i] = Delete
        BY <1>2, <1>4, <2>1 DEF Result
    <2>2. CASE n[i] \notin {Keep, Delete}
        BY <1>1, <1>4, <2>2, MergeOfItem
    <2> QED
        BY <1>2, <2>1, <2>2
<1> QED
    BY <1>2, <1>3, <1>4 DEF MergeObjects, Result

(* What a host that is not counted as changed still can have changed.      *)
SameHashes(o, n) == \A h \in Hashes : PutValue(HashesOf(o)[h], n.hashes[h]) = HashesOf(o)[h]

UncountedHost(o, n) ==
    /\ n = Delete => o = None
    /\ n \notin {Keep, Delete} =>
         /\ \/ \E c \in Clusters : n.clusters[c] \notin {Keep, Delete}
            \/ \A p \in Roles : PutValue(HostOf(o).primary[p], n.primary[p]) = HostOf(o).primary[p]
         /\ \A c \in Clusters :
              /\ n.clusters[c] = Delete => HostOf(o).clusters[c] = None
              /\ n.clusters[c] \notin {Keep, Delete} => SameHashes(HostOf(o).clusters[c], n.clusters[c])
         /\ \A i \in Items :
              /\ n.contents[i] = Delete => HostOf(o).contents[i] = None
              /\ n.contents[i] \notin {Keep, Delete} => SameHashes(HostOf(o).contents[i], n.contents[i])

LEMMA MergeOfHost ==
    ASSUME NEW o, NEW n \in HostUpdate
    PROVE  /\ MergeHost(o, n).value = PutHost(o, n)
           /\ ~MergeHost(o, n).changed => UncountedHost(o, n)
PROOF
<1>1. /\ n.primary \in [Roles -> Ops(Values)] /\ n.clusters \in [Clusters -> Ops(ClusterUpdate)]
      /\ n.contents \in [Items -> Ops(ItemUpdate)]
    BY DEF HostUpdate
<1>2. n # Keep /\ n # Delete
    BY Distinct
<1> DEFINE primary == MergeObjects(HostOf(o).primary, n.primary, ReplaceArray)
           clusters == MergeObjects(HostOf(o).clusters, n.clusters, MergeCluster)
           contents == MergeObjects(HostOf(o).contents, n.contents, MergeItem)
           reset == \E c \in Clusters : n.clusters[c] \notin {Keep, Delete}
<1>3. /\ MergeHost(o, n).value =
             [primary |-> primary.value, clusters |-> clusters.value, contents |-> contents.value]
      /\ MergeHost(o, n).changed = ((primary.changed /\ ~reset) \/ clusters.changed \/ contents.changed)
    BY DEF MergeHost, Result, HostOf
<1>4. /\ primary.value = [p \in Roles |-> PutValue(HostOf(o).primary[p], n.primary[p])]
      /\ ~primary.changed =>
           \A p \in Roles : PutValue(HostOf(o).primary[p], n.primary[p]) = HostOf(o).primary[p]
    BY <1>1, MergeOfPrimary
<1>5. /\ clusters.value = [c \in Clusters |-> PutCluster(HostOf(o).clusters[c], n.clusters[c])]
      /\ ~clusters.changed => \A c \in Clusters :
           /\ n.clusters[c] = Delete => HostOf(o).clusters[c] = None
           /\ n.clusters[c] \notin {Keep, Delete} => SameHashes(HostOf(o).clusters[c], n.clusters[c])
    BY <1>1, MergeOfClusters DEF SameHashes
<1>6. /\ contents.value = [i \in Items |-> PutItem(HostOf(o).contents[i], n.contents[i])]
      /\ ~contents.changed => \A i \in Items :
           /\ n.contents[i] = Delete => HostOf(o).contents[i] = None
           /\ n.contents[i] \notin {Keep, Delete} => SameHashes(HostOf(o).contents[i], n.contents[i])
    BY <1>1, MergeOfContents DEF SameHashes
<1> HIDE DEF primary, clusters, contents
<1> QED
    BY <1>2, <1>3, <1>4, <1>5, <1>6 DEF PutHost, UncountedHost

(* The whole merge.                                                        *)
LEMMA MergeIsPut ==
    ASSUME NEW o, NEW u \in Update
    PROVE  /\ Merge(o, u).value = Put(o, u)
           /\ ~Merge(o, u).changed =>
                /\ \A t \in Tokens : PutValue(o.tokens[t], u.tokens[t]) = o.tokens[t]
                /\ \A h \in Hosts : UncountedHost(o.hosts[h], u.hosts[h])
PROOF
<1>1. u.tokens \in [Tokens -> Ops(Values)] /\ u.hosts \in [Hosts -> Ops(HostUpdate)] /\ Keep # Delete
    BY Distinct DEF Update
<1> DEFINE tokens == MergeObjects(o.tokens, u.tokens, ReplaceToken)
           hosts == MergeObjects(o.hosts, u.hosts, MergeHost)
<1>2. /\ Merge(o, u).value = [tokens |-> tokens.value, hosts |-> hosts.value]
      /\ Merge(o, u).changed = (tokens.changed \/ hosts.changed)
    BY DEF Merge, Result
<1>3. /\ tokens.value = [t \in Tokens |-> PutValue(o.tokens[t], u.tokens[t])]
      /\ ~tokens.changed => \A t \in Tokens : PutValue(o.tokens[t], u.tokens[t]) = o.tokens[t]
    <2>1. ASSUME NEW t \in Tokens
          PROVE  LET m == CASE u.tokens[t] = Keep -> Result(o.tokens[t], FALSE)
                            [] u.tokens[t] = Delete -> Result(None, o.tokens[t] # None)
                            [] OTHER -> ReplaceToken(o.tokens[t], u.tokens[t])
                 IN  /\ m.value = PutValue(o.tokens[t], u.tokens[t])
                     /\ ~m.changed => PutValue(o.tokens[t], u.tokens[t]) = o.tokens[t]
        BY <1>1 DEF ReplaceToken, Result, PutValue
    <2> QED
        BY <1>1, <2>1 DEF MergeObjects, Result
<1>4. \A h \in Hosts : u.hosts[h] \notin {Keep, Delete} => u.hosts[h] \in HostUpdate
    BY <1>1 DEF Ops
<1>5. ASSUME NEW h \in Hosts
      PROVE  (CASE u.hosts[h] = Keep -> Result(o.hosts[h], FALSE)
                [] u.hosts[h] = Delete -> Result(None, o.hosts[h] # None)
                [] OTHER -> MergeHost(o.hosts[h], u.hosts[h])).value = PutHost(o.hosts[h], u.hosts[h])
    <2>1. CASE u.hosts[h] \in {Keep, Delete}
        BY <1>1, <2>1 DEF PutHost, Result
    <2>2. CASE u.hosts[h] \notin {Keep, Delete}
        BY <1>4, <2>2, MergeOfHost
    <2> QED
        BY <2>1, <2>2
<1>6. ASSUME NEW h \in Hosts,
             ~ (CASE u.hosts[h] = Keep -> Result(o.hosts[h], FALSE)
                  [] u.hosts[h] = Delete -> Result(None, o.hosts[h] # None)
                  [] OTHER -> MergeHost(o.hosts[h], u.hosts[h])).changed
      PROVE  UncountedHost(o.hosts[h], u.hosts[h])
    <2>1. CASE u.hosts[h] \in {Keep, Delete}
        BY <1>1, <1>6, <2>1 DEF UncountedHost, Result
    <2>2. CASE u.hosts[h] \notin {Keep, Delete}
        BY <1>4, <1>6, <2>2, MergeOfHost
    <2> QED
        BY <2>1, <2>2
<1>7. /\ hosts.value = [h \in Hosts |-> PutHost(o.hosts[h], u.hosts[h])]
      /\ ~hosts.changed => \A h \in Hosts : UncountedHost(o.hosts[h], u.hosts[h])
    BY <1>1, <1>5, <1>6 DEF MergeObjects, Result
<1> HIDE DEF tokens, hosts
<1> QED
    BY <1>2, <1>3, <1>7 DEF Put

-----------------------------------------------------------------------------
(* What a valid merge makes of a config is a config.                       *)

Cell == Values \cup {None}

LEMMA PutValueType ==
    ASSUME NEW o \in Cell, NEW n \in Ops(Values)
    PROVE  PutValue(o, n) \in Cell
PROOF
    BY DEF Cell, Ops, PutValue

LEMMA PutHashesType ==
    ASSUME NEW o \in [Hashes -> Cell], NEW n \in HashOps
    PROVE  PutHashes(o, n) \in [Hashes -> Cell]
PROOF
    BY PutValueType DEF PutHashes, HashOps

LEMMA HashesOfType ==
    ASSUME NEW o \in ClusterEntry \cup ItemEntry \cup {None}
    PROVE  HashesOf(o) \in [Hashes -> Cell]
PROOF
    BY Distinct DEF HashesOf, NoHashes, ClusterEntry, ItemEntry, Cell

LEMMA PutClusterType ==
    ASSUME NEW o \in ClusterEntry \cup {None}, NEW n \in Ops(ClusterUpdate)
    PROVE  PutCluster(o, n) \in ClusterEntry \cup {None}
PROOF
<1>1. CASE n \in {Keep, Delete}
    BY <1>1 DEF PutCluster
<1>2. CASE n \notin {Keep, Delete}
    <2>1. n.hashes \in HashOps
        BY <1>2 DEF Ops, ClusterUpdate
    <2>2. PutHashes(HashesOf(o), n.hashes) \in [Hashes -> Cell]
        BY <2>1, HashesOfType, PutHashesType
    <2> QED
        BY <1>2, <2>2 DEF PutCluster, ClusterEntry, Cell
<1> QED
    BY <1>1, <1>2

LEMMA PutItemType ==
    ASSUME NEW o \in ItemEntry \cup {None}, NEW n \in Ops(ItemUpdate),
           n \notin {Keep, Delete} => ~Homeless(o, n)
    PROVE  PutItem(o, n) \in ItemEntry \cup {None}
PROOF
<1>1. CASE n \in {Keep, Delete}
    BY <1>1 DEF PutItem
<1>2. CASE n \notin {Keep, Delete}
    <2>1. n.hashes \in HashOps /\ n.cluster \in Clusters \cup {Keep}
        BY <1>2 DEF Ops, ItemUpdate
    <2>2. PutHashes(HashesOf(o), n.hashes) \in [Hashes -> Cell]
        BY <2>1, HashesOfType, PutHashesType
    <2>3. (IF n.cluster = Keep THEN o.cluster ELSE n.cluster) \in Clusters
        BY <1>2, <2>1 DEF Homeless, ItemEntry
    <2> QED
        BY <1>2, <2>2, <2>3 DEF PutItem, ItemEntry, Cell
<1> QED
    BY <1>1, <1>2

(* No handler of a host throws.                                            *)
ValidHost(o, n) ==
    n \notin {Keep, Delete} => \A i \in Items :
        n.contents[i] \notin {Keep, Delete} => ~Homeless(HostOf(o).contents[i], n.contents[i])

LEMMA HostOfType ==
    ASSUME NEW o \in Host \cup {None}
    PROVE  /\ HostOf(o) \in Host
           /\ HostOf(o).primary \in [Roles -> Cell]
           /\ HostOf(o).clusters \in [Clusters -> ClusterEntry \cup {None}]
           /\ HostOf(o).contents \in [Items -> ItemEntry \cup {None}]
PROOF
    BY DEF HostOf, EmptyHost, Host, Cell

LEMMA HostUpdateType ==
    ASSUME NEW n \in Ops(HostUpdate), n \notin {Keep, Delete}
    PROVE  /\ n.primary \in [Roles -> Ops(Values)]
           /\ n.clusters \in [Clusters -> Ops(ClusterUpdate)]
           /\ n.contents \in [Items -> Ops(ItemUpdate)]
PROOF
<1>1. n \in HostUpdate
    BY DEF Ops
<1> QED
    BY <1>1 DEF HostUpdate

LEMMA PutHostType ==
    ASSUME NEW o \in Host \cup {None}, NEW n \in Ops(HostUpdate), ValidHost(o, n)
    PROVE  /\ PutHost(o, n) \in Host \cup {None}
           /\ n \notin {Keep, Delete} => PutHost(o, n) \in Host
PROOF
<1>1. CASE n \in {Keep, Delete}
    BY <1>1 DEF PutHost
<1>2. CASE n \notin {Keep, Delete}
    <2>1. [p \in Roles |-> PutValue(HostOf(o).primary[p], n.primary[p])] \in [Roles -> Cell]
        BY <1>2, HostOfType, HostUpdateType, PutValueType
    <2>2. [c \in Clusters |-> PutCluster(HostOf(o).clusters[c], n.clusters[c])]
            \in [Clusters -> ClusterEntry \cup {None}]
        BY <1>2, HostOfType, HostUpdateType, PutClusterType
    <2>3. [i \in Items |-> PutItem(HostOf(o).contents[i], n.contents[i])]
            \in [Items -> ItemEntry \cup {None}]
        <3>1. ASSUME NEW i \in Items
              PROVE  PutItem(HostOf(o).contents[i], n.contents[i]) \in ItemEntry \cup {None}
            <4>1. HostOf(o).contents[i] \in ItemEntry \cup {None} /\ n.contents[i] \in Ops(ItemUpdate)
                BY <1>2, HostOfType, HostUpdateType
            <4> QED
                BY <1>2, <4>1, PutItemType DEF ValidHost
        <3> QED
            BY <3>1
    <2> QED
        BY <1>2, <2>1, <2>2, <2>3 DEF PutHost, Host, Cell
<1> QED
    BY <1>1, <1>2

(* Invalid, host by host.                                                  *)
LEMMA ValidHosts ==
    ASSUME NEW c, NEW u, ~Invalid(c, u), NEW h \in Hosts
    PROVE  ValidHost(c.hosts[h], u.hosts[h])
PROOF
<1> SUFFICES ASSUME u.hosts[h] \notin {Keep, Delete}, NEW i \in Items,
                    u.hosts[h].contents[i] \notin {Keep, Delete}
             PROVE  ~Homeless(HostOf(c.hosts[h]).contents[i], u.hosts[h].contents[i])
    BY DEF ValidHost
<1>1. ~Homeless(IF c.hosts[h] = None THEN None ELSE c.hosts[h].contents[i], u.hosts[h].contents[i])
    BY DEF Invalid
<1> QED
    BY <1>1 DEF HostOf, EmptyHost

LEMMA PutType ==
    ASSUME NEW c \in Config, NEW u \in Update, ~Invalid(c, u)
    PROVE  /\ Put(c, u) \in Config
           /\ \A h \in Hosts : u.hosts[h] \notin {Keep, Delete} => PutHost(c.hosts[h], u.hosts[h]) # None
PROOF
<1>1. /\ c.tokens \in [Tokens -> Cell] /\ c.hosts \in [Hosts -> Host \cup {None}]
      /\ u.tokens \in [Tokens -> Ops(Values)] /\ u.hosts \in [Hosts -> Ops(HostUpdate)]
    BY DEF Config, Update, Cell
<1>2. [t \in Tokens |-> PutValue(c.tokens[t], u.tokens[t])] \in [Tokens -> Cell]
    BY <1>1, PutValueType
<1>3. ASSUME NEW h \in Hosts
      PROVE  /\ PutHost(c.hosts[h], u.hosts[h]) \in Host \cup {None}
             /\ u.hosts[h] \notin {Keep, Delete} => PutHost(c.hosts[h], u.hosts[h]) \in Host
    <2>1. c.hosts[h] \in Host \cup {None} /\ u.hosts[h] \in Ops(HostUpdate)
        BY <1>1
    <2> QED
        BY <2>1, ValidHosts, PutHostType
<1> QED
    BY <1>2, <1>3, Distinct DEF Put, Config, Cell

-----------------------------------------------------------------------------
(* Entry by entry.                                                         *)

(* The operation of an update on an entry, and what it yields.             *)
OpOf(u, e) ==
    IF e[1] = "tokens" THEN u.tokens[e[2]]
    ELSE IF u.hosts[e[2]] \in {Keep, Delete} THEN u.hosts[e[2]]
    ELSE u.hosts[e[2]][e[1]][e[3]]

PutEntry(e, o, n) ==
    CASE e[1] = "clusters" -> PutCluster(o, n)
      [] e[1] = "contents" -> PutItem(o, n)
      [] OTHER -> PutValue(o, n)

LEMMA NamedByOps ==
    ASSUME NEW u
    PROVE  Named(u) = {e \in Entries : OpOf(u, e) # Keep}
PROOF
<1>1. ASSUME NEW e \in Entries
      PROVE  (CASE e[1] = "tokens" -> u.tokens[e[2]] # Keep
                [] e[1] # "tokens" /\ u.hosts[e[2]] \in {Keep, Delete} -> u.hosts[e[2]] = Delete
                [] OTHER -> u.hosts[e[2]][e[1]][e[3]] # Keep) <=> OpOf(u, e) # Keep
    <2>1. CASE e[1] = "tokens"
        BY <2>1 DEF OpOf
    <2>2. CASE e[1] # "tokens" /\ u.hosts[e[2]] \in {Keep, Delete}
        BY <2>2, Distinct DEF OpOf
    <2>3. CASE e[1] # "tokens" /\ u.hosts[e[2]] \notin {Keep, Delete}
        BY <2>3 DEF OpOf
    <2> QED
        BY <2>1, <2>2, <2>3
<1> QED
    BY <1>1 DEF Named

(* The entries, kind by kind.                                              *)
LEMMA Kinds ==
    ASSUME NEW e \in Entries
    PROVE  \/ e[1] = "tokens" /\ e[2] \in Tokens
           \/ e[1] = "primary" /\ e[2] \in Hosts /\ e[3] \in Roles
           \/ e[1] = "clusters" /\ e[2] \in Hosts /\ e[3] \in Clusters
           \/ e[1] = "contents" /\ e[2] \in Hosts /\ e[3] \in Items
PROOF
    BY DEF Entries

LEMMA EntryOfHost ==
    ASSUME NEW c, NEW e \in Entries, e[1] # "tokens"
    PROVE  /\ e[1] = "primary" => Entry(c, e) = HostOf(c.hosts[e[2]]).primary[e[3]]
           /\ e[1] = "clusters" => Entry(c, e) = HostOf(c.hosts[e[2]]).clusters[e[3]]
           /\ e[1] = "contents" => Entry(c, e) = HostOf(c.hosts[e[2]]).contents[e[3]]
PROOF
<1>1. Entry(c, e) = IF c.hosts[e[2]] = None THEN None ELSE c.hosts[e[2]][e[1]][e[3]]
    BY DEF Entry
<1>2. CASE c.hosts[e[2]] = None
    BY <1>1, <1>2, Kinds DEF HostOf, EmptyHost
<1>3. CASE c.hosts[e[2]] # None
    BY <1>1, <1>3 DEF HostOf
<1> QED
    BY <1>2, <1>3

LEMMA OpOnHost ==
    ASSUME NEW u, NEW e \in Entries, e[1] # "tokens", u.hosts[e[2]] \notin {Keep, Delete}
    PROVE  /\ e[1] = "primary" => OpOf(u, e) = u.hosts[e[2]].primary[e[3]]
           /\ e[1] = "clusters" => OpOf(u, e) = u.hosts[e[2]].clusters[e[3]]
           /\ e[1] = "contents" => OpOf(u, e) = u.hosts[e[2]].contents[e[3]]
PROOF
    BY DEF OpOf

(* The merge does to every entry what its operation says, and nothing      *)
(* else.                                                                   *)
LEMMA EntryOfMerge ==
    ASSUME NEW c \in Config, NEW u \in Update, ~Invalid(c, u), NEW e \in Entries
    PROVE  Entry(Put(c, u), e) = PutEntry(e, Entry(c, e), OpOf(u, e))
PROOF
<1> DEFINE h == e[2]
           n == u.hosts[h]
<1>1. CASE e[1] = "tokens"
    <2>1. Entry(Put(c, u), e) = Put(c, u).tokens[e[2]] /\ Entry(c, e) = c.tokens[e[2]]
        BY <1>1 DEF Entry
    <2>2. e[2] \in Tokens
        BY <1>1, Kinds
    <2> QED
        BY <1>1, <2>1, <2>2 DEF Put, PutEntry, OpOf
<1>2. CASE e[1] # "tokens"
    <2>1. h \in Hosts
        BY <1>2, Kinds
    <2>2. Put(c, u).hosts[h] = PutHost(c.hosts[h], n)
        BY <2>1 DEF Put
    <2>3. CASE n = Keep
        <3>1. Put(c, u).hosts[h] = c.hosts[h] /\ OpOf(u, e) = Keep
            BY <1>2, <2>2, <2>3 DEF PutHost, OpOf
        <3>2. Entry(Put(c, u), e) = Entry(c, e)
            BY <1>2, <3>1 DEF Entry
        <3> QED
            BY <3>1, <3>2 DEF PutEntry, PutValue, PutCluster, PutItem
    <2>4. CASE n = Delete
        <3>1. Put(c, u).hosts[h] = None /\ OpOf(u, e) = Delete /\ Keep # Delete
            BY <1>2, <2>2, <2>4, Distinct DEF PutHost, OpOf
        <3>2. Entry(Put(c, u), e) = None
            BY <1>2, <3>1 DEF Entry
        <3> QED
            BY <3>1, <3>2 DEF PutEntry, PutValue, PutCluster, PutItem
    <2>5. CASE n \notin {Keep, Delete}
        <3>1. Put(c, u).hosts[h] # None
            BY <2>1, <2>2, <2>5, PutType
        <3>2. HostOf(Put(c, u).hosts[h]) =
                 [primary |-> [p \in Roles |-> PutValue(HostOf(c.hosts[h]).primary[p], n.primary[p])],
                  clusters |-> [d \in Clusters |-> PutCluster(HostOf(c.hosts[h]).clusters[d], n.clusters[d])],
                  contents |-> [i \in Items |-> PutItem(HostOf(c.hosts[h]).contents[i], n.contents[i])]]
            BY <2>2, <2>5, <3>1 DEF HostOf, PutHost
        <3>3. CASE e[1] = "primary"
            <4>1. e[3] \in Roles
                BY <3>3, Kinds
            <4>2. /\ Entry(Put(c, u), e) = HostOf(Put(c, u).hosts[h]).primary[e[3]]
                  /\ Entry(c, e) = HostOf(c.hosts[h]).primary[e[3]]
                BY <1>2, <3>3, EntryOfHost
            <4>3. OpOf(u, e) = n.primary[e[3]]
                BY <1>2, <2>5, <3>3, OpOnHost
            <4>4. HostOf(Put(c, u).hosts[h]).primary[e[3]]
                    = PutValue(HostOf(c.hosts[h]).primary[e[3]], n.primary[e[3]])
                BY <3>2, <4>1
            <4> QED
                BY <3>3, <4>2, <4>3, <4>4 DEF PutEntry
        <3>4. CASE e[1] = "clusters"
            <4>1. e[3] \in Clusters
                BY <3>4, Kinds
            <4>2. /\ Entry(Put(c, u), e) = HostOf(Put(c, u).hosts[h]).clusters[e[3]]
                  /\ Entry(c, e) = HostOf(c.hosts[h]).clusters[e[3]]
                BY <1>2, <3>4, EntryOfHost
            <4>3. OpOf(u, e) = n.clusters[e[3]]
                BY <1>2, <2>5, <3>4, OpOnHost
            <4>4. HostOf(Put(c, u).hosts[h]).clusters[e[3]]
                    = PutCluster(HostOf(c.hosts[h]).clusters[e[3]], n.clusters[e[3]])
                BY <3>2, <4>1
            <4> QED
                BY <3>4, <4>2, <4>3, <4>4 DEF PutEntry
        <3>5. CASE e[1] = "contents"
            <4>1. e[3] \in Items
                BY <3>5, Kinds
            <4>2. /\ Entry(Put(c, u), e) = HostOf(Put(c, u).hosts[h]).contents[e[3]]
                  /\ Entry(c, e) = HostOf(c.hosts[h]).contents[e[3]]
                BY <1>2, <3>5, EntryOfHost
            <4>3. OpOf(u, e) = n.contents[e[3]]
                BY <1>2, <2>5, <3>5, OpOnHost
            <4>4. HostOf(Put(c, u).hosts[h]).contents[e[3]]
                    = PutItem(HostOf(c.hosts[h]).contents[e[3]], n.contents[e[3]])
                BY <3>2, <4>1
            <4> QED
                BY <3>5, <4>2, <4>3, <4>4 DEF PutEntry
        <3> QED
            BY <1>2, <3>3, <3>4, <3>5, Kinds
    <2> QED
        BY <2>3, <2>4, <2>5
<1> QED
    BY <1>1, <1>2

LEMMA KeptEntry ==
    ASSUME NEW e, NEW o
    PROVE  PutEntry(e, o, Keep) = o
PROOF
    BY DEF PutEntry, PutValue, PutCluster, PutItem

(* A content is only homeless by its own entry and operation, so another   *)
(* update of other entries makes no merge invalid.                         *)
LEMMA StaysValid ==
    ASSUME NEW c, NEW d, NEW u, ~Invalid(c, u), \A e \in Named(u) : Entry(d, e) = Entry(c, e)
    PROVE  ~Invalid(d, u)
PROOF
<1> SUFFICES ASSUME NEW h \in Hosts, NEW i \in Items,
                    u.hosts[h] \notin {Keep, Delete}, u.hosts[h].contents[i] \notin {Keep, Delete},
                    Homeless(IF d.hosts[h] = None THEN None ELSE d.hosts[h].contents[i],
                             u.hosts[h].contents[i])
             PROVE  FALSE
    BY DEF Invalid
<1> DEFINE e == <<"contents", h, i>>
<1>1. e \in Entries /\ e[1] = "contents" /\ e[2] = h /\ e[3] = i
    BY DEF Entries
<1>2. OpOf(u, e) = u.hosts[h].contents[i]
    BY <1>1, OpOnHost
<1>3. e \in Named(u)
    BY <1>1, <1>2, NamedByOps
<1>4. \A x : HostOf(x.hosts[h]).contents[i] =
               IF x.hosts[h] = None THEN None ELSE x.hosts[h].contents[i]
    BY DEF HostOf, EmptyHost
<1>5. HostOf(d.hosts[h]).contents[i] = HostOf(c.hosts[h]).contents[i]
    <2>1. Entry(d, e) = Entry(c, e)
        BY <1>3
    <2> QED
        BY <1>1, <2>1, EntryOfHost
<1>6. ~Homeless(IF c.hosts[h] = None THEN None ELSE c.hosts[h].contents[i], u.hosts[h].contents[i])
    BY DEF Invalid
<1> QED
    BY <1>4, <1>5, <1>6

-----------------------------------------------------------------------------
(* The invariant: the config is what the last update made of the one       *)
(* before.                                                                 *)
MergeInv ==
    /\ before \in Config /\ update \in Update /\ ~Invalid(before, update)
    /\ config = Put(before, update)
    /\ ~changed => /\ \A t \in Tokens : PutValue(before.tokens[t], update.tokens[t]) = before.tokens[t]
                   /\ \A h \in Hosts : UncountedHost(before.hosts[h], update.hosts[h])

LEMMA MergeInit == Init => MergeInv
PROOF
<1> SUFFICES ASSUME Init PROVE MergeInv
    OBVIOUS
<1>1. before \in Config /\ update \in Update
    BY DEF Init, Config, Update, Nothing, Ops
<1>2. /\ \A t \in Tokens : before.tokens[t] = None /\ update.tokens[t] = Keep
      /\ \A h \in Hosts : before.hosts[h] = None /\ update.hosts[h] = Keep
    BY DEF Init, Nothing
<1>3. ~Invalid(before, update)
    BY <1>2 DEF Invalid
<1>4. config = Put(before, update)
    <2>1. \A t \in Tokens : PutValue(before.tokens[t], update.tokens[t]) = None
        BY <1>2 DEF PutValue
    <2>2. \A h \in Hosts : PutHost(before.hosts[h], update.hosts[h]) = None
        BY <1>2 DEF PutHost
    <2> QED
        BY <2>1, <2>2 DEF Init, Put
<1>5. Keep # Delete
    BY Distinct
<1> QED
    BY <1>1, <1>2, <1>3, <1>4, <1>5 DEF MergeInv, PutValue, UncountedHost

LEMMA MergeStep == MergeInv /\ [Next]_vars => MergeInv'
PROOF
<1> SUFFICES ASSUME MergeInv, [Next]_vars PROVE MergeInv'
    OBVIOUS
<1>1. ASSUME NEW u \in Updates, UpdateConfig(u) PROVE MergeInv'
    <2>1. u \in Update /\ config \in Config
        BY UpdatesAssumption, PutType DEF MergeInv
    <2>2. /\ before' = config /\ update' = u /\ ~Invalid(config, u)
          /\ config' = Put(config, u) /\ changed' = Merge(config, u).changed
        BY <1>1, <2>1, MergeIsPut DEF UpdateConfig
    <2>3. ~changed' => /\ \A t \in Tokens : PutValue(before'.tokens[t], update'.tokens[t]) = before'.tokens[t]
                       /\ \A h \in Hosts : UncountedHost(before'.hosts[h], update'.hosts[h])
        BY <2>1, <2>2, MergeIsPut
    <2> QED
        BY <2>1, <2>2, <2>3 DEF MergeInv
<1>2. CASE UNCHANGED vars
    BY <1>2 DEF vars, MergeInv
<1> QED
    BY <1>1, <1>2 DEF Next

LEMMA MergeAlways == Spec => []MergeInv
PROOF
    BY MergeInit, MergeStep, PTL DEF Spec

(* Merging into a config leaves every entry alone that the update does not *)
(* name.                                                                   *)
THEOREM OthersAreKept == Spec => []OthersStay
PROOF
<1>1. MergeInv => OthersStay
    <2> SUFFICES ASSUME MergeInv, NEW e \in Entries \ Named(update)
                 PROVE  Entry(config, e) = Entry(before, e)
        BY DEF OthersStay
    <2>1. OpOf(update, e) = Keep
        BY NamedByOps
    <2> QED
        BY <2>1, EntryOfMerge, KeptEntry DEF MergeInv
<1> QED
    BY <1>1, MergeAlways, PTL

(* Updates that name different entries can be merged in either order.      *)
THEOREM DifferentEntriesCommute == Spec => []OrderIsFree
PROOF
<1>1. MergeInv => OrderIsFree
    <2> SUFFICES ASSUME MergeInv, NEW u \in Updates, Named(u) \cap Named(update) = {},
                        ~Invalid(before, u), NEW e \in Entries
                 PROVE  Entry(Merge(config, u).value, e)
                          = Entry(Merge(Merge(before, u).value, update).value, e)
        BY DEF OrderIsFree
    <2> DEFINE other == Put(before, u)
    <2>1. /\ before \in Config /\ u \in Update /\ update \in Update
          /\ config \in Config /\ other \in Config /\ config = Put(before, update)
        BY UpdatesAssumption, PutType DEF MergeInv
    <2>2. /\ \A d \in Entries : Entry(config, d) = PutEntry(d, Entry(before, d), OpOf(update, d))
          /\ \A d \in Entries : Entry(other, d) = PutEntry(d, Entry(before, d), OpOf(u, d))
        BY <2>1, EntryOfMerge DEF MergeInv
    <2>3. \A d \in Entries : OpOf(u, d) = Keep \/ OpOf(update, d) = Keep
        BY NamedByOps
    <2> HIDE DEF other
    <2>4. ~Invalid(config, u) /\ ~Invalid(other, update)
        <3>1. \A d \in Named(u) : Entry(config, d) = Entry(before, d)
            BY <2>2, <2>3, NamedByOps, KeptEntry
        <3>2. \A d \in Named(update) : Entry(other, d) = Entry(before, d)
            BY <2>2, <2>3, NamedByOps, KeptEntry
        <3> QED
            BY <3>1, <3>2, StaysValid DEF MergeInv
    <2>5. /\ Merge(config, u).value = Put(config, u)
          /\ Merge(Merge(before, u).value, update).value = Put(other, update)
        BY <2>1, MergeIsPut DEF other
    <2>6. /\ Entry(Put(config, u), e) = PutEntry(e, Entry(config, e), OpOf(u, e))
          /\ Entry(Put(other, update), e) = PutEntry(e, Entry(other, e), OpOf(update, e))
        BY <2>1, <2>4, EntryOfMerge
    <2> QED
        BY <2>2, <2>3, <2>5, <2>6, KeptEntry
<1> QED
    BY <1>1, MergeAlways, PTL

-----------------------------------------------------------------------------
(* Merging twice.                                                          *)

LEMMA PutHashesTwice ==
    ASSUME NEW o, NEW n
    PROVE  PutHashes(PutHashes(o, n), n) = PutHashes(o, n)
PROOF
    BY DEF PutHashes, PutValue

LEMMA PutClusterTwice ==
    ASSUME NEW o \in ClusterEntry \cup {None}, NEW n \in Ops(ClusterUpdate)
    PROVE  PutCluster(PutCluster(o, n), n) = PutCluster(o, n)
PROOF
<1>1. CASE n \in {Keep, Delete}
    BY <1>1 DEF PutCluster
<1>2. CASE n \notin {Keep, Delete}
    <2>1. PutCluster(o, n) = [hashes |-> PutHashes(HashesOf(o), n.hashes)]
        BY <1>2 DEF PutCluster
    <2>2. PutCluster(o, n) # None
        <3>1. n.hashes \in HashOps
            BY <1>2 DEF Ops, ClusterUpdate
        <3>2. PutHashes(HashesOf(o), n.hashes) \in [Hashes -> Cell]
            BY <3>1, HashesOfType, PutHashesType
        <3>3. PutCluster(o, n) \in ClusterEntry
            BY <2>1, <3>2 DEF ClusterEntry, Cell
        <3> QED
            BY <3>3, Distinct
    <2>3. HashesOf(PutCluster(o, n)) = PutHashes(HashesOf(o), n.hashes)
        BY <2>1, <2>2 DEF HashesOf
    <2> QED
        BY <1>2, <2>1, <2>3, PutHashesTwice DEF PutCluster
<1> QED
    BY <1>1, <1>2

LEMMA PutItemTwice ==
    ASSUME NEW o \in ItemEntry \cup {None}, NEW n \in Ops(ItemUpdate),
           n \notin {Keep, Delete} => ~Homeless(o, n)
    PROVE  PutItem(PutItem(o, n), n) = PutItem(o, n)
PROOF
<1>1. CASE n \in {Keep, Delete}
    BY <1>1 DEF PutItem
<1>2. CASE n \notin {Keep, Delete}
    <2> DEFINE home == IF n.cluster = Keep THEN o.cluster ELSE n.cluster
    <2>1. PutItem(o, n) = [hashes |-> PutHashes(HashesOf(o), n.hashes), cluster |-> home]
        BY <1>2 DEF PutItem
    <2>2. PutItem(o, n) # None
        <3>1. n.hashes \in HashOps /\ n.cluster \in Clusters \cup {Keep}
            BY <1>2 DEF Ops, ItemUpdate
        <3>2. PutHashes(HashesOf(o), n.hashes) \in [Hashes -> Cell]
            BY <3>1, HashesOfType, PutHashesType
        <3>3. home \in Clusters
            BY <1>2, <3>1 DEF Homeless, ItemEntry
        <3> HIDE DEF home
        <3>4. PutItem(o, n) \in ItemEntry
            BY <2>1, <3>2, <3>3 DEF ItemEntry, Cell
        <3> QED
            BY <3>4, Distinct
    <2>3. /\ HashesOf(PutItem(o, n)) = PutHashes(HashesOf(o), n.hashes)
          /\ PutItem(o, n).cluster = home
        BY <2>1, <2>2 DEF HashesOf
    <2>4. PutItem(PutItem(o, n), n) =
             [hashes |-> PutHashes(HashesOf(PutItem(o, n)), n.hashes),
              cluster |-> IF n.cluster = Keep THEN PutItem(o, n).cluster ELSE n.cluster]
        BY <1>2 DEF PutItem
    <2> QED
        BY <2>1, <2>3, <2>4, PutHashesTwice
<1> QED
    BY <1>1, <1>2

LEMMA PutHostTwice ==
    ASSUME NEW o \in Host \cup {None}, NEW n \in Ops(HostUpdate), ValidHost(o, n)
    PROVE  PutHost(PutHost(o, n), n) = PutHost(o, n)
PROOF
<1>1. CASE n \in {Keep, Delete}
    BY <1>1 DEF PutHost
<1>2. CASE n \notin {Keep, Delete}
    <2> DEFINE x == HostOf(o)
               y == PutHost(o, n)
    <2>1. y = [primary |-> [p \in Roles |-> PutValue(x.primary[p], n.primary[p])],
               clusters |-> [c \in Clusters |-> PutCluster(x.clusters[c], n.clusters[c])],
               contents |-> [i \in Items |-> PutItem(x.contents[i], n.contents[i])]]
        BY <1>2 DEF PutHost
    <2>2. y # None
        BY <1>2, PutHostType, Distinct
    <2>3. HostOf(y) = y
        BY <2>2 DEF HostOf
    <2>4. PutHost(y, n) =
              [primary |-> [p \in Roles |-> PutValue(y.primary[p], n.primary[p])],
               clusters |-> [c \in Clusters |-> PutCluster(y.clusters[c], n.clusters[c])],
               contents |-> [i \in Items |-> PutItem(y.contents[i], n.contents[i])]]
        BY <1>2, <2>3 DEF PutHost
    <2>5. ASSUME NEW p \in Roles PROVE PutValue(y.primary[p], n.primary[p]) = PutValue(x.primary[p], n.primary[p])
        BY <2>1 DEF PutValue
    <2>6. ASSUME NEW c \in Clusters
          PROVE  PutCluster(y.clusters[c], n.clusters[c]) = PutCluster(x.clusters[c], n.clusters[c])
        <3>1. x.clusters[c] \in ClusterEntry \cup {None} /\ n.clusters[c] \in Ops(ClusterUpdate)
            BY <1>2, HostOfType, HostUpdateType
        <3>2. y.clusters[c] = PutCluster(x.clusters[c], n.clusters[c])
            BY <2>1
        <3> HIDE DEF x, y
        <3> QED
            BY <3>1, <3>2, PutClusterTwice
    <2>7. ASSUME NEW i \in Items
          PROVE  PutItem(y.contents[i], n.contents[i]) = PutItem(x.contents[i], n.contents[i])
        <3>1. x.contents[i] \in ItemEntry \cup {None} /\ n.contents[i] \in Ops(ItemUpdate)
            BY <1>2, HostOfType, HostUpdateType
        <3>2. y.contents[i] = PutItem(x.contents[i], n.contents[i])
            BY <2>1
        <3>3. n.contents[i] \notin {Keep, Delete} => ~Homeless(x.contents[i], n.contents[i])
            BY <1>2 DEF ValidHost
        <3> HIDE DEF x, y
        <3> QED
            BY <3>1, <3>2, <3>3, PutItemTwice
    <2> HIDE DEF x, y
    <2>8. PutHost(y, n) = y
        BY <2>1, <2>4, <2>5, <2>6, <2>7
    <2> QED
        BY <2>8 DEF y
<1> QED
    BY <1>1, <1>2

(* Merging an update a second time changes nothing, whole or in part.      *)
THEOREM MergedTwiceIsOnce == Spec => []MergedOnce
PROOF
<1>1. MergeInv => MergedOnce
    <2> SUFFICES ASSUME MergeInv PROVE Merge(config, update).value = config
        BY DEF MergedOnce
    <2>1. /\ before \in Config /\ update \in Update /\ ~Invalid(before, update)
          /\ config = Put(before, update)
        BY DEF MergeInv
    <2>2. Merge(config, update).value = Put(config, update)
        BY <2>1, MergeIsPut
    <2>3. ASSUME NEW t \in Tokens
          PROVE  PutValue(config.tokens[t], update.tokens[t]) = config.tokens[t]
        BY <2>1 DEF Put, PutValue
    <2>4. ASSUME NEW h \in Hosts
          PROVE  PutHost(config.hosts[h], update.hosts[h]) = config.hosts[h]
        <3>1. before.hosts[h] \in Host \cup {None} /\ update.hosts[h] \in Ops(HostUpdate)
            BY <2>1 DEF Config, Update
        <3>2. config.hosts[h] = PutHost(before.hosts[h], update.hosts[h])
            BY <2>1 DEF Put
        <3>3. ValidHost(before.hosts[h], update.hosts[h])
            BY <2>1, ValidHosts
        <3> QED
            BY <3>1, <3>2, <3>3, PutHostTwice
    <2>5. Put(config, update) = Put(before, update)
        <3>1. \A t \in Tokens : PutValue(config.tokens[t], update.tokens[t])
                                  = PutValue(before.tokens[t], update.tokens[t])
            BY <2>1, <2>3 DEF Put
        <3>2. \A h \in Hosts : PutHost(config.hosts[h], update.hosts[h])
                                  = PutHost(before.hosts[h], update.hosts[h])
            BY <2>1, <2>4 DEF Put
        <3> QED
            BY <3>1, <3>2 DEF Put
    <2> QED
        BY <2>1, <2>2, <2>5
<1> QED
    BY <1>1, MergeAlways, PTL

-----------------------------------------------------------------------------
(* The count.                                                              *)

(* A cluster or content that is not counted as changed keeps its hashes.   *)
LEMMA UncountedHashes ==
    ASSUME NEW o \in ClusterEntry \cup ItemEntry \cup {None}, NEW n, SameHashes(o, n)
    PROVE  PutHashes(HashesOf(o), n.hashes) = HashesOf(o)
PROOF
<1>1. HashesOf(o) \in [Hashes -> Cell]
    BY HashesOfType
<1> QED
    BY <1>1 DEF SameHashes, PutHashes

(* What escapes the count is an entry that is still empty, the cluster of  *)
(* a content, and "primary" beside a cluster, and nothing else.            *)
THEOREM OnlyTheseEscapeTheCount == Spec => []UncountedAtMost
PROOF
<1>1. MergeInv => UncountedAtMost
    <2> SUFFICES ASSUME MergeInv, ~changed, NEW e \in Entries, Entry(config, e) # Entry(before, e)
                 PROVE  \/ e[1] = "primary" /\ \E c \in Clusters : <<"clusters", e[2], c>> \in Named(update)
                        \/ /\ e[1] \in {"clusters", "contents"}
                           /\ Entry(config, e).hashes = HashesOf(Entry(before, e))
        BY DEF UncountedAtMost, HashesOf
    <2> DEFINE n == update.hosts[e[2]]
               o == Entry(before, e)
    <2>1. /\ before \in Config /\ update \in Update
          /\ Entry(config, e) = PutEntry(e, o, OpOf(update, e))
        BY EntryOfMerge DEF MergeInv
    <2>2. OpOf(update, e) # Keep
        BY <2>1, KeptEntry
    <2>3. e[1] # "tokens"
        <3>1. SUFFICES ASSUME e[1] = "tokens" PROVE FALSE
            OBVIOUS
        <3>2. e[2] \in Tokens /\ o = before.tokens[e[2]] /\ OpOf(update, e) = update.tokens[e[2]]
            BY <3>1, Kinds DEF Entry, OpOf
        <3>3. PutEntry(e, o, OpOf(update, e)) = PutValue(o, OpOf(update, e))
            BY <3>1 DEF PutEntry
        <3> QED
            BY <2>1, <3>2, <3>3 DEF MergeInv
    <2>4. e[2] \in Hosts /\ before.hosts[e[2]] \in Host \cup {None} /\ UncountedHost(before.hosts[e[2]], n)
        BY <2>1, <2>3, Kinds DEF MergeInv, Config
    <2>5. n # Keep
        BY <2>2, <2>3 DEF OpOf
    <2>6. n # Delete
        <3>1. SUFFICES ASSUME n = Delete PROVE FALSE
            OBVIOUS
        <3>2. o = None
            BY <2>3, <2>4, <3>1 DEF UncountedHost, Entry
        <3>3. OpOf(update, e) = Delete
            BY <2>3, <3>1 DEF OpOf
        <3> QED
            BY <2>1, <2>2, <3>2, <3>3 DEF PutEntry, PutValue, PutCluster, PutItem
    <2>7. CASE e[1] = "primary"
        <3>1. /\ e[3] \in Roles /\ o = HostOf(before.hosts[e[2]]).primary[e[3]]
              /\ OpOf(update, e) = n.primary[e[3]]
            BY <2>3, <2>5, <2>6, <2>7, Kinds, EntryOfHost, OpOnHost
        <3>2. PutEntry(e, o, OpOf(update, e)) = PutValue(o, OpOf(update, e))
            BY <2>7 DEF PutEntry
        <3>3. PICK c \in Clusters : n.clusters[c] \notin {Keep, Delete}
            BY <2>1, <2>4, <2>5, <2>6, <3>1, <3>2 DEF UncountedHost
        <3> DEFINE f == <<"clusters", e[2], c>>
        <3>4. f \in Entries /\ f[1] = "clusters" /\ f[2] = e[2] /\ f[3] = c
            BY <2>4 DEF Entries
        <3>5. OpOf(update, f) = n.clusters[c]
            BY <2>5, <2>6, <3>4, OpOnHost
        <3> QED
            BY <2>7, <3>3, <3>4, <3>5, NamedByOps
    <2>8. CASE e[1] = "clusters"
        <3>1. /\ e[3] \in Clusters /\ o = HostOf(before.hosts[e[2]]).clusters[e[3]]
              /\ OpOf(update, e) = n.clusters[e[3]]
            BY <2>3, <2>5, <2>6, <2>8, Kinds, EntryOfHost, OpOnHost
        <3>2. Entry(config, e) = PutCluster(o, OpOf(update, e))
            BY <2>1, <2>8 DEF PutEntry
        <3>3. OpOf(update, e) # Delete
            BY <2>4, <2>5, <2>6, <3>1, <3>2 DEF UncountedHost, PutCluster
        <3>4. SameHashes(o, OpOf(update, e))
            BY <2>2, <2>4, <2>5, <2>6, <3>1, <3>3 DEF UncountedHost
        <3>5. o \in ClusterEntry \cup {None}
            BY <2>4, <3>1, HostOfType
        <3>6. PutHashes(HashesOf(o), OpOf(update, e).hashes) = HashesOf(o)
            BY <3>4, <3>5, UncountedHashes
        <3> QED
            BY <2>2, <2>8, <3>2, <3>3, <3>6 DEF PutCluster
    <2>9. CASE e[1] = "contents"
        <3>1. /\ e[3] \in Items /\ o = HostOf(before.hosts[e[2]]).contents[e[3]]
              /\ OpOf(update, e) = n.contents[e[3]]
            BY <2>3, <2>5, <2>6, <2>9, Kinds, EntryOfHost, OpOnHost
        <3>2. Entry(config, e) = PutItem(o, OpOf(update, e))
            BY <2>1, <2>9 DEF PutEntry
        <3>3. OpOf(update, e) # Delete
            BY <2>4, <2>5, <2>6, <3>1, <3>2 DEF UncountedHost, PutItem
        <3>4. SameHashes(o, OpOf(update, e))
            BY <2>2, <2>4, <2>5, <2>6, <3>1, <3>3 DEF UncountedHost
        <3>5. o \in ItemEntry \cup {None}
            BY <2>4, <3>1, HostOfType
        <3>6. PutHashes(HashesOf(o), OpOf(update, e).hashes) = HashesOf(o)
            BY <3>4, <3>5, UncountedHashes
        <3> QED
            BY <2>2, <2>9, <3>2, <3>3, <3>6 DEF PutItem
    <2> QED
        BY <2>3, <2>7, <2>8, <2>9, Kinds
<1> QED
    BY <1>1, MergeAlways, PTL
===============================================================================
