---------------------------- MODULE MC_ConfigMerge ----------------------------
(* Small instances of ConfigMerge: one of everything, two clusters and two *)
(* values, so that a value can be replaced and a content can be moved.     *)
EXTENDS ConfigMerge

CONSTANTS t, url, role, c1, c2, item, hash, v, w

Hash(op) == [h \in Hashes |-> op]

HostUpdates(primaries, clusters, contents) ==
    {[primary |-> [p \in Roles |-> a],
      clusters |-> [c \in Clusters |-> IF c = c1 THEN b ELSE Keep],
      contents |-> [i \in Items |-> d]] : a \in primaries, b \in clusters, d \in contents}

ClusterOps == Ops({[hashes |-> Hash(op)] : op \in {Keep, v}})

(* A content is placed, changed, moved, or loses its hash.                 *)
ItemOps == Ops({[hashes |-> Hash(v), cluster |-> c1], [hashes |-> Hash(w), cluster |-> Keep],
                [hashes |-> Hash(Keep), cluster |-> c2], [hashes |-> Hash(Delete), cluster |-> Keep]})

(* One or two entries, or the whole host.                                  *)
ManyEntries ==
    {u \in [tokens : [Tokens -> {Keep, Delete, v}],
            hosts : {[h \in Hosts |-> op] :
                op \in Ops(HostUpdates({Keep, v}, ClusterOps, ItemOps))}] :
        Cardinality(Named(u)) <= 2 \/ u.hosts[url] = Delete}
===============================================================================
