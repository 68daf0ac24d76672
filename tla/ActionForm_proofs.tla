------------------------- MODULE ActionForm_proofs -------------------------
(***************************************************************************)
(* Theorems about ActionForm, for any tokens, certificates and kinds, any  *)
(* number of edits and submits, and every editor.                          *)
(***************************************************************************)
EXTENDS ActionForm, FiniteSetTheorems, WellFoundedInduction, TLAPS

-----------------------------------------------------------------------------
(* What the callbacks of a form make of it.  Transform takes the elements  *)
(* one after the other, so an invariant of the result can be shown element *)
(* by element.  The invariant is a set: a fold is no state machine, and    *)
(* the recursion behind it has to be shown to exist, by a smallest set of  *)
(* positions on which it would not.                                        *)

LEMMA SmallestPositions ==
    ASSUME NEW S, IsFiniteSet(S), NEW B, B \subseteq SUBSET S, B # {}
    PROVE  \E T \in B : \A U \in B : U \subseteq T => U = T
PROOF
<1>1. IsWellFoundedOn(StrictSubsetOrdering(S), SUBSET S)
    BY FS_StrictSubsetOrderingWellFounded, FS_FiniteSubsetsOfFinite
<1>2. PICK T \in B : \A U \in B : ~ (<<U, T>> \in StrictSubsetOrdering(S))
    BY <1>1, WFMin
<1> QED
    BY <1>2 DEF StrictSubsetOrdering

LEMMA SmallestNumber ==
    ASSUME NEW T \in SUBSET Nat, T # {}
    PROVE  \E t \in T : \A u \in T : t <= u
PROOF
<1> DEFINE less == {ss \in Nat \X Nat : ss[1] < ss[2]}
<1>1. IsWellFoundedOn(less, Nat)
    BY NatLessThanWellFounded DEF OpToRel
<1>2. \A t, u \in Nat : u < t => <<u, t>> \in less
    OBVIOUS
<1> HIDE DEF less
<1>3. PICK t \in T : \A u \in T : ~ (<<u, t>> \in less)
    BY <1>1, WFMin
<1>4. ASSUME NEW u \in T PROVE t <= u
    <2>1. t \in Nat /\ u \in Nat
        BY <1>3
    <2>2. ~ (u < t)
        BY <1>2, <1>3, <2>1
    <2> QED
        BY <2>1, <2>2
<1> QED
    BY <1>4

LEMMA LastPosition ==
    ASSUME NEW n \in Nat, NEW s \in SUBSET (1..n), s # {}
    PROVE  Max(s) \in s /\ \A x \in s : x <= Max(s)
PROOF
<1> DEFINE above == {u \in Nat : \A x \in s : x <= u}
<1>1. n \in above
    OBVIOUS
<1>2. PICK u \in above : \A v \in above : u <= v
    <2>1. above \in SUBSET Nat /\ above # {}
        BY <1>1
    <2> HIDE DEF above
    <2> QED
        BY <2>1, SmallestNumber
<1>3. u \in s
    <2>1. SUFFICES ASSUME u \notin s PROVE FALSE
        OBVIOUS
    <2>2. PICK y \in s : TRUE
        OBVIOUS
    <2>3. u \in Nat /\ u >= 1 /\ \A x \in s : x <= u - 1
        BY <1>2, <2>1, <2>2
    <2>4. u - 1 \in above
        BY <2>3
    <2> QED
        BY <1>2, <2>3, <2>4
<1>4. \E x \in s : \A y \in s : x >= y
    BY <1>2, <1>3
<1> QED
    BY <1>4 DEF Max

LEMMA FirstPositions ==
    ASSUME NEW m \in Nat, m # 0
    PROVE  Max(1..m) = m /\ 1..m # {} /\ (1..m) \ {m} = 1..(m - 1)
PROOF
<1>1. m \in 1..m
    OBVIOUS
<1>2. Max(1..m) \in 1..m /\ m <= Max(1..m)
    BY <1>1, LastPosition
<1> QED
    BY <1>1, <1>2

(* g is the recursion of Transform(i) over the positions in S.             *)
IsFold(g, i, S) ==
    g = [s \in SUBSET S |-> IF s = {} THEN Nothing
                            ELSE TransformOne(i, g[s \ {Max(s)}], form[Max(s)])]

LEMMA TransformUnfold ==
    ASSUME NEW i
    PROVE  Transform(i) = (CHOOSE g : IsFold(g, i, DOMAIN form))[DOMAIN form]
PROOF
    BY DEF Transform, FoldLeft, MapThenFoldSet, IsFold

\* Every set of the positions in P has a last one.
Topped(P) == \A s \in SUBSET P : s # {} => Max(s) \in s

LEMMA FoldsAgree ==
    ASSUME NEW P, IsFiniteSet(P), Topped(P), NEW i, NEW S \in SUBSET P, NEW T \in SUBSET P,
           NEW g, NEW h, IsFold(g, i, S), IsFold(h, i, T),
           NEW U, U \subseteq S, U \subseteq T
    PROVE  g[U] = h[U]
PROOF
<1> DEFINE bad == {s \in SUBSET U : g[s] # h[s]}
<1>1. SUFFICES ASSUME bad # {} PROVE FALSE
    OBVIOUS
<1>2. PICK s \in bad : \A t \in bad : t \subseteq s => t = s
    <2>1. bad \subseteq SUBSET U
        OBVIOUS
    <2>2. IsFiniteSet(U)
        <3>1. U \subseteq P
            OBVIOUS
        <3> QED
            BY <3>1, FS_Subset
    <2> HIDE DEF bad
    <2> QED
        BY <1>1, <2>1, <2>2, SmallestPositions
<1>3. s \subseteq S /\ s \subseteq T /\ g[s] # h[s] /\ s \in SUBSET P
    BY <1>2
<1>4. /\ g[s] = IF s = {} THEN Nothing ELSE TransformOne(i, g[s \ {Max(s)}], form[Max(s)])
      /\ h[s] = IF s = {} THEN Nothing ELSE TransformOne(i, h[s \ {Max(s)}], form[Max(s)])
    BY <1>3 DEF IsFold
<1>5. CASE s = {}
    BY <1>3, <1>4, <1>5
<1>6. CASE s # {}
    <2>1. Max(s) \in s
        BY <1>3, <1>6 DEF Topped
    <2>2. s \ {Max(s)} \in SUBSET U /\ s \ {Max(s)} # s
        BY <1>2, <2>1
    <2>3. g[s \ {Max(s)}] = h[s \ {Max(s)}]
        BY <1>2, <2>2
    <2> QED
        BY <1>3, <1>4, <1>6, <2>3
<1> QED
    BY <1>5, <1>6

LEMMA FoldExists ==
    ASSUME NEW P, IsFiniteSet(P), Topped(P), NEW i
    PROVE  \E g : IsFold(g, i, P)
PROOF
<1> DEFINE bad == {T \in SUBSET P : ~ \E g : IsFold(g, i, T)}
<1>1. SUFFICES ASSUME bad # {} PROVE FALSE
    OBVIOUS
<1>2. PICK T \in bad : \A U \in bad : U \subseteq T => U = T
    <2>1. bad \subseteq SUBSET P
        OBVIOUS
    <2>2. bad # {}
        BY <1>1
    <2> HIDE DEF bad
    <2> QED
        BY <2>1, <2>2, SmallestPositions
<1> DEFINE G(U) == (CHOOSE g : IsFold(g, i, U))[U]
           h == [s \in SUBSET T |-> IF s = {} THEN Nothing
                                    ELSE TransformOne(i, G(s \ {Max(s)}), form[Max(s)])]
<1>3. ASSUME NEW U \in SUBSET T, U # T
      PROVE  h[U] = G(U)
    <2> DEFINE k == CHOOSE g : IsFold(g, i, U)
    <2>1. IsFold(k, i, U)
        BY <1>2, <1>3
    <2> HIDE DEF k
    <2>2. k[U] = IF U = {} THEN Nothing ELSE TransformOne(i, k[U \ {Max(U)}], form[Max(U)])
        BY <2>1 DEF IsFold
    <2>3. CASE U = {}
        BY <2>2, <2>3 DEF k
    <2>4. CASE U # {}
        <3> DEFINE V == U \ {Max(U)}
                   l == CHOOSE g : IsFold(g, i, V)
        <3>1. U \in SUBSET P /\ Max(U) \in U
            BY <1>2, <1>3, <2>4 DEF Topped
        <3>2. V \in SUBSET T /\ V # T
            BY <1>3, <3>1
        <3>3. IsFold(l, i, V)
            BY <1>2, <3>2
        <3>4. V \in SUBSET P /\ V \subseteq U
            BY <3>1
        <3> HIDE DEF l, V
        <3>5. k[V] = l[V]
            BY <2>1, <3>1, <3>3, <3>4, FoldsAgree
        <3>6. h[U] = TransformOne(i, l[V], form[Max(U)])
            BY <1>3, <2>4 DEF l, V
        <3>7. G(U) = TransformOne(i, k[V], form[Max(U)])
            BY <2>2, <2>4 DEF k, V
        <3> QED
            BY <3>5, <3>6, <3>7
    <2> QED
        BY <2>3, <2>4
<1>4. ASSUME NEW s \in SUBSET T, s # {}
      PROVE  h[s \ {Max(s)}] = G(s \ {Max(s)})
    <2>1. Max(s) \in s
        BY <1>2, <1>4 DEF Topped
    <2>2. s \ {Max(s)} \in SUBSET T /\ s \ {Max(s)} # T
        BY <2>1
    <2> HIDE DEF h, G
    <2> QED
        BY <1>3, <2>2
<1>5. IsFold(h, i, T)
    <2>1. \A s \in SUBSET T :
            (IF s = {} THEN Nothing ELSE TransformOne(i, G(s \ {Max(s)}), form[Max(s)]))
            = (IF s = {} THEN Nothing ELSE TransformOne(i, h[s \ {Max(s)}], form[Max(s)]))
        <3> HIDE DEF h, G
        <3> QED
            BY <1>4
    <2> HIDE DEF G
    <2> QED
        BY <2>1 DEF IsFold
<1> QED
    BY <1>2, <1>5

(* What holds of the first m elements and their result for every m.        *)
LEMMA ElementByElement ==
    ASSUME NEW i, NEW X, form \in Seq(X), NEW A,
           <<0, Nothing>> \in A,
           \A m \in 0..(Len(form) - 1) : \A acc :
               <<m, acc>> \in A => <<m + 1, TransformOne(i, acc, form[m + 1])>> \in A
    PROVE  <<Len(form), Transform(i)>> \in A
PROOF
<1> DEFINE S == 1..Len(form)
           g == CHOOSE k : IsFold(k, i, S)
           bad == {m \in 0..Len(form) : <<m, g[1..m]>> \notin A}
<1>1. Len(form) \in Nat /\ DOMAIN form = S
    OBVIOUS
<1>2. IsFold(g, i, S)
    <2>1. IsFiniteSet(S) /\ Topped(S)
        <3>1. IsFiniteSet(S)
            BY <1>1, FS_Interval
        <3>2. \A s \in SUBSET S : s # {} => Max(s) \in s
            BY <1>1, LastPosition
        <3> QED
            BY <3>1, <3>2 DEF Topped
    <2> HIDE DEF S
    <2> QED
        BY <2>1, FoldExists
<1>3. Transform(i) = g[1..Len(form)]
    BY <1>1, TransformUnfold
<1> HIDE DEF g
<1>4. SUFFICES ASSUME bad # {} PROVE FALSE
    BY <1>1, <1>3
<1>5. PICK m \in bad : \A l \in bad : m <= l
    <2>1. bad \in SUBSET Nat
        BY <1>1
    <2> HIDE DEF bad
    <2> QED
        BY <1>4, <2>1, SmallestNumber
<1>6. m \in 0..Len(form) /\ 1..m \in SUBSET S
    BY <1>1, <1>5
<1>7. CASE m = 0
    <2>1. 1..m = {}
        BY <1>7
    <2>2. g[1..m] = Nothing
        BY <1>2, <1>6, <2>1 DEF IsFold
    <2> QED
        BY <1>5, <1>7, <2>2
<1>8. CASE m # 0
    <2>1. m \in Nat /\ m - 1 \in 0..(Len(form) - 1) /\ (m - 1) + 1 = m
        BY <1>1, <1>6, <1>8
    <2>2. Max(1..m) = m /\ 1..m # {} /\ (1..m) \ {m} = 1..(m - 1)
        BY <1>8, <2>1, FirstPositions
    <2>3. g[1..m] = TransformOne(i, g[(1..m) \ {Max(1..m)}], form[Max(1..m)])
        BY <1>2, <1>6, <2>2 DEF IsFold
    <2>4. g[1..m] = TransformOne(i, g[1..(m - 1)], form[m])
        BY <2>2, <2>3
    <2>5. <<m - 1, g[1..(m - 1)]>> \in A
        <3>1. ~ (m <= m - 1) /\ m - 1 \in 0..Len(form)
            BY <1>1, <2>1
        <3> QED
            BY <1>5, <3>1
    <2>6. <<m, g[1..m]>> \in A
        BY <2>1, <2>4, <2>5
    <2> QED
        BY <1>5, <2>6
<1> QED
    BY <1>7, <1>8

-----------------------------------------------------------------------------
(* The invariant.                                                          *)

Data == Tokens \cup Certificates
ActKinds == Kinds \cup {"other", "manage", "certificate"}
Updates == {"yes", "no", "hidden"}

Elements ==
    [hash : Hashes, old : Hashes \cup {NoHash}, kind : ActKinds, update : Updates,
     readonly : BOOLEAN, locked : BOOLEAN, delete : BOOLEAN, renoted : BOOLEAN,
     for : SUBSET Items]

\* The links come to the editors of one item, and bring no token of the client.
LinkInv == url \cap System = {} /\ (editor = "keys" => url = {})

\* An entry moves a hash to one of the same token, which is known.
EntryOK(n, e) ==
    /\ n \in Hashes /\ e.old \in Hashes /\ e.old[1] = n[1]
    /\ n[1] \in DataOf(stored) \cup url
    /\ e.acts \subseteq ActKinds \X BOOLEAN
    /\ OfCluster => \A a \in e.acts : a[1] \in Kinds \cup {"other", "certificate"}
    /\ e.update \in Updates
    /\ url = {} => e.update # "yes"

\* A token of the link that the config does not know is taken over by itself.
LinkShown ==
    editor # "keys" =>
        \A t \in url \ DataOf(stored) :
            \E n \in DOMAIN mapper["Item"] :
                /\ n[1] = t /\ mapper["Item"][n].update = "yes"
                /\ <<"other", FALSE>> \in mapper["Item"][n].acts

MapperInv ==
    /\ Loaded => DOMAIN mapper = Items
    /\ Loaded => \A i \in Items : \A n \in DOMAIN mapper[i] : EntryOK(n, mapper[i][n])
    /\ Loaded => LinkShown

\* New elements stand behind those of the mappers, and move no hash.
FormInv ==
    /\ form \in Seq(Elements)
    /\ \A n \in 1..Len(form) : ~ form[n].locked => form[n].kind \in Kinds /\ form[n].update = "hidden"
    /\ \A m, n \in 1..Len(form) : m < n /\ form[n].locked => form[m].locked

IInv == TypeOK /\ LinkInv /\ MapperInv /\ FormInv

-----------------------------------------------------------------------------
(* Forms are finite, so a form of the elements of a mapper has them all.   *)

LEMMA FiniteTriples == \A a, b, c : IsFiniteSet({a, b, c})
PROOF
<1> TAKE a, b, c
<1>1. IsFiniteSet({a}) /\ IsFiniteSet({b}) /\ IsFiniteSet({c})
    BY FS_Singleton
<1>2. IsFiniteSet({a} \cup {b})
    BY <1>1, FS_Union
<1>3. IsFiniteSet(({a} \cup {b}) \cup {c})
    BY <1>1, <1>2, FS_Union
<1>4. ({a} \cup {b}) \cup {c} = {a, b, c}
    OBVIOUS
<1> QED
    BY <1>3, <1>4

LEMMA FiniteElements == IsFiniteSet(Elements)
PROOF
<1>1. IsFiniteSet(Algorithms) /\ IsFiniteSet(Updates) /\ IsFiniteSet(BOOLEAN) /\ IsFiniteSet({NoHash})
    <2>1. BOOLEAN = {TRUE, FALSE, FALSE} /\ Algorithms = {"new", "old", "old"}
          /\ {NoHash} = {NoHash, NoHash, NoHash}
        BY DEF Algorithms
    <2> QED
        BY <2>1, FiniteTriples DEF Updates
<1>2. IsFiniteSet(Hashes \cup {NoHash}) /\ IsFiniteSet(Hashes)
    <2>1. IsFiniteSet(Tokens \cup Certificates)
        BY FiniteAssumption, FS_Union
    <2>2. IsFiniteSet(Hashes)
        BY <1>1, <2>1, FS_Product DEF Hashes
    <2> QED
        BY <1>1, <2>2, FS_Union
<1>3. IsFiniteSet(ActKinds)
    <2>1. IsFiniteSet({"other", "manage", "certificate"})
        BY FiniteTriples
    <2> QED
        BY <2>1, FiniteAssumption, FS_Union DEF ActKinds
<1>4. IsFiniteSet(SUBSET Items)
    <2>1. IsFiniteSet(Items)
        <3>1. Items = {"Item", "Item", "Item"} \/ Items = {"PublicKey", "PrivateKey", "PrivateKey"}
            BY DEF Items
        <3>2. IsFiniteSet({"Item", "Item", "Item"})
              /\ IsFiniteSet({"PublicKey", "PrivateKey", "PrivateKey"})
            BY FiniteTriples
        <3> QED
            BY <3>1, <3>2
    <2> QED
        BY <2>1, FS_SUBSET
<1> DEFINE P1 == Hashes \X (Hashes \cup {NoHash})
           P2 == ActKinds \X Updates
           P3 == BOOLEAN \X BOOLEAN
           P4 == P3 \X P3
           P5 == P1 \X P2
           P6 == P4 \X SUBSET Items
           f == [e \in Elements |->
                   <<<<<<e.hash, e.old>>, <<e.kind, e.update>>>>,
                     <<<<<<e.readonly, e.locked>>, <<e.delete, e.renoted>>>>, e.for>>>>]
<1>5. IsFiniteSet(P1)
    BY <1>2, FS_Product
<1>6. IsFiniteSet(P2)
    BY <1>1, <1>3, FS_Product
<1>7. IsFiniteSet(P3)
    BY <1>1, FS_Product
<1>8. IsFiniteSet(P4)
    <2> HIDE DEF P3
    <2> QED
        BY <1>7, FS_Product
<1>9. IsFiniteSet(P5)
    <2> HIDE DEF P1, P2
    <2> QED
        BY <1>5, <1>6, FS_Product
<1>10. IsFiniteSet(P6)
    <2> HIDE DEF P4
    <2> QED
        BY <1>4, <1>8, FS_Product
<1>11. IsFiniteSet(P5 \X P6)
    <2> HIDE DEF P5, P6
    <2> QED
        BY <1>9, <1>10, FS_Product
<1>12. f \in [Elements -> P5 \X P6]
    <2> SUFFICES ASSUME NEW e \in Elements PROVE f[e] \in P5 \X P6
        OBVIOUS
    <2>1. <<e.hash, e.old>> \in P1 /\ <<e.kind, e.update>> \in P2
        BY DEF Elements
    <2>2. <<e.readonly, e.locked>> \in P3 /\ <<e.delete, e.renoted>> \in P3 /\ e.for \in SUBSET Items
        BY DEF Elements
    <2> QED
        BY <2>1, <2>2
<1>13. \A d, e \in Elements : f[d] = f[e] => d = e
    <2> SUFFICES ASSUME NEW d \in Elements, NEW e \in Elements, f[d] = f[e] PROVE d = e
        OBVIOUS
    <2>1. /\ <<<<d.hash, d.old>>, <<d.kind, d.update>>>> = <<<<e.hash, e.old>>, <<e.kind, e.update>>>>
          /\ <<<<<<d.readonly, d.locked>>, <<d.delete, d.renoted>>>>, d.for>>
             = <<<<<<e.readonly, e.locked>>, <<e.delete, e.renoted>>>>, e.for>>
        OBVIOUS
    <2>2. d.hash = e.hash /\ d.old = e.old /\ d.kind = e.kind /\ d.update = e.update
        BY <2>1
    <2>3. d.readonly = e.readonly /\ d.locked = e.locked /\ d.delete = e.delete
          /\ d.renoted = e.renoted /\ d.for = e.for
        BY <2>1
    <2> QED
        BY <2>2, <2>3 DEF Elements
<1> HIDE DEF f, P5, P6
<1>14. f \in Injection(Elements, P5 \X P6)
    BY <1>12, <1>13 DEF Injection, IsInjective
<1> QED
    BY <1>11, <1>14, FS_Injection

LEMMA AllInSequence ==
    ASSUME NEW E, IsFiniteSet(E)
    PROVE  /\ SetToSeq(E) \in Seq(E)
           /\ \A x \in E : \E n \in 1..Len(SetToSeq(E)) : SetToSeq(E)[n] = x
PROOF
<1> DEFINE N == Cardinality(E)
           s == SetToSeq(E)
<1>1. N \in Nat /\ ExistsBijection(1..N, E)
    BY FS_CardinalityType
<1>2. \E f \in [1..N -> E] : IsInjective(f)
    BY <1>1 DEF ExistsBijection, Bijection, Injection
<1>3. s \in [1..N -> E] /\ IsInjective(s)
    BY <1>2 DEF SetToSeq
<1>4. IsFiniteSet(1..N) /\ Cardinality(1..N) = N
    BY <1>1, FS_Interval
<1>5. s \in Surjection(1..N, E)
    <2>1. s \in Injection(1..N, E)
        BY <1>3 DEF Injection
    <2> HIDE DEF s
    <2> QED
        BY <1>4, <2>1, FS_Injection
<1>6. s \in Seq(E) /\ Len(s) = N
    BY <1>1, <1>3
<1> QED
    BY <1>5, <1>6 DEF Surjection

-----------------------------------------------------------------------------
(* What generateActionMapper finds.                                        *)

LEMMA UpgradeKeepsToken ==
    ASSUME NEW h \in Hashes, NEW first \in [url -> Algorithms], NEW last
    PROVE  Upgrade(h, first, last) \in Hashes /\ Upgrade(h, first, last)[1] = h[1]
PROOF
<1>1. h[1] \in Tokens \cup Certificates /\ h = <<h[1], h[2]>>
    BY DEF Hashes
<1>2. CASE h[1] \in url /\ (h \notin stored \/ h[1] \in last)
    <2>1. Upgrade(h, first, last) = <<h[1], first[h[1]]>>
        BY <1>2 DEF Upgrade
    <2>2. first[h[1]] \in Algorithms
        BY <1>2
    <2> QED
        BY <1>1, <2>1, <2>2 DEF Hashes
<1>3. CASE ~ (h[1] \in url /\ (h \notin stored \/ h[1] \in last)) /\ h \in stored
    <2>1. Upgrade(h, first, last) = <<h[1], "new">>
        BY <1>3 DEF Upgrade, NewHash
    <2> QED
        BY <1>1, <2>1 DEF Hashes, Algorithms
<1>4. CASE ~ (h[1] \in url /\ (h \notin stored \/ h[1] \in last)) /\ h \notin stored
    <2>1. Upgrade(h, first, last) = h
        BY <1>4 DEF Upgrade
    <2> QED
        BY <2>1
<1> QED
    BY <1>2, <1>3, <1>4

LEMMA KnownKinds ==
    ASSUME TypeOK, NEW i \in Items, NEW h \in Hashes
    PROVE  /\ Known(i, h) \subseteq ActKinds \X BOOLEAN
           /\ OfCluster => \A a \in Known(i, h) : a[1] \in Kinds \cup {"other", "certificate"}
PROOF
<1>1. i \in AllItems
    BY DEF Items, AllItems
<1>2. rights[i][h] \in Rights \cup {Absent}
    BY <1>1 DEF TypeOK
<1> DEFINE ks == {x \in Kinds : <<i, h, x>> \in server}
                 \cup (IF rights[i][h] = Absent THEN {} ELSE rights[i][h])
<1>3. ks \subseteq Kinds \cup {"other"}
    BY <1>2 DEF Rights
<1>4. OfCluster \in BOOLEAN
    BY DEF OfCluster
<1>5. \A a \in Named(i, h) : \/ \E k \in ks : a = <<k, OfCluster>>
                             \/ ~ OfCluster /\ a = <<"manage", TRUE>>
    BY DEF Named
<1> HIDE DEF ks
<1>6. \A a \in Named(i, h) : /\ a \in ActKinds \X BOOLEAN
                             /\ OfCluster => a[1] \in Kinds \cup {"other", "certificate"}
    <2> TAKE a \in Named(i, h)
    <2>1. CASE \E k \in ks : a = <<k, OfCluster>>
        <3>1. PICK k \in ks : a = <<k, OfCluster>>
            BY <2>1
        <3> QED
            BY <1>3, <1>4, <3>1 DEF ActKinds
    <2>2. CASE ~ OfCluster /\ a = <<"manage", TRUE>>
        BY <2>2 DEF ActKinds
    <2> QED
        BY <1>5, <2>1, <2>2
<1>7. Known(i, h) \subseteq Named(i, h)
    BY DEF Known
<1> QED
    BY <1>6, <1>7

\* Every hash of an entry comes from one that is in the config with its token.
LEMMA ConfigEntries ==
    ASSUME TypeOK, NEW i \in Items, NEW first \in [url -> Algorithms], NEW last, NEW shown,
           NEW n \in DOMAIN FromConfig(i, first, last, shown)
    PROVE  /\ EntryOK(n, FromConfig(i, first, last, shown)[n])
           /\ n[1] \in DataOf(stored)
           /\ FromConfig(i, first, last, shown)[n].update # "yes"
PROOF
<1> DEFINE up(h) == Upgrade(h, first, last)
           usable == {h \in Found(i) : {h, up(h)} \cap stored # {}}
           hs == {h \in usable : up(h) = n}
           source == IF hs \ {n} # {} THEN CHOOSE h \in hs : h # n ELSE n
           acts == IF n[1] \in Certificates THEN {<<"certificate", FALSE>>} ELSE Known(i, source)
           update == IF shown /\ source # n /\ n \in usable THEN "no" ELSE "hidden"
           e == FromConfig(i, first, last, shown)[n]
<1>1. DOMAIN FromConfig(i, first, last, shown) = {up(h) : h \in usable}
    BY DEF FromConfig
<1>2. e = [old |-> source, acts |-> acts, update |-> update]
    BY <1>1 DEF FromConfig
<1>3. hs # {} /\ \A h \in hs : h \in Hashes /\ up(h) = n /\ {h, up(h)} \cap stored # {}
    BY <1>1 DEF Found
<1> HIDE DEF hs
<1>4. source \in hs
    <2>1. CASE hs \ {n} # {}
        <3>1. \E h \in hs : h # n
            BY <2>1
        <3> QED
            BY <2>1, <3>1
    <2>2. CASE hs \ {n} = {}
        BY <1>3, <2>2
    <2> QED
        BY <2>1, <2>2
<1> HIDE DEF source
<1>5. source \in Hashes /\ n = up(source) /\ n \in Hashes /\ n[1] = source[1]
    <2>1. source \in Hashes /\ n = up(source)
        BY <1>3, <1>4
    <2> QED
        BY <2>1, UpgradeKeepsToken
<1>6. n[1] \in DataOf(stored)
    <2>1. source \in stored \/ n \in stored
        BY <1>3, <1>4
    <2> QED
        BY <1>5, <2>1 DEF DataOf
<1>7. /\ acts \subseteq ActKinds \X BOOLEAN
      /\ OfCluster => \A a \in acts : a[1] \in Kinds \cup {"other", "certificate"}
    <2>1. <<"certificate", FALSE>> \in ActKinds \X BOOLEAN
        BY DEF ActKinds
    <2>2. CASE n[1] \in Certificates
        <3>1. acts = {<<"certificate", FALSE>>}
            BY <2>2
        <3> HIDE DEF acts
        <3> QED
            BY <2>1, <3>1
    <2>3. CASE n[1] \notin Certificates
        <3>1. acts = Known(i, source)
            BY <2>3
        <3> HIDE DEF acts
        <3> QED
            BY <1>5, <3>1, KnownKinds
    <2> QED
        BY <2>2, <2>3
<1>8. update \in {"no", "hidden"}
    OBVIOUS
<1> HIDE DEF acts, update
<1>9. e.old = source /\ e.acts = acts /\ e.update = update
    BY <1>2
<1> QED
    BY <1>5, <1>6, <1>7, <1>8, <1>9 DEF EntryOK, Updates

LEMMA LinkEntries ==
    ASSUME TypeOK, NEW first \in [url -> Algorithms], NEW last, NEW known,
           \A n \in DOMAIN known : /\ EntryOK(n, known[n]) /\ n[1] \in DataOf(stored)
                                   /\ known[n].update # "yes"
                                   /\ known[n] = [old |-> known[n].old, acts |-> known[n].acts,
                                                  update |-> known[n].update]
    PROVE  LET m == FromUrl(first, last, known)
           IN /\ \A n \in DOMAIN m : EntryOK(n, m[n])
              /\ \A t \in url \ DataOf(stored) :
                    \E n \in DOMAIN m : n[1] = t /\ m[n].update = "yes" /\ <<"other", FALSE>> \in m[n].acts
PROOF
<1> DEFINE up(t) == Upgrade(<<t, first[t]>>, first, last)
           new == {t \in url : <<t, first[t]>> \notin DOMAIN known}
           added == {t \in new : up(t) \notin DOMAIN known}
           m == FromUrl(first, last, known)
           fresh(n) == [old |-> <<n[1], first[n[1]]>>, acts |-> {<<"other", FALSE>>},
                        update |-> IF {n, <<n[1], first[n[1]]>>} \cap stored = {} THEN "yes" ELSE "no"]
<1>1. DOMAIN m = DOMAIN known \cup {up(t) : t \in added}
    BY DEF FromUrl
<1>2. \A n \in DOMAIN known :
        m[n] = IF n[1] \in new /\ up(n[1]) = n /\ known[n].old = n
               THEN [known[n] EXCEPT !.update = "yes"] ELSE known[n]
    BY <1>1 DEF FromUrl
<1>3. \A n \in DOMAIN m \ DOMAIN known : m[n] = fresh(n)
    BY <1>1 DEF FromUrl
<1> HIDE DEF m
<1>4. \A t \in url : /\ <<t, first[t]>> \in Hashes /\ up(t) \in Hashes /\ up(t)[1] = t
                     /\ first[t] \in Algorithms
    <2> SUFFICES ASSUME NEW t \in url
                 PROVE  /\ <<t, first[t]>> \in Hashes /\ up(t) \in Hashes /\ up(t)[1] = t
                        /\ first[t] \in Algorithms
        OBVIOUS
    <2>1. <<t, first[t]>> \in Hashes /\ first[t] \in Algorithms
        BY DEF TypeOK, Hashes
    <2>2. <<t, first[t]>>[1] = t
        OBVIOUS
    <2> QED
        BY <2>1, <2>2, UpgradeKeepsToken
<1>5. ASSUME NEW n \in DOMAIN known
      PROVE  EntryOK(n, m[n])
    <2>1. CASE m[n] = known[n]
        BY <2>1
    <2>2. CASE m[n] # known[n]
        <3>1. m[n] = [known[n] EXCEPT !.update = "yes"] /\ n[1] \in url
            BY <1>2, <2>2
        <3>2. m[n].old = known[n].old /\ m[n].acts = known[n].acts /\ m[n].update = "yes"
            BY <3>1
        <3> QED
            BY <3>1, <3>2 DEF EntryOK, Updates
    <2> QED
        BY <2>1, <2>2
<1>6. ASSUME NEW n \in DOMAIN m \ DOMAIN known
      PROVE  EntryOK(n, m[n])
    <2>1. PICK t \in added : n = up(t)
        BY <1>1
    <2>2. n \in Hashes /\ n[1] = t /\ t \in url /\ <<t, first[t]>> \in Hashes
        BY <1>4, <2>1
    <2>3. /\ m[n].old = <<t, first[t]>> /\ m[n].acts = {<<"other", FALSE>>}
          /\ m[n].update \in {"yes", "no"}
        <3>1. m[n] = fresh(n)
            BY <1>3
        <3> QED
            BY <2>2, <3>1
    <2>4. <<"other", FALSE>> \in ActKinds \X BOOLEAN
        BY DEF ActKinds
    <2> QED
        BY <2>2, <2>3, <2>4 DEF EntryOK, Updates
<1>7. ASSUME NEW t \in url \ DataOf(stored)
      PROVE  \E n \in DOMAIN m : n[1] = t /\ m[n].update = "yes" /\ <<"other", FALSE>> \in m[n].acts
    <2>1. up(t) \in Hashes /\ up(t)[1] = t /\ <<t, first[t]>>[1] = t
        BY <1>4
    <2>2. up(t) \notin DOMAIN known /\ <<t, first[t]>> \notin DOMAIN known
        BY <1>7, <2>1
    <2>3. up(t) \in DOMAIN m \ DOMAIN known
        BY <1>1, <2>2
    <2>4. up(t) \notin stored /\ <<t, first[t]>> \notin stored
        BY <1>7, <2>1 DEF DataOf
    <2>5. m[up(t)] = fresh(up(t)) /\ up(t)[1] = t
        BY <1>3, <2>1, <2>3
    <2> HIDE DEF up
    <2>6. m[up(t)].update = "yes" /\ <<"other", FALSE>> \in m[up(t)].acts
        BY <2>4, <2>5
    <2> QED
        BY <2>1, <2>3, <2>6
<1> QED
    BY <1>5, <1>6, <1>7 DEF m

LEMMA MapperGenerated ==
    ASSUME TypeOK, NEW first \in [url -> Algorithms], NEW last, NEW shown, NEW i \in Items
    PROVE  LET m == GenerateMapper(i, first, last, shown)
           IN /\ \A n \in DOMAIN m : EntryOK(n, m[n])
              /\ editor # "keys" => \A t \in url \ DataOf(stored) :
                    \E n \in DOMAIN m : n[1] = t /\ m[n].update = "yes" /\ <<"other", FALSE>> \in m[n].acts
PROOF
<1> DEFINE known == FromConfig(i, first, last, shown)
<1>1. \A n \in DOMAIN known :
        EntryOK(n, known[n]) /\ n[1] \in DataOf(stored) /\ known[n].update # "yes"
    BY ConfigEntries
<1>2. \A n \in DOMAIN known :
        known[n] = [old |-> known[n].old, acts |-> known[n].acts, update |-> known[n].update]
    BY DEF FromConfig
<1>3. GenerateMapper(i, first, last, shown)
        = IF editor = "keys" THEN known ELSE FromUrl(first, last, known)
    BY DEF GenerateMapper
<1> HIDE DEF known
<1>4. CASE editor = "keys"
    BY <1>1, <1>3, <1>4
<1>5. CASE editor # "keys"
    BY <1>1, <1>2, <1>3, <1>5, LinkEntries
<1> QED
    BY <1>4, <1>5

-----------------------------------------------------------------------------
(* What one element does to the result of those before it.                 *)

Result == [ok : BOOLEAN,
           actions : SUBSET ((Data \X Kinds) \cup (Hashes \X {"delete"})),
           stored : [Hashes -> {"same", "store", "drop"}],
           hashes : [Hashes -> Rights \cup {Absent, Null}]]

\* The token t is stored under some hash.
StoresFor(acc, t) == \E h \in Hashes : h[1] = t /\ acc.stored[h] = "store"

EntryOf(found) == CHOOSE e \in found : TRUE

LEMMA LookupOK ==
    ASSUME MapperInv, Loaded, NEW el \in Elements, Lookup(el) # {}
    PROVE  EntryOK(el.hash, EntryOf(Lookup(el)))
PROOF
<1> DEFINE i == IF editor = "keys" THEN "PrivateKey" ELSE "Item"
<1>1. i \in Items
    BY DEF Items
<1>2. el.hash \in DOMAIN mapper[i] /\ Lookup(el) = {mapper[i][el.hash]}
    BY DEF Lookup
<1>3. EntryOf(Lookup(el)) = mapper[i][el.hash]
    BY <1>2 DEF EntryOf
<1> HIDE DEF i
<1>4. EntryOK(el.hash, mapper[i][el.hash])
    BY <1>1, <1>2 DEF MapperInv
<1> QED
    BY <1>3, <1>4

LEMMA ActiveHash ==
    ASSUME MapperInv, Loaded, NEW el \in Elements
    PROVE  Active(el, Lookup(el)) \in Hashes /\ Active(el, Lookup(el))[1] = el.hash[1]
PROOF
<1>1. CASE el.update = "yes" \/ Lookup(el) = {}
    BY <1>1 DEF Active, Elements
<1>2. CASE ~ (el.update = "yes" \/ Lookup(el) = {})
    <2>1. Active(el, Lookup(el)) = EntryOf(Lookup(el)).old
        BY <1>2 DEF Active, EntryOf
    <2> QED
        BY <1>2, <2>1, LookupOK DEF EntryOK
<1> QED
    BY <1>1, <1>2

LEMMA RecordedKinds ==
    ASSUME NEW n, NEW e, EntryOK(n, e)
    PROVE  Recorded(e) \in Rights
PROOF
<1>1. CASE OfCluster
    <2>1. \A a \in e.acts : a[1] \in Kinds \cup {"other", "certificate"}
        BY <1>1 DEF EntryOK
    <2> QED
        BY <1>1, <2>1 DEF Recorded, Rights
<1>2. CASE ~ OfCluster
    BY <1>2 DEF Recorded, Rights
<1> QED
    BY <1>1, <1>2

LEMMA UpgradedResult ==
    ASSUME MapperInv, Loaded, NEW acc \in Result, NEW el \in Elements,
           el.update = "yes" => Lookup(el) # {}
    PROVE  LET u == Upgraded(acc, el, Lookup(el))
           IN /\ u \in Result
              /\ u.actions = acc.actions
              /\ el.update # "yes" => u = acc
              /\ \A h \in Hashes : u.stored[h] = acc.stored[h] \/ h[1] = el.hash[1]
PROOF
<1> DEFINE found == Lookup(el)
           e == EntryOf(found)
           u == Upgraded(acc, el, found)
<1>1. CASE el.update # "yes"
    BY <1>1 DEF Upgraded
<1>2. CASE el.update = "yes"
    <2> DEFINE base == [acc EXCEPT !.hashes[el.hash] = Recorded(e)]
    <2>1. EntryOK(el.hash, e)
        BY <1>2, LookupOK
    <2>2. u = IF Moved(el, e)
              THEN [base EXCEPT !.hashes[e.old] = Null, !.stored[e.old] = "drop"]
              ELSE base
        BY <1>2 DEF Upgraded, EntryOf
    <2>3. e.old \in Hashes /\ e.old[1] = el.hash[1] /\ el.hash \in Hashes
        BY <2>1 DEF EntryOK
    <2>4. Recorded(e) \in Rights
        BY <2>1, RecordedKinds
    <2> HIDE DEF e, u
    <2>5. /\ base = [ok |-> acc.ok, actions |-> acc.actions, stored |-> acc.stored,
                     hashes |-> [acc.hashes EXCEPT ![el.hash] = Recorded(e)]]
        BY DEF Result
    <2>6. base \in Result
        BY <2>3, <2>4, <2>5 DEF Result
    <2>7. CASE ~ Moved(el, e)
        BY <1>2, <2>2, <2>5, <2>6, <2>7 DEF u
    <2>8. CASE Moved(el, e)
        <3>1. u = [ok |-> acc.ok, actions |-> acc.actions,
                   stored |-> [acc.stored EXCEPT ![e.old] = "drop"],
                   hashes |-> [base.hashes EXCEPT ![e.old] = Null]]
            BY <2>2, <2>5, <2>8
        <3>2. base.hashes \in [Hashes -> Rights \cup {Absent, Null}]
            BY <2>6 DEF Result
        <3> HIDE DEF base
        <3>3. u \in Result
            BY <2>3, <3>1, <3>2 DEF Result
        <3>4. \A h \in Hashes : u.stored[h] = acc.stored[h] \/ h = e.old
            BY <3>1 DEF Result
        <3> QED
            BY <1>2, <2>3, <3>1, <3>3, <3>4 DEF u
    <2> QED
        BY <2>7, <2>8
<1> QED
    BY <1>1, <1>2

LEMMA StoredResult ==
    ASSUME MapperInv, Loaded, NEW u \in Result, NEW el \in Elements
    PROVE  LET w == StoreToken(u, el, Lookup(el))
           IN /\ w \in Result
              /\ w.actions = u.actions /\ w.hashes = u.hashes
              /\ \A h \in Hashes : \/ w.stored[h] = u.stored[h]
                                   \/ w.stored[h] = "store" /\ h[1] = el.hash[1]
              /\ Lookup(el) = {} \/ el.update = "yes" => StoresFor(w, el.hash[1])
PROOF
<1> DEFINE found == Lookup(el)
           x == Active(el, found)
           w == StoreToken(u, el, found)
<1>1. x \in Hashes /\ x[1] = el.hash[1]
    BY ActiveHash
<1> HIDE DEF x
<1>2. CASE ~ (found = {} \/ el.update = "yes" \/ el.renoted)
    BY <1>2 DEF StoreToken
<1>3. CASE found = {} \/ el.update = "yes" \/ el.renoted
    <2>1. w = [u EXCEPT !.stored[x] = "store"]
        BY <1>3 DEF StoreToken, x
    <2> HIDE DEF w, found
    <2>2. w = [ok |-> u.ok, actions |-> u.actions, stored |-> [u.stored EXCEPT ![x] = "store"],
               hashes |-> u.hashes]
        BY <2>1 DEF Result
    <2>3. w \in Result
        BY <1>1, <2>2 DEF Result
    <2>4. w.stored[x] = "store" /\ \A h \in Hashes : w.stored[h] = u.stored[h] \/ h = x
        BY <1>1, <2>2 DEF Result
    <2>5. StoresFor(w, el.hash[1])
        BY <1>1, <2>4 DEF StoresFor
    <2> QED
        BY <1>1, <2>2, <2>3, <2>4, <2>5 DEF w, found
<1> QED
    BY <1>2, <1>3

LEMMA SentResult ==
    ASSUME MapperInv, Loaded, NEW w \in Result, NEW el \in Elements,
           ~ el.locked => el.kind \in Kinds
    PROVE  LET r == SendAction(w, el, Lookup(el))
           IN /\ r \in Result
              /\ r.stored = w.stored
              /\ el.locked => r = w
              /\ \A a \in r.actions :
                    \/ a \in w.actions
                    \/ /\ ~ el.locked /\ a = <<el.hash[1], el.kind>>
                       /\ \E h \in Hashes : h[1] = a[1] /\ a[2] \in r.hashes[h]
              /\ \A h \in Hashes : \A k \in Kinds : k \in w.hashes[h] => k \in r.hashes[h]
PROOF
<1> DEFINE found == Lookup(el)
           x == Active(el, found)
           filed == IF w.hashes[x] \in {Absent, Null} THEN {} ELSE w.hashes[x]
           r == SendAction(w, el, found)
<1>1. x \in Hashes /\ x[1] = el.hash[1]
    BY ActiveHash
<1>2. CASE el.locked \/ el.kind \in {"other", "certificate"}
    BY <1>2 DEF SendAction
<1>3. CASE ~ (el.locked \/ el.kind \in {"other", "certificate"}) /\ el.kind = "auth" /\ ~ CanSign
    <2>1. r = [w EXCEPT !.ok = FALSE]
        BY <1>3 DEF SendAction
    <2> HIDE DEF r
    <2>2. r = [ok |-> FALSE, actions |-> w.actions, stored |-> w.stored, hashes |-> w.hashes]
        BY <2>1 DEF Result
    <2> QED
        BY <1>3, <2>2 DEF Result, r
<1>4. CASE ~ (el.locked \/ el.kind \in {"other", "certificate"}) /\ ~ (el.kind = "auth" /\ ~ CanSign)
    <2>1. r = [w EXCEPT !.hashes[x] = filed \cup {el.kind},
                        !.actions = @ \cup {<<el.hash[1], el.kind>>}]
        BY <1>4 DEF SendAction
    <2>2. filed \in Rights /\ el.kind \in Kinds
        BY <1>1, <1>4 DEF Result, Rights
    <2>3. filed \cup {el.kind} \in Rights
        BY <2>2 DEF Rights
    <2>4. \A k \in Kinds : k \in w.hashes[x] => k \in filed
        BY KindAssumption DEF Absent, Null
    <2>5. <<el.hash[1], el.kind>> \in Data \X Kinds
        BY <2>2 DEF Elements, Hashes, Data
    <2> HIDE DEF r, x, filed
    <2>6. r = [ok |-> w.ok, actions |-> w.actions \cup {<<el.hash[1], el.kind>>}, stored |-> w.stored,
               hashes |-> [w.hashes EXCEPT ![x] = filed \cup {el.kind}]]
        BY <2>1 DEF Result
    <2>7. r \in Result
        BY <1>1, <2>3, <2>5, <2>6 DEF Result
    <2>8. el.kind \in r.hashes[x] /\ \A h \in Hashes : \A k \in Kinds : k \in w.hashes[h] => k \in r.hashes[h]
        BY <1>1, <2>4, <2>6 DEF Result
    <2>9. \A a \in r.actions :
                \/ a \in w.actions
                \/ /\ ~ el.locked /\ a = <<el.hash[1], el.kind>>
                   /\ \E h \in Hashes : h[1] = a[1] /\ a[2] \in r.hashes[h]
        BY <1>1, <1>4, <2>6, <2>8
    <2> QED
        BY <1>4, <2>6, <2>7, <2>8, <2>9 DEF r
<1> QED
    BY <1>2, <1>3, <1>4

\* What an element may change of the result of those before it, and what it
\* keeps.
Effect(acc, el, r) ==
    /\ r \in Result
    /\ \A h \in Hashes : r.stored[h] = acc.stored[h] \/ StoresFor(r, h[1])
    /\ \A a \in r.actions :
          \/ a \in acc.actions \/ a[2] = "delete"
          \/ /\ ~ el.locked /\ a = <<el.hash[1], el.kind>>
             /\ StoresFor(r, a[1]) \/ a[1] \in DataOf(stored) \cup url
             /\ \E h \in Hashes : h[1] = a[1] /\ a[2] \in r.hashes[h]
    /\ ~ el.locked => \A h \in Hashes : \A k \in Kinds : k \in acc.hashes[h] => k \in r.hashes[h]
    /\ el.locked /\ ~ el.delete => r.actions = acc.actions
    /\ el.locked /\ ~ el.delete /\ el.update # "yes" =>
          /\ r.hashes = acc.hashes
          /\ \A h \in Hashes : \/ r.stored[h] = acc.stored[h]
                               \/ r.stored[h] = "store" /\ h[1] = el.hash[1]
    /\ ~ el.readonly /\ ~ el.delete /\ el.update = "yes" /\ Lookup(el) # {} /\ editor # "keys"
          => StoresFor(r, el.hash[1])

LEMMA OneElement ==
    ASSUME MapperInv, Loaded, NEW i, NEW acc \in Result, NEW el \in Elements,
           ~ el.locked => el.kind \in Kinds /\ el.update = "hidden"
    PROVE  Effect(acc, el, TransformOne(i, acc, el))
PROOF
<1> USE DEF Effect
<1> DEFINE found == Lookup(el)
           u == Upgraded(acc, el, found)
           w == StoreToken(u, el, found)
           s == SendAction(w, el, found)
           r == TransformOne(i, acc, el)
           skipped == el.readonly \/ (editor = "keys" /\ i \notin el.for)
<1>1. CASE skipped
    <2>1. r = acc
        BY <1>1 DEF TransformOne
    <2> QED
        BY <1>1, <2>1
<1>2. CASE ~ skipped /\ el.delete /\ el.old = NoHash
    <2>1. r = [acc EXCEPT !.ok = FALSE]
        BY <1>2 DEF TransformOne
    <2> HIDE DEF r
    <2>2. r = [ok |-> FALSE, actions |-> acc.actions, stored |-> acc.stored, hashes |-> acc.hashes]
        BY <2>1 DEF Result
    <2>3. r \in Result
        BY <2>2 DEF Result
    <2> QED
        BY <1>2, <2>2, <2>3 DEF r
<1>3. CASE ~ skipped /\ el.delete /\ el.old # NoHash
    <2>1. r = [acc EXCEPT !.actions = @ \cup {<<el.old, "delete">>}]
        BY <1>3 DEF TransformOne
    <2> HIDE DEF r
    <2>2. r = [ok |-> acc.ok, actions |-> acc.actions \cup {<<el.old, "delete">>},
               stored |-> acc.stored, hashes |-> acc.hashes]
        BY <2>1 DEF Result
    <2>3. <<el.old, "delete">> \in Hashes \X {"delete"}
        BY <1>3 DEF Elements
    <2>4. r \in Result
        BY <2>2, <2>3 DEF Result
    <2> QED
        BY <1>3, <2>2, <2>4 DEF r
<1>4. CASE ~ skipped /\ ~ el.delete /\ el.update = "yes" /\ found = {}
    <2>1. r = [acc EXCEPT !.ok = FALSE]
        BY <1>4 DEF TransformOne
    <2> HIDE DEF r
    <2>2. r = [ok |-> FALSE, actions |-> acc.actions, stored |-> acc.stored, hashes |-> acc.hashes]
        BY <2>1 DEF Result
    <2>3. r \in Result
        BY <2>2 DEF Result
    <2> QED
        BY <1>4, <2>2, <2>3 DEF r
<1>5. CASE ~ skipped /\ ~ el.delete /\ ~ (el.update = "yes" /\ found = {})
    <2>1. r = s
        BY <1>5 DEF TransformOne
    <2>2. /\ u \in Result /\ u.actions = acc.actions
          /\ el.update # "yes" => u = acc
          /\ \A h \in Hashes : u.stored[h] = acc.stored[h] \/ h[1] = el.hash[1]
        BY <1>5, UpgradedResult
    <2> HIDE DEF u
    <2>3. /\ w \in Result
          /\ w.actions = u.actions /\ w.hashes = u.hashes
          /\ \A h \in Hashes : \/ w.stored[h] = u.stored[h]
                               \/ w.stored[h] = "store" /\ h[1] = el.hash[1]
          /\ found = {} \/ el.update = "yes" => StoresFor(w, el.hash[1])
        BY <2>2, StoredResult
    <2> HIDE DEF w
    <2>4. /\ s \in Result
          /\ s.stored = w.stored
          /\ el.locked => s = w
          /\ \A a \in s.actions :
                \/ a \in w.actions
                \/ /\ ~ el.locked /\ a = <<el.hash[1], el.kind>>
                   /\ \E h \in Hashes : h[1] = a[1] /\ a[2] \in s.hashes[h]
          /\ \A h \in Hashes : \A k \in Kinds : k \in w.hashes[h] => k \in s.hashes[h]
        BY <2>3, SentResult
    <2> HIDE DEF s, r
    <2>5. \A t : StoresFor(w, t) => StoresFor(r, t)
        BY <2>1, <2>4 DEF StoresFor
    <2>6. StoresFor(r, el.hash[1]) \/ el.hash[1] \in DataOf(stored) \cup url
        <3>1. CASE found = {}
            BY <2>3, <2>5, <3>1
        <3>2. CASE found # {}
            <4>1. EntryOK(el.hash, EntryOf(found))
                BY <3>2, LookupOK
            <4> QED
                BY <4>1 DEF EntryOK
        <3> QED
            BY <3>1, <3>2
    <2>7. ASSUME NEW h \in Hashes
          PROVE  r.stored[h] = acc.stored[h] \/ StoresFor(r, h[1])
        <3>1. r.stored[h] = w.stored[h]
            BY <2>1, <2>4
        <3>2. CASE el.update = "yes"
            BY <2>2, <2>3, <2>5, <3>1, <3>2
        <3>3. CASE el.update # "yes"
            <4>1. w.stored[h] = acc.stored[h] \/ w.stored[h] = "store"
                BY <2>2, <2>3, <3>3
            <4> QED
                BY <3>1, <4>1 DEF StoresFor
        <3> QED
            BY <3>2, <3>3
    <2>8. ASSUME NEW a \in r.actions, a \notin acc.actions
          PROVE  /\ ~ el.locked /\ a = <<el.hash[1], el.kind>>
                 /\ StoresFor(r, a[1]) \/ a[1] \in DataOf(stored) \cup url
                 /\ \E h \in Hashes : h[1] = a[1] /\ a[2] \in r.hashes[h]
        <3>1. /\ ~ el.locked /\ a = <<el.hash[1], el.kind>>
              /\ \E h \in Hashes : h[1] = a[1] /\ a[2] \in r.hashes[h]
            BY <2>1, <2>2, <2>3, <2>4, <2>8
        <3>2. a[1] = el.hash[1]
            BY <3>1
        <3> QED
            BY <2>6, <3>1, <3>2
    <2>9. ~ el.locked => \A h \in Hashes : \A k \in Kinds : k \in acc.hashes[h] => k \in r.hashes[h]
        <3> SUFFICES ASSUME ~ el.locked
                     PROVE  \A h \in Hashes : \A k \in Kinds : k \in acc.hashes[h] => k \in r.hashes[h]
            OBVIOUS
        <3>1. u = acc
            BY <2>2
        <3> QED
            BY <2>1, <2>3, <2>4, <3>1
    <2>10. el.locked => r.actions = acc.actions /\ r = w
        BY <2>1, <2>2, <2>3, <2>4
    <2>11. el.locked /\ el.update # "yes" =>
              /\ r.hashes = acc.hashes
              /\ \A h \in Hashes : \/ r.stored[h] = acc.stored[h]
                                   \/ r.stored[h] = "store" /\ h[1] = el.hash[1]
        BY <2>2, <2>3, <2>10
    <2>12. el.update = "yes" => StoresFor(r, el.hash[1])
        BY <2>3, <2>5
    <2>13. r \in Result
        BY <2>1, <2>4
    <2> QED
        BY <2>7, <2>8, <2>9, <2>10, <2>11, <2>12, <2>13 DEF r
<1> QED
    BY <1>1, <1>2, <1>3, <1>4, <1>5

LEMMA NothingYet ==
    /\ Nothing \in Result /\ Nothing.actions = {}
    /\ Nothing.stored = [h \in Hashes |-> "same"] /\ Nothing.hashes = [h \in Hashes |-> Absent]
PROOF
<1>1. [h \in Hashes |-> "same"] \in [Hashes -> {"same", "store", "drop"}]
    OBVIOUS
<1>2. [h \in Hashes |-> Absent] \in [Hashes -> Rights \cup {Absent, Null}]
    OBVIOUS
<1> QED
    BY <1>1, <1>2 DEF Nothing, Result

\* A token that is stored stays so to the end of the form.
LEMMA StoredStays ==
    ASSUME NEW acc, NEW r, \A h \in Hashes : r.stored[h] = acc.stored[h] \/ StoresFor(r, h[1]),
           NEW t, StoresFor(acc, t)
    PROVE  StoresFor(r, t)
PROOF
    BY DEF StoresFor

-----------------------------------------------------------------------------
(* What a form makes of the config and of the server.  Hashes are dropped  *)
(* only where another hash of the token is stored.  What is sent is good   *)
(* for a token the config knows, keeps or gets, and is filed: only new     *)
(* elements send actions, and those behind them move no hash that could    *)
(* take the place of what was filed.                                       *)

PartlyOK(m, acc) ==
    /\ acc \in Result
    /\ \A h \in Hashes : acc.stored[h] = "drop" => StoresFor(acc, h[1])
    /\ \A a \in acc.actions : a[2] # "delete" =>
          /\ StoresFor(acc, a[1]) \/ a[1] \in DataOf(stored) \cup url
          /\ \E h \in Hashes : h[1] = a[1] /\ a[2] \in acc.hashes[h]
          /\ \E l \in 1..m : ~ form[l].locked

LEMMA PartlyOKStep ==
    ASSUME MapperInv, FormInv, Loaded, NEW i, NEW m \in 0..(Len(form) - 1), NEW acc, PartlyOK(m, acc)
    PROVE  PartlyOK(m + 1, TransformOne(i, acc, form[m + 1]))
PROOF
<1> DEFINE el == form[m + 1]
           r == TransformOne(i, acc, el)
<1>1. m + 1 \in 1..Len(form) /\ m \in Nat /\ Len(form) \in Nat
    BY DEF FormInv
<1>2. el \in Elements /\ (~ el.locked => el.kind \in Kinds /\ el.update = "hidden") /\ acc \in Result
    BY <1>1 DEF FormInv, PartlyOK
<1>3. Effect(acc, el, r)
    BY <1>2, OneElement
<1> HIDE DEF r
<1>4. \A t : StoresFor(acc, t) => StoresFor(r, t)
    BY <1>3, StoredStays DEF Effect
<1>5. \A h \in Hashes : r.stored[h] = "drop" => StoresFor(r, h[1])
    BY <1>3, <1>4 DEF Effect, PartlyOK
<1>6. ASSUME NEW a \in r.actions, a[2] # "delete"
      PROVE  /\ StoresFor(r, a[1]) \/ a[1] \in DataOf(stored) \cup url
             /\ \E h \in Hashes : h[1] = a[1] /\ a[2] \in r.hashes[h]
             /\ \E l \in 1..(m + 1) : ~ form[l].locked
    <2>1. CASE a \in acc.actions
        <3>1. /\ StoresFor(acc, a[1]) \/ a[1] \in DataOf(stored) \cup url
              /\ \E h \in Hashes : h[1] = a[1] /\ a[2] \in acc.hashes[h]
              /\ \E l \in 1..m : ~ form[l].locked
            BY <1>6, <2>1 DEF PartlyOK
        <3>2. PICK l \in 1..m : ~ form[l].locked
            BY <3>1
        <3>3. l \in 1..Len(form) /\ l < m + 1 /\ l \in 1..(m + 1)
            BY <1>1
        <3>4. ~ el.locked
            BY <1>1, <3>2, <3>3 DEF FormInv
        <3>5. a[2] \in Kinds
            BY <1>2, <1>6, <2>1 DEF Result
        <3> QED
            BY <1>3, <1>4, <3>1, <3>2, <3>3, <3>4, <3>5 DEF Effect
    <2>2. CASE a \notin acc.actions
        <3>1. m + 1 \in 1..(m + 1)
            BY <1>1
        <3> QED
            BY <1>3, <1>6, <2>2, <3>1 DEF Effect
    <2> QED
        BY <2>1, <2>2
<1> QED
    BY <1>3, <1>5, <1>6 DEF Effect, PartlyOK, r

LEMMA TransformOK ==
    ASSUME MapperInv, FormInv, Loaded, NEW i
    PROVE  PartlyOK(Len(form), Transform(i))
PROOF
<1> DEFINE A == {p \in Nat \X Result : PartlyOK(p[1], p[2])}
<1>1. <<0, Nothing>> \in A
    BY NothingYet DEF PartlyOK
<1>2. ASSUME NEW m \in 0..(Len(form) - 1), NEW acc, <<m, acc>> \in A
      PROVE  <<m + 1, TransformOne(i, acc, form[m + 1])>> \in A
    <2>1. m \in Nat /\ m + 1 \in Nat
        BY DEF FormInv
    <2>2. PartlyOK(m, acc)
        BY <1>2
    <2>3. PartlyOK(m + 1, TransformOne(i, acc, form[m + 1]))
        BY <2>2, PartlyOKStep
    <2> QED
        BY <2>1, <2>3 DEF PartlyOK
<1>3. <<Len(form), Transform(i)>> \in A
    <2> HIDE DEF A
    <2>1. form \in Seq(Elements)
        BY DEF FormInv
    <2> QED
        BY <1>1, <1>2, <2>1, ElementByElement
<1> QED
    BY <1>3

-----------------------------------------------------------------------------
(* The form that is shown first.                                           *)

LEMMA FirstForm ==
    ASSUME NEW ms, DOMAIN ms = Items, \A i \in Items : \A n \in DOMAIN ms[i] : EntryOK(n, ms[i][n])
    PROVE  /\ InitialForm(ms) \in Seq(Elements)
           /\ \A n \in 1..Len(InitialForm(ms)) :
                 /\ InitialForm(ms)[n] \in ElementsOf(ms) /\ InitialForm(ms)[n].locked
                 /\ ~ InitialForm(ms)[n].delete
           /\ \A x \in ElementsOf(ms) : \E n \in 1..Len(InitialForm(ms)) : InitialForm(ms)[n] = x
PROOF
<1> DEFINE E == ElementsOf(ms)
           s == InitialForm(ms)
<1>1. ASSUME NEW x \in E
      PROVE  x \in Elements /\ x.locked /\ ~ x.delete
    <2> DEFINE Shown(i, n, a) ==
                   Element(n, ms[i][n].old, a[1], ms[i][n].update,
                           n[1] \in System \/ (a[2] /\ ~ OfCluster), TRUE,
                           {j \in DOMAIN ms : n \in DOMAIN ms[j] /\ ms[j][n].acts = ms[i][n].acts})
    <2>1. PICK i \in Items : x \in UNION {{Shown(i, n, a) : a \in ms[i][n].acts} : n \in DOMAIN ms[i]}
        BY DEF ElementsOf
    <2>2. PICK n \in DOMAIN ms[i] : x \in {Shown(i, n, a) : a \in ms[i][n].acts}
        BY <2>1
    <2>3. PICK a \in ms[i][n].acts : x = Shown(i, n, a)
        BY <2>2
    <2>4. EntryOK(n, ms[i][n])
        OBVIOUS
    <2>5. n \in Hashes /\ ms[i][n].old \in Hashes /\ ms[i][n].update \in Updates /\ a \in ActKinds \X BOOLEAN
        BY <2>4 DEF EntryOK
    <2>6. (n[1] \in System \/ (a[2] /\ ~ OfCluster)) \in BOOLEAN /\ a[1] \in ActKinds
        BY <2>5
    <2>7. {j \in DOMAIN ms : n \in DOMAIN ms[j] /\ ms[j][n].acts = ms[i][n].acts} \in SUBSET Items
        OBVIOUS
    <2> QED
        BY <2>3, <2>5, <2>6, <2>7 DEF Element, Elements
<1> HIDE DEF E
<1>2. IsFiniteSet(E)
    BY <1>1, FiniteElements, FS_Subset
<1>3. s \in Seq(E) /\ \A x \in E : \E n \in 1..Len(s) : s[n] = x
    BY <1>2, AllInSequence DEF InitialForm, E
<1> HIDE DEF s
<1>4. \A n \in 1..Len(s) : s[n] \in E
    BY <1>3
<1>5. s \in Seq(Elements)
    BY <1>1, <1>3
<1> QED
    BY <1>1, <1>3, <1>4, <1>5 DEF s, E

LEMMA FirstFormOK ==
    ASSUME NEW ms, DOMAIN ms = Items, \A i \in Items : \A n \in DOMAIN ms[i] : EntryOK(n, ms[i][n]),
           form' = InitialForm(ms), UNCHANGED editor
    PROVE  FormInv' /\ \A n \in 1..Len(form') : form'[n].hash \in Hashes /\ form'[n].for \subseteq Items
PROOF
<1>1. Elements' = Elements
    BY DEF Elements, Items, ActKinds, Updates
<1>2. /\ form' \in Seq(Elements)
      /\ \A n \in 1..Len(form') : form'[n].locked
    BY FirstForm
<1>3. \A n \in 1..Len(form') : form'[n] \in Elements
    BY <1>2
<1> QED
    BY <1>1, <1>2, <1>3 DEF FormInv, Elements

-----------------------------------------------------------------------------
(* The invariant stays.                                                    *)

LEMMA InvInit == Init => IInv
PROOF
<1> SUFFICES ASSUME Init PROVE IInv
    OBVIOUS
<1>1. LinkInv /\ url \subseteq Tokens
    BY TokenAssumption DEF Init, LinkInv
<1>2. ~ Loaded /\ form = <<>> /\ Len(form) = 0
    BY DEF Init, Loaded
<1>3. MapperInv
    BY <1>2 DEF MapperInv
<1>4. FormInv
    BY <1>2 DEF FormInv
<1>5. TypeOK
    <2>1. PICK old \in SUBSET Hashes, kinds \in [Tokens -> SUBSET (Kinds \ {"auth"})] :
            /\ stored = old
            /\ rights = [i \in AllItems |-> [h \in Hashes |->
                            IF i \notin Items \/ h \notin old THEN Absent
                            ELSE IF h[1] \in Certificates THEN {} ELSE kinds[h[1]]]]
            /\ server = {a \in Items \X {h \in Hashes : h[2] = "new"} \X Kinds :
                            a[2][1] \in Tokens /\ a[3] \in kinds[a[2][1]]}
        BY DEF Init
    <2>2. ASSUME NEW h \in Hashes
          PROVE  {} \in Rights /\ (h[1] \in Certificates \/ kinds[h[1]] \in Rights)
        <3>1. h[1] \in Tokens \/ h[1] \in Certificates
            BY DEF Hashes
        <3> QED
            BY <3>1 DEF Rights
    <2>3. rights \in [AllItems -> [Hashes -> Rights \cup {Absent}]]
        <3>1. \A i \in AllItems : \A h \in Hashes :
                (IF i \notin Items \/ h \notin old THEN Absent
                 ELSE IF h[1] \in Certificates THEN {} ELSE kinds[h[1]]) \in Rights \cup {Absent}
            BY <2>2
        <3> QED
            BY <2>1, <3>1
    <2>4. server \subseteq AllItems \X Hashes \X Kinds
        <3>1. Items \subseteq AllItems
            BY DEF Items, AllItems
        <3> QED
            BY <2>1, <3>1
    <2>5. DOMAIN mapper \in {{}, Items}
        BY DEF Init, Empty
    <2>6. edits \in 0..MaxEdits /\ rounds \in 0..MaxRounds
        BY BoundAssumption DEF Init
    <2>7. editor \in {"content", "cluster", "keys"} /\ stored \subseteq Hashes
        BY <2>1 DEF Init
    <2> QED
        BY <1>1, <1>2, <2>3, <2>4, <2>5, <2>6, <2>7 DEF TypeOK
<1> QED
    BY <1>1, <1>3, <1>4, <1>5 DEF IInv

LEMMA SameMapper ==
    ASSUME IInv, UNCHANGED <<editor, url, stored, mapper>>
    PROVE  LinkInv' /\ MapperInv'
PROOF
<1>1. LinkInv'
    BY DEF IInv, LinkInv
<1>2. Loaded' = Loaded /\ Items' = Items
    BY DEF Loaded, Items, Empty
<1>3. LinkShown' = LinkShown
    BY DEF LinkShown, DataOf
<1>4. Loaded => (\A i \in Items : \A n \in DOMAIN mapper[i] : EntryOK(n, mapper[i][n]))'
    <2> SUFFICES ASSUME Loaded PROVE (\A i \in Items : \A n \in DOMAIN mapper[i] : EntryOK(n, mapper[i][n]))'
        OBVIOUS
    <2>1. \A i \in Items : \A n \in DOMAIN mapper[i] : EntryOK(n, mapper[i][n])
        BY DEF IInv, MapperInv
    <2> QED
        BY <1>2, <2>1 DEF EntryOK, DataOf, OfCluster
<1>5. (Loaded => DOMAIN mapper = Items)' /\ (Loaded => LinkShown)'
    BY <1>2, <1>3 DEF IInv, MapperInv
<1> QED
    BY <1>1, <1>2, <1>4, <1>5 DEF MapperInv

LEMMA LoadStep ==
    ASSUME IInv, NEW first \in [url -> Algorithms], NEW last \in SUBSET url, NEW shown \in BOOLEAN,
           Load(first, last, shown)
    PROVE  IInv'
PROOF
<1> DEFINE ms == [i \in Items |-> GenerateMapper(i, first, last, shown)]
<1>1. /\ mapper' = ms /\ form' = InitialForm(mapper') /\ edits' = 0
      /\ UNCHANGED <<editor, url, stored, rights, server, sent, rounds>>
    BY DEF Load
<1>2. Items' = Items /\ LinkInv' /\ Items # {}
    BY <1>1 DEF IInv, LinkInv, Items
<1>3. \A i \in Items : \A n \in DOMAIN ms[i] : EntryOK(n, ms[i][n])
    BY MapperGenerated DEF IInv
<1>4. DOMAIN ms = Items /\ ms # Empty
    BY <1>2 DEF Empty
<1>5. editor # "keys" => \A t \in url \ DataOf(stored) :
        \E n \in DOMAIN ms["Item"] :
            n[1] = t /\ ms["Item"][n].update = "yes" /\ <<"other", FALSE>> \in ms["Item"][n].acts
    <2> SUFFICES ASSUME editor # "keys", NEW t \in url \ DataOf(stored)
                 PROVE  \E n \in DOMAIN ms["Item"] :
                    n[1] = t /\ ms["Item"][n].update = "yes" /\ <<"other", FALSE>> \in ms["Item"][n].acts
        OBVIOUS
    <2>1. "Item" \in Items
        BY DEF Items
    <2>2. \E n \in DOMAIN GenerateMapper("Item", first, last, shown) :
            /\ n[1] = t /\ GenerateMapper("Item", first, last, shown)[n].update = "yes"
            /\ <<"other", FALSE>> \in GenerateMapper("Item", first, last, shown)[n].acts
        BY <2>1, MapperGenerated DEF IInv
    <2> QED
        BY <2>1, <2>2
<1> HIDE DEF ms
<1>6. MapperInv'
    <2>1. LinkShown'
        BY <1>1, <1>5 DEF LinkShown, DataOf
    <2>2. (\A i \in Items : \A n \in DOMAIN mapper[i] : EntryOK(n, mapper[i][n]))'
        <3>1. \A i \in Items' : \A n \in DOMAIN mapper'[i] : EntryOK(n, ms[i][n]) /\ mapper'[i][n] = ms[i][n]
            BY <1>1, <1>2, <1>3
        <3> QED
            BY <1>1, <3>1 DEF EntryOK, DataOf, OfCluster
    <2>3. (DOMAIN mapper = Items)'
        BY <1>1, <1>2, <1>4
    <2> QED
        BY <2>1, <2>2, <2>3 DEF MapperInv
<1>7. FormInv' /\ \A n \in 1..Len(form') : form'[n].hash \in Hashes /\ form'[n].for \subseteq Items
    BY <1>1, <1>3, <1>4, FirstFormOK
<1>8. TypeOK'
    BY <1>1, <1>2, <1>4, <1>7, BoundAssumption DEF IInv, TypeOK
<1> QED
    BY <1>2, <1>6, <1>7, <1>8 DEF IInv

\* A changed form whose elements are elements, the new ones last.
LEMMA EditStep ==
    ASSUME IInv, NEW changed, Edit(changed), changed \in Seq(Elements),
           \A n \in 1..Len(changed) :
               ~ changed[n].locked => changed[n].kind \in Kinds /\ changed[n].update = "hidden",
           \A m, n \in 1..Len(changed) : m < n /\ changed[n].locked => changed[m].locked
    PROVE  IInv'
PROOF
<1>1. /\ form' = changed /\ edits' = edits + 1 /\ edits < MaxEdits
      /\ UNCHANGED <<editor, url, stored, rights, server, mapper, sent, rounds>>
    BY DEF Edit
<1>2. LinkInv' /\ MapperInv'
    BY <1>1, SameMapper
<1>3. Items' = Items /\ Elements' = Elements
    BY <1>1 DEF Items, Elements, ActKinds, Updates
<1>4. FormInv'
    BY <1>1, <1>3 DEF FormInv
<1>5. \A n \in 1..Len(changed) : changed[n] \in Elements
    OBVIOUS
<1>6. edits' \in 0..MaxEdits
    BY <1>1, BoundAssumption DEF IInv, TypeOK
<1>7. TypeOK'
    BY <1>1, <1>3, <1>5, <1>6 DEF IInv, TypeOK, Elements
<1> QED
    BY <1>2, <1>4, <1>7 DEF IInv

\* A change of fields, element by element.
LEMMA ChangeStep ==
    ASSUME IInv, NEW changed, Edit(changed), DOMAIN changed = 1..Len(form),
           changed = [n \in 1..Len(form) |-> changed[n]],
           \A n \in 1..Len(form) :
               /\ changed[n] \in Elements
               /\ changed[n].locked = form[n].locked /\ changed[n].kind = form[n].kind
               /\ form[n].update = "hidden" => changed[n].update = "hidden"
    PROVE  IInv'
PROOF
<1>1. FormInv /\ Len(form) \in Nat
    BY DEF IInv, FormInv
<1>2. changed \in Seq(Elements) /\ Len(changed) = Len(form)
    BY <1>1
<1>3. \A n \in 1..Len(changed) :
        ~ changed[n].locked => changed[n].kind \in Kinds /\ changed[n].update = "hidden"
    BY <1>1, <1>2 DEF FormInv
<1>4. \A m, n \in 1..Len(changed) : m < n /\ changed[n].locked => changed[m].locked
    BY <1>1, <1>2 DEF FormInv
<1> QED
    BY <1>2, <1>3, <1>4, EditStep

LEMMA AddStep ==
    ASSUME IInv, NEW t \in Tokens, NEW k \in Kinds, NEW i \in Items, Add(t, k, i)
    PROVE  IInv'
PROOF
<1> DEFINE el == Element(NewHash(t), NoHash, k, "hidden", FALSE, FALSE,
                         IF editor = "keys" THEN {i} ELSE {})
           changed == Append(form, el)
<1>1. Edit(changed)
    BY DEF Add
<1>2. el \in Elements /\ ~ el.locked /\ el.kind = k /\ el.update = "hidden"
    BY DEF Element, Elements, NewHash, Hashes, Algorithms, ActKinds, Updates
<1> HIDE DEF el
<1>3. form \in Seq(Elements) /\ Len(form) \in Nat
    BY DEF IInv, FormInv
<1>4. /\ changed \in Seq(Elements) /\ Len(changed) = Len(form) + 1
      /\ changed[Len(form) + 1] = el
      /\ \A n \in 1..Len(form) : changed[n] = form[n]
    BY <1>2, <1>3
<1> HIDE DEF changed
<1>5. \A n \in 1..Len(changed) :
        ~ changed[n].locked => changed[n].kind \in Kinds /\ changed[n].update = "hidden"
    <2> SUFFICES ASSUME NEW n \in 1..Len(changed), ~ changed[n].locked
                 PROVE  changed[n].kind \in Kinds /\ changed[n].update = "hidden"
        OBVIOUS
    <2>1. n \in 1..Len(form) \/ n = Len(form) + 1
        BY <1>3, <1>4
    <2> QED
        BY <1>2, <1>4, <2>1 DEF IInv, FormInv
<1>6. \A m, n \in 1..Len(changed) : m < n /\ changed[n].locked => changed[m].locked
    <2> SUFFICES ASSUME NEW m \in 1..Len(changed), NEW n \in 1..Len(changed), m < n, changed[n].locked
                 PROVE  changed[m].locked
        OBVIOUS
    <2>1. n # Len(form) + 1
        BY <1>2, <1>4
    <2>2. n \in 1..Len(form) /\ m \in 1..Len(form)
        BY <1>3, <1>4, <2>1
    <2> QED
        BY <1>4, <2>2 DEF IInv, FormInv
<1> QED
    BY <1>1, <1>4, <1>5, <1>6, EditStep

LEMMA RowStep ==
    ASSUME IInv, NEW n \in 1..Len(form), Renote(n) \/ Delete(n) \/ Toggle(n)
    PROVE  IInv'
PROOF
<1>1. /\ form \in Seq(Elements) /\ DOMAIN form = 1..Len(form)
      /\ \A m \in 1..Len(form) : form[m] \in Elements
    BY DEF IInv, FormInv
<1> DEFINE upd == IF form[n].update = "yes" THEN "no" ELSE "yes"
<1>2. PICK changed :
        /\ Edit(changed)
        /\ \/ changed = [form EXCEPT ![n] = [form[n] EXCEPT !.renoted = TRUE]]
           \/ changed = [form EXCEPT ![n] = [form[n] EXCEPT !.delete = TRUE]]
           \/ form[n].update # "hidden" /\ changed = [form EXCEPT ![n] = [form[n] EXCEPT !.update = upd]]
    BY DEF Renote, Delete, Toggle
<1>3. upd \in Updates
    BY DEF Updates
<1> HIDE DEF upd
<1>4. PICK e : /\ changed = [form EXCEPT ![n] = e] /\ e \in Elements
               /\ e.locked = form[n].locked /\ e.kind = form[n].kind
               /\ form[n].update = "hidden" => e.update = "hidden"
    <2>1. form[n] \in Elements
        BY <1>1
    <2> DEFINE e1 == [form[n] EXCEPT !.renoted = TRUE]
               e2 == [form[n] EXCEPT !.delete = TRUE]
               e3 == [form[n] EXCEPT !.update = upd]
    <2>2. e1 \in Elements /\ e1.locked = form[n].locked /\ e1.kind = form[n].kind /\ e1.update = form[n].update
        BY <2>1 DEF Elements
    <2>3. e2 \in Elements /\ e2.locked = form[n].locked /\ e2.kind = form[n].kind /\ e2.update = form[n].update
        BY <2>1 DEF Elements
    <2>4. e3 \in Elements /\ e3.locked = form[n].locked /\ e3.kind = form[n].kind
        BY <1>3, <2>1 DEF Elements
    <2>5. \/ changed = [form EXCEPT ![n] = e1]
          \/ changed = [form EXCEPT ![n] = e2]
          \/ form[n].update # "hidden" /\ changed = [form EXCEPT ![n] = e3]
        BY <1>2
    <2> HIDE DEF e1, e2, e3
    <2> QED
        BY <2>2, <2>3, <2>4, <2>5
<1>5. /\ DOMAIN changed = 1..Len(form) /\ changed = [m \in 1..Len(form) |-> changed[m]]
      /\ changed[n] = e /\ \A m \in 1..Len(form) : m # n => changed[m] = form[m]
    BY <1>1, <1>4
<1>6. \A m \in 1..Len(form) :
        /\ changed[m] \in Elements
        /\ changed[m].locked = form[m].locked /\ changed[m].kind = form[m].kind
        /\ form[m].update = "hidden" => changed[m].update = "hidden"
    BY <1>1, <1>4, <1>5
<1> QED
    BY <1>2, <1>5, <1>6, ChangeStep

LEMMA AcceptAllStep ==
    ASSUME IInv, AcceptAll
    PROVE  IInv'
PROOF
<1> DEFINE changed == [n \in 1..Len(form) |->
              IF form[n].update = "hidden" THEN form[n] ELSE [form[n] EXCEPT !.update = "yes"]]
<1>1. Edit(changed)
    BY DEF AcceptAll
<1>2. \A n \in 1..Len(form) : form[n] \in Elements
    BY DEF IInv, FormInv
<1>3. ASSUME NEW n \in 1..Len(form)
      PROVE  /\ changed[n] \in Elements
             /\ changed[n].locked = form[n].locked /\ changed[n].kind = form[n].kind
             /\ form[n].update = "hidden" => changed[n].update = "hidden"
    <2>1. CASE form[n].update = "hidden"
        BY <1>2, <2>1
    <2>2. CASE form[n].update # "hidden"
        BY <1>2, <2>2 DEF Elements, Updates
    <2> QED
        BY <2>1, <2>2
<1>4. DOMAIN changed = 1..Len(form) /\ changed = [n \in 1..Len(form) |-> changed[n]]
    OBVIOUS
<1> HIDE DEF changed
<1> QED
    BY <1>1, <1>3, <1>4, ChangeStep

LEMMA ResetStep ==
    ASSUME IInv, Reset
    PROVE  IInv'
PROOF
<1>1. Edit(InitialForm(mapper))
    BY DEF Reset
<1>2. Loaded /\ DOMAIN mapper = Items /\ \A i \in Items : \A n \in DOMAIN mapper[i] : EntryOK(n, mapper[i][n])
    BY <1>1 DEF Edit, IInv, MapperInv
<1>3. /\ InitialForm(mapper) \in Seq(Elements)
      /\ \A n \in 1..Len(InitialForm(mapper)) : InitialForm(mapper)[n].locked
    BY <1>2, FirstForm
<1> QED
    BY <1>1, <1>3, EditStep

\* The results of a submit.
Results == [i \in Items |-> Transform(i)]

LEMMA SubmitResults ==
    ASSUME IInv, Submit
    PROVE  /\ \A i \in Items : PartlyOK(Len(form), Results[i]) /\ Results[i] \in Result
           /\ DOMAIN Results = Items
           /\ server' = ServerApply(Results)
           /\ stored' = MergeStored(Results)
           /\ rights' = [i \in AllItems |-> IF editor # "keys" /\ i \in Items
                          THEN MergeRights(rights[i], Results[i].hashes) ELSE rights[i]]
           /\ sent' = [i \in Items |-> Results[i].actions]
           /\ Loaded /\ rounds < MaxRounds /\ rounds' = rounds + 1
           /\ mapper' = Empty /\ form' = <<>> /\ edits' = 0 /\ UNCHANGED <<editor, url>>
PROOF
<1>1. Loaded
    BY DEF Submit
<1>2. \A i \in Items : PartlyOK(Len(form), Transform(i))
    BY <1>1, TransformOK DEF IInv
<1>3. \A i \in Items : PartlyOK(Len(form), Results[i]) /\ Results[i] \in Result
    BY <1>2 DEF Results, PartlyOK
<1> QED
    BY <1>3, Zenon DEF Submit, Results

LEMMA SubmitStep ==
    ASSUME IInv, Submit
    PROVE  IInv'
PROOF
<1>1. /\ \A i \in Items : Results[i] \in Result
      /\ server' = ServerApply(Results)
      /\ stored' = MergeStored(Results)
      /\ rights' = [i \in AllItems |-> IF editor # "keys" /\ i \in Items
                          THEN MergeRights(rights[i], Results[i].hashes) ELSE rights[i]]
      /\ rounds < MaxRounds /\ rounds' = rounds + 1
      /\ mapper' = Empty /\ form' = <<>> /\ edits' = 0 /\ UNCHANGED <<editor, url>>
    BY SubmitResults
<1>2. TypeOK
    BY DEF IInv
<1>3. LinkInv' /\ Items' = Items
    BY <1>1 DEF IInv, LinkInv, Items
<1>4. ~ Loaded' /\ Len(form') = 0
    BY <1>1 DEF Loaded, Empty
<1>5. MapperInv'
    BY <1>4 DEF MapperInv
<1>6. FormInv'
    BY <1>1, <1>4 DEF FormInv
<1>7. stored' \subseteq Hashes
    BY <1>1 DEF MergeStored
<1>8. ASSUME NEW i \in Items, NEW old \in [Hashes -> Rights \cup {Absent}]
      PROVE  MergeRights(old, Results[i].hashes) \in [Hashes -> Rights \cup {Absent}]
    <2>1. Results[i].hashes \in [Hashes -> Rights \cup {Absent, Null}]
        BY <1>1 DEF Result
    <2> QED
        BY <2>1 DEF MergeRights
<1>9. rights' \in [AllItems -> [Hashes -> Rights \cup {Absent}]]
    <2>1. \A i \in AllItems : rights[i] \in [Hashes -> Rights \cup {Absent}]
        BY <1>2 DEF TypeOK
    <2> QED
        BY <1>1, <1>8, <2>1
<1>10. server' \subseteq AllItems \X Hashes \X Kinds
    <2>1. ASSUME NEW i \in Items, NEW a \in Results[i].actions, a[2] # "delete"
          PROVE  <<i, NewHash(a[1]), a[2]>> \in AllItems \X Hashes \X Kinds
        <3>1. a \in Data \X Kinds
            BY <1>1, <2>1 DEF Result
        <3>2. i \in AllItems
            BY DEF Items, AllItems
        <3> QED
            BY <3>1, <3>2 DEF NewHash, Hashes, Algorithms, Data
    <2>2. ASSUME NEW b \in server'
          PROVE  b \in server \/ \E i \in Items : \E a \in Results[i].actions :
                                    a[2] # "delete" /\ b = <<i, NewHash(a[1]), a[2]>>
        BY <1>1, <2>2 DEF ServerApply
    <2> QED
        BY <1>2, <2>1, <2>2 DEF TypeOK
<1>11. rounds' \in 0..MaxRounds /\ edits' \in 0..MaxEdits
    BY <1>1, <1>2, BoundAssumption DEF TypeOK
<1>12. DOMAIN mapper' \in {{}, Items'}
    BY <1>1 DEF Empty
<1>13. TypeOK'
    BY <1>1, <1>2, <1>4, <1>7, <1>9, <1>10, <1>11, <1>12 DEF TypeOK
<1> QED
    BY <1>3, <1>5, <1>6, <1>13 DEF IInv

LEMMA SameFormStep ==
    ASSUME IInv, UNCHANGED <<editor, url, stored, rights, mapper, form, edits>>,
           rounds' \in 0..MaxRounds, server' \subseteq AllItems \X Hashes \X Kinds
    PROVE  IInv'
PROOF
<1>1. LinkInv' /\ MapperInv'
    BY SameMapper
<1>2. Items' = Items /\ Elements' = Elements
    BY DEF Items, Elements, ActKinds, Updates
<1>3. FormInv' /\ TypeOK'
    BY <1>2 DEF IInv, FormInv, TypeOK
<1> QED
    BY <1>1, <1>3 DEF IInv

LEMMA ShareStep ==
    ASSUME IInv, NEW t \in Tokens, NEW ks \in SUBSET Kinds, ShareActions(t, ks)
    PROVE  IInv'
PROOF
<1>1. /\ rounds < MaxRounds /\ rounds' = rounds + 1
      /\ server' = server \cup {<<"Item", NewHash(t), k>> : k \in ks}
      /\ UNCHANGED <<editor, url, stored, rights, mapper, form, edits, sent>>
    BY DEF ShareActions
<1>2. rounds' \in 0..MaxRounds
    BY <1>1, BoundAssumption DEF IInv, TypeOK
<1>3. \A k \in ks : <<"Item", NewHash(t), k>> \in AllItems \X Hashes \X Kinds
    BY DEF AllItems, NewHash, Hashes, Algorithms
<1>4. server' \subseteq AllItems \X Hashes \X Kinds
    BY <1>1, <1>3 DEF IInv, TypeOK
<1> QED
    BY <1>1, <1>2, <1>4, SameFormStep

\* Which action a step is of.
LEMMA NextActions ==
    ASSUME Next
    PROVE  \/ \E first \in [url -> Algorithms], last \in SUBSET url, shown \in BOOLEAN :
                 Load(first, last, shown)
           \/ \E changed : Edit(changed)
           \/ Submit
           \/ \E t \in Tokens, ks \in SUBSET Kinds : ShareActions(t, ks)
PROOF
<1>1. ASSUME NEW t \in Tokens, NEW k \in Shareable, ShareNew(t, k)
      PROVE  \E ks \in SUBSET Kinds : ShareActions(t, ks)
    BY <1>1 DEF ShareNew, Shareable
<1>2. ASSUME NEW t \in Tokens, NEW ks \in SUBSET (Shareable \cap {"view", "update"}), ShareAuth(t, ks)
      PROVE  \E s \in SUBSET Kinds : ShareActions(t, s)
    BY <1>2 DEF ShareAuth, Shareable
<1>3. ASSUME NEW t, NEW k, NEW i, Add(t, k, i) PROVE \E changed : Edit(changed)
    BY <1>3 DEF Add
<1>4. ASSUME NEW n, Renote(n) \/ Delete(n) \/ Toggle(n) PROVE \E changed : Edit(changed)
    BY <1>4 DEF Renote, Delete, Toggle
<1>5. ASSUME AcceptAll \/ Reset PROVE \E changed : Edit(changed)
    BY <1>5 DEF AcceptAll, Reset
<1> QED
    BY <1>1, <1>2, <1>3, <1>4, <1>5 DEF Next

LEMMA InvStep == IInv /\ [Next]_vars => IInv'
PROOF
<1> SUFFICES ASSUME IInv, [Next]_vars PROVE IInv'
    OBVIOUS
<1>1. CASE UNCHANGED vars
    BY <1>1, SameFormStep DEF vars, IInv, TypeOK
<1>2. CASE \E first \in [url -> Algorithms], last \in SUBSET url, shown \in BOOLEAN :
              Load(first, last, shown)
    BY <1>2, LoadStep
<1>3. CASE \E t \in Tokens, k \in Kinds, i \in Items : Add(t, k, i)
    BY <1>3, AddStep
<1>4. CASE \E n \in 1..Len(form) : Renote(n) \/ Delete(n) \/ Toggle(n)
    BY <1>4, RowStep
<1>5. CASE AcceptAll
    BY <1>5, AcceptAllStep
<1>6. CASE Reset
    BY <1>6, ResetStep
<1>7. CASE Submit
    BY <1>7, SubmitStep
<1>8. CASE \E t \in Tokens, k \in Shareable : ShareNew(t, k)
    <2>1. PICK t \in Tokens, k \in Shareable : ShareActions(t, {k})
        BY <1>8 DEF ShareNew
    <2>2. {k} \in SUBSET Kinds
        BY DEF Shareable
    <2> QED
        BY <2>1, <2>2, ShareStep
<1>9. CASE \E t \in Tokens, ks \in SUBSET (Shareable \cap {"view", "update"}) : ShareAuth(t, ks)
    <2>1. PICK t \in Tokens, ks \in SUBSET (Shareable \cap {"view", "update"}) : ShareActions(t, ks)
        BY <1>9 DEF ShareAuth
    <2>2. ks \in SUBSET Kinds
        BY DEF Shareable
    <2> QED
        BY <2>1, <2>2, ShareStep
<1> QED
    BY <1>1, <1>2, <1>3, <1>4, <1>5, <1>6, <1>7, <1>8, <1>9 DEF Next

LEMMA Invariance == Spec => []IInv
PROOF
    BY InvInit, InvStep, PTL DEF Spec

-----------------------------------------------------------------------------
(* The theorems.                                                           *)

\* The type invariant, of what Named, mapperToArray and transformActions make
\* too.
THEOREM TypeCorrect == Spec => []TypeOK
PROOF
<1>1. IInv => TypeOK
    BY DEF IInv
<1> QED
    BY <1>1, Invariance, PTL

LEMMA SubmitKeepsTokens ==
    ASSUME IInv, Submit
    PROVE  /\ DataOf(stored) \subseteq DataOf(stored')
           /\ \A i \in Items : \A t : StoresFor(Results[i], t) => t \in DataOf(stored')
PROOF
<1>1. /\ \A i \in Items : PartlyOK(Len(form), Results[i])
      /\ DOMAIN Results = Items /\ stored' = MergeStored(Results)
    BY SubmitResults
<1>2. ASSUME NEW i \in Items, NEW t, StoresFor(Results[i], t)
      PROVE  t \in DataOf(stored')
    <2>1. PICK h \in Hashes : h[1] = t /\ Results[i].stored[h] = "store"
        BY <1>2 DEF StoresFor
    <2>2. h \in stored'
        BY <1>1, <2>1 DEF MergeStored
    <2> QED
        BY <2>1, <2>2 DEF DataOf
<1>3. ASSUME NEW h \in stored
      PROVE  h[1] \in DataOf(stored')
    <2>1. h \in Hashes
        BY DEF IInv, TypeOK
    <2>2. CASE \A i \in Items : Results[i].stored[h] # "drop"
        <3>1. h \in stored'
            BY <1>1, <2>1, <2>2 DEF MergeStored
        <3> QED
            BY <3>1 DEF DataOf
    <2>3. CASE \E i \in Items : Results[i].stored[h] = "drop"
        <3>1. PICK i \in Items : Results[i].stored[h] = "drop"
            BY <2>3
        <3>2. StoresFor(Results[i], h[1])
            BY <1>1, <2>1, <3>1 DEF PartlyOK
        <3> QED
            BY <1>2, <3>2
    <2> QED
        BY <2>2, <2>3
<1> QED
    BY <1>2, <1>3 DEF DataOf

\* No submit, whatever moves and whatever is deleted, makes the config forget
\* the data of a token or key: updateConfig drops a hash only beside another
\* one of the same token.
THEOREM TokensAreKept == Spec => TokensStay
PROOF
<1>1. IInv /\ [Next]_vars => [DataOf(stored) \subseteq DataOf(stored')]_vars
    <2> SUFFICES ASSUME IInv, Next PROVE DataOf(stored) \subseteq DataOf(stored')
        BY DEF vars
    <2>1. CASE Submit
        BY <2>1, SubmitKeepsTokens
    <2>2. CASE UNCHANGED stored
        BY <2>2
    <2>3. Submit \/ UNCHANGED stored
        BY NextActions DEF Load, Edit, ShareActions
    <2> QED
        BY <2>1, <2>2, <2>3
<1> QED
    BY <1>1, Invariance, PTL DEF Spec, TokensStay

LEMMA SubmitFiles ==
    ASSUME IInv, Submit
    PROVE  SentFiled'
PROOF
<1>1. /\ \A i \in Items : PartlyOK(Len(form), Results[i]) /\ Results[i] \in Result
      /\ stored' = MergeStored(Results)
      /\ rights' = [i \in AllItems |-> IF editor # "keys" /\ i \in Items
                          THEN MergeRights(rights[i], Results[i].hashes) ELSE rights[i]]
      /\ sent' = [i \in Items |-> Results[i].actions] /\ UNCHANGED <<editor, url>>
    BY SubmitResults
<1> SUFFICES ASSUME NEW i \in Items, NEW a \in Results[i].actions, a[2] # "delete"
             PROVE  /\ a[1] \in DataOf(stored') \cup url
                    /\ editor # "keys" => \E h \in Hashes : h[1] = a[1] /\ rights'[i][h] # Absent
                                                           /\ a[2] \in rights'[i][h]
    BY <1>1 DEF SentFiled, DataOf
<1>2. /\ StoresFor(Results[i], a[1]) \/ a[1] \in DataOf(stored) \cup url
      /\ \E h \in Hashes : h[1] = a[1] /\ a[2] \in Results[i].hashes[h]
    BY <1>1 DEF PartlyOK
<1>3. a[1] \in DataOf(stored') \cup url
    BY <1>2, SubmitKeepsTokens
<1>4. a[2] \in Kinds
    BY <1>1 DEF Result
<1>5. PICK h \in Hashes : h[1] = a[1] /\ a[2] \in Results[i].hashes[h]
    BY <1>2
<1>6. Results[i].hashes[h] # Absent /\ Results[i].hashes[h] # Null
    BY <1>4, <1>5, KindAssumption DEF Absent, Null
<1>7. ASSUME editor # "keys"
      PROVE  rights'[i][h] # Absent /\ a[2] \in rights'[i][h]
    <2>1. i \in AllItems
        BY DEF Items, AllItems
    <2>2. rights'[i][h] = Results[i].hashes[h]
        BY <1>1, <1>6, <1>7, <2>1 DEF MergeRights
    <2> QED
        BY <1>5, <1>6, <2>2
<1> QED
    BY <1>3, <1>5, <1>7

\* What the last submit made the server accept is known to the config, its
\* token and its kind, for every editor and every form.
THEOREM SentIsFiled == Spec => []SentFiled
PROOF
<1>1. Init => SentFiled
    BY DEF Init, SentFiled, Empty
<1>2. IInv /\ SentFiled /\ [Next]_vars => SentFiled'
    <2> SUFFICES ASSUME IInv, SentFiled, [Next]_vars PROVE SentFiled'
        OBVIOUS
    <2>1. CASE Submit
        BY <2>1, SubmitFiles
    <2>2. CASE UNCHANGED <<sent, stored, url, editor, rights>>
        BY <2>2 DEF SentFiled, DataOf
    <2>3. Submit \/ UNCHANGED <<sent, stored, url, editor, rights>>
        BY NextActions DEF Load, Edit, ShareActions, vars
    <2> QED
        BY <2>1, <2>2, <2>3
<1> QED
    BY <1>1, <1>2, Invariance, PTL DEF Spec

-----------------------------------------------------------------------------
(* A form nobody touched.                                                  *)

\* Its elements are those of the mapper.
LEMMA UntouchedElements ==
    ASSUME IInv, Loaded, form = InitialForm(mapper), NEW n \in 1..Len(form)
    PROVE  /\ form[n] \in Elements /\ form[n].locked /\ ~ form[n].delete
           /\ form[n].hash[1] \in DataOf(stored) \cup url
           /\ url = {} => form[n].update # "yes"
PROOF
<1>1. DOMAIN mapper = Items /\ \A i \in Items : \A h \in DOMAIN mapper[i] : EntryOK(h, mapper[i][h])
    BY DEF IInv, MapperInv
<1>2. form[n] \in ElementsOf(mapper) /\ form[n].locked /\ ~ form[n].delete
    BY <1>1, FirstForm
<1> DEFINE Row(i, h, a) ==
               Element(h, mapper[i][h].old, a[1], mapper[i][h].update,
                       h[1] \in System \/ (a[2] /\ ~ OfCluster), TRUE,
                       {j \in DOMAIN mapper : h \in DOMAIN mapper[j] /\ mapper[j][h].acts = mapper[i][h].acts})
<1>3. PICK i \in Items : form[n] \in UNION {{Row(i, h, a) : a \in mapper[i][h].acts} : h \in DOMAIN mapper[i]}
    BY <1>1, <1>2 DEF ElementsOf
<1>4. PICK h \in DOMAIN mapper[i] : form[n] \in {Row(i, h, a) : a \in mapper[i][h].acts}
    BY <1>3
<1>5. form[n].hash = h /\ form[n].update = mapper[i][h].update
    BY <1>4 DEF Element
<1>6. EntryOK(h, mapper[i][h])
    BY <1>1
<1>7. form[n] \in Elements
    BY DEF IInv, FormInv
<1> QED
    BY <1>2, <1>5, <1>6, <1>7 DEF EntryOK

\* Nothing is sent, and without a link nothing is filed under another hash or
\* dropped.
UntouchedOK(acc) ==
    /\ acc \in Result /\ acc.actions = {}
    /\ url = {} => /\ acc.hashes = [h \in Hashes |-> Absent]
                   /\ \A h \in Hashes : \/ acc.stored[h] = "same"
                                        \/ acc.stored[h] = "store" /\ h[1] \in DataOf(stored)

LEMMA UntouchedTransform ==
    ASSUME IInv, Loaded, form = InitialForm(mapper), NEW i
    PROVE  UntouchedOK(Transform(i))
PROOF
<1> DEFINE A == {p \in Nat \X Result : UntouchedOK(p[2])}
<1>1. <<0, Nothing>> \in A
    BY NothingYet DEF UntouchedOK
<1>2. ASSUME NEW m \in 0..(Len(form) - 1), NEW acc, <<m, acc>> \in A
      PROVE  <<m + 1, TransformOne(i, acc, form[m + 1])>> \in A
    <2> DEFINE el == form[m + 1]
               r == TransformOne(i, acc, el)
    <2>1. m + 1 \in Nat /\ m + 1 \in 1..Len(form)
        BY DEF IInv, FormInv
    <2>2. /\ el \in Elements /\ el.locked /\ ~ el.delete
          /\ el.hash[1] \in DataOf(stored) \cup url
          /\ url = {} => el.update # "yes"
        BY <2>1, UntouchedElements
    <2>3. UntouchedOK(acc) /\ acc \in Result
        BY <1>2
    <2> HIDE DEF el
    <2>4. /\ r \in Result /\ r.actions = acc.actions
          /\ el.update # "yes" =>
                /\ r.hashes = acc.hashes
                /\ \A h \in Hashes : \/ r.stored[h] = acc.stored[h]
                                     \/ r.stored[h] = "store" /\ h[1] = el.hash[1]
        <3>1. MapperInv /\ (~ el.locked => el.kind \in Kinds /\ el.update = "hidden")
            BY <2>2 DEF IInv
        <3>2. Effect(acc, el, r)
            BY <2>2, <2>3, <3>1, OneElement
        <3> HIDE DEF r
        <3> QED
            BY <2>2, <3>2 DEF Effect
    <2> HIDE DEF r
    <2>5. UntouchedOK(r)
        BY <2>2, <2>3, <2>4 DEF UntouchedOK
    <2> QED
        BY <2>1, <2>4, <2>5 DEF r, el
<1>3. <<Len(form), Transform(i)>> \in A
    <2> HIDE DEF A
    <2>1. form \in Seq(Elements)
        BY DEF IInv, FormInv
    <2> QED
        BY <1>1, <1>2, <2>1, ElementByElement
<1> QED
    BY <1>3

\* The element of a token of the link that the config does not know.
LEMMA LinkElement ==
    ASSUME IInv, Loaded, form = InitialForm(mapper), editor # "keys", NEW t \in url \ DataOf(stored)
    PROVE  \E n \in 1..Len(form) :
              /\ form[n] \in Elements /\ form[n].locked /\ ~ form[n].readonly /\ ~ form[n].delete
              /\ form[n].update = "yes" /\ Lookup(form[n]) # {} /\ form[n].hash[1] = t
PROOF
<1>1. /\ DOMAIN mapper = Items /\ \A i \in Items : \A h \in DOMAIN mapper[i] : EntryOK(h, mapper[i][h])
      /\ LinkShown
    BY DEF IInv, MapperInv
<1>2. PICK h \in DOMAIN mapper["Item"] :
        /\ h[1] = t /\ mapper["Item"][h].update = "yes"
        /\ <<"other", FALSE>> \in mapper["Item"][h].acts
    BY <1>1 DEF LinkShown
<1> DEFINE a == <<"other", FALSE>>
           x == Element(h, mapper["Item"][h].old, a[1], mapper["Item"][h].update,
                        h[1] \in System \/ (a[2] /\ ~ OfCluster), TRUE,
                        {j \in DOMAIN mapper : h \in DOMAIN mapper[j]
                                               /\ mapper[j][h].acts = mapper["Item"][h].acts})
<1>3. "Item" \in DOMAIN mapper
    BY <1>1 DEF Items
<1>4. x \in ElementsOf(mapper)
    <2> DEFINE Row(i, g, b) ==
                   Element(g, mapper[i][g].old, b[1], mapper[i][g].update,
                           g[1] \in System \/ (b[2] /\ ~ OfCluster), TRUE,
                           {j \in DOMAIN mapper : g \in DOMAIN mapper[j] /\ mapper[j][g].acts = mapper[i][g].acts})
               Rows(i, g) == {Row(i, g, b) : b \in mapper[i][g].acts}
    <2>1. x = Row("Item", h, a)
        OBVIOUS
    <2>2. ElementsOf(mapper) = UNION {UNION {Rows(i, g) : g \in DOMAIN mapper[i]} : i \in DOMAIN mapper}
        BY DEF ElementsOf
    <2> HIDE DEF x, Row
    <2>3. x \in Rows("Item", h)
        BY <1>2, <2>1
    <2> HIDE DEF Rows
    <2>4. x \in UNION {Rows("Item", g) : g \in DOMAIN mapper["Item"]}
        BY <2>3
    <2> QED
        BY <1>3, <2>2, <2>4
<1>5. t \notin System
    BY DEF IInv, LinkInv
<1>6. x.hash = h /\ x.update = "yes" /\ ~ x.readonly /\ ~ x.delete /\ x.locked
    BY <1>2, <1>5 DEF Element
<1> HIDE DEF x
<1>7. PICK n \in 1..Len(form) : form[n] = x
    BY <1>1, <1>4, FirstForm
<1>8. x \in Elements
    BY <1>7 DEF IInv, FormInv
<1>9. Lookup(x) # {}
    BY <1>2, <1>6 DEF Lookup
<1> QED
    BY <1>2, <1>6, <1>7, <1>8, <1>9

LEMMA LinkStored ==
    ASSUME IInv, Loaded, form = InitialForm(mapper), editor # "keys", NEW t \in url \ DataOf(stored),
           NEW i
    PROVE  StoresFor(Transform(i), t)
PROOF
<1>1. PICK n \in 1..Len(form) :
        /\ form[n] \in Elements /\ form[n].locked /\ ~ form[n].readonly /\ ~ form[n].delete
        /\ form[n].update = "yes" /\ Lookup(form[n]) # {} /\ form[n].hash[1] = t
    BY LinkElement
<1> DEFINE A == {p \in Nat \X Result : n <= p[1] => StoresFor(p[2], t)}
<1>2. <<0, Nothing>> \in A
    BY NothingYet
<1>3. ASSUME NEW m \in 0..(Len(form) - 1), NEW acc, <<m, acc>> \in A
      PROVE  <<m + 1, TransformOne(i, acc, form[m + 1])>> \in A
    <2> DEFINE el == form[m + 1]
               r == TransformOne(i, acc, el)
    <2>1. m + 1 \in Nat /\ m + 1 \in 1..Len(form) /\ m \in Nat
        BY DEF IInv, FormInv
    <2>2. el \in Elements /\ el.locked
        BY <2>1, UntouchedElements
    <2>3. acc \in Result /\ (n <= m => StoresFor(acc, t))
        BY <1>3
    <2> HIDE DEF el
    <2>4. Effect(acc, el, r)
        BY <2>2, <2>3, OneElement DEF IInv
    <2> HIDE DEF r
    <2>5. n <= m + 1 => StoresFor(r, t)
        <3>1. CASE n <= m
            BY <2>3, <2>4, <3>1, StoredStays DEF Effect
        <3>2. CASE n = m + 1
            BY <1>1, <2>4, <3>2 DEF Effect, el
        <3> QED
            BY <2>1, <3>1, <3>2
    <2> QED
        BY <2>1, <2>4, <2>5 DEF Effect, r, el
<1>4. <<Len(form), Transform(i)>> \in A
    <2> HIDE DEF A
    <2>1. form \in Seq(Elements)
        BY DEF IInv, FormInv
    <2> QED
        BY <1>2, <1>3, <2>1, ElementByElement
<1>5. n <= Len(form)
    BY DEF IInv, FormInv
<1> QED
    BY <1>4, <1>5

LEMMA UntouchedSubmitted ==
    ASSUME IInv, Submit, form = InitialForm(mapper)
    PROVE  /\ server' = server /\ url \subseteq DataOf(stored')
           /\ url = {} => rights' = rights /\ DataOf(stored') = DataOf(stored)
PROOF
<1>1. /\ \A i \in Items : Results[i] \in Result
      /\ DOMAIN Results = Items
      /\ server' = ServerApply(Results)
      /\ stored' = MergeStored(Results)
      /\ rights' = [i \in AllItems |-> IF editor # "keys" /\ i \in Items
                          THEN MergeRights(rights[i], Results[i].hashes) ELSE rights[i]]
      /\ Loaded
    BY SubmitResults
<1>2. \A i \in Items : UntouchedOK(Results[i])
    BY <1>1, UntouchedTransform DEF Results
<1>3. TypeOK
    BY DEF IInv
<1>4. server' = server
    <2>1. \A i \in Items : Results[i].actions = {}
        BY <1>2 DEF UntouchedOK
    <2>2. ASSUME NEW a PROVE a \in server' <=> a \in server
        BY <1>1, <2>1 DEF ServerApply
    <2> QED
        BY <2>2
<1>5. ASSUME NEW t \in url PROVE t \in DataOf(stored')
    <2>1. CASE t \in DataOf(stored)
        BY <2>1, SubmitKeepsTokens
    <2>2. CASE t \notin DataOf(stored)
        <3>1. editor # "keys" /\ "Item" \in Items
            BY DEF IInv, LinkInv, Items
        <3>2. StoresFor(Results["Item"], t)
            BY <1>1, <2>2, <3>1, LinkStored DEF Results
        <3> QED
            BY <3>1, <3>2, SubmitKeepsTokens
    <2> QED
        BY <2>1, <2>2
<1>6. ASSUME url = {}
      PROVE  rights' = rights /\ DataOf(stored') = DataOf(stored)
    <2>1. \A i \in Items : /\ Results[i].hashes = [h \in Hashes |-> Absent]
                           /\ \A h \in Hashes : \/ Results[i].stored[h] = "same"
                                                \/ Results[i].stored[h] = "store" /\ h[1] \in DataOf(stored)
        BY <1>2, <1>6 DEF UntouchedOK
    <2>2. rights' = rights
        <3>1. ASSUME NEW i \in AllItems PROVE rights'[i] = rights[i]
            <4>1. rights[i] \in [Hashes -> Rights \cup {Absent}]
                BY <1>3 DEF TypeOK
            <4>2. CASE editor # "keys" /\ i \in Items
                <5>1. rights'[i] = MergeRights(rights[i], [h \in Hashes |-> Absent])
                    BY <1>1, <2>1, <4>2
                <5>2. MergeRights(rights[i], [h \in Hashes |-> Absent]) = [h \in Hashes |-> rights[i][h]]
                    BY DEF MergeRights, Absent, Null
                <5> QED
                    BY <4>1, <5>1, <5>2
            <4>3. CASE ~ (editor # "keys" /\ i \in Items)
                BY <1>1, <4>3
            <4> QED
                BY <4>2, <4>3
        <3>2. rights \in [AllItems -> [Hashes -> Rights \cup {Absent}]]
            BY <1>3 DEF TypeOK
        <3>3. DOMAIN rights' = AllItems /\ rights' = [i \in AllItems |-> rights'[i]]
            BY <1>1
        <3> QED
            BY <3>1, <3>2, <3>3
    <2>3. ASSUME NEW h \in stored' PROVE h[1] \in DataOf(stored)
        <3>1. h \in Hashes /\ (h \in stored \/ \E i \in Items : Results[i].stored[h] = "store")
            BY <1>1 DEF MergeStored
        <3> QED
            BY <2>1, <3>1 DEF DataOf
    <2>4. DataOf(stored') \subseteq DataOf(stored)
        BY <2>3 DEF DataOf
    <2> QED
        BY <2>2, <2>4, SubmitKeepsTokens
<1> QED
    BY <1>4, <1>5, <1>6

\* A form nobody touched takes over the tokens of the link.  It sends nothing,
\* and without a link the config keeps knowing what it knew.
THEOREM UntouchedChangesNothing == Spec => UntouchedSubmit
PROOF
<1> DEFINE kept == /\ server' = server /\ url \subseteq DataOf(stored')
                   /\ url = {} => rights' = rights /\ DataOf(stored') = DataOf(stored)
<1>1. IInv /\ [Next]_vars =>
        [rounds' # rounds /\ Loaded /\ mapper' = Empty /\ form = InitialForm(mapper) => kept]_vars
    <2> SUFFICES ASSUME IInv, Next, rounds' # rounds, Loaded, mapper' = Empty, form = InitialForm(mapper)
                 PROVE  kept
        BY DEF vars
    <2>1. Submit
        BY NextActions DEF Load, Edit, ShareActions, Loaded
    <2> QED
        BY <2>1, UntouchedSubmitted
<1> QED
    BY <1>1, Invariance, PTL DEF Spec, UntouchedSubmit
=============================================================================
