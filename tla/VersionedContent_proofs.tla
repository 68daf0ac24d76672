----------------------- MODULE VersionedContent_proofs -----------------------
(* The promise of the update id holds for every number of contents and     *)
(* requests.                                                               *)
EXTENDS VersionedContent, TLAPS

(* Inductive holds initially.                                              *)
LEMMA InductiveInit == Init => Inductive
PROOF
    BY DEF Init, Inductive, TypeOK, Stored, UpdateIds, Answers, IdsOfAccepted, ReadTogether,
           NoLostUpdate

(* A write is the only step that changes a value; the request that writes  *)
(* has read the value it replaces.                                         *)
LEMMA InductiveAccept ==
    ASSUME NewIds, Inductive, NEW r \in Requests, Accept(r)
    PROVE  Inductive'
PROOF
<1> USE DEF Inductive
<1>1. /\ target' = target /\ base' = base /\ seen' = seen
      /\ answer[r] = "read" /\ answer'[r] = "ok"
      /\ \A q \in Requests \ {r} : answer'[q] = answer[q]
      /\ target[r] \in Contents
    BY DEF Accept, TypeOK
<1>2. /\ \A c \in Contents : c # target[r] => stored'[c] = stored[c]
      /\ stored'[target[r]] = Written(r)
    BY DEF Accept, TypeOK
<1>3. Written(r) \in Stored /\ Written(r).id = r /\ Written(r).merged = seen[r] \cup {r}
    BY DEF Written, Stored, UpdateIds, TypeOK
<1>4. seen[r] = stored[target[r]].merged /\ stored[target[r]].here
    BY <1>1 DEF Accept, Current, ReadTogether
<1>5. TypeOK'
    BY <1>3 DEF Accept, TypeOK, Answers
<1>6. \A q \in Requests : base[q] # r
    BY <1>1 DEF IdsOfAccepted, NewIds
<1>7. \A id \in UpdateIds : id # Initial /\ answer[id] = "ok" => answer'[id] = "ok"
    BY <1>1 DEF UpdateIds
<1>8. IdsOfAccepted'
    <2>1. ASSUME NEW c \in Contents, stored'[c].id # Initial
          PROVE  answer'[stored'[c].id] = "ok"
        <3>1. CASE c = target[r]
            BY <1>1, <1>2, <1>3, <3>1
        <3>2. CASE c # target[r]
            BY <1>2, <1>7, <2>1, <3>2 DEF IdsOfAccepted, TypeOK, Stored
        <3> QED
            BY <3>1, <3>2
    <2>2. \A q \in Requests : base'[q] # Initial => answer'[base'[q]] = "ok"
        BY <1>1, <1>7 DEF IdsOfAccepted, TypeOK
    <2> QED
        BY <2>1, <2>2 DEF IdsOfAccepted
<1>9. ReadTogether'
    <2>1. ASSUME NEW q \in Requests, answer'[q] = "read", stored'[target[q]].id = base[q]
          PROVE  seen[q] = stored'[target[q]].merged
        <3>1. q # r /\ target[q] # target[r] /\ target[q] \in Contents
            BY <1>1, <1>2, <1>3, <1>6, <2>1 DEF TypeOK
        <3> QED
            BY <1>1, <1>2, <2>1, <3>1 DEF ReadTogether
    <2> QED
        BY <1>1, <2>1 DEF ReadTogether
<1>10. NoLostUpdate'
    <2>1. ASSUME NEW q \in Requests, answer'[q] = "ok", stored'[target[q]].here
          PROVE  q \in stored'[target[q]].merged
        <3>1. CASE q = r
            BY <1>2, <1>3, <3>1
        <3>2. CASE q # r /\ target[q] = target[r]
            BY <1>1, <1>2, <1>3, <1>4, <2>1, <3>2 DEF NoLostUpdate
        <3>3. CASE q # r /\ target[q] # target[r]
            BY <1>1, <1>2, <2>1, <3>3 DEF NoLostUpdate, TypeOK
        <3> QED
            BY <3>1, <3>2, <3>3
    <2> QED
        BY <1>1, <2>1 DEF NoLostUpdate
<1> QED
    BY <1>5, <1>8, <1>9, <1>10

(* The other steps of a request change only its own record.                *)
LEMMA InductiveOther ==
    ASSUME Inductive, NEW r \in Requests, Read(r) \/ Refuse(r) \/ Fail(r)
    PROVE  Inductive'
PROOF
<1> USE DEF Inductive
<1>1. stored' = stored /\ target' = target
    BY DEF Read, Refuse, Fail
<1>2. \A q \in Requests : answer'[q] = "ok" <=> answer[q] = "ok"
    BY DEF Read, Refuse, Fail, TypeOK
<1>3. TypeOK'
    BY DEF Read, Refuse, Fail, TypeOK, Answers, Stored
<1>4. ReadTogether'
    BY DEF Read, Refuse, Fail, ReadTogether, TypeOK
<1>5. NoLostUpdate'
    BY <1>1, <1>2 DEF NoLostUpdate
<1>6. \A id \in UpdateIds : id # Initial /\ answer[id] = "ok" => answer'[id] = "ok"
    BY <1>2 DEF UpdateIds
<1>7. \A q \in Requests : base'[q] = base[q] \/ base'[q] = stored[target[q]].id
    BY DEF Read, Refuse, Fail, TypeOK
<1>8. IdsOfAccepted'
    <2>1. \A c \in Contents : stored[c].id # Initial => answer'[stored[c].id] = "ok"
        BY <1>6 DEF IdsOfAccepted, TypeOK, Stored
    <2>2. \A q \in Requests : base[q] # Initial => answer'[base[q]] = "ok"
        BY <1>6 DEF IdsOfAccepted, TypeOK
    <2>3. \A q \in Requests : base'[q] # Initial => answer'[base'[q]] = "ok"
        BY <1>7, <2>1, <2>2 DEF TypeOK
    <2> QED
        BY <1>1, <2>1, <2>3 DEF IdsOfAccepted
<1> QED
    BY <1>3, <1>4, <1>5, <1>8

(* Inductive is preserved by every step.                                   *)
LEMMA InductiveStep ==
    ASSUME NewIds, Inductive, [Next]_vars
    PROVE  Inductive'
PROOF
<1>1. CASE UNCHANGED vars
    BY <1>1 DEF vars, Inductive, TypeOK, IdsOfAccepted, ReadTogether, NoLostUpdate
<1>2. ASSUME NEW r \in Requests, Read(r) \/ Accept(r) \/ Refuse(r) \/ Fail(r)
      PROVE  Inductive'
    BY <1>2, InductiveAccept, InductiveOther
<1>3. ASSUME NEW c \in Contents, Drop(c) PROVE Inductive'
    BY <1>3 DEF Drop, Inductive, TypeOK, Stored, IdsOfAccepted, ReadTogether, NoLostUpdate
<1> QED
    BY <1>1, <1>2, <1>3 DEF Next

(* Whoever updates by the update id loses no update.                       *)
THEOREM NoUpdateIsLost ==
    ASSUME NewIds
    PROVE  Spec => []NoLostUpdate
PROOF
<1>1. Inductive => NoLostUpdate
    BY DEF Inductive
<1> QED
    BY <1>1, InductiveInit, InductiveStep, PTL DEF Spec

(* A value only grows: what is merged once is merged in every later value. *)
THEOREM ValuesOnlyGrow ==
    ASSUME NewIds
    PROVE  Spec => OnlyGrows
PROOF
<1>1. ASSUME Inductive, [Next]_vars
      PROVE  [\A c \in Contents :
                stored'[c].here => stored[c].merged \subseteq stored'[c].merged]_vars
    <2>1. ASSUME NEW r \in Requests, Accept(r), NEW c \in Contents
          PROVE  stored[c].merged \subseteq stored'[c].merged
        BY <1>1, <2>1 DEF Accept, Current, Written, Inductive, ReadTogether, TypeOK
    <2>2. ASSUME NEW d \in Contents, Drop(d), NEW c \in Contents
          PROVE  stored[c].merged \subseteq stored'[c].merged
        BY <1>1, <2>2 DEF Drop, Inductive, TypeOK, Stored
    <2> QED
        BY <1>1, <2>1, <2>2 DEF Next, Read, Refuse, Fail
<1>2. Spec => []Inductive
    BY InductiveInit, InductiveStep, PTL DEF Spec
<1> QED
    BY <1>1, <1>2, PTL DEF Spec, OnlyGrows
=============================================================================
