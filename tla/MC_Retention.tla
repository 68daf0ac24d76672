----------------------------- MODULE MC_Retention -----------------------------
(* Small instances of Retention.                                           *)
EXTENDS Retention, TLC

CONSTANTS letter, note, copy, box, once, twice

Ref(s, t, g, p) == [source |-> s, target |-> t, group |-> g, policy |-> p]

(* A note depends on a letter, and a copy on the note.                     *)
Chain == {Ref(note, letter, "", "TRUE"), Ref(copy, note, "", "TRUE")}

Pair == {Ref(note, letter, "", "TRUE")}

NoRefs == {}

(* An update of the letter lets it depend on the copy, and refers to the   *)
(* note as a content refers to a key.                                      *)
ClosesRing == {Ref(letter, copy, "", "TRUE"), Ref(letter, note, "key", "NO_GROUP")}

OneBox == [c \in Contents |-> box]

ForLetter == [a \in Actions |-> letter]
AllStop == [a \in Actions |-> 1]
OnceStops == [a \in Actions |-> IF a = once THEN 1 ELSE Never]
===============================================================================
