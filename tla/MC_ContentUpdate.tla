------------------------- MODULE MC_ContentUpdate -------------------------
(* Small instances of ContentUpdate: one content, two nets.               *)
EXTENDS ContentUpdate, TLC

CONSTANTS c1, n1, n2

OneContent == c1 :> n1

(* The second net only has room for a value of size 1.                     *)
TightQuota == n1 :> 4 @@ n2 :> 3
WideQuota == [n \in Nets |-> 100]
=============================================================================
