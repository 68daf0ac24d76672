---------------------------- MODULE MC_ConfigSync ----------------------------
(* Small instances of ConfigSync.                                          *)
EXTENDS ConfigSync, TLC

CONSTANTS k1, k2, home, away

(* Only k1 knows both.                                                     *)
OwnMain == [k \in Clients |-> IF k = k1 THEN home ELSE away]
OwnKnown == [k \in Clients |-> IF k = k1 THEN {home, away} ELSE {away}]

SharedKeys == [k \in Clients |-> {"shared"}]

(* k1 changes private keys too, which are for its main slot only.          *)
MixedKeys == [k \in Clients |-> IF k = k1 THEN {"shared", "private"} ELSE {"shared"}]
===============================================================================
