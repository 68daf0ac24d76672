---------------------------- MODULE MC_Envelopes ----------------------------
EXTENDS Envelopes, TLC
CONSTANTS c1, c2, k1, k2

\* c1 registers with k1; c2 has the certificate of k2.
MCHeld == (c1 :> {}) @@ (c2 :> {k2})
=============================================================================
