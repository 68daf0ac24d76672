---------------------------- MODULE MC_ActionForm ----------------------------
EXTENDS ActionForm
=============================================================================
