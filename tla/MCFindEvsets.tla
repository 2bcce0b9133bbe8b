---------------------------- MODULE MCFindEvsets ----------------------------
EXTENDS FindEvsets
=============================================================================
