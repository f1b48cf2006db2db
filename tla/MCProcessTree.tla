---------------------------- MODULE MCProcessTree ----------------------------
EXTENDS ProcessTree
=============================================================================
