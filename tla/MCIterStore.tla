---------------------------- MODULE MCIterStore ----------------------------
EXTENDS IterStore
=============================================================================
