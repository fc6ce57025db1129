----------------------------- MODULE MCDatastore -----------------------------
EXTENDS Datastore
=============================================================================
