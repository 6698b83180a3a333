-------------------------- MODULE MCLocationStart --------------------------
EXTENDS LocationStart
CONSTANTS realm, editor
=============================================================================
