----------------------------- MODULE MCHosting ------------------------------
EXTENDS Hosting
=============================================================================
