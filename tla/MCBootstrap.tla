---------------------------- MODULE MCBootstrap ----------------------------
EXTENDS Bootstrap
=============================================================================
