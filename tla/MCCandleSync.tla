---------------------------- MODULE MCCandleSync ----------------------------
EXTENDS CandleSync
=============================================================================
