------------------------------ MODULE MCWrites ------------------------------
EXTENDS Writes
CONSTANTS t1, t2
=============================================================================
