------------------------------- MODULE MCIoOps -------------------------------
EXTENDS IoOps
CONSTANTS o1, t1
==============================================================================
