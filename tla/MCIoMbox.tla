------------------------------ MODULE MCIoMbox ------------------------------
EXTENDS IoMbox
CONSTANTS t1, t2, t3
=============================================================================
