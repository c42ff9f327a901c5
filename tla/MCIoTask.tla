------------------------------ MODULE MCIoTask ------------------------------
EXTENDS IoTask
CONSTANTS r1, r2, f1, f2
=============================================================================
