------------------------------ MODULE MCIoLoop ------------------------------
EXTENDS IoLoop, TLC

CONSTANTS t1, t2, t3, p1, p2, p3, a1, b1, f1

NoFds == [w \in Leaves |-> None]
OneFd == [w \in Leaves |-> IF w = p1 THEN f1 ELSE None]
NoWaits == {Never}
ShortWaits == {0, Never}
ZeroWait == {0}
CombinatorSymmetry == Permutations({t1, t2}) \cup Permutations({p1, p2, p3})
=============================================================================
