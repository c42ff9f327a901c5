------------------------------ MODULE MCIoBuf ------------------------------
EXTENDS IoBuf
CONSTANTS v1, v2

TwoViews == [v \in {v1, v2} |-> IF v = v1 THEN [off |-> 0, size |-> 2]
                                          ELSE [off |-> 2, size |-> 1]]
ShortData == {<<1>>, <<0, 1>>}
NearOffsets == {-2, -1, 1}
=============================================================================
