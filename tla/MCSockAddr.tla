----------------------------- MODULE MCSockAddr -----------------------------
EXTENDS SockAddr, TLC
CONSTANTS s1, s2

Host(k, b) == [kind |-> k, bits |-> b]
Text(b, h, slash, p, port) ==
  [bracket |-> b, host |-> h, inside |-> slash, prefix |-> p, port |-> port]

TenOne    == Host("inet", {4, 6, 31})     \* 10.0.0.1
Eleven    == Host("inet", {4, 6, 7})      \* 11.0.0.0
Unicast   == Host("inet6", {2})           \* 2000::
UnicastOne == Host("inet6", {2, 127})     \* 2000::1
Next9     == Host("inet6", {2, 8})        \* 2080::
Next13    == Host("inet6", {2, 12})       \* 2008::
Wildcard  == Host("any", {})
Localhost == Host("localhost", {})
Name      == Host("other", {})

SomeTexts ==
  {Text("none", h, FALSE, None, 80) : h \in {TenOne, Localhost}}
    \cup {Text("none", h, FALSE, 8, None) : h \in {Eleven, Wildcard}}
    \cup {Text("closed", Unicast, FALSE, p, None) : p \in {None, 9, 129}}
    \cup {Text("none", TenOne, FALSE, p, None) : p \in {33, 264, Malformed}}
    \cup {Text("none", TenOne, FALSE, None, p) : p \in {65536, Malformed}}
    \cup {Text("none", Unicast, FALSE, p, 80) : p \in {None, 9}}
    \cup {Text("closed", h, FALSE, None, None) : h \in {Next9, Next13}}
    \cup {Text("open", Unicast, FALSE, None, None)}
    \cup {Text("closed", h, TRUE, 9, None) : h \in {Unicast, Wildcard, Localhost}}
    \cup {Text("none", Name, FALSE, None, None)}

SomeStructs == {[family |-> "inet", bits |-> {4, 6, 31}, port |-> 80],
                [family |-> "inet6", bits |-> {2, 127}, port |-> 0]}

Named(a, n, size) == [abstract |-> a, name |-> n, size |-> size]
SomeNames == {Named(TRUE, 0, 0), Named(TRUE, 1, 1), Named(FALSE, 0, 0),
              Named(FALSE, 1, 1), Named(FALSE, 2, 2), Named(FALSE, 3, 108)}
SomeLengths == {2, 110}

RangeOn(h, b, k, p, m) ==
  [addr |-> Text(b, h, FALSE, None, None), kind |-> k, prefix |-> p, netmask |-> m]

SomeRanges ==
  {RangeOn(TenOne, "none", "prefix", p, {}) : p \in {0, 8, 31, 33, 264}}
    \cup {RangeOn(UnicastOne, "closed", "prefix", p, {}) : p \in {8, 9, 128, 129}}
    \cup {RangeOn(Wildcard, "none", "prefix", 0, {})}
    \cup {RangeOn(TenOne, "none", k, 0, {}) : k \in {"none", "empty", "other"}}
    \cup {RangeOn(TenOne, "none", "netmask", 0, m) :
            m \in {{}, 0..7, 0..31, (0..7) \cup {9}, 1..31}}
    \cup {RangeOn(Name, "none", "prefix", 8, {})}

FewPrefixes == {0, 129}
Symmetric == Permutations(Slots)
=============================================================================
