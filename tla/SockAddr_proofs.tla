-------------------------- MODULE SockAddr_proofs --------------------------
(***************************************************************************)
(* Proofs about SockAddr: its type invariant, that a range contains what   *)
(* its prefix says, and that order, equality and hash of addresses agree.  *)
(***************************************************************************)
EXTENDS SockAddr, WellFoundedInduction, TLAPS

-----------------------------------------------------------------------------
(* The values that constructors and the parser build.                      *)

Host(h) == h.kind \in Inets => h.bits \subseteq Bits(h.kind)

LEMMA Widths ==
  /\ Inets = {"inet", "inet6"}
  /\ Width["inet"] = 32 /\ Width["inet6"] = 128
  /\ SizeOf["inet"] = 16 /\ SizeOf["inet6"] = 28 /\ SizeOf["unix"] = 110
  /\ Inets \subseteq Families
  /\ 0 \in Octets /\ 32 \in Octets /\ 128 \in Octets /\ 0 \in Ports
  /\ Bits("inet") \subseteq Positions /\ Bits("inet6") \subseteq Positions
BY DEF Inets, Width, SizeOf, Bits, Octets, Ports, Positions, Families

LEMMA PositionsNat == \A i \in Positions : i \in Nat
BY SMTT(30) DEF Positions

LEMMA PortsNat == \A i \in Ports : i \in Nat
BY DEF Ports

LEMMA NarrowType == \A n \in Nat : Narrow(n) \in Octets
BY DEF Narrow, Octets

\* A prefix within the width, or one that a caller gave.
Allowed(p, f) == p <= Width[f] \/ p \in Prefixes

\* An address record with fields in range fits.
LEMMA AddressFits ==
  ASSUME NEW f \in Families, NEW len \in Nat, NEW b \in SUBSET Positions,
         NEW port \in Ports, NEW p \in Octets, NEW a \in BOOLEAN, NEW n \in Nat,
         f \in Inets => b \subseteq Bits(f) /\ Allowed(p, f)
  PROVE  Fits(Address(f, len, b, port, p, a, n))
BY DEF Fits, Address, AddrSet, Allowed

LEMMA InetFits ==
  ASSUME NEW f \in Inets, NEW b \in SUBSET Bits(f), NEW port \in Ports,
         NEW p \in Octets, Allowed(p, f)
  PROVE  Fits(Inet(f, b, port, p))
<1>1. f \in Families /\ SizeOf[f] \in Nat /\ b \subseteq Positions BY Widths
<1> HIDE DEF Address
<1>2. Fits(Address(f, SizeOf[f], b, port, p, FALSE, 0))
      BY ONLY <1>1, AddressFits, FALSE \in BOOLEAN, 0 \in Nat, b \subseteq Bits(f),
              port \in Ports, p \in Octets, Allowed(p, f)
<1> QED BY <1>2 DEF Inet

LEMMA UnspecFits == \A len \in Nat, p \in Octets : Fits(Zero(len, p))
<1> TAKE len \in Nat, p \in Octets
<1>1. "unspec" \in Families /\ "unspec" \notin Inets BY Widths DEF Families
<1> QED BY <1>1, AddressFits, Widths DEF Zero

LEMMA NothingFits == Fits(Nothing) /\ Fits(Default)
BY UnspecFits, Widths DEF Nothing, Default, UnionSize

\* The whole width is a prefix, and so is 0.
LEMMA WidthAllowed == \A f \in Inets : Allowed(Width[f], f) /\ Allowed(0, f)
BY Widths DEF Allowed

LEMMA UnixFits ==
  ASSUME NEW u, u.abstract \in BOOLEAN, u.name \in Nat, NEW len \in Nat,
         NEW p \in Octets
  PROVE  Fits(Unix(u, len, p))
<1>1. "unix" \in Families /\ "unix" \notin Inets BY Widths DEF Families
<1>2. PICK a \in BOOLEAN : a = (u.abstract \/ u.size = 0) OBVIOUS
<1>3. Unix(u, len, p) = Address("unix", len, {}, 0, p, a, u.name) BY <1>2 DEF Unix
<1> QED BY <1>1, <1>3, AddressFits, Widths

\* Keywords fit, whatever family is asked for.
LEMMA SetupFits ==
  ASSUME NEW t, NEW f \in {"unspec"} \cup Inets, NEW port \in Ports
  PROVE  Fits(Setup(t, f, port))
<1> DEFINE g == IF f = "unspec" THEN "inet" ELSE f
           b == IF t.host.kind = "any" THEN {}
                ELSE IF g = "inet" THEN (1..7) \cup {31} ELSE {127}
<1>1. g \in Inets BY Widths
<1>2. b \subseteq Bits(g) BY <1>1, Widths DEF Bits
<1>3. Fits(Inet(g, b, port, Width[g])) BY <1>1, <1>2, InetFits, Widths, WidthAllowed
<1> QED BY <1>3 DEF Setup

\* What parsing leaves behind fits, also when it fails.
LEMMA ParseFits ==
  ASSUME NEW t \in TextSet, Host(t.host), NEW f \in {"unspec"} \cup Inets
  PROVE  Fits(ParseInet(t, f))
<1> DEFINE h    == t.host
           port == IF t.port = None THEN 0 ELSE t.port
<1> USE SockAddrAssumption
<1>1. CASE ~Splits(t) BY <1>1, NothingFits DEF ParseInet
<1>2. CASE Splits(t)
  <2>0. t.port \in Nat \cup {None, Malformed} /\ t.prefix \in Nat \cup {None, Malformed}
        BY DEF TextSet
  <2>1. port \in Ports BY <1>2, <2>0, Widths DEF Splits
  <2>2. CASE Keyword(t) BY <1>2, <2>1, <2>2, SetupFits DEF ParseInet
  <2>3. CASE ~Keyword(t) /\ (h.kind \notin Inets \/ f \notin {"unspec", h.kind} \/ t.inside)
        BY <1>2, <2>3, NothingFits DEF ParseInet
  <2>4. CASE ~Keyword(t) /\ h.kind \in Inets /\ f \in {"unspec", h.kind} /\ ~t.inside
    <3>1. h.bits \subseteq Bits(h.kind) BY <2>4 DEF Host
    <3>2. CASE t.prefix = None
      <4>1. Fits(Inet(h.kind, h.bits, port, Width[h.kind]))
            BY <2>1, <2>4, <3>1, InetFits, Widths, WidthAllowed
      <4> QED BY <1>2, <2>4, <3>2, <4>1 DEF ParseInet
    <3>3. CASE t.prefix # None
      <4>1. t.prefix \in Nat BY <1>2, <2>0, <2>4, <3>3 DEF Splits
      <4>2. Narrow(t.prefix) \in Octets BY <4>1, NarrowType
      <4>3. InRange(Narrow(t.prefix), h.kind) => Fits(Inet(h.kind, h.bits, port, Narrow(t.prefix)))
            BY <2>1, <2>4, <3>1, <4>2, InetFits DEF InRange, Allowed
      <4>4. Fits(Address(h.kind, 0, h.bits, port, 0, FALSE, 0))
            BY <2>1, <2>4, <3>1, AddressFits, Widths, WidthAllowed
      <4> QED BY <1>2, <2>4, <3>3, <4>3, <4>4 DEF ParseInet
    <3> QED BY <3>2, <3>3
  <2> QED BY <2>2, <2>3, <2>4
<1> QED BY <1>1, <1>2

LEMMA PathFits ==
  ASSUME NEW u \in UnixNames
  PROVE  /\ Fits(ParseUnix(u))
         /\ \A len \in Nat, p \in Octets : Fits(Unix(u, len, p))
<1>1. u.abstract \in BOOLEAN /\ u.name \in Nat /\ u.size \in Nat
      BY SockAddrAssumption
<1>2. \A len \in Nat, p \in Octets : Fits(Unix(u, len, p)) BY <1>1, UnixFits
<1>3. Fits(Unix([abstract |-> FALSE, name |-> 0, size |-> 0], 0, 0))
  <2>1. PICK e : e = [abstract |-> FALSE, name |-> 0, size |-> 0] OBVIOUS
  <2>2. e.abstract \in BOOLEAN /\ e.name \in Nat /\ 0 \in Octets BY <2>1, Widths
  <2>3. Fits(Unix(e, 0, 0)) BY <2>2, UnixFits
  <2> QED BY <2>1, <2>3
<1>4. Fits(Unix(u, 3 + u.size, 0)) /\ Fits(Unix(u, SizeOf["unix"], 0))
  <2>1. 3 + u.size \in Nat /\ SizeOf["unix"] \in Nat /\ 0 \in Octets
        BY <1>1, Widths
  <2> QED BY <1>2, <2>1, Zenon
<1> QED BY <1>2, <1>3, <1>4 DEF ParseUnix

-----------------------------------------------------------------------------
(* Masks.                                                                  *)

\* Whole bytes and the rest of one are the first p bits.
LEMMA BytesMeaning == \A p \in Nat : p <= 128 => MaskBytes(p) = 0..(p - 1)
<1>1. ASSUME NEW i \in Nat, NEW p \in Nat
      PROVE  (\/ i \div 8 < p \div 8
              \/ i \div 8 = p \div 8 /\ i % 8 < p % 8) <=> i < p
  <2>1. PICK a \in Nat, b \in 0..7 : i = 8 * a + b /\ a = i \div 8 /\ b = i % 8
        OBVIOUS
  <2>2. PICK c \in Nat, d \in 0..7 : p = 8 * c + d /\ c = p \div 8 /\ d = p % 8
        OBVIOUS
  <2> QED BY <2>1, <2>2
<1>2. \A p \in Nat : p <= 128 => MaskBytes(p) = {i \in 0..(128 - 1) : i < p}
      BY <1>1, Widths DEF MaskBytes, Bits
<1>3. \A p \in Nat : p <= 128 => {i \in 0..(128 - 1) : i < p} = 0..(p - 1)
      OBVIOUS
<1> QED BY <1>2, <1>3

\* A word of ones shifted by less than its width is its first bits.
LEMMA ShiftMeaning ==
  \A p \in Nat : p # 0 /\ p <= 32 => ShiftLeft(Bits("inet"), 32 - p) = 0..(p - 1)
<1> SUFFICES ASSUME NEW p \in Nat, p # 0, p <= 32
             PROVE  ShiftLeft(Bits("inet"), 32 - p) = 0..(p - 1)
    OBVIOUS
<1>1. PICK n \in 0..31 : n = 32 - p OBVIOUS
<1>2. Bits("inet") = 0..31 BY Widths DEF Bits
<1>3. \A k \in 0..31 : k % 32 = k OBVIOUS
<1>4. ShiftLeft(Bits("inet"), n) = {i \in 0..31 : i + n \in 0..31}
      BY <1>2, <1>3 DEF ShiftLeft
<1>5. {i \in 0..31 : i + n \in 0..31} = 0..(p - 1) BY <1>1
<1> QED BY <1>1, <1>4, <1>5

\* Either way the mask is the first p bits.
LEMMA MaskMeaning ==
  \A f \in Inets : \A p \in Nat : p <= Width[f] => Mask(f, p) = 0..(p - 1)
<1>1. ASSUME NEW f \in Inets, NEW p \in Nat, p <= Width[f]
      PROVE  Mask(f, p) = 0..(p - 1)
  <2>1. CASE f = "inet6" BY <1>1, <2>1, BytesMeaning, Widths DEF Mask
  <2>2. CASE f = "inet" /\ p = 0 BY <2>2 DEF Mask
  <2>3. CASE f = "inet" /\ p # 0 BY <1>1, <2>3, ShiftMeaning, Widths DEF Mask
  <2> QED BY <2>1, <2>2, <2>3, Widths
<1> QED BY <1>1

\* The prefix that a netmask is turned into is the number of its ones.
LEMMA NetmaskMeaning ==
  ASSUME NEW m \in SUBSET Bits("inet")
  PROVE  NetmaskToPrefix(m) \in 0..32
         /\ (NetmaskToPrefix(m) # 0 => m = 0..(NetmaskToPrefix(m) - 1))
<1> DEFINE ones == {n \in 0..32 : 0..(n - 1) \subseteq m /\ \A i \in m : i < n}
           k    == CHOOSE n \in ones : TRUE
<1>1. CASE ones # {} /\ \A i, j \in Negated(m) : i = j
  <2>1. k \in ones BY <1>1
  <2>2. k \in 0..32 /\ 0..(k - 1) \subseteq m /\ \A i \in m : i < k BY <2>1
  <2>3. NetmaskToPrefix(m) = k BY <1>1 DEF NetmaskToPrefix
  <2> HIDE DEF k
  <2>4. \A i \in m : i \in Nat /\ i < k BY <2>2 DEF Bits
  <2>5. \A i \in Nat : i < k => i \in 0..(k - 1) BY <2>2
  <2>6. m = 0..(k - 1) BY <2>2, <2>4, <2>5
  <2> QED BY <2>2, <2>3, <2>6
<1>2. CASE ~(ones # {} /\ \A i, j \in Negated(m) : i = j)
  <2>1. NetmaskToPrefix(m) = 0 BY <1>2 DEF NetmaskToPrefix
  <2> QED BY <2>1
<1> QED BY <1>1, <1>2

\* What the type invariant says of the range.
RangeFits(r) ==
  /\ r \in [net : AddrSet, prefix : Octets, mask : SUBSET Positions, valid : BOOLEAN]
  /\ Fits(r.net)

\* r is the range of the first p bits of x, if it is valid.
RangeFrom(r, x, p) ==
  r.valid =>
    /\ r.net.family \in Inets /\ r.prefix <= Width[r.net.family]
    /\ r.mask = Mask(r.net.family, r.prefix) /\ r.net.bits = x.bits \cap r.mask
    /\ r.prefix = p

LEMMA MaskedFits ==
  ASSUME NEW x, Fits(x), NEW p \in Octets
  PROVE  RangeFits(Masked(x, p)) /\ RangeFrom(Masked(x, p), x, p)
<1>0. x \in AddrSet BY DEF Fits
<1>1. CASE x.len # 0 /\ x.family \in Inets /\ p <= Width[x.family]
  <2> DEFINE f == x.family
             m == Mask(f, p)
             y == Address(f, x.len, x.bits \cap m, 0, x.prefix, x.abstract, x.name)
  <2>1. m \subseteq Bits(f) /\ m \subseteq Positions
        BY <1>1, Widths DEF Mask, MaskBytes, ShiftLeft
  <2>2. /\ f \in Families /\ x.len \in Nat /\ x.bits \cap m \in SUBSET Positions
        /\ x.prefix \in Octets /\ x.abstract \in BOOLEAN /\ x.name \in Nat
        /\ x.bits \cap m \subseteq Bits(f) /\ Allowed(x.prefix, f)
        BY <1>0, <1>1, <2>1 DEF AddrSet, Fits, Allowed
  <2>3. Fits(y) BY <2>2, AddressFits, Widths
  <2>4. y.family = f /\ y.bits = x.bits \cap m BY DEF Address
  <2>5. Masked(x, p) = [net |-> y, prefix |-> p, mask |-> m, valid |-> TRUE]
        BY <1>1 DEF Masked
  <2>6. y \in AddrSet BY <2>3 DEF Fits
  <2> HIDE DEF y, m
  <2>7. RangeFits(Masked(x, p)) BY <2>1, <2>3, <2>5, <2>6 DEF RangeFits
  <2>8. RangeFrom(Masked(x, p), x, p) BY <1>1, <2>4, <2>5 DEF RangeFrom, m
  <2> QED BY <2>7, <2>8
<1>2. CASE ~(x.len # 0 /\ x.family \in Inets /\ p <= Width[x.family])
  <2>1. Masked(x, p) = [net |-> x, prefix |-> p, mask |-> {}, valid |-> FALSE]
        BY <1>2 DEF Masked
  <2> QED BY <1>0, <2>1 DEF RangeFits, RangeFrom
<1> QED BY <1>1, <1>2

LEMMA NoRangeFits == RangeFits(NoRange) /\ ~NoRange.valid
<1>1. Fits(Default) /\ Default \in AddrSet BY NothingFits DEF Fits
<1> QED BY <1>1, Widths DEF NoRange, RangeFits

\* The address a range is made from, and how.
Source(r, f) == ParseInet(r.addr, IF r.kind = "netmask" THEN "inet" ELSE f)
MadeFrom(q, r, f) ==
  /\ RangeFits(q)
  /\ q.valid => \E p \in Octets :
                 /\ RangeFrom(q, Source(r, f), p)
                 /\ r.kind = "netmask" => r.netmask = 0..(p - 1)

LEMMA TextRangeFits ==
  ASSUME NEW r \in RangeTexts, NEW f \in {"unspec"} \cup Inets
  PROVE  MadeFrom(RangeFromText(r, f), r, f)
<1> DEFINE x == ParseInet(r.addr, f)
           y == ParseInet(r.addr, "inet")
           p == NetmaskToPrefix(r.netmask)
           q == RangeFromText(r, f)
<1>1. /\ r.addr \in TextSet /\ r.prefix \in Nat /\ r.netmask \in SUBSET Bits("inet")
      /\ r.kind \in {"none", "empty", "prefix", "netmask", "other"}
      BY SockAddrAssumption DEF RangeTextSet
<1>2. Host(r.addr.host) BY SockAddrAssumption DEF Host
<1>3. Fits(x) /\ Fits(y) BY <1>1, <1>2, ParseFits, Widths
<1>4. x \in AddrSet BY <1>3 DEF Fits
<1>5. p \in 0..32 /\ (p # 0 => r.netmask = 0..(p - 1)) BY <1>1, NetmaskMeaning
<1>6. p \in Octets BY <1>5 DEF Octets
<1> HIDE DEF x, y, p
<1>7. CASE r.kind \in {"empty", "prefix"} /\ x.len = 0
  <2>1. q = [NoRange EXCEPT !.net = x] BY <1>7 DEF RangeFromText, x
  <2>2. RangeFits(q) /\ ~q.valid BY <1>3, <1>4, <2>1, NoRangeFits DEF RangeFits, NoRange
  <2> QED BY <2>2 DEF MadeFrom
<1>8. CASE r.kind = "empty" /\ x.len # 0
  <2>1. q = Masked(x, 0) BY <1>8 DEF RangeFromText, x
  <2>2. RangeFits(q) /\ RangeFrom(q, x, 0) BY <1>3, <2>1, MaskedFits, Widths
  <2> QED BY <1>8, <2>2, Widths DEF MadeFrom, Source, x
<1>9. CASE r.kind = "prefix" /\ x.len # 0
  <2>1. q = Masked(x, Narrow(r.prefix)) BY <1>9 DEF RangeFromText, x
  <2>2. Narrow(r.prefix) \in Octets BY <1>1, NarrowType
  <2>3. RangeFits(q) /\ RangeFrom(q, x, Narrow(r.prefix)) BY <1>3, <2>1, <2>2, MaskedFits
  <2> QED BY <1>9, <2>2, <2>3 DEF MadeFrom, Source, x
<1>10. CASE r.kind = "netmask" /\ f # "inet6" /\ p # 0
  <2>1. q = Masked(y, p) BY <1>10 DEF RangeFromText, y, p
  <2>2. RangeFits(q) /\ RangeFrom(q, y, p) BY <1>3, <1>6, <2>1, MaskedFits
  <2> QED BY <1>5, <1>6, <1>10, <2>2 DEF MadeFrom, Source, y
<1>11. CASE r.kind \in {"none", "other"} \/ (r.kind = "netmask" /\ (f = "inet6" \/ p = 0))
  <2>1. q = NoRange BY <1>11 DEF RangeFromText, p
  <2> QED BY <2>1, NoRangeFits DEF MadeFrom
<1> QED BY <1>1, <1>7, <1>8, <1>9, <1>10, <1>11

-----------------------------------------------------------------------------
(* The inductive invariant.                                                *)

LEMMA InitIInv == Init => IInv
<1> SUFFICES ASSUME Init PROVE IInv OBVIOUS
<1>1. Default \in AddrSet /\ Fits(Default) BY NothingFits DEF Fits
<1>2. TypeOK BY <1>1, NoRangeFits DEF Init, TypeOK, RangeFits
<1>3. RangeIsMasked BY NoRangeFits DEF Init, RangeIsMasked
<1> QED BY <1>2, <1>3 DEF IInv

\* A constructor that builds an address which fits.
LEMMA AssignKeeps ==
  ASSUME IInv, NEW s \in Slots, NEW x, Fits(x), Assign(s, x)
  PROVE  IInv'
<1>1. x \in AddrSet BY DEF Fits
<1>2. TypeOK' BY <1>1 DEF IInv, TypeOK, Assign
<1>3. RangeIsMasked' BY DEF IInv, RangeIsMasked, Assign
<1> QED BY <1>2, <1>3 DEF IInv

LEMMA RangeOfKeeps ==
  ASSUME IInv, NEW s \in Slots, RangeOf(s)
  PROVE  IInv'
<1>1. Fits(addr[s]) /\ addr[s].prefix \in Octets
      BY DEF IInv, TypeOK, Fits, AddrSet
<1>2. RangeFits(range') /\ RangeFrom(range', addr[s], addr[s].prefix)
      BY <1>1, MaskedFits DEF RangeOf
<1>3. TypeOK' BY <1>2 DEF IInv, TypeOK, RangeOf, RangeFits
<1>4. asked'.bits = addr[s].bits /\ asked'.netmask = None BY DEF RangeOf
<1>5. RangeIsMasked' BY <1>2, <1>4 DEF RangeIsMasked, RangeFrom
<1> QED BY <1>3, <1>5 DEF IInv

LEMMA RangeTextKeeps ==
  ASSUME IInv, NEW r \in RangeTexts, NEW f \in {"unspec"} \cup Inets, RangeText(r, f)
  PROVE  IInv'
<1>1. MadeFrom(range', r, f) BY TextRangeFits DEF RangeText
<1>2. TypeOK' BY <1>1 DEF IInv, TypeOK, RangeText, RangeFits, MadeFrom
<1>3. /\ asked'.bits = Source(r, f).bits
      /\ asked'.netmask = IF r.kind = "netmask" THEN r.netmask ELSE None
      BY DEF RangeText, Source
<1>4. ASSUME range'.valid PROVE RangeIsMasked'
  <2>1. PICK p \in Octets : /\ RangeFrom(range', Source(r, f), p)
                            /\ r.kind = "netmask" => r.netmask = 0..(p - 1)
        BY <1>1, <1>4 DEF MadeFrom
  <2>2. range'.prefix = p BY <1>4, <2>1 DEF RangeFrom
  <2> QED BY <1>3, <1>4, <2>1, <2>2 DEF RangeIsMasked, RangeFrom
<1>5. RangeIsMasked' BY <1>4 DEF RangeIsMasked
<1> QED BY <1>2, <1>5 DEF IInv

LEMMA NextIInv == IInv /\ [Next]_vars => IInv'
<1> SUFFICES ASSUME IInv, [Next]_vars PROVE IInv' OBVIOUS
<1>1. ASSUME NEW s \in Slots, Construct(s) PROVE IInv'
      BY <1>1, NothingFits, AssignKeeps DEF Construct
<1>2. ASSUME NEW s \in Slots, RangeOf(s) PROVE IInv' BY <1>2, RangeOfKeeps
<1>3. ASSUME NEW s \in Slots, NEW p \in Prefixes, ConstructUnknown(s, p) PROVE IInv'
  <2>1. p \in Octets BY SockAddrAssumption
  <2>2. Fits(Zero(0, p)) BY <2>1, UnspecFits
  <2> QED BY <1>3, <2>2, AssignKeeps DEF ConstructUnknown
<1>4. ASSUME NEW s \in Slots, NEW p \in Prefixes, NEW i \in Structs,
             ConstructInet(s, i, p) \/ ConstructGeneric(s, i, p)
      PROVE  IInv'
  <2>1. /\ i.family \in Inets /\ i.bits \subseteq Bits(i.family) /\ i.port \in Ports
        /\ p \in Octets
        BY SockAddrAssumption
  <2>2. Fits(Inet(i.family, i.bits, i.port, p)) BY <2>1, InetFits DEF Allowed
  <2>3. Fits(Inet(i.family, i.bits, i.port, IF p = 0 THEN Width[i.family] ELSE p))
        BY <2>1, <2>2, InetFits, Widths, WidthAllowed
  <2> QED BY <1>4, <2>2, <2>3, AssignKeeps DEF ConstructInet, ConstructGeneric
<1>5. ASSUME NEW s \in Slots, NEW u \in UnixNames,
             \/ ConstructUnix(s, u) \/ ParsePath(s, u)
             \/ \E len \in Lengths, p \in Prefixes : ConstructGenericUnix(s, u, len, p)
      PROVE  IInv'
  <2>1. SizeOf["unix"] \in Nat /\ 0 \in Octets /\ Lengths \subseteq Nat
        /\ Prefixes \subseteq Octets
        BY SockAddrAssumption, Widths
  <2>2. CASE ConstructUnix(s, u) \/ ParsePath(s, u)
        BY <2>1, <2>2, PathFits, AssignKeeps DEF ConstructUnix, ParsePath
  <2>3. ASSUME NEW len \in Lengths, NEW p \in Prefixes, ConstructGenericUnix(s, u, len, p)
        PROVE  IInv'
    <3>1. Fits(Unix(u, len, p)) BY <2>1, PathFits
    <3> QED BY <2>3, <3>1, AssignKeeps DEF ConstructGenericUnix
  <2> QED BY <1>5, <2>2, <2>3
<1>6. ASSUME NEW s \in Slots, NEW t \in Texts, NEW f \in {"unspec"} \cup Inets,
             Parse(s, t, f)
      PROVE  IInv'
  <2>1. t \in TextSet /\ Host(t.host) BY SockAddrAssumption DEF Host
  <2>2. Fits(ParseInet(t, f)) BY <2>1, ParseFits
  <2> QED BY <1>6, <2>2, AssignKeeps DEF Parse
<1>7. ASSUME NEW r \in RangeTexts, NEW f \in {"unspec"} \cup Inets, RangeText(r, f)
      PROVE  IInv'
      BY <1>7, RangeTextKeeps
<1>8. CASE UNCHANGED vars
      BY <1>8 DEF IInv, TypeOK, RangeIsMasked, vars
<1>9. CASE Next BY <1>1, <1>2, <1>3, <1>4, <1>5, <1>6, <1>7, <1>9 DEF Next
<1> QED BY <1>8, <1>9

\* The type invariant and RangeIsMasked are inductive.
THEOREM Inductive == Spec => []IInv
BY InitIInv, NextIInv, PTL DEF Spec

\* Every address and range has the fields its type allows, whatever text or
\* structure it was made from.
THEOREM TypeCorrect == Spec => []TypeOK
<1>1. IInv => TypeOK BY DEF IInv
<1> QED BY <1>1, Inductive, PTL

\* Under a mask of the first p bits two addresses agree if they agree in those.
LEMMA AgreeUnderMask ==
  ASSUME NEW b, NEW c, NEW p \in Nat
  PROVE  (b \cap (0..(p - 1)) = c \cap (0..(p - 1)))
           <=> \A i \in 0..(p - 1) : i \in b <=> i \in c
OBVIOUS

LEMMA RangeInv == IInv => ContainsByPrefix
<1> SUFFICES ASSUME IInv, range.valid PROVE ContainsByPrefix
    BY DEF ContainsByPrefix
<1> DEFINE p == range.prefix
           f == range.net.family
<1>1. /\ f \in Inets /\ p <= Width[f] /\ range.mask = Mask(f, p)
      /\ range.net.bits = asked.bits \cap range.mask
      /\ asked.netmask # None => asked.netmask = 0..(p - 1)
      BY DEF IInv, RangeIsMasked
<1>2. p \in Nat BY DEF IInv, TypeOK, Octets
<1>3. range.mask = 0..(p - 1) BY <1>1, <1>2, MaskMeaning
<1>4. ASSUME NEW s \in Slots
      PROVE  Contains(range, addr[s]) <=>
               /\ addr[s].family = f
               /\ \A i \in 0..(p - 1) : i \in addr[s].bits <=> i \in asked.bits
      BY <1>1, <1>2, <1>3, AgreeUnderMask DEF Contains
<1> QED BY <1>1, <1>4 DEF ContainsByPrefix

\* A range contains exactly the addresses that agree with its own in the first
\* prefix() bits.
THEOREM RangeContains == Spec => []ContainsByPrefix
BY Inductive, RangeInv, PTL

-----------------------------------------------------------------------------
(* Order.                                                                  *)

\* Of different sets of positions one is less, and not both.
LEMMA BitsOrdered ==
  ASSUME NEW b \in SUBSET Positions, NEW c \in SUBSET Positions
  PROVE  /\ b # c => LessBits(b, c) \/ LessBits(c, b)
         /\ ~(LessBits(b, c) /\ LessBits(c, b))
         /\ b = c => ~LessBits(b, c)
<1> DEFINE D == (b \ c) \cup (c \ b)
<1>0. D \subseteq Nat BY PositionsNat
<1>1. ASSUME b # c PROVE \E i \in D : \A j \in D : i <= j
  <2>1. D # {} BY <1>1
  <2>2. PICK i \in D : \A j \in D : ~(<<j, i>> \in OpToRel(<, Nat))
        BY <1>0, <2>1, NatLessThanWellFounded, WFMin
  <2>3. ASSUME NEW j \in D PROVE i <= j
    <3>1. <<j, i>> \in Nat \X Nat BY <1>0
    <3>2. ~(<<j, i>>[1] < <<j, i>>[2]) BY <2>2, <3>1 DEF OpToRel
    <3> QED BY <1>0, <3>2
  <2> QED BY <2>3
<1>2. b # c => LessBits(b, c) \/ LessBits(c, b) BY <1>1 DEF LessBits
<1>3. ~(LessBits(b, c) /\ LessBits(c, b)) BY <1>0 DEF LessBits
<1> QED BY <1>2, <1>3 DEF LessBits

LEMMA InetOrdered ==
  ASSUME NEW x \in AddrSet, NEW y \in AddrSet, x.family = y.family, x.family \in Inets
  PROVE  /\ Less(x, y) => ~Less(y, x) /\ ~Equal(x, y)
         /\ ~Less(x, y) /\ ~Less(y, x) => Equal(x, y)
<1>1. /\ x.bits \in SUBSET Positions /\ y.bits \in SUBSET Positions
      /\ x.port \in Int /\ y.port \in Int
      BY PortsNat DEF AddrSet
<1>2. x.family # "unix" /\ ~(Number(x.family) < Number(y.family))
      /\ ~(Number(y.family) < Number(x.family))
      BY Widths DEF Number
<1>3. /\ Less(x, y) <=> LessBits(x.bits, y.bits) \/ (x.bits = y.bits /\ x.port < y.port)
      /\ Less(y, x) <=> LessBits(y.bits, x.bits) \/ (y.bits = x.bits /\ y.port < x.port)
      /\ Equal(x, y) <=> x.bits = y.bits /\ x.port = y.port
      BY <1>2 DEF Less, Equal
<1> QED BY <1>1, <1>3, BitsOrdered

LEMMA UnixOrdered ==
  ASSUME NEW x \in AddrSet, NEW y \in AddrSet, x.family = "unix", y.family = "unix",
         Comparable(x, y)
  PROVE  /\ Less(x, y) => ~Less(y, x) /\ ~Equal(x, y)
         /\ ~Less(x, y) /\ ~Less(y, x) => Equal(x, y)
<1>1. /\ x.len \in Nat /\ y.len \in Nat /\ x.name \in Nat /\ y.name \in Nat
      /\ x.abstract \in BOOLEAN /\ y.abstract \in BOOLEAN
      BY DEF AddrSet
<1>2. "unix" \notin Inets /\ ~(Number("unix") < Number("unix")) BY Widths DEF Number
<1>3. /\ Less(x, y) <=> LessUnix(x, y)
      /\ Less(y, x) <=> LessUnix(y, x)
      /\ Equal(x, y) <=> SameUnix(x, y)
      BY <1>2 DEF Less, Equal
<1>4. /\ x.abstract /\ ~y.abstract => x.len <= y.len
      /\ y.abstract /\ ~x.abstract => y.len <= x.len
      BY DEF Comparable
<1> QED BY <1>1, <1>3, <1>4 DEF LessUnix, SameUnix

\* Addresses of different families are ordered by the number of the family.
LEMMA FamiliesOrdered ==
  ASSUME NEW x \in AddrSet, NEW y \in AddrSet, x.family # y.family
  PROVE  /\ Less(x, y) => ~Less(y, x) /\ ~Equal(x, y)
         /\ Less(x, y) \/ Less(y, x)
<1>1. /\ x.family \in {"unspec", "unix", "inet", "inet6"}
      /\ y.family \in {"unspec", "unix", "inet", "inet6"}
      BY Widths DEF AddrSet, Families
<1>2. /\ Number("unspec") = 0 /\ Number("unix") = 1
      /\ Number("inet") = 2 /\ Number("inet6") = 10
      BY DEF Number
<1>3. /\ Less(x, y) <=> Number(x.family) < Number(y.family)
      /\ Less(y, x) <=> Number(y.family) < Number(x.family)
      /\ ~Equal(x, y)
      BY DEF Less, Equal
<1> HIDE DEF Number
<1> QED BY <1>1, <1>2, <1>3

LEMMA EqualHash ==
  ASSUME NEW x, NEW y, Equal(x, y)
  PROVE  Hash(x) = Hash(y)
<1>1. CASE x.family \in Inets
  <2>1. y.family = x.family /\ x.family \notin {"unix", "unspec"} BY <1>1, Widths DEF Equal
  <2>2. x.bits = y.bits /\ x.port = y.port BY <1>1, <2>1 DEF Equal
  <2> QED BY <1>1, <2>1, <2>2 DEF Hash
<1>2. CASE x.family = "unix"
  <2>1. y.family = "unix" /\ "unix" \notin Inets /\ SameUnix(x, y)
        BY <1>2, Widths DEF Equal
  <2> QED BY <1>2, <2>1 DEF Hash, SameUnix
<1> QED BY <1>1, <1>2 DEF Equal

LEMMA KeysInv == TypeOK => KeysAgree
<1> SUFFICES ASSUME TypeOK,
                    NEW s \in Slots, NEW t \in Slots, Comparable(addr[s], addr[t])
             PROVE  LET x == addr[s]  y == addr[t] IN
                      /\ Less(x, y) => ~Less(y, x) /\ ~Equal(x, y)
                      /\ ~Less(x, y) /\ ~Less(y, x) => Equal(x, y)
                      /\ Equal(x, y) => Hash(x) = Hash(y)
    BY DEF KeysAgree
<1> DEFINE x == addr[s]
           y == addr[t]
<1>1. x \in AddrSet /\ y \in AddrSet BY DEF TypeOK
<1>2. CASE x.family # y.family BY <1>1, <1>2, FamiliesOrdered, EqualHash
<1>3. CASE x.family = y.family /\ x.family \in Inets
      BY <1>1, <1>3, InetOrdered, EqualHash
<1>4. CASE x.family = y.family /\ x.family = "unix"
      BY <1>1, <1>4, UnixOrdered, EqualHash
<1>5. x.family = y.family => x.family \in Inets \/ x.family = "unix"
      BY <1>1 DEF AddrSet, Families, Comparable
<1> QED BY <1>2, <1>3, <1>4, <1>5

\* Order, equality and hash agree for every two addresses a program can make.
THEOREM KeysFit == Spec => []KeysAgree
BY TypeCorrect, KeysInv, PTL
=============================================================================
