------------------------------ MODULE SockAddr ------------------------------
(***************************************************************************)
(* Socket addresses and network ranges (net/sockaddr_def.hpp,              *)
(* net/impl/sockaddr.hpp): sock_addr variables and one network_range that a*)
(* program constructs, in any order, from text and from socket structures, *)
(* and compares.                                                           *)
(*                                                                         *)
(* The bits of an IP address are the set of the positions that are 1,      *)
(* counted from the most significant: the conjunction of two words is an   *)
(* intersection, and memcmp or a comparison in host order looks at the     *)
(* first position where two sets differ.  The name of a Unix socket is its *)
(* rank among those of its kind.                                           *)
(*                                                                         *)
(* A text is the record of its parts, in the order address/prefix:port, the*)
(* port without leading zeros.  type_ and protocol_ are copied and never   *)
(* looked at; to_string is left out.                                       *)
(***************************************************************************)
EXTENDS Integers, FiniteSets

CONSTANTS
  Slots,       \* sock_addr variables
  Texts,       \* texts of IP addresses
  Structs,     \* sockaddr_in and sockaddr_in6 structures
  Prefixes,    \* the prefix arguments of constructors
  UnixNames,   \* names of Unix sockets; the empty one is 0
  Lengths,     \* lengths of Unix structures: 2 when the kernel knows no name
  RangeTexts,  \* texts of ranges: the part before the first slash, the part after
  None, Malformed

Width    == [inet |-> 32, inet6 |-> 128]
Inets    == DOMAIN Width
Bits(f)  == 0..(Width[f] - 1)
Families == Inets \cup {"unspec", "unix"}

Positions == 0..127    \* bits of the longest address
Ports     == 0..65535
Octets    == 0..255    \* uint8_t

\* A numeric address, a keyword, or something that is neither.
HostSet == [kind : Inets \cup {"localhost", "any", "other"}, bits : SUBSET Positions]

\* inside: the slash comes before the closing bracket.
TextSet ==
  [bracket : {"none", "closed", "open"}, host : HostSet, inside : BOOLEAN,
   prefix : Nat \cup {None, Malformed}, port : Nat \cup {None, Malformed}]

\* What follows the slash of a range: a number, a netmask, nothing, or the like.
RangeTextSet ==
  [addr : TextSet, kind : {"none", "empty", "prefix", "netmask", "other"},
   prefix : Nat, netmask : SUBSET Bits("inet")]

ASSUME SockAddrAssumption ==
  /\ None \notin Nat /\ Malformed \notin Nat /\ None # Malformed
  /\ \A i \in Structs : /\ i \in [family : Inets, bits : SUBSET Positions,
                                  port : Ports]
                         /\ i.bits \subseteq Bits(i.family)
  /\ Texts \subseteq TextSet
  /\ \A t \in Texts \cup {r.addr : r \in RangeTexts} :
       t.host.kind \in Inets => t.host.bits \subseteq Bits(t.host.kind)
  /\ Prefixes \subseteq Octets
  /\ UnixNames \subseteq [abstract : BOOLEAN, name : Nat, size : Nat]
  /\ \A u, v \in UnixNames :
       u.abstract = v.abstract /\ u.name = v.name => u.size = v.size
  /\ \A u \in UnixNames : u.size = 0 <=> u.name = 0
  /\ Lengths \subseteq Nat
  /\ RangeTexts \subseteq RangeTextSet /\ \A r \in RangeTexts : r.addr.prefix = None

VARIABLES
  addr,   \* the sock_addr variables
  range,  \* a network_range
  asked   \* history: the address, and the netmask if any, of the range

vars == <<addr, range, asked>>

\* sizeof of the union, of each structure, and of sun_path.
UnionSize  == 112
SizeOf     == [inet |-> 16, inet6 |-> 28, unix |-> 110]
SunPath    == 108

Address(f, len, b, port, p, a, n) ==
  [bits |-> b, port |-> port, prefix |-> p, family |-> f, abstract |-> a,
   name |-> n, len |-> len]

\* addr_ is all zero.
Zero(len, p) == Address("unspec", len, {}, 0, p, FALSE, 0)
Nothing      == Zero(0, 0)

\* sock_addr()
Default == Zero(UnionSize, 0)

Inet(f, b, port, p) == Address(f, SizeOf[f], b, port, p, FALSE, 0)

\* A path that is empty begins with a zero byte, as an abstract name does.
Unix(u, len, p) ==
  Address("unix", len, {}, 0, p, u.abstract \/ u.size = 0, u.name)

NoRange   == [prefix |-> 0, net |-> Default, mask |-> {}, valid |-> FALSE]
NoRequest == [bits |-> {}, netmask |-> None]

Init == addr = [s \in Slots |-> Default] /\ range = NoRange /\ asked = NoRequest

-----------------------------------------------------------------------------
(* Parsing.                                                                *)

\* What a uint8_t keeps of a number: a prefix of 264 is taken for 8.
Narrow(n) == n % 256

\* Mutant: the width of the longest address for all of them.
InRangeOfLongest(p, f) == p <= 128

\* Whether a prefix is at most max_prefix.
InRange(p, f) == p <= Width[f]

\* The colons of an IPv6 address without brackets are taken for the one before
\* the port, unless that one follows a prefix.  A bracket must be closed.
Splits(t) ==
  /\ t.bracket # "open"
  /\ t.prefix # Malformed \/ t.inside
  /\ (t.port = None \/ t.port \in Ports)
  /\ t.bracket = "none" /\ t.host.kind = "inet6" => t.prefix # None /\ t.port # None

\* A prefix before the bracket stays in the name: only any... may have one.
Keyword(t) ==
  t.host.kind = "any" \/ (t.host.kind = "localhost" /\ ~t.inside)

\* setup_localhost, setup_wildcard: the prefix of the text is not looked at.
Setup(t, f, port) ==
  LET g == IF f = "unspec" THEN "inet" ELSE f
      b == IF t.host.kind = "any" THEN {}
           ELSE IF g = "inet" THEN (1..7) \cup {31} ELSE {127}
  IN Inet(g, b, port, Width[g])

\* parse_inet_address for the family f; getaddrinfo takes numeric addresses of
\* that family.  A prefix out of range leaves everything but len_ behind.
ParseInet(t, f) ==
  LET h    == t.host
      port == IF t.port = None THEN 0 ELSE t.port
  IN IF ~Splits(t) THEN Nothing
     ELSE IF Keyword(t) THEN Setup(t, f, port)
     ELSE IF h.kind \notin Inets \/ f \notin {"unspec", h.kind} \/ t.inside
       THEN Nothing
     ELSE IF t.prefix = None THEN Inet(h.kind, h.bits, port, Width[h.kind])
     ELSE IF ~InRange(Narrow(t.prefix), h.kind)
       THEN Address(h.kind, 0, h.bits, port, 0, FALSE, 0)
     ELSE Inet(h.kind, h.bits, port, Narrow(t.prefix))

\* parse_unix_address; abstract names that are cut are left out.  A path that is
\* too long leaves an empty one.
ParseUnix(u) ==
  IF u.abstract THEN Unix(u, 3 + u.size, 0)
  ELSE IF u.size >= SunPath THEN Unix([abstract |-> FALSE, name |-> 0, size |-> 0], 0, 0)
  ELSE Unix(u, SizeOf["unix"], 0)

-----------------------------------------------------------------------------
(* Comparison and hash.                                                    *)

\* AF_UNSPEC, AF_UNIX, AF_INET, AF_INET6
Number(f) == CASE f = "unspec" -> 0 [] f = "unix" -> 1
               [] f = "inet" -> 2   [] f = "inet6" -> 10

\* The most significant bit that differs is 1 in the greater one.
LessBits(b, c) ==
  \E i \in c \ b : \A j \in (b \ c) \cup (c \ b) : i <= j

SameUnix(x, y) ==
  /\ x.abstract = y.abstract /\ x.name = y.name
  /\ x.abstract => x.len = y.len

\* operator==
Equal(x, y) ==
  /\ x.family = y.family
  /\ \/ x.family \in Inets /\ x.bits = y.bits /\ x.port = y.port
     \/ x.family = "unix" /\ SameUnix(x, y)

\* Of two Unix sockets an abstract one comes first, if its length is no greater.
LessUnix(x, y) ==
  \/ x.abstract /\ x.len < y.len
  \/ x.abstract /\ x.len = y.len /\ (~y.abstract \/ x.name < y.name)
  \/ ~x.abstract /\ ~y.abstract /\ x.name < y.name

\* Mutant: the port decides although the addresses differ.
LessPortAlways(x, y) ==
  \/ Number(x.family) < Number(y.family)
  \/ /\ x.family = y.family
     /\ \/ x.family \in Inets /\ (LessBits(x.bits, y.bits) \/ x.port < y.port)
        \/ x.family = "unix" /\ LessUnix(x, y)

\* operator<
Less(x, y) ==
  \/ Number(x.family) < Number(y.family)
  \/ /\ x.family = y.family
     /\ \/ /\ x.family \in Inets
           /\ LessBits(x.bits, y.bits) \/ (x.bits = y.bits /\ x.port < y.port)
        \/ x.family = "unix" /\ LessUnix(x, y)

\* What hash<sock_addr> reads of an address.
Hash(x) ==
  CASE x.family \in Inets  -> <<x.bits, x.port>>
    [] x.family = "unix"   -> IF x.abstract THEN <<x.len, x.name>> ELSE <<x.name>>
    [] x.family = "unspec" -> <<>>

-----------------------------------------------------------------------------
(* Ranges.                                                                 *)

\* What << leaves of a 32-bit word.  The count is taken modulo 32, as the processor
\* does: the language leaves a shift by 32 undefined.
ShiftLeft(w, n) == {i \in Bits("inet") : i + (n % 32) \in w}

\* Whole bytes and the rest of one.
MaskBytes(p) ==
  {i \in Bits("inet6") : \/ i \div 8 < p \div 8
                         \/ i \div 8 = p \div 8 /\ i % 8 < p % 8}

\* Mutant: the shift by 32 is not guarded.
MaskUnguarded(f, p) ==
  IF f = "inet6" THEN MaskBytes(p) ELSE ShiftLeft(Bits("inet"), 32 - p)

\* init_mask.  The constructors let no prefix through that it would cut.
Mask(f, p) ==
  IF f = "inet6" THEN MaskBytes(p)
  ELSE IF p = 0 THEN {} ELSE ShiftLeft(Bits("inet"), 32 - p)

\* The constructors after the address and the prefix are known: init_mask and
\* apply_mask.
Masked(x, p) ==
  IF x.len # 0 /\ x.family \in Inets /\ p <= Width[x.family]
  THEN [prefix |-> p,
        net    |-> Address(x.family, x.len, x.bits \cap Mask(x.family, p), 0, x.prefix,
                           x.abstract, x.name),
        mask   |-> Mask(x.family, p), valid |-> TRUE]
  ELSE [prefix |-> p, net |-> x, mask |-> {}, valid |-> FALSE]

\* The lowest bit of m that is 1 and all above it that are 0: ~netmask + 1.
Negated(m) ==
  {i \in Bits("inet") : IF i \in m THEN \A j \in m : j <= i
                                   ELSE \E j \in m : i < j}

\* netmask_to_prefix; 0 is no netmask.
NetmaskToPrefix(m) ==
  LET ones == {n \in 0..32 : 0..(n - 1) \subseteq m /\ \A i \in m : i < n}
  IN IF ones # {} /\ \A i, j \in Negated(m) : i = j THEN CHOOSE n \in ones : TRUE
                                                   ELSE 0

\* network_range(text): what follows the first slash decides what is parsed.
RangeFromText(r, f) ==
  LET x == ParseInet(r.addr, f)
      y == ParseInet(r.addr, "inet")
      p == NetmaskToPrefix(r.netmask)
  IN CASE r.kind \in {"empty", "prefix"} /\ x.len = 0          -> [NoRange EXCEPT !.net = x]
       [] r.kind = "empty" /\ x.len # 0                        -> Masked(x, 0)
       [] r.kind = "prefix" /\ x.len # 0                       -> Masked(x, Narrow(r.prefix))
       [] r.kind = "netmask" /\ f # "inet6" /\ p # 0           -> Masked(y, p)
       [] OTHER                                                -> NoRange

\* contains()
Contains(r, x) ==
  r.valid /\ x.family = r.net.family /\ x.bits \cap r.mask = r.net.bits

-----------------------------------------------------------------------------
(* The program.                                                            *)

Assign(s, x) == addr' = [addr EXCEPT ![s] = x] /\ UNCHANGED <<range, asked>>

Construct(s) == Assign(s, Default)

\* sock_addr(const sockaddr_in &), sock_addr(const sockaddr_in6 &)
ConstructInet(s, i, p) == Assign(s, Inet(i.family, i.bits, i.port, p))

\* sock_addr(const sockaddr *, len) with an IP address of the right length.
ConstructGeneric(s, i, p) ==
  Assign(s, Inet(i.family, i.bits, i.port, IF p = 0 THEN Width[i.family] ELSE p))

\* sock_addr(const sockaddr *, len) that is null or of another length or family.
ConstructUnknown(s, p) == Assign(s, Zero(0, p))

\* sock_addr(const sockaddr_un &).  A path without a final zero byte is left out.
ConstructUnix(s, u) ==
  /\ u.size < SunPath
  /\ Assign(s, Unix(u, SizeOf["unix"], 0))

\* sock_addr(const sockaddr *, len) with a Unix address; a length that cuts an
\* abstract name is left out.
ConstructGenericUnix(s, u, len, p) ==
  /\ u.size < SunPath
  /\ u.abstract => u.size = 0 \/ 3 + u.size <= len
  /\ Assign(s, Unix(u, len, p))

\* sock_addr(text, family)
Parse(s, t, f) == Assign(s, ParseInet(t, f))
ParsePath(s, u) == Assign(s, ParseUnix(u))

\* network_range(addr)
RangeOf(s) ==
  /\ range' = Masked(addr[s], addr[s].prefix)
  /\ asked' = [bits |-> addr[s].bits, netmask |-> None]
  /\ UNCHANGED addr

\* network_range(text, family)
RangeText(r, f) ==
  /\ range' = RangeFromText(r, f)
  /\ asked' = [bits    |-> ParseInet(r.addr, IF r.kind = "netmask" THEN "inet" ELSE f).bits,
               netmask |-> IF r.kind = "netmask" THEN r.netmask ELSE None]
  /\ UNCHANGED addr

Next ==
  \/ \E s \in Slots :
       \/ Construct(s) \/ RangeOf(s)
       \/ \E p \in Prefixes :
            ConstructUnknown(s, p)
            \/ \E i \in Structs : ConstructInet(s, i, p) \/ ConstructGeneric(s, i, p)
       \/ \E u \in UnixNames :
            \/ ConstructUnix(s, u) \/ ParsePath(s, u)
            \/ \E len \in Lengths, p \in Prefixes : ConstructGenericUnix(s, u, len, p)
       \/ \E t \in Texts, f \in {"unspec"} \cup Inets : Parse(s, t, f)
  \/ \E r \in RangeTexts, f \in {"unspec"} \cup Inets : RangeText(r, f)

Spec == Init /\ [][Next]_vars

-----------------------------------------------------------------------------
(* Safety.                                                                 *)

\* The values each variable takes.  An IP address has no bit beyond its width, and no
\* prefix either but one that the caller of a constructor gave.
AddrSet ==
  [family : Families, len : Nat, bits : SUBSET Positions, port : Ports,
   prefix : Octets, abstract : BOOLEAN, name : Nat]
Fits(x) ==
  /\ x \in AddrSet
  /\ x.family \in Inets => /\ x.bits \subseteq Bits(x.family)
                           /\ x.prefix <= Width[x.family] \/ x.prefix \in Prefixes
TypeOK ==
  /\ addr \in [Slots -> AddrSet] /\ \A s \in Slots : Fits(addr[s])
  /\ range \in [net : AddrSet, prefix : Octets, mask : SUBSET Positions,
                valid : BOOLEAN]
  /\ Fits(range.net)

\* A range contains exactly the addresses of its family that agree with the one it
\* was made from in its first prefix() bits, whether the prefix came as a number or
\* as a netmask, and whatever constructor made the address (sockaddr_def.hpp:
\* 264-288): shifted words, whole bytes and the rest of a byte amount to the same.
ContainsByPrefix ==
  range.valid =>
    /\ \A s \in Slots :
         Contains(range, addr[s]) <=>
           /\ addr[s].family = range.net.family
           /\ \A i \in 0..(range.prefix - 1) : i \in addr[s].bits <=> i \in asked.bits
    /\ asked.netmask # None => asked.netmask = 0..(range.prefix - 1)

\* Two addresses can be told apart.  Not so the ones without a family, a Unix
\* address whose length is 0 after a failure, and an abstract name that is longer
\* than what the kernel returned as the length of a path.
Comparable(x, y) ==
  /\ x.family = y.family => x.family # "unspec"
  /\ \A z \in {x, y} : z.family = "unix" => z.len >= 2
  /\ x.family = "unix" /\ y.family = "unix" =>
       /\ x.abstract /\ ~y.abstract => x.len <= y.len
       /\ y.abstract /\ ~x.abstract => y.len <= x.len

\* sock_addr is fit to be a key of ordered and unordered containers
\* (sockaddr_def.hpp:46-49): of two addresses either they are equal, with the same
\* hash, or exactly one of them is the lesser.
KeysAgree ==
  \A s, t \in Slots : LET x == addr[s]  y == addr[t] IN
    Comparable(x, y) =>
      /\ Less(x, y) => ~Less(y, x) /\ ~Equal(x, y)
      /\ ~Less(x, y) /\ ~Less(y, x) => Equal(x, y)
      /\ Equal(x, y) => Hash(x) = Hash(y)

\* The inductive invariant behind ContainsByPrefix: the network address is the one
\* asked for under the mask.
RangeIsMasked ==
  range.valid =>
    /\ range.net.family \in Inets /\ range.prefix <= Width[range.net.family]
    /\ range.mask = Mask(range.net.family, range.prefix)
    /\ range.net.bits = asked.bits \cap range.mask
    /\ asked.netmask # None => asked.netmask = 0..(range.prefix - 1)
IInv == TypeOK /\ RangeIsMasked
=============================================================================
