-------------------------------- MODULE Address ------------------------------
(***************************************************************************)
(* Which addresses a remote fetch may reach: crates/imgx/src/origin/       *)
(* remote.rs:301-344.  An IPv4 address is the sequence of its four octets, *)
(* an IPv6 address that of its eight segments.                             *)
(***************************************************************************)
EXTENDS Integers, Sequences

Octet == 0..255
MaxSegment == 65535
Segment == 0..MaxSegment
IPv4 == [1..4 -> Octet]
IPv6 == [1..8 -> Segment]

is_private(o) == o[1] = 10 \/ (o[1] = 172 /\ o[2] \in 16..31) \/ (o[1] = 192 /\ o[2] = 168)
is_documentation(o) ==
  SubSeq(o, 1, 3) \in {<<192, 0, 2>>, <<198, 51, 100>>, <<203, 0, 113>>}

\* (o[1] & 0xC0) == 64 keeps the two upper bits of the octet.
is_v4_globally_routable(o) ==
  ~(\/ is_private(o) \/ o[1] = 127 \/ (o[1] = 169 /\ o[2] = 254) \/ o[1] \in 224..239
    \/ o = <<255, 255, 255, 255>> \/ is_documentation(o) \/ o[1] = 0
    \/ (o[1] = 100 /\ o[2] \div 64 = 1))

\* ::1, ::, ff00::/8, fc00::/7, fe80::/10.
is_v6_globally_routable(s) ==
  ~(\/ (\A i \in 1..7 : s[i] = 0) /\ s[8] \in {0, 1}
    \/ s[1] \div 256 = 255 \/ s[1] \div 512 = 126 \/ s[1] \div 64 = 1018)

is_mapped(s) == (\A i \in 1..5 : s[i] = 0) /\ s[6] = 65535
to_ipv4_mapped(s) == <<s[7] \div 256, s[7] % 256, s[8] \div 256, s[8] % 256>>

is_globally_routable(address) ==
  IF Len(address) = 4 THEN is_v4_globally_routable(address)
  ELSE IF is_mapped(address) THEN is_v4_globally_routable(to_ipv4_mapped(address))
  ELSE is_v6_globally_routable(address)
-----------------------------------------------------------------------------
\* The reference: the networks that docs/INVARIANTS.md INV-14 names, each as its
\* first and last address.
Reserved4 ==
  { <<<<0, 0, 0, 0>>, <<0, 255, 255, 255>>>>,
    <<<<10, 0, 0, 0>>, <<10, 255, 255, 255>>>>,
    <<<<100, 64, 0, 0>>, <<100, 127, 255, 255>>>>,
    <<<<127, 0, 0, 0>>, <<127, 255, 255, 255>>>>,
    <<<<169, 254, 0, 0>>, <<169, 254, 255, 255>>>>,
    <<<<172, 16, 0, 0>>, <<172, 31, 255, 255>>>>,
    <<<<192, 168, 0, 0>>, <<192, 168, 255, 255>>>>,
    <<<<224, 0, 0, 0>>, <<239, 255, 255, 255>>>>,
    <<<<255, 255, 255, 255>>, <<255, 255, 255, 255>>>> }

Mapped(o) == <<0, 0, 0, 0, 0, 65535, 256 * o[1] + o[2], 256 * o[3] + o[4]>>
Filled(head, rest) == <<head, rest, rest, rest, rest, rest, rest, rest>>

Reserved6 ==
  { <<Mapped(r[1]), Mapped(r[2])>> : r \in Reserved4 } \union
  { <<Filled(0, 0), <<0, 0, 0, 0, 0, 0, 0, 1>>>>,
    <<Filled(64512, 0), Filled(65023, 65535)>>,
    <<Filled(65152, 0), Filled(65215, 65535)>>,
    <<Filled(65280, 0), Filled(65535, 65535)>> }

AtMost(a, b) ==
  a = b \/ \E i \in DOMAIN a : a[i] < b[i] /\ \A j \in 1..(i - 1) : a[j] = b[j]

IsPublic(address) ==
  \A r \in (IF Len(address) = 4 THEN Reserved4 ELSE Reserved6) :
    ~(AtMost(r[1], address) /\ AtMost(address, r[2]))
=============================================================================
