------------------------------ MODULE FetchProofs ----------------------------
(***************************************************************************)
(* The process and its fetches, proved for every set of environments, URLs *)
(* and resolutions, and for bodies and chunks of any size: settings take   *)
(* effect, remote fetches stay on public addresses, images are whole and   *)
(* rejections are named.  The address rules are proved for all 2^32 and    *)
(* 2^128 addresses: none that is_globally_routable accepts lies in a       *)
(* network that docs/INVARIANTS.md INV-14 names.  The rules look at octets *)
(* and bits, the networks are ranges in the order of addresses.            *)
(***************************************************************************)
EXTENDS Fetch, SequenceTheorems, TLAPS

\* The length of a function on 1..n.
LEMMA TupleLength ==
  ASSUME NEW S, NEW n \in Nat, NEW a \in [1..n -> S]
  PROVE  Len(a) = n /\ DOMAIN a = 1..n
<1>1. a \in Seq(S) BY SeqDef
<1>2. DOMAIN a = 1..Len(a) /\ Len(a) \in Nat BY <1>1, LenProperties
<1> QED BY <1>2

\* Parts of addresses are numbers.
LEMMA NumbersTold == Octet \subseteq Nat /\ Segment \subseteq Nat
BY DEF Octet, Segment, MaxSegment

\* An octet is a number below 256.
LEMMA OctetBound ==
  /\ \A n \in Octet : n \in Nat /\ n <= 255
  /\ \A n \in Nat : n <= 255 => n \in Octet
BY DEF Octet

\* A segment is a number below 65536.
LEMMA SegmentBound ==
  /\ \A n \in Segment : n \in Nat /\ n <= 65535
  /\ \A n \in Nat : n <= 65535 => n \in Segment
<1>1. MaxSegment \in Nat BY DEF MaxSegment
<1>2. \A n \in Segment : n \in Nat /\ n <= MaxSegment BY <1>1 DEF Segment
<1>3. \A n \in Nat : n <= MaxSegment => n \in Segment BY <1>1 DEF Segment
<1> QED BY <1>2, <1>3 DEF MaxSegment

\* An IPv4 address has four octets, an IPv6 address eight segments.
LEMMA LengthsTold ==
  /\ \A a \in IPv4 : Len(a) = 4 /\ DOMAIN a = 1..4 /\ \A i \in 1..4 : a[i] \in Octet
  /\ \A a \in IPv6 : Len(a) = 8 /\ DOMAIN a = 1..8 /\ \A i \in 1..8 : a[i] \in Segment
<1>1. ASSUME NEW a \in IPv4 PROVE Len(a) = 4 /\ DOMAIN a = 1..4
  BY TupleLength DEF IPv4
<1>2. ASSUME NEW a \in IPv6 PROVE Len(a) = 8 /\ DOMAIN a = 1..8
  BY TupleLength DEF IPv6
<1> QED BY <1>1, <1>2 DEF IPv4, IPv6

\* An address that is written down, part by part.
LEMMA FourParts ==
  ASSUME NEW S, NEW p \in S, NEW q \in S, NEW r \in S, NEW s \in S
  PROVE  LET a == <<p, q, r, s>>
         IN a \in [1..4 -> S] /\ a[1] = p /\ a[2] = q /\ a[3] = r /\ a[4] = s
OBVIOUS

\* The same for eight segments.
LEMMA EightParts ==
  ASSUME NEW S, NEW p \in S, NEW q \in S, NEW r \in S, NEW s \in S,
         NEW t \in S, NEW u \in S, NEW v \in S, NEW w \in S
  PROVE  LET a == <<p, q, r, s, t, u, v, w>>
         IN /\ a \in [1..8 -> S] /\ a[1] = p /\ a[2] = q /\ a[3] = r /\ a[4] = s
            /\ a[5] = t /\ a[6] = u /\ a[7] = v /\ a[8] = w
OBVIOUS

\* Where two addresses agree up to a place, order there.
LEMMA OrderedAt ==
  ASSUME NEW m \in Nat, NEW a \in [1..m -> Nat], NEW b \in [1..m -> Nat],
         NEW n \in 1..m, AtMost(a, b), \A j \in 1..(n - 1) : a[j] = b[j]
  PROVE  a[n] <= b[n]
<1>1. CASE a = b BY <1>1
<1>2. CASE \E i \in DOMAIN a : a[i] < b[i] /\ \A j \in 1..(i - 1) : a[j] = b[j]
  <2>1. PICK i \in 1..m : a[i] < b[i] /\ \A j \in 1..(i - 1) : a[j] = b[j] BY <1>2
  <2>2. CASE i < n
    <3>1. i \in 1..(n - 1) BY <2>1, <2>2
    <3> QED BY <3>1, <2>1
  <2>3. CASE i = n BY <2>1, <2>3
  <2>4. CASE n < i BY <2>1, <2>4
  <2> QED BY <2>1, <2>2, <2>3, <2>4
<1> QED BY <1>1, <1>2 DEF AtMost

\* The order of IPv4 addresses, part by part.
LEMMA Ordered4 ==
  ASSUME NEW a \in IPv4, NEW b \in IPv4, AtMost(a, b)
  PROVE  \A n \in 1..4 : (\A j \in 1..(n - 1) : a[j] = b[j]) => a[n] <= b[n]
<1>1. a \in [1..4 -> Nat] /\ b \in [1..4 -> Nat] BY NumbersTold DEF IPv4
<1> QED BY <1>1, OrderedAt

\* The order of IPv6 addresses, part by part.
LEMMA Ordered8 ==
  ASSUME NEW a \in IPv6, NEW b \in IPv6, AtMost(a, b)
  PROVE  \A n \in 1..8 : (\A j \in 1..(n - 1) : a[j] = b[j]) => a[n] <= b[n]
<1>1. a \in [1..8 -> Nat] /\ b \in [1..8 -> Nat] BY NumbersTold DEF IPv6
<1> QED BY <1>1, OrderedAt

\* An address within a range, place by place.
LEMMA Within4 ==
  ASSUME NEW lo \in IPv4, NEW hi \in IPv4, NEW a \in IPv4, AtMost(lo, a), AtMost(a, hi)
  PROVE  /\ lo[1] <= a[1] /\ a[1] <= hi[1]
         /\ lo[1] = hi[1] => lo[2] <= a[2] /\ a[2] <= hi[2]
         /\ lo[1] = hi[1] /\ lo[2] = hi[2] => lo[3] <= a[3] /\ a[3] <= hi[3]
         /\ lo[1] = hi[1] /\ lo[2] = hi[2] /\ lo[3] = hi[3] => lo[4] <= a[4] /\ a[4] <= hi[4]
<1> DEFINE Below(x, y) == \A n \in 1..4 : (\A j \in 1..(n - 1) : x[j] = y[j]) => x[n] <= y[n]
<1>1. Below(lo, a) /\ Below(a, hi) BY Ordered4
<1>2. \A i \in 1..4 : lo[i] \in Nat /\ hi[i] \in Nat /\ a[i] \in Nat
  BY LengthsTold, NumbersTold
<1>3. lo[1] <= a[1] /\ a[1] <= hi[1] BY <1>1
<1>4. ASSUME lo[1] = hi[1] PROVE a[1] = lo[1] /\ lo[2] <= a[2] /\ a[2] <= hi[2]
  <2>1. a[1] = lo[1] BY <1>2, <1>3, <1>4
  <2>2. \A j \in 1..(2 - 1) : lo[j] = a[j] /\ a[j] = hi[j] BY <2>1, <1>4
  <2> QED BY <1>1, <2>1, <2>2
<1>5. ASSUME lo[1] = hi[1], lo[2] = hi[2] PROVE a[2] = lo[2] /\ lo[3] <= a[3] /\ a[3] <= hi[3]
  <2>1. a[2] = lo[2] BY <1>2, <1>4, <1>5
  <2>2. \A j \in 1..(3 - 1) : lo[j] = a[j] /\ a[j] = hi[j] BY <2>1, <1>4, <1>5
  <2> QED BY <1>1, <2>1, <2>2
<1>6. ASSUME lo[1] = hi[1], lo[2] = hi[2], lo[3] = hi[3] PROVE lo[4] <= a[4] /\ a[4] <= hi[4]
  <2>1. a[3] = lo[3] BY <1>2, <1>5, <1>6
  <2>2. \A j \in 1..(4 - 1) : lo[j] = a[j] /\ a[j] = hi[j] BY <2>1, <1>4, <1>5, <1>6
  <2> QED BY <1>1, <2>2
<1> QED BY <1>3, <1>4, <1>5, <1>6

\* The ranges hold addresses.
LEMMA ReservedTyped == Reserved4 \subseteq IPv4 \X IPv4
<1>1. \A p, q, r, s \in Octet : <<p, q, r, s>> \in IPv4 BY FourParts DEF IPv4
<1>2. {0, 10, 31, 64, 100, 127, 168, 169, 172, 16, 192, 224, 239, 254, 255} \subseteq Octet
  BY DEF Octet
<1> QED BY <1>1, <1>2 DEF Reserved4

\* No IPv4 address that passes the check lies in a network that is kept out
\* (remote.rs:301-330).
LEMMA RoutableIsPublic4 ==
  ASSUME NEW a \in IPv4, is_v4_globally_routable(a), NEW r \in Reserved4
  PROVE  ~(AtMost(r[1], a) /\ AtMost(a, r[2]))
<1> SUFFICES ASSUME AtMost(r[1], a), AtMost(a, r[2]) PROVE FALSE
  OBVIOUS
<1> DEFINE lo == r[1]
           hi == r[2]
<1>1. lo \in IPv4 /\ hi \in IPv4 BY ReservedTyped
<1>2. /\ lo[1] <= a[1] /\ a[1] <= hi[1]
      /\ lo[1] = hi[1] => lo[2] <= a[2] /\ a[2] <= hi[2]
      /\ lo[1] = hi[1] /\ lo[2] = hi[2] => lo[3] <= a[3] /\ a[3] <= hi[3]
      /\ lo[1] = hi[1] /\ lo[2] = hi[2] /\ lo[3] = hi[3] => lo[4] <= a[4] /\ a[4] <= hi[4]
  BY <1>1, Within4
<1>3. \A i \in 1..4 : a[i] \in Nat BY LengthsTold, NumbersTold
<1>4. CASE lo[1] = 0 /\ hi[1] = 0 BY <1>2, <1>3, <1>4 DEF is_v4_globally_routable
<1>5. CASE lo[1] = 10 /\ hi[1] = 10 BY <1>2, <1>3, <1>5 DEF is_v4_globally_routable, is_private
<1>6. CASE lo[1] = 100 /\ hi[1] = 100 /\ lo[2] = 64 /\ hi[2] = 127
  BY <1>2, <1>3, <1>6 DEF is_v4_globally_routable
<1>7. CASE lo[1] = 127 /\ hi[1] = 127 BY <1>2, <1>3, <1>7 DEF is_v4_globally_routable
<1>8. CASE lo[1] = 169 /\ hi[1] = 169 /\ lo[2] = 254 /\ hi[2] = 254
  BY <1>2, <1>3, <1>8 DEF is_v4_globally_routable
<1>9. CASE lo[1] = 172 /\ hi[1] = 172 /\ lo[2] = 16 /\ hi[2] = 31
  BY <1>2, <1>3, <1>9 DEF is_v4_globally_routable, is_private
<1>10. CASE lo[1] = 192 /\ hi[1] = 192 /\ lo[2] = 168 /\ hi[2] = 168
  BY <1>2, <1>3, <1>10 DEF is_v4_globally_routable, is_private
<1>11. CASE lo[1] = 224 /\ hi[1] = 239 BY <1>2, <1>3, <1>11 DEF is_v4_globally_routable
<1>12. CASE lo = <<255, 255, 255, 255>> /\ hi = <<255, 255, 255, 255>>
  <2>1. a[1] = 255 /\ a[2] = 255 /\ a[3] = 255 /\ a[4] = 255 BY <1>2, <1>3, <1>12
  <2>2. a = <<255, 255, 255, 255>> BY <2>1, FourParts DEF IPv4
  <2> QED BY <2>2 DEF is_v4_globally_routable
<1> QED BY <1>4, <1>5, <1>6, <1>7, <1>8, <1>9, <1>10, <1>11, <1>12 DEF Reserved4

-----------------------------------------------------------------------------
\* The IPv6 address that an IPv4 one is mapped to.
LEMMA MappedParts ==
  ASSUME NEW o \in IPv4
  PROVE  /\ Mapped(o) \in IPv6
         /\ \A i \in 1..5 : Mapped(o)[i] = 0
         /\ Mapped(o)[6] = 65535
         /\ Mapped(o)[7] = 256 * o[1] + o[2]
         /\ Mapped(o)[8] = 256 * o[3] + o[4]
<1>1. \A i \in 1..4 : o[i] \in Nat /\ o[i] <= 255 BY LengthsTold, OctetBound
<1>2. 256 * o[1] + o[2] \in Segment /\ 256 * o[3] + o[4] \in Segment BY <1>1, SegmentBound
<1>3. 0 \in Segment /\ 65535 \in Segment BY SegmentBound
<1> QED BY <1>2, <1>3, EightParts DEF Mapped, IPv6

\* A segment is made of two octets.
LEMMA BytesOf ==
  ASSUME NEW n \in Segment
  PROVE  \E q, r \in Octet : q = n \div 256 /\ r = n % 256 /\ n = 256 * q + r
<1>1. n \in Nat /\ n <= 65535 BY SegmentBound
<1>2. n \div 256 \in Nat /\ n % 256 \in Nat BY <1>1
<1>3. PICK q \in Nat, r \in Nat : q = n \div 256 /\ r = n % 256 BY <1>2
<1>4. n = 256 * q + r /\ r <= 255 BY <1>1, <1>3
<1>5. q <= 255 BY <1>1, <1>4
<1>6. q \in Octet /\ r \in Octet BY <1>4, <1>5, OctetBound
<1> QED BY <1>3, <1>4, <1>6

\* An address is mapped when it is the image of the IPv4 address taken out of it.
LEMMA MappedBack ==
  ASSUME NEW a \in IPv6, is_mapped(a)
  PROVE  to_ipv4_mapped(a) \in IPv4 /\ a = Mapped(to_ipv4_mapped(a))
<1> DEFINE q == to_ipv4_mapped(a)
<1>1. a[7] \in Segment /\ a[8] \in Segment BY LengthsTold
<1>2. PICK p1 \in Octet, p2 \in Octet :
        p1 = a[7] \div 256 /\ p2 = a[7] % 256 /\ a[7] = 256 * p1 + p2
  BY <1>1, BytesOf
<1>3. PICK p3 \in Octet, p4 \in Octet :
        p3 = a[8] \div 256 /\ p4 = a[8] % 256 /\ a[8] = 256 * p3 + p4
  BY <1>1, BytesOf
<1>4. q = <<p1, p2, p3, p4>> BY <1>2, <1>3 DEF to_ipv4_mapped
<1>5. q \in IPv4 /\ q[1] = p1 /\ q[2] = p2 /\ q[3] = p3 /\ q[4] = p4
  BY <1>4, FourParts DEF IPv4
<1> HIDE DEF q
<1>6. Mapped(q) \in IPv6 BY <1>5, MappedParts
<1>7. Mapped(q)[7] = a[7] /\ Mapped(q)[8] = a[8] BY <1>2, <1>3, <1>5, MappedParts
<1>8. \A i \in 1..5 : Mapped(q)[i] = a[i] BY <1>5, MappedParts DEF is_mapped
<1>9. Mapped(q)[6] = a[6] BY <1>5, MappedParts DEF is_mapped
<1>10. \A i \in 1..8 : Mapped(q)[i] = a[i] BY <1>7, <1>8, <1>9
<1>11. a = Mapped(q) BY <1>6, <1>10 DEF IPv6
<1> QED BY <1>5, <1>11 DEF q

\* The mapping keeps the order.
LEMMA MappedOrder ==
  ASSUME NEW o \in IPv4, NEW q \in IPv4, AtMost(Mapped(o), Mapped(q))
  PROVE  AtMost(o, q)
<1>1. \A n \in 1..8 : (\A j \in 1..(n - 1) : Mapped(o)[j] = Mapped(q)[j])
                         => Mapped(o)[n] <= Mapped(q)[n]
  BY MappedParts, Ordered8
<1>2. \A i \in 1..4 : o[i] \in Nat /\ o[i] <= 255 /\ q[i] \in Nat /\ q[i] <= 255
  BY LengthsTold, OctetBound
<1>3. \A j \in 1..6 : Mapped(o)[j] = Mapped(q)[j] BY MappedParts
<1>4. 256 * o[1] + o[2] <= 256 * q[1] + q[2]
  BY <1>1, <1>3, MappedParts
<1>5. ASSUME o[1] = q[1], o[2] = q[2] PROVE 256 * o[3] + o[4] <= 256 * q[3] + q[4]
  <2>1. \A j \in 1..7 : Mapped(o)[j] = Mapped(q)[j] BY <1>3, <1>5, MappedParts
  <2> QED BY <1>1, <2>1, MappedParts
<1>6. DOMAIN o = 1..4 BY LengthsTold
<1>7. CASE o[1] < q[1] BY <1>6, <1>7 DEF AtMost
<1>8. CASE o[1] = q[1] /\ o[2] < q[2] BY <1>6, <1>8 DEF AtMost
<1>9. CASE o[1] = q[1] /\ o[2] = q[2] /\ o[3] < q[3] BY <1>6, <1>9 DEF AtMost
<1>10. CASE o[1] = q[1] /\ o[2] = q[2] /\ o[3] = q[3] /\ o[4] < q[4] BY <1>6, <1>10 DEF AtMost
<1>11. CASE o[1] = q[1] /\ o[2] = q[2] /\ o[3] = q[3] /\ o[4] = q[4]
  <2>1. o = q BY <1>11 DEF IPv4
  <2> QED BY <2>1 DEF AtMost
<1>12. o[1] < q[1] \/ (o[1] = q[1] /\ o[2] <= q[2]) BY <1>2, <1>4
<1>13. o[3] < q[3] \/ (o[3] = q[3] /\ o[4] <= q[4]) \/ ~(o[1] = q[1] /\ o[2] = q[2])
  BY <1>2, <1>5
<1>14. \A i \in 1..4 : o[i] <= q[i] => o[i] < q[i] \/ o[i] = q[i] BY <1>2
<1> QED BY <1>7, <1>8, <1>9, <1>10, <1>11, <1>12, <1>13, <1>14

\* No IPv6 address that passes the check lies in a network that is kept out, mapped
\* IPv4 ones among them (remote.rs:317-344).
LEMMA RoutableIsPublic6 ==
  ASSUME NEW a \in IPv6, is_globally_routable(a), NEW r \in Reserved6
  PROVE  ~(AtMost(r[1], a) /\ AtMost(a, r[2]))
<1> SUFFICES ASSUME AtMost(r[1], a), AtMost(a, r[2]) PROVE FALSE
  OBVIOUS
<1> DEFINE Below(x, y) == \A n \in 1..8 : (\A j \in 1..(n - 1) : x[j] = y[j]) => x[n] <= y[n]
<1>1. \A i \in 1..8 : a[i] \in Nat BY LengthsTold, NumbersTold
<1>2. Len(a) = 8 BY LengthsTold
<1>3. CASE \E s \in Reserved4 : r = <<Mapped(s[1]), Mapped(s[2])>>
  <2>1. PICK s \in Reserved4 : r = <<Mapped(s[1]), Mapped(s[2])>> BY <1>3
  <2>2. s[1] \in IPv4 /\ s[2] \in IPv4 BY ReservedTyped
  <2>3. r[1] = Mapped(s[1]) /\ r[2] = Mapped(s[2]) BY <2>1
  <2>4. /\ r[1] \in IPv6 /\ r[2] \in IPv6
        /\ \A i \in 1..6 : r[1][i] = r[2][i] /\ r[1][i] \in Nat
    BY <2>2, <2>3, MappedParts
  <2>5. Below(r[1], a) /\ Below(a, r[2]) BY <2>4, Ordered8
  <2>6. \A i \in 1..6 : a[i] = r[1][i]
    <3> DEFINE Same(n) == r[1][n] = a[n]
    <3>1. ASSUME NEW n \in 1..6, \A j \in 1..(n - 1) : Same(j) PROVE Same(n)
      <4>1. \A j \in 1..(n - 1) : r[1][j] = a[j] /\ a[j] = r[2][j] BY <2>4, <3>1
      <4>2. r[1][n] <= a[n] /\ a[n] <= r[2][n] BY <2>5, <4>1
      <4> QED BY <1>1, <2>4, <4>2
    <3> HIDE DEF Same
    <3>2. Same(1) BY <3>1
    <3>3. Same(2) BY <3>1, <3>2
    <3>4. Same(3) BY <3>1, <3>2, <3>3
    <3>5. Same(4) BY <3>1, <3>2, <3>3, <3>4
    <3>6. Same(5) BY <3>1, <3>2, <3>3, <3>4, <3>5
    <3>7. Same(6) BY <3>1, <3>2, <3>3, <3>4, <3>5, <3>6
    <3> QED BY <3>2, <3>3, <3>4, <3>5, <3>6, <3>7 DEF Same
  <2>7. is_mapped(a) BY <2>2, <2>3, <2>6, MappedParts DEF is_mapped
  <2> DEFINE q == to_ipv4_mapped(a)
  <2>8. q \in IPv4 /\ a = Mapped(q) BY <2>7, MappedBack
  <2>9. AtMost(s[1], q) /\ AtMost(q, s[2]) BY <2>2, <2>3, <2>8, MappedOrder
  <2>10. is_v4_globally_routable(q) BY <1>2, <2>7 DEF is_globally_routable
  <2> QED BY <2>8, <2>9, <2>10, RoutableIsPublic4
<1>4. CASE r = <<Filled(0, 0), <<0, 0, 0, 0, 0, 0, 0, 1>>>>
  <2>1. 0 \in Segment /\ 1 \in Segment BY SegmentBound
  <2>2. r[1] = <<0, 0, 0, 0, 0, 0, 0, 0>> /\ r[2] = <<0, 0, 0, 0, 0, 0, 0, 1>>
    BY <1>4 DEF Filled
  <2>3. /\ r[1] \in IPv6 /\ r[2] \in IPv6 /\ \A i \in 1..7 : r[1][i] = 0 /\ r[2][i] = 0
        /\ r[1][8] = 0 /\ r[2][8] = 1
    BY <2>1, <2>2, EightParts DEF IPv6
  <2>4. Below(r[1], a) /\ Below(a, r[2]) BY <2>3, Ordered8
  <2> DEFINE Zero(n) == a[n] = 0
  <2>5. ASSUME NEW n \in 1..7, \A j \in 1..(n - 1) : Zero(j) PROVE Zero(n)
    <3>1. \A j \in 1..(n - 1) : r[1][j] = a[j] /\ a[j] = r[2][j] BY <2>3, <2>5
    <3>2. r[1][n] <= a[n] /\ a[n] <= r[2][n] BY <2>4, <3>1
    <3> QED BY <1>1, <2>3, <3>2
  <2> HIDE DEF Zero
  <2>6. Zero(1) BY <2>5
  <2>7. Zero(2) BY <2>5, <2>6
  <2>8. Zero(3) BY <2>5, <2>6, <2>7
  <2>9. Zero(4) BY <2>5, <2>6, <2>7, <2>8
  <2>10. Zero(5) BY <2>5, <2>6, <2>7, <2>8, <2>9
  <2>11. Zero(6) BY <2>5, <2>6, <2>7, <2>8, <2>9, <2>10
  <2>12. Zero(7) BY <2>5, <2>6, <2>7, <2>8, <2>9, <2>10, <2>11
  <2>13. \A i \in 1..7 : a[i] = 0
    BY <2>6, <2>7, <2>8, <2>9, <2>10, <2>11, <2>12 DEF Zero
  <2>14. a[8] \in {0, 1}
    <3>1. \A j \in 1..7 : r[1][j] = a[j] /\ a[j] = r[2][j] BY <2>3, <2>13
    <3>2. r[1][8] <= a[8] /\ a[8] <= r[2][8] BY <2>4, <3>1
    <3> QED BY <1>1, <2>3, <3>2
  <2>15. a[6] = 0 BY <2>13
  <2> QED BY <1>2, <2>13, <2>14, <2>15
          DEF is_globally_routable, is_mapped, is_v6_globally_routable
<1>5. ASSUME NEW low \in Nat, NEW high \in Nat, low <= 65535, high <= 65535,
             r = <<Filled(low, 0), Filled(high, 65535)>>
      PROVE  low <= a[1] /\ a[1] <= high
  <2>1. 0 \in Segment /\ 65535 \in Segment /\ low \in Segment /\ high \in Segment
    BY <1>5, SegmentBound
  <2>2. /\ r[1] = <<low, 0, 0, 0, 0, 0, 0, 0>>
        /\ r[2] = <<high, 65535, 65535, 65535, 65535, 65535, 65535, 65535>>
    BY <1>5 DEF Filled
  <2>3. r[1] \in IPv6 /\ r[2] \in IPv6 /\ r[1][1] = low /\ r[2][1] = high
    BY <2>1, <2>2, EightParts DEF IPv6
  <2>4. Below(r[1], a) /\ Below(a, r[2]) BY <2>3, Ordered8
  <2> QED BY <2>3, <2>4
<1>6. CASE \E b \in {<<64512, 65023>>, <<65152, 65215>>, <<65280, 65535>>} :
             r = <<Filled(b[1], 0), Filled(b[2], 65535)>>
  <2>1. \/ 64512 <= a[1] /\ a[1] <= 65023
        \/ 65152 <= a[1] /\ a[1] <= 65215
        \/ 65280 <= a[1] /\ a[1] <= 65535
    BY <1>5, <1>6
  <2>2. a[1] \div 512 = 126 \/ a[1] \div 64 = 1018 \/ a[1] \div 256 = 255 BY <1>1, <2>1
  <2>3. ~is_mapped(a) BY <1>1, <2>1 DEF is_mapped
  <2> QED BY <1>2, <2>2, <2>3 DEF is_globally_routable, is_v6_globally_routable
<1> QED BY <1>3, <1>4, <1>6 DEF Reserved6

\* INV-14: an address that the check lets through is in no reserved network.
THEOREM RoutableIsPublic ==
  ASSUME NEW a \in IPv4 \cup IPv6, is_globally_routable(a)
  PROVE  IsPublic(a)
<1>1. CASE a \in IPv4
  <2>1. Len(a) = 4 BY <1>1, LengthsTold
  <2>2. is_v4_globally_routable(a) BY <2>1 DEF is_globally_routable
  <2> QED BY <1>1, <2>1, <2>2, RoutableIsPublic4 DEF IsPublic
<1>2. CASE a \in IPv6
  <2>1. Len(a) = 8 BY <1>2, LengthsTold
  <2> QED BY <1>2, <2>1, RoutableIsPublic6 DEF IsPublic
<1> QED BY <1>1, <1>2

-----------------------------------------------------------------------------
\* The settings: what main has them from at each of its stages.
Configured ==
  /\ environment \in Environment
  /\ stage \in {"starting", "loaded", "serving", "exited"}
  /\ DOMAIN config = Settings
  /\ max_size \in Nat
  /\ config.ORIGIN_BASE_URL.host \in Hosts
  /\ stage \in {"loaded", "serving"} => Loads(environment) /\ config = load_from_env(environment)
  /\ stage = "serving" => validate(config)
  /\ stage # "serving" => fetch = Idle

Barriers ==
  {None, "scheme", "address", "too many redirects", "redirect to unsupported scheme",
   "not globally routable", "nowhere"}

\* The fields of a fetch; a URL of any kind.
Typed ==
  fetch \in [client : {None, "origin", "remote", "bucket"}, url : {fetch.url},
             previous : 0..DefaultRedirects,
             state : {"idle", "connecting", "waiting", "streaming", "done"},
             declared : Nat \cup {Unset}, received : Nat, result : Results,
             contacted : SUBSET Addresses, barred : Barriers, sent_all : BOOLEAN]

\* How far a fetch is, and what it has received by then.
Bounded ==
  /\ (fetch.result # None) <=> (fetch.state = "done")
  /\ InFlight => fetch.url.host \in Hosts
  /\ fetch.state \in {"idle", "connecting", "waiting"} => fetch.received = 0
  /\ fetch.state = "streaming" => fetch.received <= max_size
  /\ \E chunk \in Chunk : fetch.received <= max_size + chunk

\* Every hop of a remote fetch has been checked before the connection.
Checked ==
  fetch.client = "remote" =>
    /\ fetch.previous < MAX_REDIRECTS
    /\ \A address \in fetch.contacted : is_globally_routable(address)
    /\ fetch.state = "connecting" => ~literal_ip_host_is_private(fetch.url)

Explained == InFlight => fetch.barred = None

IInv ==
  /\ Configured
  /\ Typed
  /\ Bounded
  /\ Checked
  /\ Explained
  /\ WholeBody
  /\ RejectionsNamed
-----------------------------------------------------------------------------
\* The two settings that a fetch depends on.
LEMMA SettingsTold ==
  /\ {"SERVER_MAX_REQUEST_SIZE", "ORIGIN_BASE_URL"} \subseteq Settings
  /\ DOMAIN Defaults = Settings
  /\ Defaults.SERVER_MAX_REQUEST_SIZE \in Nat
BY DEF Settings, Defaults

\* Whatever a fetch may contact is an address.
LEMMA AddressesTold == Addresses \subseteq IPv4 \cup IPv6
BY AddressAssumption DEF Addresses

\* What load_from_env returns when it does not fail (config.rs:211-315, 373-405).
LEMMA LoadedSettings ==
  ASSUME NEW env \in Environment, Loads(env)
  PROVE  LET c == load_from_env(env)
         IN /\ DOMAIN c = Settings
            /\ c.SERVER_MAX_REQUEST_SIZE \in Nat
            /\ c.ORIGIN_BASE_URL.host \in Hosts
<1> DEFINE c == load_from_env(env)
<1>1. DOMAIN c = Settings /\ \A s \in Settings : c[s] = Setting(env, s) BY DEF load_from_env
<1>2. c.SERVER_MAX_REQUEST_SIZE \in Nat
  <2> DEFINE n == "SERVER_MAX_REQUEST_SIZE"
  <2>1. /\ n \in Settings /\ Defaults[n] \in Nat /\ Setting(env, n) # Malformed
    BY SettingsTold DEF Loads
  <2>2. env_var(env, n) \in Nat \cup {Unset, Malformed}
    BY EnvironmentAssumption DEF env_var
  <2>3. n \notin Booleans \cup Bytes \cup Shorts \cup Words
    BY DEF Booleans, Bytes, Shorts, Words
  <2>4. Setting(env, n) \in Nat BY <2>1, <2>2, <2>3 DEF Setting, Parsed
  <2> QED BY <1>1, <2>1, <2>4
<1>3. c.ORIGIN_BASE_URL.host \in Hosts
  <2> DEFINE n == "ORIGIN_BASE_URL"
  <2>1. n \in Settings /\ Defaults[n].host \in Hosts /\ Setting(env, n) # Malformed
    BY SettingsTold, EnvironmentAssumption DEF Loads
  <2>2. env_var(env, n) \notin {Unset, Malformed} => env_var(env, n).host \in Hosts
    BY EnvironmentAssumption DEF env_var
  <2>3. n \notin Booleans \cup Bytes \cup Shorts \cup Words
    BY DEF Booleans, Bytes, Shorts, Words
  <2>4. Setting(env, n).host \in Hosts BY <2>1, <2>2, <2>3 DEF Setting, Parsed
  <2> QED BY <1>1, <2>1, <2>4
<1> QED BY <1>1, <1>2, <1>3

\* There is a chunk, so what is within the limit is within the limit and a chunk.
LEMMA ChunkFits ==
  ASSUME NEW limit \in Nat, NEW n \in Nat, n <= limit
  PROVE  \E chunk \in Chunk : n <= limit + chunk
<1>1. PICK chunk \in Chunk : chunk \in Nat BY ChunkAssumption
<1> QED BY <1>1

\* No fetch yet.
LEMMA IdleHolds ==
  ASSUME fetch = Idle, Configured
  PROVE  IInv
<1>1. \E chunk \in Chunk : 0 <= max_size + chunk BY ChunkFits DEF Configured
<1> QED BY <1>1 DEF IInv, Idle, Typed, Bounded, Checked, Explained, WholeBody, RejectionsNamed,
        Results, Barriers, DefaultRedirects, MAX_REDIRECTS, InFlight, None

\* The process as it starts.
LEMMA InitHolds == Init => IInv
<1> SUFFICES ASSUME Init PROVE IInv
  OBVIOUS
<1>1. Configured BY SettingsTold, EnvironmentAssumption DEF Init, Configured, max_size
<1> QED BY <1>1, IdleHolds DEF Init

\* main's start keeps the invariant (main.rs:33-39, config.rs:318-365).
LEMMA StartHolds ==
  ASSUME IInv, Load \/ Validate
  PROVE  IInv'
<1>1. fetch' = fetch BY DEF Load, Validate
<1>2. fetch = Idle BY DEF IInv, Configured, Load, Validate
<1>3. Configured'
  <2>1. CASE Load
    BY <1>1, <1>2, <2>1, LoadedSettings DEF Load, IInv, Configured, max_size
  <2>2. CASE Validate
    BY <1>1, <1>2, <2>2 DEF Validate, IInv, Configured, max_size
  <2> QED BY <2>1, <2>2
<1>4. \E chunk \in Chunk : 0 <= max_size' + chunk BY <1>3, ChunkFits DEF Configured
<1> QED BY <1>1, <1>2, <1>3, <1>4
    DEF IInv, Idle, Typed, Bounded, Checked, Explained, WholeBody, RejectionsNamed,
        Results, Barriers, DefaultRedirects, MAX_REDIRECTS, InFlight, None

-----------------------------------------------------------------------------
\* Only a process that serves has a fetch.
LEMMA ServesMeanwhile ==
  ASSUME IInv, InFlight
  PROVE  stage = "serving"
BY DEF IInv, Configured, InFlight, Idle

\* A step of a fetch leaves them as they are.
LEMMA SettingsKept ==
  ASSUME IInv, stage = "serving", UNCHANGED <<environment, config, stage>>
  PROVE  Configured' /\ max_size' = max_size /\ max_size \in Nat
BY DEF IInv, Configured, max_size

\* What a fetch reports and what barred it say the same.
Names(result, why) ==
  /\ result = "PrivateAddress" <=> why \in {"address", "not globally routable"}
  /\ result = "TooManyRedirects" <=> why = "too many redirects"
  /\ result = "UnsupportedScheme" <=>
       why \in {"scheme", "redirect to unsupported scheme", "nowhere"}

\* A fetch that is refused at once.
LEMMA RefuseHolds ==
  ASSUME IInv, stage = "serving", UNCHANGED <<environment, config, stage>>,
         NEW client \in {"origin", "remote", "bucket"}, NEW result \in Results \ {None, "Ok"},
         NEW why \in Barriers, Names(result, why), Refuse(client, result, why)
  PROVE  IInv'
<1>1. Configured' /\ max_size' = max_size /\ max_size \in Nat BY SettingsKept
<1>2. \E chunk \in Chunk : 0 <= max_size + chunk BY <1>1, ChunkFits
<1>3. fetch' = [Idle EXCEPT !.client = client, !.state = "done", !.result = result,
                            !.barred = why]
  BY DEF Refuse
<1>4. Typed'
  <2>1. fetch' = [client |-> client, url |-> Unset, previous |-> 0, state |-> "done",
                  declared |-> Unset, received |-> 0, result |-> result, contacted |-> {},
                  barred |-> why, sent_all |-> FALSE]
    BY <1>3 DEF Idle
  <2> QED BY <2>1 DEF Typed, DefaultRedirects
<1>5. Bounded' BY <1>1, <1>2, <1>3 DEF Bounded, InFlight, Idle
<1>6. Checked' /\ Explained' /\ WholeBody'
  BY <1>3 DEF Checked, Explained, WholeBody, InFlight, Idle, MAX_REDIRECTS
<1>7. RejectionsNamed' BY <1>3 DEF RejectionsNamed, Names, Idle
<1> QED BY <1>1, <1>4, <1>5, <1>6, <1>7 DEF IInv

\* A fetch that starts for a URL, checked if a client named it.
LEMMA BeginHolds ==
  ASSUME IInv, stage = "serving", UNCHANGED <<environment, config, stage>>,
         NEW client \in {"origin", "remote"}, NEW url, url.host \in Hosts,
         client = "remote" => ~literal_ip_host_is_private(url), Start(client, url)
  PROVE  IInv'
<1>1. Configured' /\ max_size' = max_size /\ max_size \in Nat BY SettingsKept
<1>2. \E chunk \in Chunk : 0 <= max_size + chunk BY <1>1, ChunkFits
<1>3. fetch' = [Idle EXCEPT !.client = client, !.url = url, !.state = "connecting"]
  BY DEF Start
<1>4. Typed'
  <2>1. fetch' = [client |-> client, url |-> url, previous |-> 0, state |-> "connecting",
                  declared |-> Unset, received |-> 0, result |-> None, contacted |-> {},
                  barred |-> None, sent_all |-> FALSE]
    BY <1>3 DEF Idle
  <2>2. None \in Results /\ None \in Barriers BY DEF Results, Barriers
  <2> QED BY <2>1, <2>2 DEF Typed, DefaultRedirects
<1>5. Bounded' BY <1>1, <1>2, <1>3 DEF Bounded, InFlight, Idle, None
<1>6. Checked' BY <1>3 DEF Checked, Idle, MAX_REDIRECTS
<1>7. Explained' /\ WholeBody' /\ RejectionsNamed'
  BY <1>3 DEF Explained, WholeBody, RejectionsNamed, Idle, None
<1> QED BY <1>1, <1>4, <1>5, <1>6, <1>7 DEF IInv

\* A fetch that ends without an image.
LEMMA EndHolds ==
  ASSUME IInv, InFlight, UNCHANGED <<environment, config, stage>>,
         NEW result \in Results \ {None, "Ok"}, NEW why \in Barriers,
         Guarded => Names(result, why), EndsBarred(result, why)
  PROVE  IInv'
<1>1. Configured' /\ max_size' = max_size /\ max_size \in Nat
  BY ServesMeanwhile, SettingsKept
<1>2. Typed /\ Bounded /\ Checked BY DEF IInv
<1>3. fetch' = [fetch EXCEPT !.state = "done", !.result = result, !.barred = why]
  BY DEF EndsBarred
<1>4. /\ fetch'.client = fetch.client /\ fetch'.previous = fetch.previous
      /\ fetch'.received = fetch.received /\ fetch'.contacted = fetch.contacted
      /\ fetch'.state = "done" /\ fetch'.result = result /\ fetch'.barred = why
  BY <1>2, <1>3 DEF Typed
<1>5. Typed' BY <1>2, <1>3 DEF Typed
<1>6. Bounded' BY <1>1, <1>2, <1>4 DEF Bounded, InFlight
<1>7. Checked' BY <1>2, <1>4 DEF Checked
<1>8. Explained' /\ WholeBody' BY <1>4 DEF Explained, WholeBody, InFlight
<1>9. RejectionsNamed' BY <1>4 DEF RejectionsNamed, Names, Guarded
<1> QED BY <1>1, <1>5, <1>6, <1>7, <1>8, <1>9 DEF IInv

\* One that fails for no reason of the policy.
LEMMA FailHolds ==
  ASSUME IInv, InFlight, UNCHANGED <<environment, config, stage>>,
         NEW result \in {"ConnectionFailed", "Timeout", "NotFound", "ServerError",
                         "ResponseTooLarge"},
         Ends(result)
  PROVE  IInv'
<1>1. fetch.barred = None /\ Typed BY DEF IInv, Explained
<1>2. [fetch EXCEPT !.state = "done", !.result = result]
        = [fetch EXCEPT !.state = "done", !.result = result, !.barred = None]
  BY <1>1 DEF Typed
<1>3. EndsBarred(result, None) BY <1>2 DEF Ends, EndsBarred
<1>4. Names(result, None) /\ None \in Barriers /\ result \in Results \ {None, "Ok"}
  BY DEF Names, Barriers, Results, None
<1> QED BY <1>3, <1>4, EndHolds

-----------------------------------------------------------------------------
\* The configured origin (fetcher.rs:45-93, source.rs:21-43).
LEMMA FetchOriginHolds ==
  ASSUME IInv, FetchOrigin
  PROVE  IInv'
<1>1. stage = "serving" /\ UNCHANGED <<environment, config, stage>> BY DEF FetchOrigin
<1>2. PICK path : \/ Start("origin", build_url(path))
                  \/ Refuse("origin", "InvalidUrl", None)
  BY DEF FetchOrigin
<1>3. CASE Start("origin", build_url(path))
  <2>1. build_url(path).host \in Hosts BY DEF build_url, IInv, Configured
  <2> QED BY <1>1, <1>3, <2>1, BeginHolds
<1>4. CASE Refuse("origin", "InvalidUrl", None)
  <2>1. Names("InvalidUrl", None) /\ None \in Barriers /\ "InvalidUrl" \in Results \ {None, "Ok"}
    BY DEF Names, Barriers, Results, None
  <2> QED BY <1>1, <1>4, <2>1, RefuseHolds
<1> QED BY <1>2, <1>3, <1>4

\* The bucket (r2.rs:22-45).
LEMMA FetchObjectHolds ==
  ASSUME IInv, FetchObject
  PROVE  IInv'
<1>1. stage = "serving" /\ UNCHANGED <<environment, config, stage>> BY ZenonT(60) DEF FetchObject
<1>2. PICK key :
        \/ Refuse("bucket", "InvalidUrl", None)
        \/ \E result \in {"Ok", "NotFound", "ServerError", "ConnectionFailed"} :
             fetch' = [Idle EXCEPT !.client = "bucket", !.url = [path |-> key],
                                   !.state = "done", !.result = result, !.sent_all = TRUE]
  BY DEF FetchObject
<1>3. CASE Refuse("bucket", "InvalidUrl", None)
  <2>1. Names("InvalidUrl", None) /\ None \in Barriers /\ "InvalidUrl" \in Results \ {None, "Ok"}
    BY DEF Names, Barriers, Results, None
  <2> QED BY <1>1, <1>3, <2>1, RefuseHolds
<1>4. ASSUME NEW result \in {"Ok", "NotFound", "ServerError", "ConnectionFailed"},
             fetch' = [Idle EXCEPT !.client = "bucket", !.url = [path |-> key],
                                   !.state = "done", !.result = result, !.sent_all = TRUE]
      PROVE  IInv'
  <2>1. Configured' /\ max_size' = max_size /\ max_size \in Nat BY <1>1, SettingsKept
  <2>2. \E chunk \in Chunk : 0 <= max_size + chunk BY <2>1, ChunkFits
  <2>3. fetch' = [client |-> "bucket", url |-> [path |-> key], previous |-> 0, state |-> "done",
                  declared |-> Unset, received |-> 0, result |-> result, contacted |-> {},
                  barred |-> None, sent_all |-> TRUE]
    BY <1>4 DEF Idle
  <2>4. result \in Results \ {None} /\ None \in Barriers BY DEF Results, Barriers, None
  <2>5. Typed' BY <2>3, <2>4 DEF Typed, DefaultRedirects
  <2>6. Bounded' BY <2>1, <2>2, <2>3, <2>4 DEF Bounded, InFlight
  <2>7. Checked' /\ Explained' /\ WholeBody' /\ RejectionsNamed'
    BY <2>3 DEF Checked, Explained, WholeBody, RejectionsNamed, InFlight
  <2> QED BY <2>1, <2>5, <2>6, <2>7 DEF IInv
<1> QED BY <1>2, <1>3, <1>4

\* A remote source or overlay (remote.rs:139-181).
LEMMA FetchRemoteHolds ==
  ASSUME IInv, FetchRemote
  PROVE  IInv'
<1>1. stage = "serving" /\ UNCHANGED <<environment, config, stage>> BY DEF FetchRemote
<1>2. PICK url \in Source :
        IF url = Malformed THEN Refuse("remote", "InvalidUrl", None)
        ELSE IF ~has_http_scheme(url) THEN Refuse("remote", "UnsupportedScheme", "scheme")
        ELSE IF literal_ip_host_is_private(url) THEN Refuse("remote", "PrivateAddress", "address")
        ELSE Start("remote", url)
  BY DEF FetchRemote
<1>3. /\ Names("InvalidUrl", None) /\ Names("UnsupportedScheme", "scheme")
      /\ Names("PrivateAddress", "address")
      /\ {None, "scheme", "address"} \subseteq Barriers
      /\ {"InvalidUrl", "UnsupportedScheme", "PrivateAddress"} \subseteq Results \ {None, "Ok"}
  BY DEF Names, Barriers, Results, None
<1>4. CASE Refuse("remote", "InvalidUrl", None) BY <1>1, <1>3, <1>4, RefuseHolds
<1>5. CASE Refuse("remote", "UnsupportedScheme", "scheme") BY <1>1, <1>3, <1>5, RefuseHolds
<1>6. CASE Refuse("remote", "PrivateAddress", "address") BY <1>1, <1>3, <1>6, RefuseHolds
<1>7. CASE url # Malformed /\ ~literal_ip_host_is_private(url) /\ Start("remote", url)
  <2>1. url.host \in Hosts BY <1>7, AddressAssumption
  <2> QED BY <1>1, <1>7, <2>1, BeginHolds
<1> QED BY <1>2, <1>4, <1>5, <1>6, <1>7

\* An address that a connection is made to: one that may be reached, if the fetch
\* is a remote one.
LEMMA ReachHolds ==
  ASSUME IInv, fetch.state = "connecting", UNCHANGED <<environment, config, stage>>,
         NEW address \in Addresses, Guarded => is_globally_routable(address), Reach(address)
  PROVE  IInv'
<1>1. InFlight BY DEF InFlight
<1>2. Configured' /\ max_size' = max_size /\ max_size \in Nat
  BY <1>1, ServesMeanwhile, SettingsKept
<1>3. Typed /\ Bounded /\ Checked /\ Explained BY DEF IInv
<1>4. fetch' = [fetch EXCEPT !.state = "waiting", !.contacted = @ \cup {address}]
  BY DEF Reach
<1>5. /\ fetch'.client = fetch.client /\ fetch'.previous = fetch.previous
      /\ fetch'.url = fetch.url /\ fetch'.received = fetch.received
      /\ fetch'.contacted = fetch.contacted \cup {address}
      /\ fetch'.state = "waiting" /\ fetch'.result = fetch.result
      /\ fetch'.barred = fetch.barred
  BY <1>3, <1>4 DEF Typed
<1>6. Typed' BY <1>3, <1>4 DEF Typed
<1>7. Bounded' BY <1>1, <1>2, <1>3, <1>5 DEF Bounded, InFlight
<1>8. Checked' BY <1>3, <1>5 DEF Checked, Guarded
<1>9. fetch.result = None BY <1>3 DEF Bounded
<1>10. Explained' /\ WholeBody' /\ RejectionsNamed'
  BY <1>1, <1>3, <1>5, <1>9 DEF Explained, WholeBody, RejectionsNamed, None
<1> QED BY <1>2, <1>6, <1>7, <1>8, <1>10 DEF IInv

\* Resolution and connection, of each hop (remote.rs:273-299).
LEMMA ConnectHolds ==
  ASSUME IInv, Connect
  PROVE  IInv'
<1>1. /\ fetch.state = "connecting" /\ InFlight /\ UNCHANGED <<environment, config, stage>>
      /\ fetch.url.host \in Hosts
  BY DEF Connect, InFlight, IInv, Bounded
<1>2. CASE Ends(SendError(Failure(FALSE, FALSE, "refused")))
  <2>1. SendError(Failure(FALSE, FALSE, "refused")) = "ConnectionFailed"
    BY DEF SendError, classify_send_error, Failure
  <2> QED BY <1>1, <1>2, <2>1, FailHolds
<1>3. CASE IsLiteral(fetch.url) /\ Reach(Literal[fetch.url.host])
  <2>1. Literal[fetch.url.host] \in Addresses BY <1>3 DEF IsLiteral, Addresses
  <2>2. Guarded => is_globally_routable(Literal[fetch.url.host])
    BY <1>1, <1>3 DEF IInv, Checked, Guarded, literal_ip_host_is_private
  <2> QED BY <1>1, <1>3, <2>1, <2>2, ReachHolds
<1>4. ASSUME ~IsLiteral(fetch.url), NEW addresses \in Resolutions[fetch.url.host],
             LET usable == IF Guarded THEN resolve(addresses) ELSE addresses
             IN IF usable = {}
                THEN EndsBarred(SendError(Failure(FALSE, FALSE, "not globally routable")),
                                "address")
                ELSE \E address \in usable : Reach(address)
      PROVE  IInv'
  <2>1. fetch.url.host \in DOMAIN Resolutions BY <1>1, <1>4 DEF IsLiteral, Hosts
  <2>2. addresses \subseteq Addresses BY <1>4, <2>1 DEF Addresses
  <2>3. CASE EndsBarred(SendError(Failure(FALSE, FALSE, "not globally routable")), "address")
    <3> DEFINE result == SendError(Failure(FALSE, FALSE, "not globally routable"))
    <3>1. result = IF Guarded THEN "PrivateAddress" ELSE "ConnectionFailed"
      BY DEF SendError, classify_send_error, Failure
    <3>2. result \in Results \ {None, "Ok"} /\ "address" \in Barriers
      BY <3>1 DEF Results, Barriers, None
    <3>3. Guarded => Names(result, "address") BY <3>1 DEF Names
    <3> HIDE DEF result
    <3> QED BY <1>1, <2>3, <3>2, <3>3, EndHolds DEF result
  <2>4. ASSUME NEW address \in (IF Guarded THEN resolve(addresses) ELSE addresses), Reach(address)
        PROVE  IInv'
    <3>1. address \in Addresses /\ (Guarded => is_globally_routable(address))
      BY <2>2, <2>4 DEF resolve
    <3> QED BY <1>1, <2>4, <3>1, ReachHolds
  <2> QED BY <1>4, <2>3, <2>4
<1> QED BY <1>2, <1>3, <1>4 DEF Connect

\* A redirect that is followed: to a checked URL, while there are hops left.
LEMMA FollowHolds ==
  ASSUME IInv, fetch.state = "waiting", UNCHANGED <<environment, config, stage>>,
         NEW url \in Location, Follow(url), fetch.previous + 1 <= DefaultRedirects,
         Guarded => fetch.previous + 1 < MAX_REDIRECTS /\ ~literal_ip_host_is_private(url)
  PROVE  IInv'
<1>1. InFlight BY DEF InFlight
<1>2. Configured' /\ max_size' = max_size /\ max_size \in Nat
  BY <1>1, ServesMeanwhile, SettingsKept
<1>3. Typed /\ Bounded /\ Checked /\ Explained BY DEF IInv
<1>4. fetch' = [fetch EXCEPT !.url = url, !.previous = @ + 1, !.state = "connecting"]
  BY DEF Follow
<1>5. /\ fetch'.client = fetch.client /\ fetch'.previous = fetch.previous + 1
      /\ fetch'.url = url /\ fetch'.received = fetch.received
      /\ fetch'.contacted = fetch.contacted
      /\ fetch'.state = "connecting" /\ fetch'.result = fetch.result
      /\ fetch'.barred = fetch.barred
  BY <1>3, <1>4 DEF Typed
<1>6. fetch.previous + 1 \in 0..DefaultRedirects BY <1>3 DEF Typed, DefaultRedirects
<1>7. Typed' BY <1>3, <1>4, <1>6 DEF Typed
<1>8. url.host \in Hosts BY AddressAssumption
<1>9. Bounded' BY <1>1, <1>2, <1>3, <1>5, <1>8 DEF Bounded, InFlight
<1>10. Checked' BY <1>3, <1>5 DEF Checked, Guarded, literal_ip_host_is_private, IsLiteral
<1>11. fetch.result = None BY <1>1, <1>3 DEF Bounded, InFlight
<1>12. Explained' /\ WholeBody' /\ RejectionsNamed'
  BY <1>1, <1>3, <1>5, <1>11 DEF Explained, WholeBody, RejectionsNamed, None
<1> QED BY <1>2, <1>7, <1>9, <1>10, <1>12 DEF IInv

\* The policy for redirects (remote.rs:94-107, 225-247).
LEMMA RedirectHolds ==
  ASSUME IInv, Redirect
  PROVE  IInv'
<1>1. fetch.state = "waiting" /\ InFlight /\ UNCHANGED <<environment, config, stage>>
  BY DEF Redirect, InFlight
<1>2. fetch.previous \in 0..DefaultRedirects BY DEF IInv, Typed
<1>3. PICK url \in Location :
        IF Guarded
        THEN IF Barred(url) = None THEN Follow(url)
             ELSE EndsBarred(SendError(Failure(FALSE, TRUE, Barred(url))), Barred(url))
        ELSE IF fetch.previous + 1 > DefaultRedirects
             THEN Ends(SendError(Failure(FALSE, TRUE, "too many redirects")))
             ELSE Follow(url)
  BY DEF Redirect
<1>4. CASE Guarded /\ Barred(url) = None
  <2>1. fetch.previous + 1 < MAX_REDIRECTS /\ ~literal_ip_host_is_private(url)
    BY <1>2, <1>4 DEF Barred, None, MAX_REDIRECTS, DefaultRedirects
  <2>2. fetch.previous + 1 <= DefaultRedirects
    BY <1>2, <2>1 DEF MAX_REDIRECTS, DefaultRedirects
  <2> QED BY <1>1, <1>3, <1>4, <2>1, <2>2, FollowHolds
<1>5. CASE Guarded /\ Barred(url) # None
  <2> DEFINE result == SendError(Failure(FALSE, TRUE, Barred(url)))
  <2>1. Barred(url) \in {"too many redirects", "redirect to unsupported scheme",
                         "not globally routable"}
    BY <1>5 DEF Barred
  <2>2. result = CASE Barred(url) = "not globally routable" -> "PrivateAddress"
                   [] Barred(url) = "too many redirects" -> "TooManyRedirects"
                   [] OTHER -> "UnsupportedScheme"
    BY <1>5, <2>1 DEF SendError, classify_send_error, Failure
  <2>3. Names(result, Barred(url)) /\ Barred(url) \in Barriers /\ result \in Results \ {None, "Ok"}
    BY <2>1, <2>2 DEF Names, Barriers, Results, None
  <2>4. EndsBarred(result, Barred(url)) BY <1>3, <1>5
  <2> HIDE DEF result
  <2> QED BY <1>1, <2>3, <2>4, EndHolds
<1>6. CASE ~Guarded /\ fetch.previous + 1 > DefaultRedirects
  <2>1. SendError(Failure(FALSE, TRUE, "too many redirects")) = "ConnectionFailed"
    BY <1>6 DEF SendError, Failure
  <2> QED BY <1>1, <1>3, <1>6, <2>1, FailHolds
<1>7. CASE ~Guarded /\ ~(fetch.previous + 1 > DefaultRedirects)
  <2>1. fetch.previous + 1 <= DefaultRedirects BY <1>2, <1>7 DEF DefaultRedirects
  <2> QED BY <1>1, <1>3, <1>7, <2>1, FollowHolds
<1> QED BY <1>4, <1>5, <1>6, <1>7

\* What is new in a fetch whose body begins or goes on.
LEMMA StreamHolds ==
  ASSUME IInv, InFlight, UNCHANGED <<environment, config, stage>>,
         NEW declared \in Nat \cup {Unset}, NEW received \in Nat, received <= max_size,
         fetch' = [fetch EXCEPT !.state = "streaming", !.declared = declared,
                                !.received = received]
  PROVE  IInv'
<1>1. Configured' /\ max_size' = max_size /\ max_size \in Nat
  BY ServesMeanwhile, SettingsKept
<1>2. \E chunk \in Chunk : received <= max_size + chunk BY <1>1, ChunkFits
<1>3. Typed /\ Bounded /\ Checked /\ Explained BY DEF IInv
<1>4. /\ fetch'.client = fetch.client /\ fetch'.previous = fetch.previous
      /\ fetch'.url = fetch.url /\ fetch'.received = received
      /\ fetch'.contacted = fetch.contacted
      /\ fetch'.state = "streaming" /\ fetch'.result = fetch.result
      /\ fetch'.barred = fetch.barred
  BY <1>3 DEF Typed
<1>5. Typed' BY <1>3 DEF Typed
<1>6. fetch.result = None BY <1>3 DEF Bounded, InFlight
<1>7. Bounded' BY <1>1, <1>2, <1>3, <1>4, <1>6 DEF Bounded, InFlight
<1>8. Checked' BY <1>3, <1>4 DEF Checked
<1>9. Explained' /\ WholeBody' /\ RejectionsNamed'
  BY <1>3, <1>4, <1>6 DEF Explained, WholeBody, RejectionsNamed, None
<1> QED BY <1>1, <1>5, <1>7, <1>8, <1>9 DEF IInv

\* The status and the declared length (fetcher.rs:74-93, remote.rs:164-181).
LEMMA RespondHolds ==
  ASSUME IInv, Respond
  PROVE  IInv'
<1>1. fetch.state = "waiting" /\ InFlight /\ UNCHANGED <<environment, config, stage>>
  BY DEF Respond, InFlight
<1>2. Typed /\ fetch.received = 0 /\ max_size \in Nat
  BY <1>1 DEF IInv, Bounded, Configured
<1>3. PICK status \in {200, 302, 403, 404, 500}, length \in 0..MaxBody \cup {Unset} :
        LET error == ResponseError(status, length)
        IN IF Guarded /\ status \in 300..399
           THEN \E why \in BarePointer : EndsBarred("UnsupportedScheme", why)
           ELSE IF error # None THEN Ends(error)
           ELSE fetch' = [fetch EXCEPT !.state = "streaming", !.declared = length]
  BY DEF Respond
<1>4. ASSUME NEW why \in BarePointer, EndsBarred("UnsupportedScheme", why) PROVE IInv'
  <2>1. /\ Names("UnsupportedScheme", why) /\ why \in Barriers
        /\ "UnsupportedScheme" \in Results \ {None, "Ok"}
    BY <1>4 DEF BarePointer, Names, Barriers, Results, None
  <2> QED BY <1>1, <1>4, <2>1, EndHolds
<1>5. CASE ResponseError(status, length) # None /\ Ends(ResponseError(status, length))
  <2>1. ResponseError(status, length) \in {"NotFound", "ServerError", "ResponseTooLarge"}
    BY <1>5 DEF ResponseError
  <2> QED BY <1>1, <1>5, <2>1, FailHolds
<1>6. CASE fetch' = [fetch EXCEPT !.state = "streaming", !.declared = length]
  <2>1. fetch' = [fetch EXCEPT !.state = "streaming", !.declared = length, !.received = 0]
    BY <1>2, <1>6, ZenonT(60) DEF Typed
  <2>2. length \in Nat \cup {Unset} BY ChunkAssumption
  <2>3. 0 \in Nat /\ 0 <= max_size BY <1>2
  <2> QED BY <1>1, <2>1, <2>2, <2>3, StreamHolds
<1> QED BY <1>3, <1>4, <1>5, <1>6

\* The stream and its limit (fetcher.rs:101-121, remote.rs:186-208).
LEMMA ReadChunkHolds ==
  ASSUME IInv, ReadChunk
  PROVE  IInv'
<1>1. fetch.state = "streaming" /\ InFlight /\ UNCHANGED <<environment, config, stage>>
  BY DEF ReadChunk, InFlight
<1>2. /\ Typed /\ Bounded /\ Checked /\ Explained /\ max_size \in Nat
      /\ fetch.received \in Nat /\ fetch.received <= max_size
  BY <1>1 DEF IInv, Bounded, Configured, Typed
<1>3. PICK size \in Chunk :
        fetch' = IF fetch.received + size > max_size
                 THEN [fetch EXCEPT !.received = fetch.received + size, !.state = "done",
                                    !.result = "ResponseTooLarge"]
                 ELSE [fetch EXCEPT !.received = fetch.received + size]
  BY DEF ReadChunk
<1>4. size \in Nat /\ fetch.received + size \in Nat BY <1>2, ChunkAssumption
<1>5. CASE fetch.received + size > max_size
  <2>1. fetch' = [fetch EXCEPT !.received = fetch.received + size, !.state = "done",
                               !.result = "ResponseTooLarge"]
    BY <1>3, <1>5
  <2>2. Configured' /\ max_size' = max_size BY <1>1, ServesMeanwhile, SettingsKept
  <2>3. /\ fetch'.client = fetch.client /\ fetch'.previous = fetch.previous
        /\ fetch'.received = fetch.received + size /\ fetch'.contacted = fetch.contacted
        /\ fetch'.state = "done" /\ fetch'.result = "ResponseTooLarge"
        /\ fetch'.barred = fetch.barred
    BY <1>2, <2>1 DEF Typed
  <2>4. "ResponseTooLarge" \in Results BY DEF Results
  <2>5. Typed' BY <1>2, <1>4, <2>1, <2>4 DEF Typed
  <2>6. \E chunk \in Chunk : fetch'.received <= max_size' + chunk
    BY <1>2, <1>4, <2>2, <2>3
  <2>7. Bounded' BY <2>3, <2>6 DEF Bounded, InFlight, None
  <2>8. Checked' BY <1>2, <2>3 DEF Checked
  <2>9. fetch.barred = None BY <1>1, <1>2 DEF Explained
  <2>10. Explained' /\ WholeBody' /\ RejectionsNamed'
    BY <2>3, <2>9 DEF Explained, WholeBody, RejectionsNamed, InFlight, None
  <2> QED BY <2>2, <2>5, <2>7, <2>8, <2>10 DEF IInv
<1>6. CASE ~(fetch.received + size > max_size)
  <2>1. fetch' = [fetch EXCEPT !.state = "streaming", !.declared = fetch.declared,
                               !.received = fetch.received + size]
    BY <1>1, <1>2, <1>3, <1>6 DEF Typed
  <2>2. fetch.declared \in Nat \cup {Unset} BY <1>2 DEF Typed
  <2>3. fetch.received + size <= max_size BY <1>2, <1>4, <1>6
  <2> QED BY <1>1, <1>4, <2>1, <2>2, <2>3, StreamHolds
<1> QED BY <1>5, <1>6

\* The end of the stream: everything that was declared has arrived.
LEMMA EndOfBodyHolds ==
  ASSUME IInv, EndOfBody
  PROVE  IInv'
<1>1. fetch.state = "streaming" /\ InFlight /\ UNCHANGED <<environment, config, stage>>
  BY DEF EndOfBody, InFlight
<1>2. /\ Typed /\ Bounded /\ Checked /\ Explained /\ max_size \in Nat
      /\ fetch.received \in Nat /\ fetch.received <= max_size
      /\ fetch.declared \in Nat \cup {Unset}
  BY <1>1 DEF IInv, Bounded, Configured, Typed
<1>3. fetch.declared # Unset => fetch.received = fetch.declared
  BY <1>2 DEF EndOfBody, Remaining
<1>4. Configured' /\ max_size' = max_size BY <1>1, ServesMeanwhile, SettingsKept
<1>5. fetch' = [fetch EXCEPT !.state = "done", !.result = "Ok", !.sent_all = TRUE]
  BY DEF EndOfBody
<1>6. /\ fetch'.client = fetch.client /\ fetch'.previous = fetch.previous
      /\ fetch'.received = fetch.received /\ fetch'.contacted = fetch.contacted
      /\ fetch'.declared = fetch.declared
      /\ fetch'.state = "done" /\ fetch'.result = "Ok" /\ fetch'.sent_all = TRUE
      /\ fetch'.barred = fetch.barred
  BY <1>2, <1>5 DEF Typed
<1>7. "Ok" \in Results BY DEF Results
<1>8. Typed' BY <1>2, <1>5, <1>7 DEF Typed
<1>9. Bounded' BY <1>2, <1>4, <1>6 DEF Bounded, InFlight, None
<1>10. Checked' BY <1>2, <1>6 DEF Checked
<1>11. WholeBody' BY <1>2, <1>3, <1>4, <1>6 DEF WholeBody
<1>12. fetch.barred = None BY <1>1, <1>2 DEF Explained
<1>13. Explained' /\ RejectionsNamed' BY <1>6, <1>12 DEF Explained, RejectionsNamed, InFlight, None
<1> QED BY <1>4, <1>8, <1>9, <1>10, <1>11, <1>13 DEF IInv

\* A connection that breaks and a deadline that passes, in the body or before.
LEMMA BreaksHold ==
  ASSUME IInv, BodyFails \/ TimesOut
  PROVE  IInv'
<1>1. InFlight /\ UNCHANGED <<environment, config, stage>> BY DEF BodyFails, TimesOut, InFlight
<1>2. SendError(Failure(TRUE, FALSE, None)) = "Timeout"
  BY DEF SendError, classify_send_error, Failure
<1>3. Ends("ConnectionFailed") \/ Ends("Timeout") BY <1>2 DEF BodyFails, TimesOut
<1> QED BY <1>1, <1>3, FailHolds

\* Every step keeps the invariant.
LEMMA IInvInductive == IInv /\ [Next]_vars => IInv'
<1> SUFFICES ASSUME IInv, [Next]_vars PROVE IInv'
  OBVIOUS
<1>1. CASE Load \/ Validate BY <1>1, StartHolds
<1>2. CASE FetchOrigin BY <1>2, FetchOriginHolds
<1>3. CASE FetchObject BY <1>3, FetchObjectHolds
<1>4. CASE FetchRemote BY <1>4, FetchRemoteHolds
<1>5. CASE Connect BY <1>5, ConnectHolds
<1>6. CASE Redirect BY <1>6, RedirectHolds
<1>7. CASE Respond BY <1>7, RespondHolds
<1>8. CASE ReadChunk BY <1>8, ReadChunkHolds
<1>9. CASE EndOfBody BY <1>9, EndOfBodyHolds
<1>10. CASE BodyFails \/ TimesOut BY <1>10, BreaksHold
<1>11. CASE UNCHANGED vars
  <2>1. fetch' = fetch /\ UNCHANGED <<environment, config, stage>> BY <1>11 DEF vars
  <2>2. Configured' BY <2>1 DEF IInv, Configured, max_size
  <2>3. Typed' BY <2>1 DEF IInv, Typed
  <2>4. Bounded' /\ Explained' BY <2>1 DEF IInv, Bounded, Explained, InFlight, max_size
  <2>5. Checked' BY <2>1 DEF IInv, Checked, literal_ip_host_is_private, IsLiteral
  <2>6. WholeBody' /\ RejectionsNamed' BY <2>1 DEF IInv, WholeBody, RejectionsNamed, max_size
  <2> QED BY <2>2, <2>3, <2>4, <2>5, <2>6 DEF IInv
<1> QED BY <1>1, <1>2, <1>3, <1>4, <1>5, <1>6, <1>7, <1>8, <1>9, <1>10, <1>11 DEF Next

\* The invariant holds of every reachable state.
LEMMA IInvHolds == Spec => []IInv
BY InitHolds, IInvInductive, PTL DEF Spec

-----------------------------------------------------------------------------
\* The variables keep their types for every environment and network; the buffer
\* holds at most the limit and one chunk (fetcher.rs:107-115, remote.rs:192-202).
THEOREM TypeCorrect == Spec => []TypeOK
<1>1. IInv => TypeOK
  <2> SUFFICES ASSUME IInv PROVE TypeOK
    OBVIOUS
  <2>1. Typed /\ Bounded /\ Configured BY DEF IInv
  <2>2. /\ fetch.client \in {None, "origin", "remote", "bucket"}
        /\ fetch.state \in {"idle", "connecting", "waiting", "streaming", "done"}
        /\ fetch.previous \in 0..DefaultRedirects
        /\ fetch.result \in Results /\ fetch.contacted \subseteq Addresses
    BY <2>1 DEF Typed
  <2>3. fetch.previous \in 0..(DefaultRedirects + 1) BY <2>2 DEF DefaultRedirects
  <2> QED BY <2>1, <2>2, <2>3 DEF TypeOK, Bounded, Configured
<1> QED BY <1>1, IInvHolds, PTL

\* What holds of the settings that a process serves under follows from what it
\* loaded and what validate() let by (main.rs:33-39, config.rs:211-365).
LEMMA ServingSettings ==
  ASSUME Configured
  PROVE  ServesAsConfigured
<1> SUFFICES ASSUME stage = "serving" PROVE ServesAsConfigured
  BY DEF ServesAsConfigured
<1>1. /\ config = load_from_env(environment) /\ validate(config)
  BY DEF Configured
<1>2. \A s \in Settings : config[s] = Setting(environment, s) BY <1>1 DEF load_from_env
<1>3. ASSUME NEW s \in Settings
      PROVE  LET given == environment[s]
             IN /\ given.primary \notin {Unset, NotUnicode} => config[s] = Parsed(s, given.primary)
                /\ (given.primary = Unset /\ given.legacy \notin {Unset, NotUnicode})
                     => config[s] = Parsed(s, given.legacy)
                /\ (given.primary = Unset /\ given.legacy = Unset) => config[s] = Defaults[s]
  <2>1. config[s] = Setting(environment, s) BY <1>2
  <2> QED BY <2>1 DEF Setting, env_var
<1>4. 0 \notin {config.SERVER_PORT, config.SERVER_REQUEST_TIMEOUT_MS, config.ORIGIN_TIMEOUT_MS,
                config.SERVER_MAX_REQUEST_SIZE, config.SERVER_MAX_CONNECTIONS,
                config.TRANSFORM_MAX_FRAMES, config.TRANSFORM_MAX_ANIMATED_PIXELS}
  BY <1>1 DEF validate, ValidServer, ValidTransform, ValidOrigin
<1>5. config.ORIGIN_TYPE = "r2" => config.R2_SECRET_ACCESS_KEY # ""
  BY <1>1 DEF validate, ValidOrigin
<1> QED BY <1>3, <1>4, <1>5 DEF ServesAsConfigured

\* INV-8: whatever the environment, a process that serves does so under the settings
\* that it was given, and none of its limits is zero.
THEOREM ConfiguredAsAsked == Spec => []ServesAsConfigured
<1>1. IInv => ServesAsConfigured BY ServingSettings DEF IInv
<1> QED BY <1>1, IInvHolds, PTL

\* INV-14: for every network, whatever names resolve to at each hop and wherever
\* servers redirect to, a remote fetch reaches public addresses only, in three hops
\* at the most (remote.rs:94-129, 146-153, 273-344).
THEOREM RemoteStaysPublic == Spec => []OnlyPublicHosts
<1>1. IInv => OnlyPublicHosts
  <2> SUFFICES ASSUME IInv, fetch.client = "remote"
               PROVE  /\ \A address \in fetch.contacted : IsPublic(address)
                      /\ fetch.previous < MAX_REDIRECTS
    BY DEF OnlyPublicHosts
  <2>1. fetch.contacted \subseteq IPv4 \cup IPv6
    BY AddressesTold DEF IInv, Typed
  <2>2. /\ fetch.previous < MAX_REDIRECTS
        /\ \A address \in fetch.contacted : is_globally_routable(address)
    BY DEF IInv, Checked
  <2> QED BY <2>1, <2>2, RoutableIsPublic
<1> QED BY <1>1, IInvHolds, PTL

\* An image is the whole of what the server sent, within the limit, for bodies of
\* any length in chunks of any size (fetcher.rs:95-121, remote.rs:183-208).
THEOREM BodiesWhole == Spec => []WholeBody
<1>1. IInv => WholeBody BY DEF IInv
<1> QED BY <1>1, IInvHolds, PTL

\* A target that the policy bars is reported as such, and nothing else is but an answer
\* that redirects nowhere (remote.rs:157-166, 225-247, server.rs:722-744).
THEOREM BarredNamed == Spec => []RejectionsNamed
<1>1. IInv => RejectionsNamed BY DEF IInv
<1> QED BY <1>1, IInvHolds, PTL
=============================================================================
