--------------------------- MODULE Q30ReaderProof ---------------------------
(***************************************************************************)
(* Proofs about Q30Reader for any packet and block size, any number of     *)
(* packets and any faults.                                                 *)
(*                                                                         *)
(* The argument: the loop of parse steps over everything in front of a     *)
(* whole packet without missing its header (ScanKeeps), for what it takes  *)
(* for a packet ends at a header, and within a packet there is none but    *)
(* the first byte.  So a packet that has begun but is not over at the end  *)
(* of what was received is what incompletePacket holds (PendingKept), and  *)
(* the next block completes it.  On a clean line everything received is    *)
(* one stretch of the stream, every header is the beginning of a packet,   *)
(* and the loop hops from packet to packet (ScanInStep): the samples are a *)
(* run of packets and incompletePacket begins with the next one (At).      *)
(*                                                                         *)
(* The loop is a recursive function; that it is defined everywhere, and    *)
(* what it yields, is shown by taking the least, or the greatest, place    *)
(* where it would be wrong (LeastNat).                                     *)
(***************************************************************************)
EXTENDS Q30Reader, Integers, SequenceTheorems, WellFoundedInduction, TLAPS

USE Q30Assumption

(* The natural numbers are well ordered: this stands for induction.        *)
LEMMA LeastNat ==
  ASSUME NEW T, T \subseteq Nat, T # {}
  PROVE  \E x \in T : \A y \in T : x <= y
<1> DEFINE R == OpToRel(<, Nat)
<1>1. IsWellFoundedOn(R, Nat)
  BY NatLessThanWellFounded
<1>2. \A x, y \in Nat : <<y, x>> \in R <=> y < x
  BY DEF OpToRel
<1> HIDE DEF R
<1>3. PICK x \in T : \A y \in T : ~(<<y, x>> \in R)
  BY <1>1, WFMin
<1>4. \A y \in T : ~(y < x)
  <2>1. TAKE y \in T
  <2>2. x \in Nat /\ y \in Nat
    BY <1>3
  <2>3. <<y, x>> \in R <=> y < x
    BY <1>2, <2>2
  <2>4. QED
    BY <1>3, <2>3
<1>5. QED
  BY <1>3, <1>4

(* A set of naturals that holds 0 and every successor holds them all.      *)
LEMMA Induction ==
  ASSUME NEW T, 0 \in T, \A k \in Nat : k \in T => k + 1 \in T
  PROVE  \A k \in Nat : k \in T
<1> SUFFICES ASSUME Nat \ T # {}
             PROVE  FALSE
  OBVIOUS
<1>1. PICK x \in Nat \ T : \A y \in Nat \ T : x <= y
  <2> DEFINE U == Nat \ T
  <2>1. U \subseteq Nat /\ U # {}
    OBVIOUS
  <2> HIDE DEF U
  <2>2. \E x \in U : \A y \in U : x <= y
    BY <2>1, LeastNat
  <2>3. QED
    BY <2>2 DEF U
<1>2. x # 0 /\ x \in Nat
  BY <1>1
<1>3. x - 1 \in Nat /\ ~(x <= x - 1)
  BY <1>2
<1>4. x - 1 \in T
  BY <1>1, <1>3
<1>5. (x - 1) + 1 \in T
  BY <1>3, <1>4
<1>6. (x - 1) + 1 = x
  BY <1>2
<1>7. QED
  BY <1>1, <1>5, <1>6

(* One step of the loop looks at later steps only.                         *)
LEMMA ScanAtLater ==
  ASSUME NEW data \in Seq(Bytes), NEW f, NEW g, NEW i \in 1 .. Len(data) + 1,
         \A j \in i + 1 .. Len(data) + 1 : f[j] = g[j]
  PROVE  ScanAt(data, f, i) = ScanAt(data, g, i)
<1>1. Len(data) \in Nat
  OBVIOUS
<1>2. CASE i > Len(data)
  BY <1>2 DEF ScanAt
<1>3. CASE ~(i > Len(data))
  <2>1. f[i + 1] = g[i + 1]
    BY <1>1, <1>3
  <2>2. ~(i + PacketSize > Len(data)) => f[i + PacketSize] = g[i + PacketSize]
    BY <1>1, <1>3
  <2>3. QED
    BY <1>3, <2>1, <2>2 DEF ScanAt
<1>4. QED
  BY <1>2, <1>3

Solves(data, f, k) == \A i \in k .. Len(data) + 1 : f[i] = ScanAt(data, f, i)

(* The loop is well defined.                                               *)
LEMMA ScanSolved ==
  ASSUME NEW data \in Seq(Bytes)
  PROVE  \E scan : Solves(data, scan, 1) /\ Scan(data) = scan[1]
<1> DEFINE N == Len(data) + 1
           T == {k \in Nat : k < N => \E f : Solves(data, f, N - k)}
<1>1. N \in Nat \ {0}
  OBVIOUS
<1>2. 0 \in T
  <2> DEFINE f == [i \in {N} |-> [found |-> <<>>, tail |-> 0]]
  <2>1. \A i \in N .. N : i = N /\ i > Len(data)
    BY <1>1
  <2>2. \A i \in N .. N : f[i] = ScanAt(data, f, i)
    BY <2>1 DEF ScanAt
  <2>3. Solves(data, f, N - 0)
    BY <1>1, <2>2 DEF Solves
  <2>4. QED
    BY <2>3
<1>3. ASSUME NEW k \in Nat, k \in T
      PROVE  k + 1 \in T
  <2>1. SUFFICES ASSUME k + 1 < N
                 PROVE  \E f : Solves(data, f, N - (k + 1))
    OBVIOUS
  <2>2. PICK f : Solves(data, f, N - k)
    BY <1>1, <1>3, <2>1
  <2> DEFINE m == N - (k + 1)
             g == [i \in m .. N |-> IF i = m THEN ScanAt(data, f, m) ELSE f[i]]
  <2>3. m \in 1 .. N /\ N - k = m + 1
    BY <1>1, <2>1
  <2>4. \A i \in m + 1 .. N : g[i] = f[i] /\ i \in 1 .. N
    BY <1>1, <2>3
  <2>5. g[m] = ScanAt(data, f, m)
    BY <1>1, <2>3
  <2> HIDE DEF g, m
  <2>6. ASSUME NEW i \in m .. N
        PROVE  g[i] = ScanAt(data, g, i)
    <3>1. ScanAt(data, f, i) = ScanAt(data, g, i)
      <4>1. \A j \in i + 1 .. Len(data) + 1 : f[j] = g[j]
        BY <1>1, <2>3, <2>4
      <4>2. i \in 1 .. Len(data) + 1
        BY <1>1, <2>3
      <4>3. QED
        BY <4>1, <4>2, ScanAtLater
    <3>2. CASE i = m
      BY <2>5, <3>1, <3>2
    <3>3. CASE i # m
      <4>1. i \in m + 1 .. N
        BY <1>1, <2>3, <3>3
      <4>2. f[i] = ScanAt(data, f, i)
        BY <2>2, <2>3, <4>1 DEF Solves
      <4>3. QED
        BY <2>4, <3>1, <4>1, <4>2
    <3>4. QED
      BY <3>2, <3>3
  <2>7. Solves(data, g, m)
    BY <2>6 DEF Solves
  <2>8. QED
    BY <2>7 DEF m
<1>4. \A k \in Nat : k \in T
  <2> HIDE DEF T
  <2>1. QED
    BY <1>2, <1>3, Induction
<1>5. PICK f : Solves(data, f, 1)
  <2>1. Len(data) \in T /\ Len(data) < N /\ N - Len(data) = 1
    BY <1>1, <1>4
  <2>2. QED
    BY <2>1
<1>6. PICK h : h = [i \in 1 .. Len(data) + 1 |-> ScanAt(data, h, i)]
  <2> DEFINE h == [i \in 1 .. Len(data) + 1 |-> ScanAt(data, f, i)]
  <2>1. \A i \in 1 .. Len(data) + 1 : h[i] = f[i]
    BY <1>5 DEF Solves
  <2> HIDE DEF h
  <2>2. ASSUME NEW i \in 1 .. Len(data) + 1
        PROVE  ScanAt(data, f, i) = ScanAt(data, h, i)
    <3>1. \A j \in i + 1 .. Len(data) + 1 : f[j] = h[j]
      BY <1>1, <2>1
    <3>2. QED
      BY <3>1, ScanAtLater
  <2>3. h = [i \in 1 .. Len(data) + 1 |-> ScanAt(data, h, i)]
    BY <2>2 DEF h
  <2>4. QED
    BY <2>3
<1> DEFINE scan == CHOOSE g : g = [i \in 1 .. Len(data) + 1 |-> ScanAt(data, g, i)]
<1>7. scan = [i \in 1 .. Len(data) + 1 |-> ScanAt(data, scan, i)]
  BY <1>6
<1>8. Scan(data) = scan[1]
  BY DEF Scan
<1> HIDE DEF scan
<1>9. Solves(data, scan, 1)
  BY <1>7 DEF Solves
<1>10. QED
  BY <1>8, <1>9

(* What holds of a number once it holds of the larger ones up to N holds   *)
(* of all of them.                                                         *)
LEMMA DownInduction ==
  ASSUME NEW N \in Nat, NEW T,
         \A i \in 1 .. N : (\A j \in i + 1 .. N : j \in T) => i \in T
  PROVE  \A i \in 1 .. N : i \in T
<1> DEFINE U == {k \in 0 .. N - 1 : N - k \notin T}
<1>1. SUFFICES ASSUME U # {}
               PROVE  FALSE
  <2>1. SUFFICES ASSUME NEW i \in 1 .. N, i \notin T
                 PROVE  U # {}
    BY <2>1
  <2>2. N - i \in 0 .. N - 1 /\ N - (N - i) = i
    OBVIOUS
  <2>3. N - i \in U
    BY <2>1, <2>2
  <2>4. QED
    BY <2>3
<1>2. U \subseteq Nat
  OBVIOUS
<1>3. PICK x \in U : \A y \in U : x <= y
  <2> HIDE DEF U
  <2>1. QED
    BY <1>1, <1>2, LeastNat
<1>4. x \in 0 .. N - 1 /\ N - x \notin T /\ N - x \in 1 .. N
  BY <1>3
<1>5. ASSUME NEW j \in (N - x) + 1 .. N
      PROVE  j \in T
  <2>1. N - j \in 0 .. N - 1 /\ ~(x <= N - j) /\ N - (N - j) = j
    BY <1>4
  <2>2. N - j \notin U
    BY <1>3, <2>1
  <2>3. QED
    BY <2>1, <2>2
<1>6. QED
  BY <1>4, <1>5

(* LastHeader is the last header, where there is one.                      *)
LEMMA LastHeaderIs ==
  ASSUME NEW data \in Seq(Bytes), NEW i \in 1 .. Len(data), IsHeader(data[i])
  PROVE  /\ LastHeader(data, i) \in i .. Len(data)
         /\ IsHeader(data[LastHeader(data, i)])
         /\ \A k \in LastHeader(data, i) + 1 .. Len(data) : ~IsHeader(data[k])
<1> DEFINE U == {m \in 0 .. Len(data) - i : IsHeader(data[Len(data) - m])}
<1>1. Len(data) \in Nat
  OBVIOUS
<1>2. Len(data) - i \in U
  <2>1. Len(data) - i \in 0 .. Len(data) - i /\ Len(data) - (Len(data) - i) = i
    BY <1>1
  <2>2. QED
    BY <2>1
<1>3. U \subseteq Nat
  BY <1>1
<1>4. PICK x \in U : \A y \in U : x <= y
  <2> HIDE DEF U
  <2>1. QED
    BY <1>2, <1>3, LeastNat
<1> DEFINE j == Len(data) - x
<1>5. j \in i .. Len(data) /\ IsHeader(data[j])
  BY <1>1, <1>4
<1>6. ASSUME NEW k \in j + 1 .. Len(data)
      PROVE  ~IsHeader(data[k])
  <2>1. Len(data) - k \in 0 .. Len(data) - i /\ ~(x <= Len(data) - k)
        /\ Len(data) - (Len(data) - k) = k
    BY <1>1, <1>4
  <2>2. Len(data) - k \notin U
    BY <1>4, <2>1
  <2>3. QED
    BY <2>1, <2>2
<1> HIDE DEF j
<1>7. \E m \in i .. Len(data) :
        IsHeader(data[m]) /\ \A k \in m + 1 .. Len(data) : ~IsHeader(data[k])
  BY <1>5, <1>6
<1>8. QED
  BY <1>7 DEF LastHeader

ScanResult(data) ==
  [found : Seq(Seq(Bytes)), tail : {t \in 0 .. Len(data) : t + PacketSize > Len(data)} \cup {0}]

(* The loop finds sequences of bytes and keeps less than a packet.         *)
LEMMA ScanTyped ==
  ASSUME NEW data \in Seq(Bytes), NEW scan, Solves(data, scan, 1)
  PROVE  \A i \in 1 .. Len(data) + 1 : scan[i] \in ScanResult(data)
<1> DEFINE N == Len(data) + 1
           T == {i \in 1 .. N : scan[i] \in ScanResult(data)}
<1>1. N \in Nat
  OBVIOUS
<1>2. ASSUME NEW i \in 1 .. N, \A j \in i + 1 .. N : j \in T
      PROVE  scan[i] \in ScanResult(data)
  <2>1. scan[i] = ScanAt(data, scan, i)
    BY DEF Solves
  <2>2. CASE i > Len(data)
    BY <2>1, <2>2 DEF ScanAt, ScanResult
  <2>3. CASE ~(i > Len(data)) /\ (\/ ~IsHeader(data[i])
                                 \/ /\ ~(i + PacketSize > Len(data))
                                    /\ ~IsHeader(data[i + PacketSize]))
    <3>1. scan[i] = scan[i + 1] /\ i + 1 \in i + 1 .. N
      BY <1>1, <2>1, <2>3 DEF ScanAt
    <3>2. QED
      BY <1>2, <3>1
  <2>4. CASE ~(i > Len(data)) /\ IsHeader(data[i]) /\ i + PacketSize > Len(data)
    <3>1. scan[i] = [found |-> <<>>, tail |-> LastHeader(data, i)]
      BY <2>1, <2>4 DEF ScanAt
    <3>2. LastHeader(data, i) \in i .. Len(data)
      BY <2>4, LastHeaderIs
    <3>3. QED
      BY <2>4, <3>1, <3>2 DEF ScanResult
  <2>5. CASE /\ ~(i > Len(data)) /\ IsHeader(data[i]) /\ ~(i + PacketSize > Len(data))
             /\ IsHeader(data[i + PacketSize])
    <3> DEFINE packet == SubSeq(data, i, i + PacketSize - 1)
               later  == scan[i + PacketSize]
    <3>1. scan[i] = [found |-> <<packet>> \o later.found, tail |-> later.tail]
      BY <2>1, <2>5 DEF ScanAt
    <3>2. later \in ScanResult(data)
      <4>1. i + PacketSize \in i + 1 .. N
        BY <1>1, <2>5
      <4>2. QED
        BY <1>2, <4>1
    <3>3. packet \in Seq(Bytes)
      BY <2>5, SubSeqProperties
    <3> HIDE DEF packet, later
    <3>4. <<packet>> \o later.found \in Seq(Seq(Bytes))
      BY <3>2, <3>3, ConcatProperties DEF ScanResult
    <3>5. QED
      BY <3>1, <3>2, <3>4 DEF ScanResult
  <2>6. QED
    BY <2>2, <2>3, <2>4, <2>5
<1>3. \A i \in 1 .. N : i \in T
  <2>1. \A i \in 1 .. N : (\A j \in i + 1 .. N : j \in T) => i \in T
    BY <1>2
  <2> HIDE DEF T
  <2>2. QED
    BY <1>1, <2>1, DownInduction
<1>4. QED
  BY <1>3

(* Only the first byte of a packet is a header.                            *)
LEMMA HeaderIsFirst ==
  ASSUME NEW n, NEW p
  PROVE  IsHeader(Byte(n, p)) <=> p = 0
<1> DEFINE h == (p = 0)
<1>1. IsHeader(Byte(n, p)) = h
  <2> HIDE DEF h
  <2>1. <<n, p, h>>[3] = h
    OBVIOUS
  <2>2. QED
    BY <2>1, Zenon DEF IsHeader, Byte, h
<1>2. QED
  BY <1>1

(* The bytes of data from place d on begin packet n, and if the place of   *)
(* the next header is among them, it is there.                             *)
Begins(data, d, n) ==
  /\ \A j \in d .. Len(data) : j < d + PacketSize => data[j] = Byte(n, j - d)
  /\ d + PacketSize <= Len(data) => IsHeader(data[d + PacketSize])

Delivers(data, d, result) ==
  /\ d + PacketSize <= Len(data) =>
       \E k \in 1 .. Len(result.found) :
         result.found[k] = SubSeq(data, d, d + PacketSize - 1)
  /\ d + PacketSize > Len(data) => result.tail = d

(* Nothing in front of a packet makes the loop miss its header.            *)
LEMMA ScanKeeps ==
  ASSUME NEW data \in Seq(Bytes), NEW d \in 1 .. Len(data), NEW n, Begins(data, d, n)
  PROVE  Delivers(data, d, Scan(data))
<1>1. PICK scan : Solves(data, scan, 1) /\ Scan(data) = scan[1]
  BY ScanSolved
<1> DEFINE T == {i \in 1 .. d : Delivers(data, d, scan[i])}
<1>2. Len(data) \in Nat /\ d \in Nat
  OBVIOUS
<1>3. IsHeader(data[d])
  <2>1. data[d] = Byte(n, d - d) /\ d - d = 0
    BY <1>2 DEF Begins
  <2>2. QED
    BY <2>1, HeaderIsFirst
<1>4. \A j \in d + 1 .. Len(data) : j < d + PacketSize => ~IsHeader(data[j])
  <2>1. SUFFICES ASSUME NEW j \in d + 1 .. Len(data), j < d + PacketSize
                 PROVE  ~IsHeader(data[j])
    OBVIOUS
  <2>2. data[j] = Byte(n, j - d) /\ j - d # 0
    BY <1>2, <2>1 DEF Begins
  <2>3. QED
    BY <2>2, HeaderIsFirst
<1>5. ASSUME NEW i \in 1 .. d, \A j \in i + 1 .. d : j \in T
      PROVE  Delivers(data, d, scan[i])
  <2>1. scan[i] = ScanAt(data, scan, i) /\ i <= Len(data)
    BY <1>1, <1>2 DEF Solves
  <2>2. CASE i = d
    <3>1. CASE d + PacketSize > Len(data)
      <4>1. scan[i] = [found |-> <<>>, tail |-> LastHeader(data, d)]
        BY <1>3, <2>1, <2>2, <3>1 DEF ScanAt
      <4>2. LastHeader(data, d) \in d .. Len(data) /\ IsHeader(data[LastHeader(data, d)])
        BY <1>3, LastHeaderIs
      <4>3. LastHeader(data, d) = d
        BY <1>2, <1>4, <3>1, <4>2
      <4>4. QED
        BY <1>2, <3>1, <4>1, <4>3 DEF Delivers
    <3>2. CASE ~(d + PacketSize > Len(data))
      <4> DEFINE packet == SubSeq(data, d, d + PacketSize - 1)
                 later  == scan[d + PacketSize]
      <4>1. IsHeader(data[d + PacketSize])
        BY <1>2, <3>2 DEF Begins
      <4>2. scan[i] = [found |-> <<packet>> \o later.found, tail |-> later.tail]
        BY <1>3, <2>1, <2>2, <3>2, <4>1 DEF ScanAt
      <4>3. packet \in Seq(Bytes)
        BY <1>2, <3>2, SubSeqProperties
      <4>4. later.found \in Seq(Seq(Bytes))
        <5>1. d + PacketSize \in 1 .. Len(data) + 1
          BY <1>2, <3>2
        <5>2. QED
          BY <1>1, <5>1, ScanTyped DEF ScanResult
      <4> HIDE DEF packet, later
      <4>5. 1 \in 1 .. Len(<<packet>> \o later.found) /\ (<<packet>> \o later.found)[1] = packet
        BY <4>3, <4>4, ConcatProperties
      <4>6. \E k \in 1 .. Len(scan[i].found) : scan[i].found[k] = packet
        BY <4>2, <4>5
      <4>7. d + PacketSize <= Len(data) /\ ~(d + PacketSize > Len(data))
        BY <1>2, <3>2
      <4>8. QED
        BY <4>6, <4>7 DEF Delivers, packet
    <3>3. QED
      BY <3>1, <3>2
  <2>3. CASE i # d /\ ~IsHeader(data[i])
    <3>1. scan[i] = scan[i + 1] /\ i + 1 \in i + 1 .. d
      BY <1>2, <2>1, <2>3 DEF ScanAt
    <3>2. QED
      BY <1>5, <3>1
  <2>4. CASE i # d /\ IsHeader(data[i]) /\ i + PacketSize > Len(data)
    <3>1. scan[i] = [found |-> <<>>, tail |-> LastHeader(data, i)]
      BY <1>2, <2>1, <2>4 DEF ScanAt
    <3>2. d + PacketSize > Len(data)
      BY <1>2, <2>4
    <3>3. /\ LastHeader(data, i) \in i .. Len(data)
          /\ IsHeader(data[LastHeader(data, i)])
          /\ \A k \in LastHeader(data, i) + 1 .. Len(data) : ~IsHeader(data[k])
      BY <1>2, <2>4, LastHeaderIs
    <3>4. LastHeader(data, i) = d
      BY <1>2, <1>3, <1>4, <3>2, <3>3
    <3>5. QED
      BY <1>2, <3>1, <3>2, <3>4 DEF Delivers
  <2>5. CASE /\ i # d /\ IsHeader(data[i]) /\ ~(i + PacketSize > Len(data))
             /\ ~IsHeader(data[i + PacketSize])
    <3>1. scan[i] = scan[i + 1] /\ i + 1 \in i + 1 .. d
      BY <1>2, <2>1, <2>5 DEF ScanAt
    <3>2. QED
      BY <1>5, <3>1
  <2>6. CASE /\ i # d /\ IsHeader(data[i]) /\ ~(i + PacketSize > Len(data))
             /\ IsHeader(data[i + PacketSize])
    <3> DEFINE packet == SubSeq(data, i, i + PacketSize - 1)
               later  == scan[i + PacketSize]
    <3>1. scan[i] = [found |-> <<packet>> \o later.found, tail |-> later.tail]
      BY <1>2, <2>1, <2>6 DEF ScanAt
    <3>2. i + PacketSize \in i + 1 .. d
      BY <1>2, <1>4, <2>6
    <3>3. Delivers(data, d, later)
      BY <1>5, <3>2
    <3>4. packet \in Seq(Bytes)
      BY <1>2, <2>6, SubSeqProperties
    <3>5. later.found \in Seq(Seq(Bytes))
      <4>1. i + PacketSize \in 1 .. Len(data) + 1
        BY <1>2, <2>6
      <4>2. QED
        BY <1>1, <4>1, ScanTyped DEF ScanResult
    <3> HIDE DEF packet, later
    <3>6. \A k \in 1 .. Len(later.found) :
            /\ k + 1 \in 1 .. Len(<<packet>> \o later.found)
            /\ (<<packet>> \o later.found)[k + 1] = later.found[k]
      BY <3>4, <3>5, ConcatProperties
    <3>7. scan[i].found = <<packet>> \o later.found /\ scan[i].tail = later.tail
      BY <3>1
    <3>8. QED
      BY <3>3, <3>6, <3>7 DEF Delivers
  <2>7. QED
    BY <2>2, <2>3, <2>4, <2>5, <2>6
<1>6. \A i \in 1 .. d : i \in T
  <2>1. \A i \in 1 .. d : (\A j \in i + 1 .. d : j \in T) => i \in T
    BY <1>5
  <2> HIDE DEF T
  <2>2. QED
    BY <1>2, <2>1, DownInduction
<1>7. 1 \in T
  BY <1>2, <1>6
<1>8. QED
  BY <1>1, <1>7

-----------------------------------------------------------------------------
(* What has been received ends with an incomplete packet that starts at b. *)
Pending(b, n) ==
  /\ Len(received) < b + PacketSize
  /\ \A j \in b .. Len(received) : received[j] = Byte(n, j - b)

(* The reader has kept it.                                                 *)
PendingKept ==
  \A b \in 1 .. Len(received), n \in 0 .. NumPackets - 1 :
    Pending(b, n) => incomplete = SubSeq(received, b, Len(received))

KeepInv == TypeOK /\ PendingKept /\ NoArrivedPacketLost

(* A block ends up behind what was kept: every packet that was pending or  *)
(* begins in the block is somewhere in the data that parse looks at.       *)
LEMMA Located ==
  ASSUME TypeOK, PendingKept, NEW block \in Seq(Bytes),
         NEW b \in 1 .. Len(received) + Len(block), NEW n \in 0 .. NumPackets - 1,
         b <= Len(received) => Pending(b, n)
  PROVE  \E d \in 1 .. Len(incomplete \o block) :
           /\ Len(incomplete \o block) - d = Len(received \o block) - b
           /\ \A k \in 0 .. Len(received \o block) - b :
                (incomplete \o block)[d + k] = (received \o block)[b + k]
<1>1. incomplete \in Seq(Bytes) /\ received \in Seq(Bytes)
  BY DEF TypeOK
<1>2. /\ Len(incomplete) \in Nat /\ Len(received) \in Nat /\ Len(block) \in Nat
      /\ Len(incomplete \o block) = Len(incomplete) + Len(block)
      /\ Len(received \o block) = Len(received) + Len(block)
      /\ \A i \in 1 .. Len(incomplete) + Len(block) : (incomplete \o block)[i] =
            IF i <= Len(incomplete) THEN incomplete[i] ELSE block[i - Len(incomplete)]
      /\ \A i \in 1 .. Len(received) + Len(block) : (received \o block)[i] =
            IF i <= Len(received) THEN received[i] ELSE block[i - Len(received)]
  BY <1>1, ConcatProperties, LenProperties
<1> DEFINE data == incomplete \o block
           all  == received \o block
<1>3. CASE b <= Len(received)
  <2>1. incomplete = SubSeq(received, b, Len(received))
    BY <1>2, <1>3 DEF PendingKept
  <2>2. /\ Len(incomplete) = Len(received) - b + 1
        /\ \A i \in 1 .. Len(received) - b + 1 : incomplete[i] = received[b + i - 1]
    BY <1>1, <1>2, <1>3, <2>1, SubSeqProperties, ElementOfSeq
  <2>3. ASSUME NEW k \in 0 .. Len(all) - b
        PROVE  data[1 + k] = all[b + k]
    <3>1. 1 + k \in 1 .. Len(incomplete) + Len(block) /\ b + k \in 1 .. Len(received) + Len(block)
      BY <1>2, <1>3, <2>2
    <3>2. CASE b + k <= Len(received)
      <4>1. /\ 1 + k \in 1 .. Len(received) - b + 1 /\ b + (1 + k) - 1 = b + k
            /\ 1 + k <= Len(incomplete)
        BY <1>2, <2>2, <3>1, <3>2
      <4>2. incomplete[1 + k] = received[b + k]
        BY <2>2, <4>1
      <4>3. QED
        BY <1>2, <3>1, <3>2, <4>1, <4>2
    <3>3. CASE ~(b + k <= Len(received))
      <4>1. ~(1 + k <= Len(incomplete)) /\ (1 + k) - Len(incomplete) = (b + k) - Len(received)
        BY <1>2, <2>2, <3>1, <3>3
      <4>2. /\ data[1 + k] = block[(1 + k) - Len(incomplete)]
            /\ all[b + k] = block[(b + k) - Len(received)]
        BY <1>2, <3>1, <3>3, <4>1
      <4>3. QED
        BY <4>1, <4>2
    <3>4. QED
      BY <3>2, <3>3
  <2>4. Len(data) - 1 = Len(all) - b /\ 1 \in 1 .. Len(data)
    <3>1. Len(data) = Len(received) - b + 1 + Len(block) /\ Len(all) = Len(received) + Len(block)
      BY <1>2, <2>2
    <3>2. b \in Nat /\ b >= 1
      OBVIOUS
    <3> HIDE DEF data, all
    <3>3. QED
      BY <1>2, <1>3, <3>1, <3>2
  <2>5. QED
    BY <2>3, <2>4
<1>4. CASE ~(b <= Len(received))
  <2> DEFINE d == b - Len(received) + Len(incomplete)
  <2>1. d \in 1 .. Len(data) /\ Len(data) - d = Len(all) - b /\ d > Len(incomplete)
    BY <1>2, <1>4
  <2>2. ASSUME NEW k \in 0 .. Len(all) - b
        PROVE  data[d + k] = all[b + k]
    <3>1. /\ d + k \in 1 .. Len(incomplete) + Len(block)
          /\ b + k \in 1 .. Len(received) + Len(block)
          /\ ~(d + k <= Len(incomplete)) /\ ~(b + k <= Len(received))
          /\ (d + k) - Len(incomplete) = (b + k) - Len(received)
      BY <1>2, <1>4
    <3> HIDE DEF d
    <3>2. /\ data[d + k] = block[(d + k) - Len(incomplete)]
          /\ all[b + k] = block[(b + k) - Len(received)]
      BY <1>2, <3>1
    <3>3. QED
      BY <3>1, <3>2
  <2> HIDE DEF d
  <2>3. QED
    BY <2>1, <2>2
<1>5. QED
  BY <1>3, <1>4

(* A packet that begins in what has been received and in the block, and    *)
(* is not yet over when the block comes, is delivered by parse.            *)
LEMMA Caught ==
  ASSUME TypeOK, PendingKept, NEW block \in Seq(Bytes),
         NEW b \in 1 .. Len(received \o block), NEW n \in 0 .. NumPackets - 1,
         Begins(received \o block, b, n), Len(received) < b + PacketSize
  PROVE  \E d \in 1 .. Len(incomplete \o block) :
           /\ Len(incomplete \o block) - d = Len(received \o block) - b
           /\ \A k \in 0 .. Len(received \o block) - b :
                (incomplete \o block)[d + k] = (received \o block)[b + k]
           /\ Delivers(incomplete \o block, d, Scan(incomplete \o block))
<1> DEFINE data == incomplete \o block
           all  == received \o block
<1>1. /\ data \in Seq(Bytes) /\ all \in Seq(Bytes)
      /\ Len(data) \in Nat /\ Len(received) \in Nat /\ Len(block) \in Nat
      /\ Len(all) = Len(received) + Len(block)
      /\ \A j \in 1 .. Len(received) : all[j] = received[j]
  BY ConcatProperties, LenProperties DEF TypeOK
<1>2. b <= Len(received) => Pending(b, n)
  <2>1. SUFFICES ASSUME b <= Len(received), NEW j \in b .. Len(received)
                 PROVE  received[j] = Byte(n, j - b)
    BY DEF Pending
  <2>2. j \in b .. Len(all) /\ j < b + PacketSize /\ j \in 1 .. Len(received)
    BY <1>1, <2>1
  <2>3. QED
    BY <1>1, <2>2 DEF Begins
<1>3. b \in 1 .. Len(received) + Len(block)
  BY <1>1
<1>4. PICK d \in 1 .. Len(data) :
        /\ Len(data) - d = Len(all) - b
        /\ \A k \in 0 .. Len(all) - b : data[d + k] = all[b + k]
  BY <1>2, <1>3, Located
<1>5. Begins(data, d, n)
  <2>1. ASSUME NEW j \in d .. Len(data), j < d + PacketSize
        PROVE  data[j] = Byte(n, j - d)
    <3>1. /\ j - d \in 0 .. Len(all) - b /\ d + (j - d) = j
          /\ b + (j - d) \in b .. Len(all) /\ b + (j - d) < b + PacketSize
          /\ (b + (j - d)) - b = j - d
      <4> HIDE DEF data, all
      <4>1. QED
        BY <1>1, <1>4, <2>1
    <3>2. data[d + (j - d)] = all[b + (j - d)]
      BY <1>4, <3>1
    <3>3. all[b + (j - d)] = Byte(n, (b + (j - d)) - b)
      BY <3>1 DEF Begins
    <3>4. QED
      BY <3>1, <3>2, <3>3
  <2>2. ASSUME d + PacketSize <= Len(data)
        PROVE  IsHeader(data[d + PacketSize])
    <3>1. PacketSize \in 0 .. Len(all) - b /\ b + PacketSize <= Len(all)
      <4> HIDE DEF data, all
      <4>1. QED
        BY <1>1, <1>4, <2>2
    <3>2. data[d + PacketSize] = all[b + PacketSize]
      BY <1>4, <3>1
    <3>3. QED
      BY <3>1, <3>2 DEF Begins
  <2>3. QED
    BY <2>1, <2>2 DEF Begins
<1>6. Delivers(data, d, Scan(data))
  <2> HIDE DEF data
  <2>1. QED
    BY <1>1, <1>5, ScanKeeps
<1>7. QED
  BY <1>4, <1>6

(* A packet as a sequence of bytes.                                        *)
LEMMA PacketIs ==
  ASSUME NEW n \in 0 .. NumPackets - 1
  PROVE  /\ Packet(n) \in Seq(Bytes) /\ Len(Packet(n)) = PacketSize
         /\ \A p \in 1 .. PacketSize : Packet(n)[p] = Byte(n, p - 1)
<1>1. \A p \in 1 .. PacketSize : Byte(n, p - 1) \in Bytes
  <2>1. SUFFICES ASSUME NEW p \in 1 .. PacketSize
                 PROVE  Byte(n, p - 1) \in Bytes
    OBVIOUS
  <2>2. p - 1 \in 0 .. PacketSize - 1
    OBVIOUS
  <2> DEFINE h == (p - 1 = 0)
  <2>3. h \in BOOLEAN
    OBVIOUS
  <2> HIDE DEF h
  <2>4. <<n, p - 1, h>> \in Bytes
    BY <2>2, <2>3 DEF Bytes
  <2>5. QED
    BY <2>4, Zenon DEF Byte, h
<1>2. PacketSize \in Nat
  OBVIOUS
<1>3. QED
  BY <1>1, <1>2 DEF Packet

(* A stretch of s that reads as packet n.                                  *)
LEMMA ReadsAs ==
  ASSUME NEW s \in Seq(Bytes), NEW b \in 1 .. Len(s), NEW n \in 0 .. NumPackets - 1,
         b + PacketSize - 1 <= Len(s)
  PROVE  SubSeq(s, b, b + PacketSize - 1) = Packet(n)
           <=> \A j \in b .. b + PacketSize - 1 : s[j] = Byte(n, j - b)
<1> DEFINE cut == SubSeq(s, b, b + PacketSize - 1)
<1>1. /\ cut \in Seq(Bytes) /\ Len(cut) = PacketSize
      /\ \A p \in 1 .. PacketSize : cut[p] = s[b + p - 1]
  BY SubSeqProperties, LenProperties
<1> HIDE DEF cut
<1>2. ASSUME cut = Packet(n), NEW j \in b .. b + PacketSize - 1
      PROVE  s[j] = Byte(n, j - b)
  <2>1. /\ j - b + 1 \in 1 .. PacketSize /\ b + (j - b + 1) - 1 = j
        /\ (j - b + 1) - 1 = j - b
    BY <1>2
  <2>2. cut[j - b + 1] = s[b + (j - b + 1) - 1]
    BY <1>1, <2>1
  <2>3. Packet(n)[j - b + 1] = Byte(n, (j - b + 1) - 1)
    BY <2>1, PacketIs
  <2>4. QED
    BY <1>2, <2>1, <2>2, <2>3
<1>3. ASSUME \A j \in b .. b + PacketSize - 1 : s[j] = Byte(n, j - b)
      PROVE  cut = Packet(n)
  <2>1. ASSUME NEW p \in 1 .. PacketSize
        PROVE  cut[p] = Packet(n)[p]
    <3>1. b + p - 1 \in b .. b + PacketSize - 1 /\ (b + p - 1) - b = p - 1
      OBVIOUS
    <3>2. cut[p] = s[b + p - 1] /\ Packet(n)[p] = Byte(n, p - 1)
      BY <1>1, PacketIs
    <3>3. s[b + p - 1] = Byte(n, (b + p - 1) - b)
      BY <1>3, <3>1
    <3>4. QED
      BY <3>1, <3>2, <3>3
  <2>2. QED
    BY <1>1, <2>1, PacketIs, SeqEqual
<1>4. QED
  BY <1>2, <1>3 DEF cut

(* What a block changes.                                                   *)
Given(block) ==
  /\ received' = received \o block
  /\ Parse(block)
  /\ UNCHANGED <<sent, faults, firstRun, sampling, paused>>

(* What ReadBlock gives to the parser.                                     *)
LEMMA BlockOfRx ==
  ASSUME TypeOK, ReadBlock
  PROVE  \E block \in Seq(Bytes) :
           Len(block) = ReadSize /\ block = SubSeq(rx, 1, ReadSize) /\ Given(block)
<1>1. Len(rx) > ReadSize /\ rx \in Seq(Bytes)
  BY DEF ReadBlock, TypeOK
<1>2. SubSeq(rx, 1, ReadSize) \in Seq(Bytes) /\ Len(SubSeq(rx, 1, ReadSize)) = ReadSize
  BY <1>1, SubSeqProperties, LenProperties
<1>3. QED
  BY <1>2 DEF ReadBlock, Given

(* What parse keeps and returns, and that it returns what it finds.        *)
LEMMA BlockTyped ==
  ASSUME TypeOK, NEW block \in Seq(Bytes), Given(block)
  PROVE  /\ Scan(incomplete \o block) \in ScanResult(incomplete \o block)
         /\ incomplete' \in Seq(Bytes) /\ Len(incomplete') <= PacketSize
         /\ received' \in Seq(Bytes)
         /\ samples' \in Seq(Seq(Bytes))
         /\ Len(samples') = Len(samples) + Len(Scan(incomplete \o block).found)
         /\ \A k \in 1 .. Len(samples) : samples'[k] = samples[k]
         /\ \A k \in 1 .. Len(Scan(incomplete \o block).found) :
              samples'[Len(samples) + k] = Scan(incomplete \o block).found[k]
<1> DEFINE data   == incomplete \o block
           result == Scan(data)
<1>1. data \in Seq(Bytes) /\ Len(data) \in Nat /\ received' \in Seq(Bytes)
  BY ConcatProperties, LenProperties DEF TypeOK, Given
<1>2. result \in ScanResult(data)
  <2>1. PICK scan : Solves(data, scan, 1) /\ Scan(data) = scan[1]
    BY <1>1, ScanSolved
  <2>2. 1 \in 1 .. Len(data) + 1
    BY <1>1
  <2> HIDE DEF data
  <2>3. QED
    BY <1>1, <2>1, <2>2, ScanTyped
<1>3. /\ samples' = samples \o result.found
      /\ incomplete' = IF result.tail = 0 THEN incomplete
                       ELSE SubSeq(data, result.tail, Len(data))
  BY DEF Given, Parse
<1> HIDE DEF data, result
<1>4. samples \in Seq(Seq(Bytes)) /\ result.found \in Seq(Seq(Bytes))
  BY <1>2 DEF TypeOK, ScanResult
<1>5. /\ samples' \in Seq(Seq(Bytes))
      /\ Len(samples') = Len(samples) + Len(result.found)
      /\ \A k \in 1 .. Len(samples) + Len(result.found) : samples'[k] =
           IF k <= Len(samples) THEN samples[k] ELSE result.found[k - Len(samples)]
  BY <1>3, <1>4, ConcatProperties
<1>6. Len(samples) \in Nat /\ Len(result.found) \in Nat
  BY <1>4, LenProperties
<1>7. /\ \A k \in 1 .. Len(samples) : samples'[k] = samples[k]
      /\ \A k \in 1 .. Len(result.found) : samples'[Len(samples) + k] = result.found[k]
  <2>1. \A k \in 1 .. Len(samples) : samples'[k] = samples[k]
    BY <1>5, <1>6
  <2>2. ASSUME NEW k \in 1 .. Len(result.found)
        PROVE  samples'[Len(samples) + k] = result.found[k]
    <3>1. /\ Len(samples) + k \in 1 .. Len(samples) + Len(result.found)
          /\ ~(Len(samples) + k <= Len(samples)) /\ (Len(samples) + k) - Len(samples) = k
      BY <1>6
    <3>2. QED
      BY <1>5, <3>1
  <2>3. QED
    BY <2>1, <2>2
<1>8. incomplete' \in Seq(Bytes) /\ Len(incomplete') <= PacketSize
  <2>1. CASE result.tail = 0
    BY <1>3, <2>1 DEF TypeOK
  <2>2. CASE result.tail # 0
    <3>1. result.tail \in 1 .. Len(data) /\ Len(data) - result.tail + 1 <= PacketSize
      BY <1>1, <1>2, <2>2 DEF ScanResult
    <3>2. /\ SubSeq(data, result.tail, Len(data)) \in Seq(Bytes)
          /\ Len(SubSeq(data, result.tail, Len(data))) = Len(data) - result.tail + 1
      BY <1>1, <3>1, SubSeqProperties, ElementOfSeq, LenProperties
    <3>3. QED
      BY <1>3, <2>2, <3>1, <3>2
  <2>3. QED
    BY <2>1, <2>2
<1>9. QED
  BY <1>1, <1>2, <1>5, <1>7, <1>8 DEF data, result

(* The same stretch of two sequences.                                      *)
LEMMA SameCut ==
  ASSUME NEW u \in Seq(Bytes), NEW v \in Seq(Bytes), NEW s \in Int, NEW a \in 1 .. Len(u),
         s + a >= 1, Len(u) = Len(v) - s,
         \A j \in a .. Len(u) : u[j] = v[s + j]
  PROVE  SubSeq(u, a, Len(u)) = SubSeq(v, s + a, Len(v))
<1>1. Len(u) \in Nat /\ Len(v) \in Nat /\ a \in Nat /\ s + a \in 1 .. Len(v)
  OBVIOUS
<1>2. /\ SubSeq(u, a, Len(u)) \in Seq(Bytes)
      /\ Len(SubSeq(u, a, Len(u))) = Len(u) - a + 1
      /\ \A i \in 1 .. Len(u) - a + 1 : SubSeq(u, a, Len(u))[i] = u[a + i - 1]
  BY <1>1, SubSeqProperties, ElementOfSeq, LenProperties
<1>3. /\ SubSeq(v, s + a, Len(v)) \in Seq(Bytes)
      /\ Len(SubSeq(v, s + a, Len(v))) = Len(v) - (s + a) + 1
      /\ \A i \in 1 .. Len(v) - (s + a) + 1 : SubSeq(v, s + a, Len(v))[i] = v[s + a + i - 1]
  BY <1>1, SubSeqProperties, ElementOfSeq, LenProperties
<1>4. ASSUME NEW i \in 1 .. Len(u) - a + 1
      PROVE  SubSeq(u, a, Len(u))[i] = SubSeq(v, s + a, Len(v))[i]
  <2>1. /\ a + i - 1 \in a .. Len(u) /\ s + (a + i - 1) = s + a + i - 1
        /\ i \in 1 .. Len(v) - (s + a) + 1
    BY <1>1
  <2>2. u[a + i - 1] = v[s + (a + i - 1)]
    BY <2>1
  <2>3. QED
    BY <1>2, <1>3, <2>1, <2>2
<1>5. Len(u) - a + 1 = Len(v) - (s + a) + 1
  BY <1>1
<1>6. QED
  BY <1>2, <1>3, <1>4, <1>5, SeqEqual

(* The block leaves the reader with the incomplete packet at its end.      *)
LEMMA BlockKeepsPending ==
  ASSUME TypeOK, PendingKept, NEW block \in Seq(Bytes), Given(block)
  PROVE  PendingKept'
<1> DEFINE data == incomplete \o block
           all  == received \o block
<1>1. /\ all \in Seq(Bytes) /\ data \in Seq(Bytes) /\ received' = all
      /\ Len(all) \in Nat /\ Len(data) \in Nat /\ Len(received) \in Nat /\ Len(block) \in Nat
      /\ Len(all) = Len(received) + Len(block)
  BY ConcatProperties, LenProperties DEF TypeOK, Given
<1>2. SUFFICES ASSUME NEW b \in 1 .. Len(all), NEW n \in 0 .. NumPackets - 1,
                      Pending(b, n)'
               PROVE  incomplete' = SubSeq(all, b, Len(all))
  BY <1>1 DEF PendingKept
<1>3. Len(all) < b + PacketSize /\ \A j \in b .. Len(all) : all[j] = Byte(n, j - b)
  BY <1>1, <1>2 DEF Pending
<1>4. Begins(all, b, n) /\ Len(received) < b + PacketSize
  <2> HIDE DEF all
  <2>1. QED
    BY <1>1, <1>3 DEF Begins
<1>5. PICK d \in 1 .. Len(data) :
        /\ Len(data) - d = Len(all) - b
        /\ \A k \in 0 .. Len(all) - b : data[d + k] = all[b + k]
        /\ Delivers(data, d, Scan(data))
  BY <1>4, Caught
<1>6. Scan(data).tail = d
  <2> HIDE DEF all, data
  <2>1. d + PacketSize > Len(data)
    BY <1>1, <1>3, <1>5
  <2>2. QED
    BY <1>5, <2>1 DEF Delivers
<1>7. incomplete' = SubSeq(data, d, Len(data))
  <2>1. d # 0
    BY <1>1
  <2>2. QED
    BY <1>6, <2>1 DEF Given, Parse
<1> HIDE DEF all, data
<1>8. SubSeq(data, d, Len(data)) = SubSeq(all, b, Len(all))
  <2>1. /\ b - d \in Int /\ (b - d) + d = b /\ (b - d) + d >= 1
        /\ Len(data) = Len(all) - (b - d)
    BY <1>1, <1>5
  <2>2. ASSUME NEW j \in d .. Len(data)
        PROVE  data[j] = all[(b - d) + j]
    <3>1. j - d \in 0 .. Len(all) - b /\ d + (j - d) = j /\ b + (j - d) = (b - d) + j
      BY <1>1, <1>5
    <3>2. data[d + (j - d)] = all[b + (j - d)]
      BY <1>5, <3>1
    <3>3. QED
      BY <3>1, <3>2
  <2>3. QED
    BY <1>1, <2>1, <2>2, SameCut
<1>9. QED
  BY <1>7, <1>8

(* A packet is whole before the block or with it, and is returned then.    *)
LEMMA BlockLosesNone ==
  ASSUME TypeOK, PendingKept, NoArrivedPacketLost, NEW block \in Seq(Bytes), Given(block)
  PROVE  NoArrivedPacketLost'
<1> DEFINE data == incomplete \o block
           all  == received \o block
<1>1. /\ all \in Seq(Bytes) /\ data \in Seq(Bytes) /\ received' = all /\ received \in Seq(Bytes)
      /\ Len(all) \in Nat /\ Len(data) \in Nat /\ Len(received) \in Nat /\ Len(block) \in Nat
      /\ Len(all) = Len(received) + Len(block)
      /\ \A j \in 1 .. Len(received) : all[j] = received[j]
  BY ConcatProperties, LenProperties DEF TypeOK, Given
<1>2. /\ samples \in Seq(Seq(Bytes)) /\ Len(samples) \in Nat
      /\ DOMAIN samples = 1 .. Len(samples)
      /\ Len(Scan(data).found) \in Nat
      /\ DOMAIN samples' = 1 .. Len(samples) + Len(Scan(data).found)
      /\ \A k \in 1 .. Len(samples) : samples'[k] = samples[k]
      /\ \A k \in 1 .. Len(Scan(data).found) : samples'[Len(samples) + k] = Scan(data).found[k]
  BY BlockTyped, LenProperties DEF TypeOK, ScanResult
<1>3. SUFFICES ASSUME NEW n \in 0 .. NumPackets - 1, Arrived(n)'
               PROVE  \E k \in DOMAIN samples' : samples'[k] = Packet(n)
  BY DEF NoArrivedPacketLost, Packet
<1>4. PICK i \in 1 .. Len(all) - PacketSize :
        /\ SubSeq(all, i, i + PacketSize - 1) = Packet(n)
        /\ all[i + PacketSize] = Byte(n + 1, 0)
  BY <1>1, <1>3 DEF Arrived, Packet
<1> HIDE DEF all
<1>5. /\ i \in 1 .. Len(all) /\ i + PacketSize - 1 <= Len(all) /\ i + PacketSize <= Len(all)
      /\ i \in Nat
  BY <1>1, <1>4
<1>6. \A j \in i .. i + PacketSize - 1 : all[j] = Byte(n, j - i)
  BY <1>1, <1>4, <1>5, ReadsAs
<1>7. CASE i + PacketSize <= Len(received)
  <2>1. i \in 1 .. Len(received) - PacketSize /\ i \in 1 .. Len(received)
        /\ i + PacketSize - 1 <= Len(received)
    BY <1>1, <1>5, <1>7
  <2>2. \A j \in i .. i + PacketSize - 1 : received[j] = Byte(n, j - i)
    <3>1. \A j \in i .. i + PacketSize - 1 : j \in 1 .. Len(received)
      BY <1>1, <2>1
    <3>2. QED
      BY <1>1, <1>6, <3>1
  <2>3. SubSeq(received, i, i + PacketSize - 1) = Packet(n)
    BY <1>1, <2>1, <2>2, ReadsAs
  <2>4. received[i + PacketSize] = Byte(n + 1, 0)
    <3>1. i + PacketSize \in 1 .. Len(received)
      BY <1>1, <1>5, <1>7
    <3>2. QED
      BY <1>1, <1>4, <3>1
  <2>5. Arrived(n)
    BY <2>1, <2>3, <2>4 DEF Arrived
  <2>6. PICK k \in DOMAIN samples : samples[k] = Packet(n)
    BY <2>5 DEF NoArrivedPacketLost
  <2>7. k \in 1 .. Len(samples) /\ k \in 1 .. Len(samples) + Len(Scan(data).found)
    BY <1>2
  <2>8. QED
    BY <1>2, <2>6, <2>7
<1>8. CASE ~(i + PacketSize <= Len(received))
  <2>1. IsHeader(all[i + PacketSize])
    BY <1>4, HeaderIsFirst
  <2>2. Begins(all, i, n)
    <3>1. \A j \in i .. Len(all) : j < i + PacketSize => j \in i .. i + PacketSize - 1
      BY <1>1, <1>5
    <3>2. QED
      BY <1>6, <2>1, <3>1 DEF Begins
  <2>3. Len(received) < i + PacketSize
    BY <1>1, <1>5, <1>8
  <2>4. PICK d \in 1 .. Len(data) :
          /\ Len(data) - d = Len(all) - i
          /\ \A k \in 0 .. Len(all) - i : data[d + k] = all[i + k]
          /\ Delivers(data, d, Scan(data))
    BY <1>5, <2>2, <2>3, Caught DEF all
  <2> HIDE DEF data
  <2>5. d + PacketSize <= Len(data) /\ d + PacketSize - 1 <= Len(data) /\ d \in Nat
    BY <1>1, <1>5, <2>4
  <2>6. PICK k \in 1 .. Len(Scan(data).found) :
          Scan(data).found[k] = SubSeq(data, d, d + PacketSize - 1)
    BY <2>4, <2>5 DEF Delivers
  <2>7. SubSeq(data, d, d + PacketSize - 1) = Packet(n)
    <3>1. ASSUME NEW j \in d .. d + PacketSize - 1
          PROVE  data[j] = Byte(n, j - d)
      <4>1. /\ j - d \in 0 .. Len(all) - i /\ d + (j - d) = j
            /\ i + (j - d) \in i .. i + PacketSize - 1 /\ (i + (j - d)) - i = j - d
        BY <1>1, <1>5, <2>4, <2>5
      <4>2. data[d + (j - d)] = all[i + (j - d)]
        BY <2>4, <4>1
      <4>3. all[i + (j - d)] = Byte(n, (i + (j - d)) - i)
        BY <1>6, <4>1
      <4>4. QED
        BY <4>1, <4>2, <4>3
    <3>2. QED
      BY <1>1, <2>5, <3>1, ReadsAs
  <2>8. Len(samples) + k \in 1 .. Len(samples) + Len(Scan(data).found)
    BY <1>2, <2>6
  <2>9. QED
    BY <1>2, <2>6, <2>7, <2>8
<1>9. QED
  BY <1>7, <1>8

(* The device sends bytes.                                                 *)
LEMMA NextByteTyped ==
  ASSUME sent \in Nat, sent < NumPackets * PacketSize
  PROVE  NextByte \in Bytes /\ Garbled(NextByte) \in Bytes
<1> DEFINE q == sent \div PacketSize
           r == sent % PacketSize
           h == (r = 0)
<1>1. q \in Nat /\ r \in 0 .. PacketSize - 1 /\ sent = PacketSize * q + r
  OBVIOUS
<1>2. q \in 0 .. NumPackets - 1
  <2> HIDE DEF q, r
  <2>1. SUFFICES ASSUME q >= NumPackets
                 PROVE  FALSE
    BY <1>1
  <2>2. PICK x \in Nat : q = NumPackets + x
    <3>1. q - NumPackets \in Nat /\ q = NumPackets + (q - NumPackets)
      BY <1>1, <2>1
    <3>2. QED
      BY <3>1
  <2>3. PacketSize * q = NumPackets * PacketSize + PacketSize * x /\ PacketSize * x \in Nat
    BY <1>1, <2>2
  <2>4. QED
    BY <1>1, <2>3
<1>3. h \in BOOLEAN
  OBVIOUS
<1> HIDE DEF h, q, r
<1>4. <<q, r, h>> \in Bytes /\ <<q, r, FALSE>> \in Bytes
  BY <1>1, <1>2, <1>3 DEF Bytes
<1>5. NextByte = <<q, r, h>>
  BY Zenon DEF NextByte, Byte, q, r, h
<1>6. <<q, r, h>>[1] = q /\ <<q, r, h>>[2] = r
  OBVIOUS
<1>7. Garbled(NextByte) = <<q, r, FALSE>>
  BY <1>5, <1>6, Zenon DEF Garbled
<1>8. QED
  BY <1>4, <1>5, <1>7

(* Nothing has been received.                                              *)
LEMMA KeepInit == Init => KeepInv
<1> SUFFICES ASSUME Init
             PROVE  KeepInv
  OBVIOUS
<1>1. NumPackets * PacketSize \in Nat
  OBVIOUS
<1>2. TypeOK
  <2>1. 0 \in 0 .. NumPackets * PacketSize /\ 0 \in 0 .. MaxFaults
    BY <1>1
  <2>2. <<>> \in Seq(Bytes) /\ <<>> \in Seq(Seq(Bytes)) /\ Len(<<>>) <= PacketSize
    OBVIOUS
  <2>3. QED
    BY <2>1, <2>2 DEF Init, TypeOK
<1>3. received = <<>> /\ Len(received) = 0
  BY DEF Init
<1>4. PendingKept
  BY <1>3 DEF PendingKept
<1>5. NoArrivedPacketLost
  <2>1. 1 .. Len(received) - PacketSize = {}
    BY <1>3
  <2>2. QED
    BY <2>1 DEF NoArrivedPacketLost, Arrived
<1>6. QED
  BY <1>2, <1>4, <1>5 DEF KeepInv

(* Every step keeps the types.                                             *)
LEMMA TypeStep == TypeOK /\ [Next]_vars => TypeOK'
<1> SUFFICES ASSUME TypeOK, [Next]_vars
             PROVE  TypeOK'
  OBVIOUS
<1>1. NumPackets * PacketSize \in Nat
  OBVIOUS
<1>2. CASE DeviceSend
  <2>1. NextByte \in Bytes /\ Garbled(NextByte) \in Bytes
    BY <1>1, <1>2, NextByteTyped DEF DeviceSend, TypeOK
  <2>2. sent' \in 0 .. NumPackets * PacketSize
    <3>1. sent \in Nat /\ sent < NumPackets * PacketSize /\ sent' = sent + 1
      BY <1>1, <1>2 DEF DeviceSend, TypeOK
    <3> DEFINE most == NumPackets * PacketSize
    <3> HIDE DEF most
    <3>2. sent \in Nat /\ sent < most /\ sent' = sent + 1 /\ most \in Nat
      BY <1>1, <3>1 DEF most
    <3>3. sent' \in 0 .. most
      BY <3>2
    <3>4. QED
      BY <3>3 DEF most
  <2>3. faults' \in 0 .. MaxFaults
    BY <1>2 DEF DeviceSend, TypeOK
  <2>4. rx' \in Seq(Bytes)
    <3>1. rx' = rx \/ rx' = Append(rx, NextByte) \/ rx' = Append(rx, Garbled(NextByte))
      BY <1>2 DEF DeviceSend
    <3>2. rx \in Seq(Bytes)
      BY DEF TypeOK
    <3>3. Append(rx, NextByte) \in Seq(Bytes) /\ Append(rx, Garbled(NextByte)) \in Seq(Bytes)
      BY <2>1, <3>2, AppendProperties
    <3>4. QED
      BY <3>1, <3>2, <3>3
  <2>5. QED
    BY <1>2, <2>2, <2>3, <2>4 DEF DeviceSend, TypeOK
<1>3. CASE StartSampling
  BY <1>3 DEF StartSampling, TypeOK
<1>4. CASE StopSampling
  BY <1>4 DEF StopSampling, TypeOK
<1>5. CASE ReadJunk
  <2>1. rx' \in Seq(Bytes)
    BY <1>5 DEF ReadJunk
  <2>2. QED
    BY <1>5, <2>1 DEF ReadJunk, TypeOK
<1>6. CASE ReadBlock
  <2>1. PICK block \in Seq(Bytes) : Given(block)
    BY <1>6, BlockOfRx
  <2>2. rx' \in Seq(Bytes)
    <3>1. rx' = SubSeq(rx, ReadSize + 1, Len(rx)) /\ rx \in Seq(Bytes) /\ Len(rx) > ReadSize
      BY <1>6 DEF ReadBlock, TypeOK
    <3>2. QED
      BY <3>1, SubSeqProperties, LenProperties
  <2>3. QED
    BY <2>1, <2>2, BlockTyped DEF TypeOK, Given
<1>7. CASE UNCHANGED vars
  BY <1>7 DEF vars, TypeOK
<1>8. QED
  BY <1>2, <1>3, <1>4, <1>5, <1>6, <1>7 DEF Next

(* Only a block changes what the parser keeps and has returned.            *)
LEMMA KeepStep == KeepInv /\ [Next]_vars => KeepInv'
<1> SUFFICES ASSUME KeepInv, [Next]_vars
             PROVE  KeepInv'
  OBVIOUS
<1>1. TypeOK'
  BY TypeStep DEF KeepInv
<1>2. CASE ReadBlock
  <2>1. PICK block \in Seq(Bytes) : Given(block)
    BY <1>2, BlockOfRx DEF KeepInv
  <2>2. QED
    BY <1>1, <2>1, BlockKeepsPending, BlockLosesNone DEF KeepInv
<1>3. CASE DeviceSend \/ StartSampling \/ StopSampling \/ ReadJunk \/ UNCHANGED vars
  <2>1. received' = received /\ incomplete' = incomplete /\ samples' = samples
    BY <1>3 DEF DeviceSend, StartSampling, StopSampling, ReadJunk, vars
  <2>2. PendingKept'
    BY <2>1 DEF KeepInv, PendingKept, Pending
  <2>3. NoArrivedPacketLost'
    BY <2>1 DEF KeepInv, NoArrivedPacketLost, Arrived, Packet
  <2>4. QED
    BY <1>1, <2>2, <2>3 DEF KeepInv
<1>4. QED
  BY <1>2, <1>3 DEF Next

-----------------------------------------------------------------------------
(* Multiples of the packet size.                                           *)
LEMMA SuccTimes ==
  ASSUME NEW n \in Nat
  PROVE  (n + 1) * PacketSize = n * PacketSize + PacketSize /\ n * PacketSize \in Nat
OBVIOUS

(* Quotient and remainder are unique.                                      *)
LEMMA Division ==
  ASSUME NEW n \in Nat, NEW m \in Nat, NEW r \in 0 .. PacketSize - 1,
         NEW q \in 0 .. PacketSize - 1, n * PacketSize + r = m * PacketSize + q
  PROVE  n = m /\ r = q
<1>1. ASSUME NEW x \in Nat, NEW y \in Nat, x < y
      PROVE  x * PacketSize + PacketSize <= y * PacketSize
  <2>1. y - x - 1 \in Nat /\ y = (x + 1) + (y - x - 1)
    BY <1>1
  <2>2. PICK z \in Nat : y = (x + 1) + z
    BY <2>1
  <2>3. y * PacketSize = (x + 1) * PacketSize + z * PacketSize /\ z * PacketSize \in Nat
    BY <2>2
  <2>4. x * PacketSize \in Nat /\ (x + 1) * PacketSize = x * PacketSize + PacketSize
    BY SuccTimes
  <2>5. QED
    BY <2>3, <2>4
<1>2. n * PacketSize \in Nat /\ m * PacketSize \in Nat
  BY SuccTimes
<1>3. ~(n < m)
  BY <1>1, <1>2
<1>4. ~(m < n)
  BY <1>1, <1>2
<1>5. n = m
  BY <1>3, <1>4
<1>6. QED
  BY <1>2, <1>5

(* The byte that the device sends at place k.                              *)
Stream(k) == Byte(k \div PacketSize, k % PacketSize)

(* Quotient and remainder of a place in the stream.                        *)
LEMMA StreamDivides ==
  ASSUME NEW k \in Nat
  PROVE  /\ k \div PacketSize \in Nat /\ k % PacketSize \in 0 .. PacketSize - 1
         /\ k = (k \div PacketSize) * PacketSize + (k % PacketSize)
OBVIOUS

(* The place of byte r of packet n.                                        *)
LEMMA StreamIs ==
  ASSUME NEW n \in Nat, NEW r \in 0 .. PacketSize - 1
  PROVE  Stream(n * PacketSize + r) = Byte(n, r)
<1> DEFINE k == n * PacketSize + r
<1>1. k \in Nat
  BY SuccTimes
<1>2. /\ k \div PacketSize \in Nat /\ k % PacketSize \in 0 .. PacketSize - 1
      /\ k = (k \div PacketSize) * PacketSize + (k % PacketSize)
  <2> HIDE DEF k
  <2>1. QED
    BY <1>1, StreamDivides
<1>3. k \div PacketSize = n /\ k % PacketSize = r
  <2> DEFINE q == k \div PacketSize
             p == k % PacketSize
  <2>1. q \in Nat /\ p \in 0 .. PacketSize - 1 /\ q * PacketSize + p = n * PacketSize + r
    BY <1>2
  <2> HIDE DEF q, p
  <2>2. q = n /\ p = r
    BY <2>1, Division
  <2>3. QED
    BY <2>2 DEF q, p
<1> HIDE DEF k
<1>4. Stream(k) = Byte(n, r)
  BY <1>3, Zenon DEF Stream
<1>5. QED
  BY <1>4 DEF k

(* The headers of the stream stand where packets begin.                    *)
LEMMA StreamHeader ==
  ASSUME NEW k \in Nat, IsHeader(Stream(k))
  PROVE  \E n \in Nat : k = n * PacketSize
<1>1. /\ k \div PacketSize \in Nat /\ k % PacketSize \in 0 .. PacketSize - 1
      /\ k = (k \div PacketSize) * PacketSize + (k % PacketSize)
  BY StreamDivides
<1>2. k % PacketSize = 0
  BY HeaderIsFirst DEF Stream
<1>3. k = (k \div PacketSize) * PacketSize
  BY <1>1, <1>2
<1>4. QED
  BY <1>1, <1>3

(* The bytes of s are the stream from place x on.                          *)
InStep(s, x) == \A i \in 1 .. Len(s) : s[i] = Stream(x + i - 1)

Run(m, c) == [i \in 1 .. c |-> Packet(m + i - 1)]

ArrivedIn(s, n) == \E i \in 1 .. Len(s) - PacketSize :
  /\ SubSeq(s, i, i + PacketSize - 1) = Packet(n)
  /\ s[i + PacketSize] = Byte(n + 1, 0)

(* A header tells the place.                                               *)
LEMMA HeaderInStep ==
  ASSUME NEW s \in Seq(Bytes), NEW x \in Nat, InStep(s, x),
         NEW i \in 1 .. Len(s), IsHeader(s[i])
  PROVE  \E n \in 0 .. NumPackets - 1 : x + i - 1 = n * PacketSize
<1>1. x + i - 1 \in Nat /\ s[i] = Stream(x + i - 1) /\ s[i] \in Bytes
  BY ElementOfSeq DEF InStep
<1>2. PICK n \in Nat : x + i - 1 = n * PacketSize
  BY <1>1, StreamHeader
<1>3. s[i] = Byte(n, 0)
  <2>1. 0 \in 0 .. PacketSize - 1 /\ n * PacketSize + 0 = n * PacketSize
    BY SuccTimes
  <2>2. QED
    BY <1>1, <1>2, <2>1, StreamIs
<1>4. n \in 0 .. NumPackets - 1
  <2>1. Byte(n, 0)[1] = n
    BY DEF Byte
  <2>2. QED
    BY <1>1, <1>3, <2>1 DEF Bytes
<1>5. QED
  BY <1>2, <1>4

(* From a header on, the stream reads as packets.                          *)
LEMMA BytesInStep ==
  ASSUME NEW s \in Seq(Bytes), NEW x \in Nat, InStep(s, x),
         NEW i \in 1 .. Len(s), NEW n \in Nat, x + i - 1 = n * PacketSize
  PROVE  /\ \A j \in i .. Len(s) : j < i + PacketSize => s[j] = Byte(n, j - i)
         /\ i + PacketSize <= Len(s) => s[i + PacketSize] = Byte(n + 1, 0)
<1>1. Len(s) \in Nat /\ n * PacketSize \in Nat /\ (n + 1) * PacketSize = n * PacketSize + PacketSize
  BY SuccTimes
<1>2. ASSUME NEW j \in i .. Len(s), j < i + PacketSize
      PROVE  s[j] = Byte(n, j - i)
  <2>1. j - i \in 0 .. PacketSize - 1 /\ x + j - 1 = n * PacketSize + (j - i) /\ j \in 1 .. Len(s)
    BY <1>1, <1>2
  <2>2. QED
    BY <2>1, StreamIs DEF InStep
<1>3. ASSUME i + PacketSize <= Len(s)
      PROVE  s[i + PacketSize] = Byte(n + 1, 0)
  <2>1. /\ 0 \in 0 .. PacketSize - 1 /\ n + 1 \in Nat /\ i + PacketSize \in 1 .. Len(s)
        /\ x + (i + PacketSize) - 1 = (n + 1) * PacketSize + 0
    BY <1>1, <1>3
  <2>2. QED
    BY <2>1, StreamIs DEF InStep
<1>4. QED
  BY <1>2, <1>3

(* What the loop makes of a stream in step, from place i on: nothing, if   *)
(* there is no header; or packets n, n + 1 ..., and it keeps the rest from *)
(* the header of the next one on.                                          *)
OnlyPackets(data, x, i, result) ==
  \/ result.found = <<>> /\ result.tail = 0 /\ \A j \in i .. Len(data) : ~IsHeader(data[j])
  \/ \E n \in Nat :
       /\ result.tail \in i .. Len(data)
       /\ x + result.tail - 1 = (n + Len(result.found)) * PacketSize
       /\ result.found = Run(n, Len(result.found))
       /\ IsHeader(data[i]) => x + i - 1 = n * PacketSize
       /\ \A k \in 1 .. Len(result.found) :
            n + k - 1 \in 0 .. NumPackets - 1 /\ ArrivedIn(data, n + k - 1)

(* On a stream in step the loop finds packets and nothing else.            *)
LEMMA ScanInStep ==
  ASSUME NEW data \in Seq(Bytes), NEW x \in Nat, InStep(data, x)
  PROVE  OnlyPackets(data, x, 1, Scan(data))
<1>1. PICK scan : Solves(data, scan, 1) /\ Scan(data) = scan[1]
  BY ScanSolved
<1> DEFINE N == Len(data) + 1
           T == {i \in 1 .. N : OnlyPackets(data, x, i, scan[i])}
<1>2. Len(data) \in Nat /\ N \in Nat /\ 1 \in 1 .. N
  OBVIOUS
<1>3. ASSUME NEW i \in 1 .. N, \A j \in i + 1 .. N : j \in T
      PROVE  OnlyPackets(data, x, i, scan[i])
  <2>1. scan[i] = ScanAt(data, scan, i)
    BY <1>1 DEF Solves
  <2>2. CASE i > Len(data)
    <3>1. scan[i] = [found |-> <<>>, tail |-> 0]
      BY <2>1, <2>2 DEF ScanAt
    <3>2. \A j \in i .. Len(data) : FALSE
      BY <1>2, <2>2
    <3>3. QED
      BY <3>1, <3>2 DEF OnlyPackets
  <2>3. CASE ~(i > Len(data)) /\ ~IsHeader(data[i])
    <3>1. scan[i] = scan[i + 1] /\ i + 1 \in i + 1 .. N
      BY <1>2, <2>1, <2>3 DEF ScanAt
    <3>2. OnlyPackets(data, x, i + 1, scan[i])
      BY <1>3, <3>1
    <3>3. \A j \in i .. Len(data) : j = i \/ j \in i + 1 .. Len(data)
      BY <1>2
    <3>4. scan[i].tail \in i + 1 .. Len(data) => scan[i].tail \in i .. Len(data)
      BY <1>2
    <3>5. QED
      BY <2>3, <3>2, <3>3, <3>4 DEF OnlyPackets
  <2>4. CASE ~(i > Len(data)) /\ IsHeader(data[i])
    <3>1. i \in 1 .. Len(data)
      BY <1>2, <2>4
    <3>2. PICK n \in 0 .. NumPackets - 1 : x + i - 1 = n * PacketSize
      BY <2>4, <3>1, HeaderInStep
    <3>3. /\ \A j \in i .. Len(data) : j < i + PacketSize => data[j] = Byte(n, j - i)
          /\ i + PacketSize <= Len(data) => data[i + PacketSize] = Byte(n + 1, 0)
      BY <3>1, <3>2, BytesInStep
    <3>4. CASE i + PacketSize > Len(data)
      <4>1. scan[i] = [found |-> <<>>, tail |-> LastHeader(data, i)]
        BY <2>1, <2>4, <3>4 DEF ScanAt
      <4>2. LastHeader(data, i) \in i .. Len(data) /\ IsHeader(data[LastHeader(data, i)])
        BY <2>4, <3>1, LastHeaderIs
      <4> DEFINE t == LastHeader(data, i)
      <4> HIDE DEF t
      <4>3. t = i
        <5>1. t < i + PacketSize
          BY <1>2, <3>4, <4>2 DEF t
        <5>2. data[t] = Byte(n, t - i)
          BY <3>3, <4>2, <5>1 DEF t
        <5>3. t - i = 0
          BY <4>2, <5>2, HeaderIsFirst DEF t
        <5>4. QED
          BY <1>2, <4>2, <5>3 DEF t
      <4>4. scan[i] = [found |-> <<>>, tail |-> i]
        BY <4>1, <4>3 DEF t
      <4>5. <<>> = Run(n, 0)
        BY DEF Run
      <4>6. /\ Len(scan[i].found) = 0 /\ scan[i].found = Run(n, Len(scan[i].found))
            /\ scan[i].tail = i /\ n + Len(scan[i].found) = n
            /\ 1 .. Len(scan[i].found) = {}
        BY <4>4, <4>5
      <4>7. QED
        BY <1>2, <3>1, <3>2, <4>6 DEF OnlyPackets
    <3>5. CASE ~(i + PacketSize > Len(data))
      <4> DEFINE packet == SubSeq(data, i, i + PacketSize - 1)
                 later  == scan[i + PacketSize]
      <4>1. /\ i + PacketSize <= Len(data) /\ i + PacketSize - 1 <= Len(data)
            /\ i + PacketSize \in i + 1 .. N /\ i + PacketSize \in 1 .. Len(data) + 1
            /\ i + PacketSize \in i + PacketSize .. Len(data)
            /\ i \in 1 .. Len(data) - PacketSize
        BY <1>2, <3>1, <3>5
      <4>2. data[i + PacketSize] = Byte(n + 1, 0) /\ IsHeader(data[i + PacketSize])
        BY <3>3, <4>1, HeaderIsFirst
      <4>3. scan[i] = [found |-> <<packet>> \o later.found, tail |-> later.tail]
        BY <2>1, <2>4, <3>5, <4>2 DEF ScanAt
      <4>4. packet = Packet(n)
        <5>1. \A j \in i .. i + PacketSize - 1 : data[j] = Byte(n, j - i)
          BY <1>2, <3>1, <3>3, <4>1
        <5>2. QED
          BY <3>1, <4>1, <5>1, ReadsAs
      <4>5. ArrivedIn(data, n)
        BY <4>1, <4>2, <4>4 DEF ArrivedIn
      <4>6. later.found \in Seq(Seq(Bytes)) /\ packet \in Seq(Bytes)
        BY <1>1, <4>1, <4>4, ScanTyped, PacketIs DEF ScanResult
      <4>7. PICK m \in Nat :
              /\ later.tail \in i + PacketSize .. Len(data)
              /\ x + later.tail - 1 = (m + Len(later.found)) * PacketSize
              /\ later.found = Run(m, Len(later.found))
              /\ x + (i + PacketSize) - 1 = m * PacketSize
              /\ \A k \in 1 .. Len(later.found) :
                   m + k - 1 \in 0 .. NumPackets - 1 /\ ArrivedIn(data, m + k - 1)
        <5>1. OnlyPackets(data, x, i + PacketSize, later)
          BY <1>3, <4>1
        <5>2. QED
          BY <4>1, <4>2, <5>1 DEF OnlyPackets
      <4> HIDE DEF packet, later
      <4>8. m = n + 1
        <5>1. n \in Nat /\ n + 1 \in Nat /\ 0 \in 0 .. PacketSize - 1
          BY <3>2
        <5>2. /\ (n + 1) * PacketSize = n * PacketSize + PacketSize /\ n * PacketSize \in Nat
              /\ m * PacketSize \in Nat
          BY <5>1, SuccTimes
        <5> DEFINE mm == m * PacketSize
                   nn == n * PacketSize
        <5>3. mm = x + (i + PacketSize) - 1 /\ nn = x + i - 1
          BY <3>2, <4>7
        <5> HIDE DEF mm, nn
        <5>4. mm = nn + PacketSize /\ mm + 0 = mm
          BY <5>3
        <5>5. (n + 1) * PacketSize + 0 = nn + PacketSize
          BY <5>2 DEF nn
        <5>6. m * PacketSize + 0 = (n + 1) * PacketSize + 0
          BY <5>4, <5>5 DEF mm
        <5>7. QED
          BY <5>1, <5>6, Division
      <4> DEFINE found == scan[i].found
                 c     == Len(later.found)
      <4>9. found = <<packet>> \o later.found /\ scan[i].tail = later.tail
        BY <4>3
      <4>10. /\ found \in Seq(Seq(Bytes)) /\ Len(found) = c + 1 /\ c \in Nat
             /\ found[1] = packet
             /\ \A k \in 1 .. c : found[k + 1] = later.found[k]
        BY <4>6, <4>9, ConcatProperties
      <4> HIDE DEF found, c
      <4>11. ASSUME NEW k \in 1 .. c + 1
             PROVE  /\ found[k] = Packet(n + k - 1)
                    /\ n + k - 1 \in 0 .. NumPackets - 1 /\ ArrivedIn(data, n + k - 1)
        <5>1. CASE k = 1
          <6>1. n + k - 1 = n
            BY <3>2, <5>1
          <6>2. QED
            BY <3>2, <4>4, <4>5, <4>10, <5>1, <6>1
        <5>2. CASE k # 1
          <6>1. k - 1 \in 1 .. c /\ (k - 1) + 1 = k /\ m + (k - 1) - 1 = n + k - 1
            <7>1. c \in Nat /\ n \in Nat /\ m = n + 1
              BY <3>2, <4>8, <4>10
            <7>2. QED
              BY <5>2, <7>1
          <6>2. found[k] = later.found[k - 1]
            BY <4>10, <6>1
          <6>3. later.found[k - 1] = Packet(m + (k - 1) - 1)
            BY <4>7, <6>1 DEF Run, c
          <6>4. m + (k - 1) - 1 \in 0 .. NumPackets - 1 /\ ArrivedIn(data, m + (k - 1) - 1)
            BY <4>7, <6>1 DEF c
          <6>5. QED
            BY <6>1, <6>2, <6>3, <6>4
        <5>3. QED
          BY <5>1, <5>2
      <4>12. found = Run(n, Len(found))
        <5>1. found = [k \in 1 .. c + 1 |-> found[k]]
          BY <4>10
        <5>2. QED
          BY <4>10, <4>11, <5>1 DEF Run
      <4>13. /\ scan[i].tail \in i .. Len(data)
             /\ x + scan[i].tail - 1 = (n + Len(found)) * PacketSize
        <5>1. m + c = n + Len(found)
          BY <3>2, <4>8, <4>10
        <5>2. scan[i].tail \in i .. Len(data)
          BY <1>2, <4>7, <4>9
        <5>3. x + scan[i].tail - 1 = (m + c) * PacketSize
          BY <4>7, <4>9 DEF c
        <5>4. QED
          BY <5>1, <5>2, <5>3
      <4>14. \A k \in 1 .. Len(found) :
               n + k - 1 \in 0 .. NumPackets - 1 /\ ArrivedIn(data, n + k - 1)
        BY <4>10, <4>11
      <4>15. n \in Nat
        BY <3>2
      <4>16. QED
        BY <3>2, <4>12, <4>13, <4>14, <4>15, Zenon DEF OnlyPackets, found
    <3>6. QED
      BY <3>4, <3>5
  <2>5. QED
    BY <2>2, <2>3, <2>4
<1>4. \A i \in 1 .. N : i \in T
  <2>1. \A i \in 1 .. N : (\A j \in i + 1 .. N : j \in T) => i \in T
    BY <1>3
  <2> HIDE DEF T
  <2>2. QED
    BY <1>2, <2>1, DownInduction
<1>5. 1 \in T
  <2> HIDE DEF T
  <2>1. QED
    BY <1>2, <1>4
<1>6. QED
  BY <1>1, <1>5

(* incompletePacket is what follows the first s bytes.                     *)
Kept(s) == incomplete = SubSeq(received, s + 1, Len(received))

(* incompletePacket and the block are the end of what has been received.   *)
LEMMA DataIsEnd ==
  ASSUME TypeOK, NEW block \in Seq(Bytes), NEW s \in 0 .. Len(received), Kept(s)
  PROVE  /\ Len(incomplete \o block) = Len(received \o block) - s
         /\ \A j \in 1 .. Len(incomplete \o block) :
              (incomplete \o block)[j] = (received \o block)[s + j]
<1>1. incomplete \in Seq(Bytes) /\ received \in Seq(Bytes)
  BY DEF TypeOK
<1>2. /\ Len(incomplete) \in Nat /\ Len(received) \in Nat /\ Len(block) \in Nat
      /\ Len(incomplete \o block) = Len(incomplete) + Len(block)
      /\ Len(received \o block) = Len(received) + Len(block)
      /\ \A i \in 1 .. Len(incomplete) + Len(block) : (incomplete \o block)[i] =
            IF i <= Len(incomplete) THEN incomplete[i] ELSE block[i - Len(incomplete)]
      /\ \A i \in 1 .. Len(received) + Len(block) : (received \o block)[i] =
            IF i <= Len(received) THEN received[i] ELSE block[i - Len(received)]
  BY <1>1, ConcatProperties, LenProperties
<1>3. /\ Len(incomplete) = Len(received) - s
      /\ \A i \in 1 .. Len(received) - s : incomplete[i] = received[s + i]
  <2>1. CASE s = Len(received)
    BY <1>1, <1>2, <2>1, SubSeqProperties DEF Kept
  <2>2. CASE s # Len(received)
    BY <1>1, <1>2, <2>2, SubSeqProperties, ElementOfSeq DEF Kept
  <2>3. QED
    BY <2>1, <2>2
<1> DEFINE data == incomplete \o block
           all  == received \o block
<1>4. ASSUME NEW j \in 1 .. Len(incomplete) + Len(block)
      PROVE  data[j] = all[s + j]
  <2>1. s + j \in 1 .. Len(received) + Len(block)
    BY <1>2, <1>3
  <2>2. CASE j <= Len(incomplete)
    <3>1. j \in 1 .. Len(received) - s /\ s + j <= Len(received)
      BY <1>2, <1>3, <2>2
    <3>2. incomplete[j] = received[s + j]
      BY <1>3, <3>1
    <3>3. QED
      BY <1>2, <2>1, <2>2, <3>1, <3>2
  <2>3. CASE ~(j <= Len(incomplete))
    <3>1. ~(s + j <= Len(received)) /\ j - Len(incomplete) = (s + j) - Len(received)
      <4>1. /\ Len(incomplete) = Len(received) - s /\ Len(received) \in Nat /\ s \in Int
            /\ j \in Int /\ j > Len(incomplete)
        BY <1>2, <1>3, <2>3
      <4>2. QED
        BY <4>1
    <3>2. data[j] = block[j - Len(incomplete)] /\ all[s + j] = block[(s + j) - Len(received)]
      BY <1>2, <2>1, <2>3, <3>1
    <3>3. QED
      BY <3>1, <3>2
  <2>4. QED
    BY <2>2, <2>3
<1>5. Len(data) = Len(incomplete) + Len(block) /\ Len(all) = Len(received) + Len(block)
  BY <1>2
<1>6. Len(data) = Len(all) - s
  <2> HIDE DEF data, all
  <2>1. QED
    BY <1>2, <1>3, <1>5
<1>7. QED
  BY <1>4, <1>5, <1>6

(* The parser has returned packet m and those after it, and is left with   *)
(* what follows the first s bytes, which begins with the header of the next*)
(* packet; before it has returned any it may have come across no header.   *)
At(x, s, m) ==
  /\ Kept(s)
  /\ samples = Run(m, Len(samples))
  /\ \/ samples = <<>> /\ s = Len(received)
     \/ x + s = (m + Len(samples)) * PacketSize

(* Two runs of packets, one after the other.                               *)
LEMMA RunsJoin ==
  ASSUME NEW s \in Seq(Seq(Bytes)), NEW t \in Seq(Seq(Bytes)), NEW m \in Nat,
         s = Run(m, Len(s)), t = Run(m + Len(s), Len(t))
  PROVE  s \o t = Run(m, Len(s \o t))
<1>1. /\ Len(s) \in Nat /\ Len(t) \in Nat /\ s \o t \in Seq(Seq(Bytes))
      /\ Len(s \o t) = Len(s) + Len(t)
      /\ \A i \in 1 .. Len(s) + Len(t) :
           (s \o t)[i] = IF i <= Len(s) THEN s[i] ELSE t[i - Len(s)]
  BY ConcatProperties, LenProperties
<1>2. ASSUME NEW i \in 1 .. Len(s) + Len(t)
      PROVE  (s \o t)[i] = Packet(m + i - 1)
  <2>1. CASE i <= Len(s)
    <3>1. i \in 1 .. Len(s)
      BY <1>1, <2>1
    <3>2. s[i] = Packet(m + i - 1)
      BY <3>1 DEF Run
    <3>3. QED
      BY <1>1, <2>1, <3>2
  <2>2. CASE ~(i <= Len(s))
    <3>1. i - Len(s) \in 1 .. Len(t) /\ (m + Len(s)) + (i - Len(s)) - 1 = m + i - 1
      BY <1>1, <2>2
    <3>2. t[i - Len(s)] = Packet((m + Len(s)) + (i - Len(s)) - 1)
      BY <3>1 DEF Run
    <3>3. QED
      BY <1>1, <2>2, <3>1, <3>2
  <2>3. QED
    BY <2>1, <2>2
<1>3. PICK w : w = s \o t
  OBVIOUS
<1>4. /\ w \in Seq(Seq(Bytes)) /\ Len(w) = Len(s) + Len(t)
      /\ \A i \in 1 .. Len(w) : w[i] = Packet(m + i - 1)
  BY <1>1, <1>2, <1>3
<1>5. w = [i \in 1 .. Len(w) |-> w[i]]
  BY <1>4
<1>6. w = Run(m, Len(w))
  BY <1>4, <1>5 DEF Run
<1>7. QED
  BY <1>3, <1>6

(* What arrived in the end of a sequence arrived in the sequence.          *)
LEMMA ArrivedInEnd ==
  ASSUME NEW u \in Seq(Bytes), NEW v \in Seq(Bytes), NEW s \in Nat, Len(u) = Len(v) - s,
         \A j \in 1 .. Len(u) : u[j] = v[s + j],
         NEW n \in 0 .. NumPackets - 1, ArrivedIn(u, n)
  PROVE  ArrivedIn(v, n)
<1>1. PICK i \in 1 .. Len(u) - PacketSize :
        SubSeq(u, i, i + PacketSize - 1) = Packet(n) /\ u[i + PacketSize] = Byte(n + 1, 0)
  BY DEF ArrivedIn
<1>2. /\ Len(u) \in Nat /\ Len(v) \in Nat /\ i \in 1 .. Len(u) /\ i + PacketSize - 1 <= Len(u)
      /\ i + PacketSize \in 1 .. Len(u)
      /\ s + i \in 1 .. Len(v) - PacketSize /\ s + i \in 1 .. Len(v)
      /\ s + i + PacketSize - 1 <= Len(v) /\ s + (i + PacketSize) = s + i + PacketSize
  BY <1>1
<1>3. ASSUME NEW j \in s + i .. s + i + PacketSize - 1
      PROVE  v[j] = Byte(n, j - (s + i))
  <2>1. j - s \in 1 .. Len(u) /\ j - s \in i .. i + PacketSize - 1 /\ s + (j - s) = j
        /\ (j - s) - i = j - (s + i)
    BY <1>2
  <2>2. u[j - s] = Byte(n, (j - s) - i)
    BY <1>1, <1>2, <2>1, ReadsAs
  <2>3. u[j - s] = v[s + (j - s)]
    BY <2>1
  <2>4. QED
    BY <2>1, <2>2, <2>3
<1>4. SubSeq(v, s + i, s + i + PacketSize - 1) = Packet(n)
  BY <1>2, <1>3, ReadsAs
<1>5. v[s + i + PacketSize] = Byte(n + 1, 0)
  <2>1. u[i + PacketSize] = v[s + (i + PacketSize)]
    BY <1>2
  <2>2. QED
    BY <1>1, <1>2, <2>1
<1>6. QED
  BY <1>2, <1>4, <1>5 DEF ArrivedIn

(* A block of the stream: the run goes on.                                 *)
LEMMA BlockInStep ==
  ASSUME TypeOK, NEW block \in Seq(Bytes), Len(block) > 0, Given(block),
         NEW x \in Nat, InStep(received \o block, x),
         NEW s \in 0 .. Len(received), NEW m \in Nat, At(x, s, m)
  PROVE  /\ \E e \in 0 .. Len(received'), n \in Nat : At(x, e, n)'
         /\ \A k \in 1 .. Len(Scan(incomplete \o block).found) :
              \E n \in 0 .. NumPackets - 1 :
                Scan(incomplete \o block).found[k] = Packet(n) /\ ArrivedIn(received', n)
<1> DEFINE data   == incomplete \o block
           all    == received \o block
           result == Scan(data)
<1>0. PICK found, last : found = result.found /\ last = result.tail
  OBVIOUS
<1>1. /\ data \in Seq(Bytes) /\ all \in Seq(Bytes) /\ received' = all
      /\ samples \in Seq(Seq(Bytes)) /\ found \in Seq(Seq(Bytes))
      /\ Len(samples) \in Nat /\ Len(found) \in Nat
      /\ incomplete \in Seq(Bytes) /\ received \in Seq(Bytes)
  BY <1>0, ConcatProperties, LenProperties, BlockTyped DEF TypeOK, Given, ScanResult
<1>2. /\ Len(data) \in Nat /\ Len(all) \in Nat /\ Len(received) \in Nat
      /\ Len(all) = Len(received) + Len(block) /\ Len(data) >= 1
      /\ Len(data) = Len(incomplete) + Len(block)
  BY <1>1, ConcatProperties, LenProperties
<1>3. Len(data) = Len(all) - s /\ \A j \in 1 .. Len(data) : data[j] = all[s + j]
  BY DataIsEnd DEF At
<1>4. /\ samples' = samples \o found
      /\ incomplete' = IF last = 0 THEN incomplete ELSE SubSeq(data, last, Len(data))
  BY <1>0 DEF Given, Parse
<1>5. InStep(all, x)
  OBVIOUS
<1> HIDE DEF data, all, result
<1>6. x + s \in Nat /\ InStep(data, x + s)
  <2>1. ASSUME NEW j \in 1 .. Len(data)
        PROVE  data[j] = Stream((x + s) + j - 1)
    <3>1. s + j \in 1 .. Len(all) /\ x + (s + j) - 1 = (x + s) + j - 1
      BY <1>2, <1>3
    <3>2. QED
      BY <1>3, <1>5, <3>1 DEF InStep
  <2>2. QED
    BY <1>2, <2>1 DEF InStep
<1>7. OnlyPackets(data, x + s, 1, result)
  BY <1>1, <1>6, ScanInStep DEF result
<1>8. x + s = (m + Len(samples)) * PacketSize => IsHeader(data[1])
  <2>1. SUFFICES ASSUME x + s = (m + Len(samples)) * PacketSize
                 PROVE  IsHeader(data[1])
    OBVIOUS
  <2>2. 1 \in 1 .. Len(data) /\ (x + s) + 1 - 1 = x + s /\ m + Len(samples) \in Nat
    BY <1>1, <1>2, <1>6
  <2>3. 1 \in 1 .. Len(data) /\ 1 < 1 + PacketSize /\ 1 - 1 = 0
    BY <1>2
  <2>4. data[1] = Byte(m + Len(samples), 1 - 1)
    BY <1>1, <1>6, <2>1, <2>2, <2>3, BytesInStep
  <2>5. QED
    BY <2>3, <2>4, HeaderIsFirst
<1>9. CASE /\ found = <<>> /\ last = 0
           /\ \A j \in 1 .. Len(data) : ~IsHeader(data[j])
  <2>1. 1 \in 1 .. Len(data)
    BY <1>2
  <2>2. samples = <<>> /\ s = Len(received)
    BY <1>8, <1>9, <2>1 DEF At
  <2>3. samples' = <<>> /\ incomplete' = incomplete
    BY <1>4, <1>9, <2>2, ConcatEmptySeq
  <2>4. incomplete' = <<>>
    <3>1. Len(incomplete) = 0
      BY <1>2, <1>3, <2>2
    <3>2. QED
      BY <1>1, <2>3, <3>1, EmptySeq
  <2>5. incomplete' = SubSeq(all, Len(all) + 1, Len(all))
    BY <1>2, <2>4, SubSeqEmpty
  <2>6. samples' = Run(m, Len(samples'))
    BY <2>3 DEF Run
  <2>7. PICK e : e = Len(all)
    OBVIOUS
  <2>8. At(x, e, m)'
    BY <1>1, <2>3, <2>5, <2>6, <2>7 DEF At, Kept, Run, Packet
  <2>9. 1 .. Len(found) = {}
    BY <1>9
  <2>10. e \in 0 .. Len(received')
    BY <1>1, <1>2, <2>7
  <2>11. QED
    BY <1>0, <2>8, <2>9, <2>10 DEF result, data
<1>10. ASSUME NEW n \in Nat,
              /\ last \in 1 .. Len(data)
              /\ (x + s) + last - 1 = (n + Len(found)) * PacketSize
              /\ found = Run(n, Len(found))
              /\ IsHeader(data[1]) => (x + s) + 1 - 1 = n * PacketSize
              /\ \A k \in 1 .. Len(found) :
                   n + k - 1 \in 0 .. NumPackets - 1 /\ ArrivedIn(data, n + k - 1)
       PROVE  /\ \E e \in 0 .. Len(received'), q \in Nat : At(x, e, q)'
              /\ \A k \in 1 .. Len(found) : \E q \in 0 .. NumPackets - 1 :
                   found[k] = Packet(q) /\ ArrivedIn(received', q)
  <2>0. PICK e \in Int : e = s + last - 1
    BY <1>2, <1>10
  <2>1. e \in 0 .. Len(all) /\ e + 1 = s + last /\ x + e = (x + s) + last - 1
    BY <1>2, <1>3, <1>10, <2>0
  <2>2. Kept(e)'
    <3>1. incomplete' = SubSeq(data, last, Len(data))
      <4>1. last # 0
        BY <1>10
      <4>2. QED
        BY <1>4, <4>1
    <3>2. SubSeq(data, last, Len(data)) = SubSeq(all, s + last, Len(all))
      <4>1. s \in Int /\ s + last >= 1
        BY <1>2, <1>10
      <4>2. \A j \in last .. Len(data) : data[j] = all[s + j]
        <5>1. last \in 1 .. Len(data)
          BY <1>10
        <5>2. \A j \in last .. Len(data) : j \in 1 .. Len(data)
          BY <1>2, <5>1
        <5>3. QED
          BY <1>3, <5>2
      <4>3. QED
        BY <1>1, <1>3, <1>10, <4>1, <4>2, SameCut
    <3>3. QED
      BY <1>1, <2>1, <3>1, <3>2 DEF Kept
  <2>3. PICK q \in Nat : n = q + Len(samples) /\ samples = Run(q, Len(samples))
    <3>1. CASE samples = <<>> /\ s = Len(received)
      <4>1. Len(samples) = 0 /\ samples = Run(n, 0) /\ n = n + 0
        BY <3>1 DEF Run
      <4>2. QED
        BY <4>1
    <3>2. CASE x + s = (m + Len(samples)) * PacketSize
      <4>1. (m + Len(samples)) * PacketSize = n * PacketSize
        <5>1. (x + s) + 1 - 1 = x + s
          BY <1>6
        <5>2. QED
          BY <1>8, <1>10, <3>2, <5>1
      <4>2. m + Len(samples) = n
        <5>1. m + Len(samples) \in Nat /\ 0 \in 0 .. PacketSize - 1
          BY <1>1
        <5>2. (m + Len(samples)) * PacketSize + 0 = n * PacketSize + 0
          BY <4>1
        <5>3. QED
          BY <5>1, <5>2, Division
      <4>3. QED
        BY <4>2 DEF At
    <3>3. QED
      BY <3>1, <3>2 DEF At
  <2>4. /\ samples' = Run(q, Len(samples'))
        /\ Len(samples') = Len(samples) + Len(found)
    <3>1. found = Run(q + Len(samples), Len(found))
      BY <1>10, <2>3
    <3>2. QED
      BY <1>1, <1>4, <2>3, <3>1, RunsJoin, ConcatProperties
  <2>5. x + e = (q + Len(samples')) * PacketSize
    <3>1. q + Len(samples') = n + Len(found)
      <4>1. n = q + Len(samples) /\ Len(samples') = Len(samples) + Len(found)
        BY <2>3, <2>4
      <4>2. Len(samples') \in Nat
        BY <1>1, <4>1
      <4>3. QED
        BY <1>1, <4>1, <4>2
    <3>2. QED
      BY <1>10, <2>1, <3>1
  <2>6. At(x, e, q)'
    BY <2>2, <2>4, <2>5 DEF At, Run, Packet
  <2>7. ASSUME NEW k \in 1 .. Len(found)
        PROVE  \E p \in 0 .. NumPackets - 1 :
                 found[k] = Packet(p) /\ ArrivedIn(received', p)
    <3>1. PICK p \in 0 .. NumPackets - 1 : p = n + k - 1 /\ ArrivedIn(data, p)
      BY <1>10
    <3>2. s \in Nat
      BY <1>2
    <3>3. ArrivedIn(all, p)
      <4>1. data \in Seq(Bytes) /\ all \in Seq(Bytes) /\ ArrivedIn(data, p)
        BY <1>1, <3>1
      <4>2. QED
        BY <1>3, <3>2, <4>1, ArrivedInEnd
    <3>4. found[k] = Packet(p)
      BY <1>10, <3>1 DEF Run
    <3>5. QED
      BY <1>1, <3>3, <3>4
  <2>8. QED
    BY <1>1, <2>1, <2>6, <2>7
<1>11. QED
  BY <1>0, <1>7, <1>9, <1>10 DEF OnlyPackets, result, data

(* The place in the stream of the first byte received.                     *)
Offset == sent - Len(received) - Len(rx)

AllArrived ==
  \A i \in DOMAIN samples :
    \E n \in 0 .. NumPackets - 1 : samples[i] = Packet(n) /\ ArrivedIn(received, n)

Clean ==
  /\ received # <<>> => sampling /\ ~firstRun
  /\ Offset \in Nat
  /\ InStep(received, Offset)
  /\ InStep(rx, Offset + Len(received))
  /\ AllArrived
  /\ \E s \in 0 .. Len(received), m \in Nat : At(Offset, s, m)

CleanInv == faults = 0 /\ ~paused => Clean

(* Nothing has been received.                                              *)
LEMMA CleanInit == Init => CleanInv
<1> SUFFICES ASSUME Init
             PROVE  Clean
  BY DEF CleanInv
<1>1. /\ sent = 0 /\ rx = <<>> /\ received = <<>> /\ incomplete = <<>> /\ samples = <<>>
      /\ Len(rx) = 0 /\ Len(received) = 0 /\ Len(samples) = 0
  BY DEF Init
<1>2. Offset = 0
  <2>1. sent = 0 /\ Len(received) = 0 /\ Len(rx) = 0
    BY <1>1
  <2>2. QED
    BY <2>1 DEF Offset
<1>3. InStep(received, Offset) /\ InStep(rx, Offset + Len(received))
  BY <1>1 DEF InStep
<1>4. AllArrived
  BY <1>1 DEF AllArrived
<1>5. At(Offset, 0, 0)
  <2>1. samples = Run(0, Len(samples))
    BY <1>1 DEF Run
  <2>2. SubSeq(received, 0 + 1, Len(received)) = <<>>
    BY <1>1, SubSeqEmpty
  <2>3. Kept(0)
    BY <1>1, <2>2 DEF Kept
  <2>4. QED
    BY <1>1, <2>1, <2>3 DEF At
<1>6. 0 \in 0 .. Len(received) /\ 0 \in Nat
  BY <1>1
<1>7. QED
  BY <1>1, <1>2, <1>3, <1>4, <1>5, <1>6 DEF Clean

(* What the parser keeps and has returned changes with a block only.       *)
LEMMA SameParse ==
  ASSUME Clean, received' = received, incomplete' = incomplete, samples' = samples,
         Offset' = Offset
  PROVE  /\ InStep(received, Offset)' /\ AllArrived'
         /\ \E s \in 0 .. Len(received'), m \in Nat : At(Offset, s, m)'
<1>1. InStep(received, Offset)'
  BY DEF Clean, InStep, Stream, Byte
<1>2. AllArrived'
  BY DEF Clean, AllArrived, ArrivedIn, Packet
<1>3. PICK s \in 0 .. Len(received), m \in Nat : At(Offset, s, m)
  BY DEF Clean
<1>4. At(Offset, s, m)'
  BY <1>3 DEF At, Kept, Run, Packet
<1>5. QED
  BY <1>1, <1>2, <1>3, <1>4

(* A byte that arrives is the next one of the stream.                      *)
LEMMA CleanSend ==
  ASSUME TypeOK, Clean, DeviceSend, faults' = 0, faults = 0
  PROVE  Clean'
<1>1. /\ sent' = sent + 1 /\ rx' = Append(rx, NextByte) /\ received' = received
      /\ incomplete' = incomplete /\ samples' = samples
      /\ sampling' = sampling /\ firstRun' = firstRun
  BY DEF DeviceSend
<1>2. NumPackets * PacketSize \in Nat
  OBVIOUS
<1>3. /\ sent \in Nat /\ NextByte \in Bytes /\ rx \in Seq(Bytes) /\ Len(rx) \in Nat
      /\ Len(received) \in Nat
  BY <1>2, NextByteTyped, LenProperties DEF TypeOK, DeviceSend
<1>4. /\ Len(rx') = Len(rx) + 1
      /\ \A i \in 1 .. Len(rx) : rx'[i] = rx[i]
      /\ rx'[Len(rx) + 1] = NextByte
  BY <1>1, <1>3, AppendProperties
<1>5. Offset' = Offset /\ Offset \in Nat
  BY <1>1, <1>3, <1>4 DEF Offset, Clean
<1>6. NextByte = Stream(sent)
  BY DEF NextByte, Stream
<1>7. ASSUME NEW i \in 1 .. Len(rx')
      PROVE  rx'[i] = Stream((Offset + Len(received)) + i - 1)
  <2>1. CASE i \in 1 .. Len(rx)
    BY <1>4, <2>1 DEF Clean, InStep
  <2>2. CASE i \notin 1 .. Len(rx)
    <3>1. i = Len(rx) + 1
      BY <1>3, <1>4, <2>2
    <3>2. (Offset + Len(received)) + i - 1 = sent
      BY <1>3, <3>1 DEF Offset
    <3>3. QED
      BY <1>4, <1>6, <3>1, <3>2
  <2>3. QED
    BY <2>1, <2>2
<1>8. InStep(rx, Offset + Len(received))'
  BY <1>1, <1>5, <1>7 DEF InStep, Stream, Byte
<1>9. QED
  BY <1>1, <1>5, <1>8, SameParse DEF Clean

(* Junk is thrown away only before the first block.                        *)
LEMMA CleanJunk ==
  ASSUME TypeOK, Clean, ReadJunk
  PROVE  Clean'
<1>1. /\ rx' = <<>> /\ sent' = sent /\ received' = received /\ samples' = samples
      /\ incomplete' = incomplete
  BY DEF ReadJunk
<1>2. received = <<>>
  BY DEF Clean, ReadJunk
<1>3. NumPackets * PacketSize \in Nat
  OBVIOUS
<1>4. Len(received) = 0 /\ Len(rx') = 0 /\ sent \in Nat
  BY <1>1, <1>2, <1>3 DEF TypeOK
<1>5. Offset' \in Nat
  BY <1>1, <1>4 DEF Offset
<1>6. InStep(received, Offset)' /\ InStep(rx, Offset + Len(received))'
  BY <1>1, <1>4 DEF InStep
<1>7. AllArrived'
  BY <1>1 DEF Clean, AllArrived, ArrivedIn, Packet
<1>8. samples = <<>>
  <2>1. 1 .. Len(received) - PacketSize = {}
    BY <1>4
  <2>2. \A n : ~ArrivedIn(received, n)
    BY <2>1 DEF ArrivedIn
  <2>3. DOMAIN samples = {}
    BY <2>2 DEF Clean, AllArrived
  <2>4. samples \in Seq(Seq(Bytes)) /\ DOMAIN samples = 1 .. Len(samples) /\ Len(samples) \in Nat
    BY LenProperties DEF TypeOK
  <2>5. Len(samples) = 0
    BY <2>3, <2>4
  <2>6. QED
    BY <2>4, <2>5, EmptySeq
<1>9. PICK s \in 0 .. Len(received), m \in Nat : At(Offset, s, m)
  BY DEF Clean
<1>10. s = 0
  BY <1>4
<1>11. At(Offset, s, m)'
  BY <1>1, <1>4, <1>8, <1>9, <1>10 DEF At, Kept, Run, Packet
<1>12. QED
  BY <1>1, <1>2, <1>5, <1>6, <1>7, <1>11 DEF Clean

(* A block moves from the driver to the parser.                            *)
LEMMA CleanBlock ==
  ASSUME TypeOK, Clean, ReadBlock
  PROVE  Clean'
<1>1. PICK block \in Seq(Bytes) :
        Len(block) = ReadSize /\ block = SubSeq(rx, 1, ReadSize) /\ Given(block)
  BY BlockOfRx
<1>2. /\ rx \in Seq(Bytes) /\ Len(rx) \in Nat /\ Len(rx) > ReadSize
      /\ rx' = SubSeq(rx, ReadSize + 1, Len(rx)) /\ sent' = sent /\ received \in Seq(Bytes)
      /\ sampling' /\ ~firstRun' /\ Len(received) \in Nat
      /\ ReadSize \in Nat \ {0} /\ samples \in Seq(Seq(Bytes))
  BY LenProperties DEF TypeOK, ReadBlock
<1>3. /\ Len(rx') = Len(rx) - ReadSize
      /\ \A i \in 1 .. Len(rx) - ReadSize : rx'[i] = rx[ReadSize + i]
  BY <1>2, SubSeqProperties, ElementOfSeq
<1>4. /\ received' = received \o block /\ received' \in Seq(Bytes)
      /\ Len(received') = Len(received) + ReadSize
      /\ \A i \in 1 .. Len(received) : received'[i] = received[i]
      /\ \A i \in 1 .. ReadSize : received'[Len(received) + i] = rx[i]
  <2>1. /\ received' = received \o block
        /\ \A i \in 1 .. ReadSize : block[i] = rx[i]
    BY <1>1, <1>2, SubSeqProperties, ElementOfSeq DEF Given
  <2>2. /\ received' \in Seq(Bytes) /\ Len(received') = Len(received) + ReadSize
        /\ \A i \in 1 .. Len(received) + ReadSize : received'[i] =
             IF i <= Len(received) THEN received[i] ELSE block[i - Len(received)]
    BY <1>1, <1>2, <2>1, ConcatProperties
  <2>3. \A i \in 1 .. Len(received) : received'[i] = received[i]
    BY <1>2, <2>2
  <2>4. ASSUME NEW i \in 1 .. ReadSize
        PROVE  received'[Len(received) + i] = rx[i]
    <3>1. /\ Len(received) + i \in 1 .. Len(received) + ReadSize
          /\ ~(Len(received) + i <= Len(received)) /\ (Len(received) + i) - Len(received) = i
      BY <1>2
    <3>2. QED
      BY <2>1, <2>2, <3>1
  <2>5. QED
    BY <2>1, <2>2, <2>3, <2>4
<1>5. Offset' = Offset /\ Offset \in Nat
  <2>1. NumPackets * PacketSize \in Nat
    OBVIOUS
  <2>2. sent \in Nat
    BY <2>1 DEF TypeOK
  <2>3. /\ sent' = sent /\ Len(received') = Len(received) + ReadSize
        /\ Len(rx') = Len(rx) - ReadSize
    BY <1>2, <1>3, <1>4
  <2>4. Offset' = Offset
    BY <1>2, <2>2, <2>3 DEF Offset
  <2>5. QED
    BY <2>4 DEF Clean
<1>6. InStep(received \o block, Offset)
  <2>1. ASSUME NEW i \in 1 .. Len(received')
        PROVE  received'[i] = Stream(Offset + i - 1)
    <3>1. CASE i \in 1 .. Len(received)
      BY <1>4, <3>1 DEF Clean, InStep
    <3>2. CASE i \notin 1 .. Len(received)
      <4>1. /\ i - Len(received) \in 1 .. ReadSize /\ Len(received) + (i - Len(received)) = i
            /\ i - Len(received) \in 1 .. Len(rx)
            /\ (Offset + Len(received)) + (i - Len(received)) - 1 = Offset + i - 1
        BY <1>2, <1>4, <1>5, <3>2
      <4>2. received'[Len(received) + (i - Len(received))] = rx[i - Len(received)]
        BY <1>4, <4>1
      <4>3. rx[i - Len(received)] = Stream((Offset + Len(received)) + (i - Len(received)) - 1)
        BY <4>1 DEF Clean, InStep
      <4>4. QED
        BY <4>1, <4>2, <4>3
    <3>3. QED
      BY <3>1, <3>2
  <2>2. QED
    BY <1>4, <2>1 DEF InStep
<1>7. InStep(received, Offset)'
  BY <1>4, <1>5, <1>6 DEF InStep, Stream, Byte
<1>8. InStep(rx, Offset + Len(received))'
  <2>1. ASSUME NEW i \in 1 .. Len(rx')
        PROVE  rx'[i] = Stream((Offset + Len(received')) + i - 1)
    <3>1. /\ i \in 1 .. Len(rx) - ReadSize /\ ReadSize + i \in 1 .. Len(rx)
          /\ (Offset + Len(received)) + (ReadSize + i) - 1 = (Offset + Len(received')) + i - 1
      BY <1>2, <1>3, <1>4, <1>5
    <3>2. rx[ReadSize + i] = Stream((Offset + Len(received)) + (ReadSize + i) - 1)
      BY <3>1 DEF Clean, InStep
    <3>3. QED
      BY <1>3, <3>1, <3>2
  <2>2. QED
    BY <1>5, <2>1 DEF InStep, Stream, Byte
<1>9. PICK s \in 0 .. Len(received), m \in Nat : At(Offset, s, m)
  BY DEF Clean
<1>10. PICK x \in Nat : x = Offset
  BY <1>5
<1>11. /\ \E e \in 0 .. Len(received'), n \in Nat : At(x, e, n)'
       /\ \A k \in 1 .. Len(Scan(incomplete \o block).found) :
            \E n \in 0 .. NumPackets - 1 :
              Scan(incomplete \o block).found[k] = Packet(n) /\ ArrivedIn(received', n)
  <2>1. Len(block) > 0
    BY <1>1, <1>2
  <2>2. At(x, s, m) /\ InStep(received \o block, x)
    BY <1>6, <1>9, <1>10
  <2>3. QED
    BY <1>1, <2>1, <2>2, BlockInStep
<1>12. \E e \in 0 .. Len(received'), n \in Nat : At(Offset, e, n)'
  BY <1>5, <1>10, <1>11 DEF At
<1>13. AllArrived'
  <2>1. PICK found : found = Scan(incomplete \o block).found
    OBVIOUS
  <2>2. /\ Len(samples) \in Nat /\ DOMAIN samples = 1 .. Len(samples)
        /\ Len(found) \in Nat
        /\ DOMAIN samples' = 1 .. Len(samples) + Len(found)
        /\ \A k \in 1 .. Len(samples) : samples'[k] = samples[k]
        /\ \A k \in 1 .. Len(found) : samples'[Len(samples) + k] = found[k]
    BY <1>1, <1>2, <2>1, BlockTyped, LenProperties DEF ScanResult
  <2>3. ASSUME NEW i \in DOMAIN samples'
        PROVE  \E n \in 0 .. NumPackets - 1 : samples'[i] = Packet(n) /\ ArrivedIn(received', n)
    <3>1. CASE i \in 1 .. Len(samples)
      <4>1. PICK n \in 0 .. NumPackets - 1 : samples[i] = Packet(n) /\ ArrivedIn(received, n)
        BY <2>2, <3>1 DEF Clean, AllArrived
      <4>2. ArrivedIn(received', n)
        <5>1. PICK j \in 1 .. Len(received) - PacketSize :
                /\ SubSeq(received, j, j + PacketSize - 1) = Packet(n)
                /\ received[j + PacketSize] = Byte(n + 1, 0)
          BY <4>1 DEF ArrivedIn
        <5>2. /\ j \in 1 .. Len(received') - PacketSize /\ j \in 1 .. Len(received)
              /\ j \in 1 .. Len(received') /\ j + PacketSize - 1 <= Len(received)
              /\ j + PacketSize - 1 <= Len(received') /\ j + PacketSize \in 1 .. Len(received)
              /\ \A k \in j .. j + PacketSize - 1 : k \in 1 .. Len(received)
          BY <1>2, <1>4, <5>1
        <5>3. \A k \in j .. j + PacketSize - 1 : received[k] = Byte(n, k - j)
          <6>1. /\ received \in Seq(Bytes) /\ j \in 1 .. Len(received)
                /\ j + PacketSize - 1 <= Len(received)
            BY <1>2, <5>2
          <6>2. SubSeq(received, j, j + PacketSize - 1) = Packet(n)
            BY <5>1
          <6>3. QED
            BY <6>1, <6>2, ReadsAs
        <5>4. \A k \in j .. j + PacketSize - 1 : received'[k] = Byte(n, k - j)
          BY <1>4, <5>2, <5>3
        <5>5. SubSeq(received', j, j + PacketSize - 1) = Packet(n)
          BY <1>4, <5>2, <5>4, ReadsAs
        <5>6. QED
          BY <1>4, <5>1, <5>2, <5>5 DEF ArrivedIn
      <4>3. QED
        BY <2>2, <3>1, <4>1, <4>2
    <3>2. CASE i \notin 1 .. Len(samples)
      <4>1. i - Len(samples) \in 1 .. Len(found) /\ Len(samples) + (i - Len(samples)) = i
        BY <2>2, <3>2
      <4>2. samples'[Len(samples) + (i - Len(samples))] = found[i - Len(samples)]
        BY <2>2, <4>1
      <4>3. QED
        BY <1>11, <2>1, <4>1, <4>2
    <3>3. QED
      BY <3>1, <3>2
  <2>4. QED
    BY <2>3 DEF AllArrived, ArrivedIn, Packet, Byte
<1>14. QED
  BY <1>2, <1>5, <1>7, <1>8, <1>12, <1>13 DEF Clean

(* No step leaves the clean line other than clean.                         *)
LEMMA CleanStep == KeepInv /\ CleanInv /\ [Next]_vars => CleanInv'
<1> SUFFICES ASSUME KeepInv, CleanInv, [Next]_vars, faults' = 0, ~paused'
             PROVE  Clean'
  BY DEF CleanInv
<1>1. TypeOK
  BY DEF KeepInv
<1>2. faults = 0 /\ ~paused
  BY <1>1 DEF Next, DeviceSend, StartSampling, StopSampling, ReadJunk, ReadBlock, vars, TypeOK
<1>3. Clean
  BY <1>2 DEF CleanInv
<1>4. CASE DeviceSend
  BY <1>1, <1>2, <1>3, <1>4, CleanSend
<1>5. CASE StopSampling
  BY <1>5 DEF StopSampling
<1>6. CASE ReadJunk
  BY <1>1, <1>3, <1>6, CleanJunk
<1>7. CASE ReadBlock
  BY <1>1, <1>3, <1>7, CleanBlock
<1>8. CASE StartSampling \/ UNCHANGED vars
  <2>1. /\ sent' = sent /\ rx' = rx /\ received' = received /\ incomplete' = incomplete
        /\ samples' = samples /\ firstRun' = firstRun /\ (sampling => sampling')
    BY <1>8 DEF StartSampling, vars
  <2>2. Offset' = Offset
    BY <2>1 DEF Offset
  <2>3. InStep(rx, Offset + Len(received))'
    BY <1>3, <2>1, <2>2 DEF Clean, InStep, Stream, Byte
  <2>4. QED
    BY <1>3, <2>1, <2>2, <2>3, SameParse DEF Clean
<1>9. QED
  BY <1>4, <1>5, <1>6, <1>7, <1>8 DEF Next

(* The samples are a run of packets, and they are what arrived.            *)
LEMMA CleanImplies == KeepInv /\ CleanInv => ExactlyWhatArrived
<1> SUFFICES ASSUME KeepInv, Clean
             PROVE  /\ samples = [i \in 1 .. Len(samples) |-> Packet(samples[1][1][1] + i - 1)]
                    /\ {samples[i] : i \in DOMAIN samples} =
                         {Packet(n) : n \in {m \in 0 .. NumPackets - 1 : Arrived(m)}}
  BY DEF CleanInv, ExactlyWhatArrived
<1>1. samples = [i \in 1 .. Len(samples) |-> Packet(samples[1][1][1] + i - 1)]
  <2>1. PICK m \in Nat : samples = Run(m, Len(samples))
    BY DEF Clean, At
  <2>2. Len(samples) \in Nat /\ samples \in Seq(Seq(Bytes))
    BY LenProperties DEF KeepInv, TypeOK
  <2>3. ASSUME NEW i \in 1 .. Len(samples)
        PROVE  samples[1][1][1] = m
    <3>1. 1 \in 1 .. Len(samples) /\ m + 1 - 1 = m /\ 1 \in 1 .. PacketSize /\ 1 - 1 = 0
      BY <2>2
    <3>2. samples[1] = Packet(m)
      BY <2>1, <3>1 DEF Run
    <3>3. Packet(m)[1] = Byte(m, 0)
      BY <3>1 DEF Packet
    <3>4. Byte(m, 0)[1] = m
      BY DEF Byte
    <3>5. QED
      BY <3>2, <3>3, <3>4
  <2>4. QED
    BY <2>1, <2>3 DEF Run
<1>2. ASSUME NEW i \in DOMAIN samples
      PROVE  \E n \in {m \in 0 .. NumPackets - 1 : Arrived(m)} : samples[i] = Packet(n)
  BY DEF Clean, AllArrived, ArrivedIn, Arrived
<1>3. ASSUME NEW n \in 0 .. NumPackets - 1, Arrived(n)
      PROVE  \E i \in DOMAIN samples : samples[i] = Packet(n)
  BY <1>3 DEF KeepInv, NoArrivedPacketLost
<1>4. {samples[i] : i \in DOMAIN samples} =
        {Packet(n) : n \in {m \in 0 .. NumPackets - 1 : Arrived(m)}}
  <2>1. ASSUME NEW p
        PROVE  (\E i \in DOMAIN samples : p = samples[i]) <=>
                 \E n \in {m \in 0 .. NumPackets - 1 : Arrived(m)} : p = Packet(n)
    BY <1>2, <1>3, Zenon
  <2>2. QED
    BY <2>1, Zenon
<1>5. QED
  BY <1>1, <1>4

(* Whatever is lost or garbled, and however often sampling is switched off,*)
(* the reader's state keeps its types                                      *)
(* (CognionicsQ30.java:323-426, CognionicsQ30DataParser.java:24-99).       *)
THEOREM TypeCorrect == Spec => []TypeOK
<1>1. KeepInv => TypeOK
  BY DEF KeepInv
<1>2. QED
  BY <1>1, KeepInit, KeepStep, PTL DEF Spec

(* Wherever the blocks cut the stream, and whatever is lost or garbled     *)
(* elsewhere, a packet that arrives whole is returned                      *)
(* (CognionicsQ30DataParser.java:44-49, 211-221).                          *)
THEOREM NoneMissed == Spec => []NoArrivedPacketLost
<1>1. KeepInv => NoArrivedPacketLost
  BY DEF KeepInv
<1>2. QED
  BY <1>1, KeepInit, KeepStep, PTL DEF Spec

(* On a clean line, without a pause, the samples are the packets that      *)
(* arrived whole, each once and in order, and nothing else                 *)
(* (CognionicsQ30DataParser.java:32-39, 67-99).                            *)
THEOREM NothingElse == Spec => []ExactlyWhatArrived
<1>1. KeepInv /\ CleanInv => ExactlyWhatArrived
  BY CleanImplies
<1>2. Init => KeepInv /\ CleanInv
  BY KeepInit, CleanInit
<1>3. KeepInv /\ CleanInv /\ [Next]_vars => (KeepInv /\ CleanInv)'
  BY KeepStep, CleanStep
<1>4. QED
  BY <1>1, <1>2, <1>3, PTL DEF Spec
=============================================================================
