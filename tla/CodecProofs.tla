----------------------------- MODULE CodecProofs -----------------------------
(***************************************************************************)
(* Proofs about what the engines do to bytes, blocks and messages          *)
(* (EngineCodecs, ResponseRewrite), for any seeds, blocks, groups and      *)
(* plans; EnginesProofs takes them into the behaviours of MCEngines.       *)
(*                                                                         *)
(* Chaos: where the bytes of a record lie in its datagram, so that a       *)
(* decoder of the window, or of the one before, finds them; the buffer and *)
(* the wire hold the datagrams of the records to come (ChaosInv).          *)
(*                                                                         *)
(* The parity groups: xor over a class in any order, by induction on the   *)
(* class; what is received is the group less what was lost (FecInv).       *)
(*                                                                         *)
(* The responses: what left the middlewares, with what they hold back, is  *)
(* what the application sent so far (ResponseInv), with one invariant for  *)
(* each of the ways of a response: passed, held, or coded again.           *)
(***************************************************************************)
EXTENDS EngineCodecs, ResponseRewrite, WellFoundedInduction, FiniteSetTheorems,
        SequenceTheorems, TLAPS

LEMMA SetsOfNumbersHaveALeast ==
  ASSUME NEW S, S \subseteq Nat, S # {}
  PROVE  \E k \in S : \A j \in S : k <= j
<1>1. IsWellFoundedOn({ss \in Nat \X Nat : ss[1] < ss[2]}, Nat)
  BY NatLessThanWellFounded DEF OpToRel
<1>2. \E k \in S : \A j \in S : <<j, k>> \notin {ss \in Nat \X Nat : ss[1] < ss[2]}
  BY <1>1, WFMin
<1>3. \A k, j \in Nat : <<j, k>> \notin {ss \in Nat \X Nat : ss[1] < ss[2]} => k <= j
  OBVIOUS
<1> QED
  BY <1>2, <1>3

-----------------------------------------------------------------------------
(* The chaos framing: where the bytes of a record are.                     *)

(* Two sequences one after the other, and their parts again.               *)
LEMMA JoinedIs ==
  ASSUME NEW S, NEW s \in Seq(S), NEW t \in Seq(S)
  PROVE  /\ s \o t \in Seq(S) /\ Len(s \o t) = Len(s) + Len(t)
         /\ Len(s) \in Nat /\ Len(t) \in Nat
         /\ \A i \in 1..Len(s) : (s \o t)[i] = s[i]
         /\ \A i \in 1..Len(t) : (s \o t)[Len(s) + i] = t[i]
<1>1. Len(s) \in Nat /\ Len(t) \in Nat
  OBVIOUS
<1>2. /\ s \o t \in Seq(S) /\ Len(s \o t) = Len(s) + Len(t)
      /\ \A i \in 1..(Len(s) + Len(t)) : (s \o t)[i] = IF i <= Len(s) THEN s[i] ELSE t[i - Len(s)]
  BY ConcatProperties
<1>3. ASSUME NEW i \in 1..Len(s) PROVE (s \o t)[i] = s[i]
  <2>1. i \in 1..(Len(s) + Len(t)) /\ i <= Len(s)
    BY <1>1
  <2> QED BY <1>2, <2>1
<1>4. ASSUME NEW i \in 1..Len(t) PROVE (s \o t)[Len(s) + i] = t[i]
  <2> DEFINE k == Len(s) + i
  <2>1. k \in 1..(Len(s) + Len(t)) /\ ~(k <= Len(s)) /\ k - Len(s) = i
    BY <1>1
  <2> HIDE DEF k
  <2>2. (s \o t)[k] = t[i]
    BY <1>2, <2>1
  <2> QED BY <2>2 DEF k
<1> QED BY <1>1, <1>2, <1>3, <1>4

LEMMA JoinedEnds ==
  ASSUME NEW S, NEW s \in Seq(S), NEW t \in Seq(S)
  PROVE  SubSeq(s \o t, Len(s) + 1, Len(s \o t)) = t
<1> DEFINE u == s \o t
           r == SubSeq(u, Len(s) + 1, Len(u))
<1>1. /\ u \in Seq(S) /\ Len(u) = Len(s) + Len(t) /\ Len(s) \in Nat /\ Len(t) \in Nat
      /\ \A i \in 1..Len(t) : u[Len(s) + i] = t[i]
  BY SMTT(40), JoinedIs
<1> HIDE DEF u
<1>2. /\ r \in Seq(S) /\ Len(r) = Len(u) - Len(s)
      /\ \A i \in 1..(Len(u) - Len(s)) : r[i] = u[Len(s) + i]
  <2>1. \A i \in (Len(s) + 1)..Len(u) : u[i] \in S
    BY <1>1
  <2>2. /\ r \in Seq(S)
        /\ Len(r) = IF Len(s) + 1 <= Len(u) THEN Len(u) - (Len(s) + 1) + 1 ELSE 0
        /\ \A i \in 1..(Len(u) - (Len(s) + 1) + 1) : r[i] = u[(Len(s) + 1) + i - 1]
    BY <1>1, <2>1, SubSeqProperties
  <2> HIDE DEF r
  <2>3. Len(u) - (Len(s) + 1) + 1 = Len(u) - Len(s)
    BY <1>1
  <2>4. \A i \in 1..(Len(u) - Len(s)) : (Len(s) + 1) + i - 1 = Len(s) + i
    BY <1>1
  <2>5. Len(r) = Len(u) - Len(s)
    BY <1>1, <2>2
  <2> QED BY Zenon, <2>2, <2>3, <2>4, <2>5
<1> HIDE DEF r
<1>3. Len(u) - Len(s) = Len(t)
  BY <1>1
<1>4. r = t
  BY <1>1, <1>2, <1>3, SeqEqual
<1> QED BY <1>4 DEF r, u

LEMMA BytesAre ==
  ASSUME NEW n \in Nat, NEW x \in Nat
  PROVE  /\ Bytes(n, x) \in Seq(Nat) /\ Len(Bytes(n, x)) = n
         /\ \A i \in 1..n : Bytes(n, x)[i] = x
  BY DEF Bytes

LEMMA SeedIs ==
  ASSUME seedOf \in [-2..MaxBucket -> Seeds], NEW b \in 0..MaxBucket
  PROVE  /\ seedOf[b].length \in Nat /\ seedOf[b].offset \in Nat
         /\ seedOf[b].offset + 4 <= seedOf[b].length
         /\ Frame(b) \in 0..3
<1>1. MaxBucket \in Nat /\ Seeds \subseteq [draw : 0..3, length : Nat, offset : Nat]
      /\ \A s \in Seeds : s.offset + 4 <= s.length
  BY CodecAssumption
<1>2. b \in Int /\ b \in -2..MaxBucket
  BY <1>1
<1>3. seedOf[b] \in Seeds
  BY <1>2
<1>4. seedOf[b].draw \in 0..3 /\ seedOf[b].length \in Nat /\ seedOf[b].offset \in Nat
  BY <1>1, <1>3
<1>5. \A d \in 0..3 : (d + 1 + b) % 4 \in 0..3
  BY <1>2
<1>6. Frame(b) \in 0..3
  BY <1>4, <1>5 DEF Frame, FRAMES
<1> QED BY <1>1, <1>3, <1>4, <1>6

LEMMA HeaderIs ==
  ASSUME NEW f \in 0..3, NEW n \in 0..125
  PROVE  /\ Header(f, n) \in Seq(Nat) /\ Len(Header(f, n)) \in 1..9
         /\ \A i \in 1..Len(Header(f, n)) : Header(f, n)[i] # Magic
<1>1. CASE f = 0
  <2>1. Header(f, n) = <<0, 0, n, 0, 0, 0, 0, 0, 1>>
    BY <1>1 DEF Header
  <2>2. \A i \in 1..9 : <<0, 0, n, 0, 0, 0, 0, 0, 1>>[i] # 225
    OBVIOUS
  <2> QED BY <2>1, <2>2 DEF Magic
<1>2. CASE f = 1
  <2>1. Header(f, n) = <<130, n>>
    BY <1>2 DEF Header
  <2>2. \A i \in 1..2 : <<130, n>>[i] # 225
    OBVIOUS
  <2> QED BY <2>1, <2>2 DEF Magic
<1>3. CASE f = 2
  <2>1. Header(f, n) = <<0, 0, 0, 0, n>>
    BY <1>3 DEF Header
  <2>2. \A i \in 1..5 : <<0, 0, 0, 0, n>>[i] # 225
    OBVIOUS
  <2> QED BY <2>1, <2>2 DEF Magic
<1>4. CASE f = 3
  <2>1. Header(f, n) = <<64, 0, n>>
    BY <1>4 DEF Header
  <2>2. \A i \in 1..3 : <<64, 0, n>>[i] # 225
    OBVIOUS
  <2> QED BY <2>1, <2>2 DEF Magic
<1> QED BY <1>1, <1>2, <1>3, <1>4

(* What is framed comes out of its frame.                                  *)
LEMMA FramedIs ==
  ASSUME NEW f \in 0..3, NEW n \in 0..125
  PROVE  /\ Framed(f, n) \in Seq(Nat) /\ Len(Framed(f, n)) \in Nat \ {0}
         /\ \A i \in 1..Len(Framed(f, n)) : Framed(f, n)[i] # Magic
         /\ Unframed(f, Framed(f, n)) = n
<1> DEFINE h == Header(f, n)
           d == Bytes(n, Data)
           u == h \o d
<1>1. /\ h \in Seq(Nat) /\ Len(h) \in 1..9
      /\ \A i \in 1..Len(h) : h[i] # Magic
  BY Zenon, HeaderIs
<1>2. /\ d \in Seq(Nat) /\ Len(d) = n /\ \A i \in 1..n : d[i] = 88
  <2>1. n \in Nat /\ 88 \in Nat
    OBVIOUS
  <2>2. /\ Bytes(n, 88) \in Seq(Nat) /\ Len(Bytes(n, 88)) = n
        /\ \A i \in 1..n : Bytes(n, 88)[i] = 88
    BY <2>1, BytesAre
  <2> QED BY <2>2 DEF Data
<1> HIDE DEF d
<1>3. /\ u \in Seq(Nat) /\ Len(u) = Len(h) + Len(d)
      /\ \A i \in 1..Len(h) : u[i] = h[i]
      /\ \A i \in 1..Len(d) : u[Len(h) + i] = d[i]
  <2> HIDE DEF h
  <2> QED BY <1>1, <1>2, JoinedIs
<1>4. Framed(f, n) = u
  BY DEF Framed, d
<1> HIDE DEF u
<1>5. \A i \in 1..Len(u) : u[i] # Magic
  <2> SUFFICES ASSUME NEW i \in 1..Len(u) PROVE u[i] # Magic
    OBVIOUS
  <2>1. CASE i <= Len(h)
    <3> HIDE DEF h
    <3>1. i \in 1..Len(h)
      BY <1>1, <2>1
    <3> QED BY <1>1, <1>3, <3>1
  <2>2. CASE ~(i <= Len(h))
    <3> HIDE DEF h
    <3>1. PICK k \in 1..Len(d) : i = Len(h) + k
      <4>1. i - Len(h) \in 1..Len(d) /\ i = Len(h) + (i - Len(h))
        BY <1>1, <1>2, <1>3, <2>2
      <4> QED BY <4>1
    <3>2. u[i] = d[k]
      BY Zenon, <1>3, <3>1
    <3>3. d[k] = 88
      BY <1>2
    <3> QED BY <3>2, <3>3 DEF Magic
  <2> QED BY <2>1, <2>2
<1>6. Len(u) \in Nat \ {0} /\ Len(u) = Len(h) + n
  <2>1. \A a \in 1..9, b \in Nat : a + b \in Nat \ {0}
    OBVIOUS
  <2>2. Len(h) \in 1..9 /\ Len(u) = Len(h) + n /\ n \in Nat
    <3> HIDE DEF h
    <3>1. n \in Nat
      OBVIOUS
    <3> QED BY Zenon, <1>1, <1>2, <1>3, <3>1
  <2> HIDE DEF h
  <2> QED BY Zenon, <2>1, <2>2
<1>7. Unframed(f, u) = n
  <2>1. Len(Header(f, 0)) = Len(h) /\ HeaderFits(f, u) /\ Length(f, u) = n
    <3>1. CASE f = 0
      <4>1. h = <<0, 0, n, 0, 0, 0, 0, 0, 1>> /\ Header(f, 0) = <<0, 0, 0, 0, 0, 0, 0, 0, 1>>
        BY <3>1 DEF Header
      <4>2. /\ Len(h) = 9 /\ Len(Header(f, 0)) = 9
            /\ h[1] = 0 /\ h[2] = 0 /\ h[3] = n /\ h[4] = 0
        BY <4>1
      <4> HIDE DEF h
      <4>3. u[1] = 0 /\ u[2] = 0 /\ u[3] = n /\ u[4] = 0
        BY <1>3, <4>2
      <4>4. Len(Header(0, 0)) = 9 /\ Len(u) >= 9
        BY <1>6, <3>1, <4>2
      <4>5. HeaderFits(0, u)
        BY <4>3, <4>4 DEF HeaderFits
      <4>6. Length(0, u) = n
        BY <4>3 DEF Length
      <4> QED BY <3>1, <4>2, <4>4, <4>5, <4>6
    <3>2. CASE f = 1
      <4>1. h = <<130, n>> /\ Header(f, 0) = <<130, 0>>
        BY <3>2 DEF Header
      <4>2. Len(h) = 2 /\ Len(Header(f, 0)) = 2 /\ h[1] = 130 /\ h[2] = n
        BY <4>1
      <4> HIDE DEF h
      <4>3. u[1] = 130 /\ u[2] = n
        BY <1>3, <4>2
      <4>4. Len(Header(1, 0)) = 2 /\ Len(u) >= 2
        BY <1>6, <3>2, <4>2
      <4>5. HeaderFits(1, u)
        BY <4>3, <4>4 DEF HeaderFits
      <4>6. Length(1, u) = n
        BY <4>3 DEF Length
      <4> QED BY <3>2, <4>2, <4>4, <4>5, <4>6
    <3>3. CASE f = 2
      <4>1. h = <<0, 0, 0, 0, n>> /\ Header(f, 0) = <<0, 0, 0, 0, 0>>
        BY <3>3 DEF Header
      <4>2. /\ Len(h) = 5 /\ Len(Header(f, 0)) = 5
            /\ h[1] = 0 /\ h[2] = 0 /\ h[3] = 0 /\ h[4] = 0 /\ h[5] = n
        BY <4>1
      <4> HIDE DEF h
      <4>3. u[1] = 0 /\ u[2] = 0 /\ u[3] = 0 /\ u[4] = 0 /\ u[5] = n
        BY <1>3, <4>2
      <4>4. Len(Header(2, 0)) = 5 /\ Len(u) >= 5
        BY <1>6, <3>3, <4>2
      <4>5. HeaderFits(2, u)
        BY <4>3, <4>4 DEF HeaderFits
      <4>6. Length(2, u) = n
        BY <4>3 DEF Length
      <4> QED BY <3>3, <4>2, <4>4, <4>5, <4>6
    <3>4. CASE f = 3
      <4>1. h = <<64, 0, n>> /\ Header(f, 0) = <<64, 0, 0>>
        BY <3>4 DEF Header
      <4>2. Len(h) = 3 /\ Len(Header(f, 0)) = 3 /\ h[1] = 64 /\ h[2] = 0 /\ h[3] = n
        BY <4>1
      <4> HIDE DEF h
      <4>3. u[1] = 64 /\ u[2] = 0 /\ u[3] = n
        BY <1>3, <4>2
      <4>4. Len(Header(3, 0)) = 3 /\ Len(u) >= 3
        BY <1>6, <3>4, <4>2
      <4>5. HeaderFits(3, u)
        BY <4>3, <4>4 DEF HeaderFits
      <4>6. Length(3, u) = n
        BY <4>3 DEF Length
      <4> QED BY <3>4, <4>2, <4>4, <4>5, <4>6
    <3> QED BY <3>1, <3>2, <3>3, <3>4
  <2>2. Len(u) - Len(h) >= n
    <3> HIDE DEF h
    <3> QED BY <1>1, <1>6
  <2> HIDE DEF h
  <2> QED BY <2>1, <2>2 DEF Unframed
<1> QED BY Zenon, <1>3, <1>4, <1>5, <1>6, <1>7

LEMMA ControlIs ==
  ASSUME seedOf \in [-2..MaxBucket -> Seeds], NEW b \in 0..MaxBucket
  PROVE  /\ Control(b) \in Seq(Nat) /\ Len(Control(b)) = 4
         /\ \A i \in 1..4 : Control(b)[i] = Magic <=> i = 1
<1>1. Frame(b) \in 0..3
  BY SeedIs
<1>2. PICK f \in 0..3 : f = Frame(b)
  BY <1>1
<1>3. Control(b) = <<225, 23, f, 200 + f>>
  BY <1>2 DEF Control, Magic
<1>4. PICK g \in Nat : g = 200 + f /\ g # 225
  OBVIOUS
<1>5. PICK c : c = <<225, 23, f, g>> /\ c = Control(b)
  BY <1>3, <1>4
<1>6. c \in Seq(Nat) /\ Len(c) = 4 /\ c[1] = 225 /\ c[2] = 23 /\ c[3] = f /\ c[4] = g
  BY <1>4, <1>5
<1>7. \A i \in 1..4 : c[i] = 225 <=> i = 1
  <2>1. f # 225 /\ 23 # 225
    OBVIOUS
  <2>2. \A i \in 1..4 : i = 1 \/ i = 2 \/ i = 3 \/ i = 4
    OBVIOUS
  <2> QED BY <1>4, <1>6, <2>1, <2>2
<1>8. \A i \in 1..4 : c[i] = Magic <=> i = 1
  BY <1>7 DEF Magic
<1>9. Control(b) = c /\ c \in Seq(Nat) /\ Len(c) = 4
  BY <1>5, <1>6
<1> HIDE DEF Control
<1> QED BY <1>8, <1>9

(* The bytes of a record: its control frame stands where the seed of its   *)
(* window says and nothing else looks like the first byte of one; behind   *)
(* the padding is the framed payload.                                      *)
LEMMA PacketIs ==
  ASSUME seedOf \in [-2..MaxBucket -> Seeds], NEW b \in 0..MaxBucket, NEW n \in 0..125
  PROVE  LET r == EncodePacket(n, b)  s == seedOf[b]
         IN /\ r \in Seq(Nat) /\ Len(r) \in Nat /\ s.length + 1 <= Len(r)
            /\ \A i \in 1..Len(r) : r[i] = Magic <=> i = s.offset + 1
            /\ \A i \in 1..4 : r[s.offset + i] = Control(b)[i]
            /\ SubSeq(r, s.length + 1, Len(r)) = Framed(Frame(b), n)
<1> DEFINE s == seedOf[b]
           f == Framed(Frame(b), n)
           c == Control(b)
           p == Bytes(s.offset, Filler)
           q == Bytes(s.length - s.offset - 4, Filler)
<1>1. s.length \in Nat /\ s.offset \in Nat /\ s.offset + 4 <= s.length /\ Frame(b) \in 0..3
  BY Zenon, SeedIs
<1>2. /\ f \in Seq(Nat) /\ Len(f) \in Nat \ {0}
      /\ \A i \in 1..Len(f) : f[i] # Magic
  BY Zenon, <1>1, FramedIs
<1>3. /\ c \in Seq(Nat) /\ Len(c) = 4
      /\ \A i \in 1..4 : c[i] = Magic <=> i = 1
  BY ControlIs
<1>4. s.length - s.offset - 4 \in Nat /\ 77 \in Nat
  BY <1>1
<1>5. /\ p \in Seq(Nat) /\ Len(p) = s.offset /\ \A i \in 1..Len(p) : p[i] = 77
      /\ q \in Seq(Nat) /\ Len(q) = s.length - s.offset - 4 /\ \A i \in 1..Len(q) : q[i] = 77
  <2>1. \A m \in Nat : /\ Bytes(m, 77) \in Seq(Nat) /\ Len(Bytes(m, 77)) = m
                        /\ \A i \in 1..m : Bytes(m, 77)[i] = 77
    <3>1. \A m, x \in Nat : /\ Bytes(m, x) \in Seq(Nat) /\ Len(Bytes(m, x)) = m
                             /\ \A i \in 1..m : Bytes(m, x)[i] = x
      BY BytesAre, Zenon
    <3>2. PICK x \in Nat : x = 77
      OBVIOUS
    <3>3. \A m \in Nat : /\ Bytes(m, x) \in Seq(Nat) /\ Len(Bytes(m, x)) = m
                          /\ \A i \in 1..m : Bytes(m, x)[i] = x
      BY <3>1, Zenon
    <3> QED BY <3>2, <3>3
  <2>2. PICK m \in Nat : m = s.length - s.offset - 4
    BY <1>4
  <2>3. /\ Bytes(m, 77) \in Seq(Nat) /\ Len(Bytes(m, 77)) = m
        /\ \A i \in 1..m : Bytes(m, 77)[i] = 77
    BY <2>1
  <2>4. /\ Bytes(s.offset, 77) \in Seq(Nat) /\ Len(Bytes(s.offset, 77)) = s.offset
        /\ \A i \in 1..s.offset : Bytes(s.offset, 77)[i] = 77
    BY Zenon, <1>1, <2>1
  <2>5. q = Bytes(m, 77) /\ p = Bytes(s.offset, 77)
    BY <2>2 DEF Filler
  <2> HIDE DEF p, q, s
  <2> QED BY <2>2, <2>3, <2>4, <2>5
<1>6. EncodePacket(n, b) = ((p \o c) \o q) \o f
  BY DEF EncodePacket
<1> HIDE DEF p, q, c, f, s
<1> DEFINE u == p \o c
           v == u \o q
           r == v \o f
<1>7. /\ u \in Seq(Nat) /\ Len(u) = Len(p) + 4
      /\ \A i \in 1..Len(p) : u[i] = p[i]
      /\ \A i \in 1..4 : u[Len(p) + i] = c[i]
  <2>1. p \in Seq(Nat) /\ c \in Seq(Nat)
    BY <1>3, <1>5
  <2>2. /\ p \o c \in Seq(Nat) /\ Len(p \o c) = Len(p) + Len(c)
        /\ \A i \in 1..Len(p) : (p \o c)[i] = p[i]
        /\ \A i \in 1..Len(c) : (p \o c)[Len(p) + i] = c[i]
    BY <2>1, JoinedIs
  <2>3. Len(c) = 4
    BY <1>3
  <2> QED BY Zenon, <2>2, <2>3
<1> HIDE DEF u
<1>8. /\ v \in Seq(Nat) /\ Len(v) = Len(u) + Len(q)
      /\ \A i \in 1..Len(u) : v[i] = u[i]
      /\ \A i \in 1..Len(q) : v[Len(u) + i] = q[i]
  <2>1. u \in Seq(Nat) /\ q \in Seq(Nat)
    BY <1>5, <1>7
  <2> QED BY <2>1, JoinedIs
<1>9. Len(u) = s.offset + 4 /\ Len(v) = s.length /\ Len(q) \in Nat
  <2>1. \A o, l \in Nat : l - o - 4 \in Nat => o + 4 + (l - o - 4) = l
    OBVIOUS
  <2>2. Len(u) = s.offset + 4 /\ Len(q) = s.length - s.offset - 4
    BY Zenon, <1>5, <1>7
  <2>3. Len(v) = Len(u) + Len(q)
    BY Zenon, <1>8
  <2> HIDE DEF v
  <2> QED BY Zenon, <1>1, <1>4, <2>1, <2>2, <2>3
<1> HIDE DEF v
<1>10. /\ r \in Seq(Nat) /\ Len(r) = Len(v) + Len(f)
       /\ \A i \in 1..Len(v) : r[i] = v[i]
       /\ \A i \in 1..Len(f) : r[Len(v) + i] = f[i]
       /\ SubSeq(r, Len(v) + 1, Len(r)) = f
  <2>1. v \in Seq(Nat) /\ f \in Seq(Nat)
    BY <1>2, <1>8
  <2> QED BY <2>1, JoinedIs, JoinedEnds
<1> HIDE DEF r
<1>11. Len(r) \in Nat /\ s.length + 1 <= Len(r)
  BY <1>1, <1>2, <1>9, <1>10
<1>12. \A i \in 1..4 : r[s.offset + i] = c[i]
  <2> SUFFICES ASSUME NEW i \in 1..4 PROVE r[s.offset + i] = c[i]
    OBVIOUS
  <2>1. PICK k : k = s.offset + i
    OBVIOUS
  <2>2. k \in 1..Len(u) /\ k \in 1..Len(v)
    BY SMTT(40), <1>1, <1>9, <2>1
  <2>3. u[k] = c[i]
    BY <1>5, <1>7, <2>1
  <2> QED BY <1>8, <1>10, <2>1, <2>2, <2>3
<1>13. \A i \in 1..Len(r) : r[i] = 225 <=> i = s.offset + 1
  <2> SUFFICES ASSUME NEW i \in 1..Len(r) PROVE r[i] = 225 <=> i = s.offset + 1
    OBVIOUS
  <2>1. i \in Nat /\ i > 0
    BY <1>11
  <2>2. CASE i <= s.offset
    <3>1. i \in 1..Len(p) /\ i \in 1..Len(u) /\ i \in 1..Len(v)
      BY SMTT(40), <1>1, <1>5, <1>9, <2>1, <2>2
    <3>2. p[i] = 77 /\ u[i] = p[i] /\ v[i] = u[i] /\ r[i] = v[i]
      BY Zenon, <1>5, <1>7, <1>8, <1>10, <3>1
    <3> QED BY <1>1, <2>1, <2>2, <3>2
  <2>3. CASE i > s.offset /\ i <= s.offset + 4
    <3>1. PICK k \in 1..4 : i = s.offset + k
      <4>1. i - s.offset \in 1..4 /\ i = s.offset + (i - s.offset)
        BY <1>1, <2>1, <2>3
      <4> QED BY <4>1
    <3>2. r[i] = c[k]
      BY Zenon, <1>12, <3>1
    <3>3. c[k] = 225 <=> k = 1
      BY <1>3 DEF Magic
    <3>4. k = 1 <=> i = s.offset + 1
      BY <1>1, <3>1
    <3> QED BY <3>2, <3>3, <3>4
  <2>4. CASE i > s.offset + 4 /\ i <= s.length
    <3>1. PICK k \in 1..Len(q) : i = Len(u) + k
      <4>0. \A x, o, l \in Nat : x > o + 4 /\ x <= l =>
              x - (o + 4) \in 1..(l - o - 4) /\ x = (o + 4) + (x - (o + 4))
        OBVIOUS
      <4>1. i - Len(u) \in 1..Len(q) /\ i = Len(u) + (i - Len(u))
        <5>1. Len(u) = s.offset + 4 /\ Len(q) = s.length - s.offset - 4
          BY Zenon, <1>5, <1>9
        <5>2. PICK o \in Nat : o = s.offset
          BY <1>1
        <5>3. PICK l \in Nat : l = s.length
          BY <1>1
        <5>4. i > o + 4 /\ i <= l
          BY <2>4, <5>2, <5>3
        <5>5. i - (o + 4) \in 1..(l - o - 4) /\ i = (o + 4) + (i - (o + 4))
          BY Zenon, <2>1, <4>0, <5>4
        <5> QED BY Zenon, <5>1, <5>2, <5>3, <5>5
      <4> QED BY <4>1
    <3>2. i \in 1..Len(v)
      BY <1>1, <1>9, <2>1, <2>4
    <3>3. v[i] = q[k] /\ q[k] = 77 /\ r[i] = v[i]
      BY Zenon, <1>5, <1>8, <1>10, <3>1, <3>2
    <3> QED BY <1>1, <2>1, <2>4, <3>3
  <2>5. CASE i > s.length
    <3>1. PICK k \in 1..Len(f) : i = Len(v) + k
      <4>0. \A x, l, m \in Nat : x > l /\ x <= l + m => x - l \in 1..m /\ x = l + (x - l)
        OBVIOUS
      <4>2. i <= Len(v) + Len(f)
        BY <1>10
      <4>1. i - Len(v) \in 1..Len(f) /\ i = Len(v) + (i - Len(v))
        BY <1>1, <1>2, <1>9, <2>1, <2>5, <4>0, <4>2
      <4> QED BY <4>1
    <3>2. r[i] = f[k] /\ f[k] # Magic
      BY Zenon, <1>2, <1>10, <3>1
    <3> QED BY <1>1, <2>1, <2>5, <3>2 DEF Magic
  <2> QED BY <1>1, <2>1, <2>2, <2>3, <2>4, <2>5
<1>14. r = EncodePacket(n, b)
  BY <1>6 DEF r, v, u
<1>15. SubSeq(r, s.length + 1, Len(r)) = f
  BY <1>9, <1>10
<1>16. /\ r \in Seq(Nat) /\ Len(r) \in Nat /\ s.length + 1 <= Len(r)
       /\ \A i \in 1..Len(r) : r[i] = Magic <=> i = s.offset + 1
       /\ \A i \in 1..4 : r[s.offset + i] = c[i]
       /\ SubSeq(r, s.length + 1, Len(r)) = f
  BY <1>10, <1>11, <1>12, <1>13, <1>15 DEF Magic
<1> QED BY <1>14, <1>16 DEF s, c, f

(* What a receiver takes for the control frame.                            *)
LEMMA FourFrom ==
  ASSUME NEW r \in Seq(Nat), NEW k \in Nat, k + 4 <= Len(r)
  PROVE  LET c == SubSeq(r, k + 1, k + 4)
         IN c \in Seq(Nat) /\ Len(c) = 4 /\ \A i \in 1..4 : c[i] = r[k + i]
<1> DEFINE c == SubSeq(r, k + 1, k + 4)
<1>1. Len(r) \in Nat /\ \A i \in 1..Len(r) : r[i] \in Nat
  OBVIOUS
<1>2. \A i \in (k + 1)..(k + 4) : r[i] \in Nat
  BY <1>1
<1>3. /\ c \in Seq(Nat)
      /\ Len(c) = IF k + 1 <= k + 4 THEN (k + 4) - (k + 1) + 1 ELSE 0
      /\ \A i \in 1..((k + 4) - (k + 1) + 1) : c[i] = r[(k + 1) + i - 1]
  <2>1. k + 1 \in Int /\ k + 4 \in Int
    OBVIOUS
  <2> QED BY <1>2, <2>1, SubSeqProperties
<1> HIDE DEF c
<1>4. (k + 4) - (k + 1) + 1 = 4 /\ k + 1 <= k + 4 /\ \A i \in 1..4 : (k + 1) + i - 1 = k + i
  OBVIOUS
<1>5. c \in Seq(Nat) /\ Len(c) = 4 /\ \A i \in 1..4 : c[i] = r[k + i]
  BY Zenon, <1>3, <1>4
<1> QED BY <1>5 DEF c

LEMMA DecodesInWindow ==
  ASSUME seedOf \in [-2..MaxBucket -> Seeds], NEW b \in 0..MaxBucket, NEW n \in 0..125
  PROVE  DecodePacket(EncodePacket(n, b), b) = n
<1>1. PICK r : r = EncodePacket(n, b)
  OBVIOUS
<1>2. /\ r \in Seq(Nat) /\ Len(r) \in Nat /\ seedOf[b].length + 1 <= Len(r)
      /\ \A i \in 1..4 : r[seedOf[b].offset + i] = Control(b)[i]
      /\ SubSeq(r, seedOf[b].length + 1, Len(r)) = Framed(Frame(b), n)
  BY Zenon, <1>1, PacketIs
<1>3. /\ seedOf[b].length \in Nat /\ seedOf[b].offset \in Nat
      /\ seedOf[b].offset + 4 <= seedOf[b].length /\ Frame(b) \in 0..3
  BY SeedIs
<1>4. PICK k \in Nat : k = seedOf[b].offset /\ k + 4 <= Len(r)
  <2>1. \A o, l, m \in Nat : o + 4 <= l /\ l + 1 <= m => o + 4 <= m
    OBVIOUS
  <2>2. seedOf[b].offset + 4 <= Len(r)
    BY Zenon, <1>2, <1>3, <2>1
  <2> QED BY <1>3, <2>2
<1>5. SubSeq(r, k + 1, k + 4) = Control(b)
  <2>1. PICK c : c = SubSeq(r, k + 1, k + 4)
    OBVIOUS
  <2>2. c \in Seq(Nat) /\ Len(c) = 4 /\ \A i \in 1..4 : c[i] = r[k + i]
    BY <1>2, <1>4, <2>1, FourFrom
  <2>3. Control(b) \in Seq(Nat) /\ Len(Control(b)) = 4
    BY ControlIs
  <2>4. \A i \in 1..4 : c[i] = Control(b)[i]
    BY <1>2, <1>4, <2>2
  <2>5. c = Control(b)
    BY Zenon, <2>2, <2>3, <2>4, SeqEqual
  <2> QED BY <2>1, <2>5
<1>6. Unframed(Frame(b), Framed(Frame(b), n)) = n
  BY Zenon, <1>3, FramedIs
<1> QED BY Zenon, <1>1, <1>2, <1>4, <1>5, <1>6 DEF DecodePacket

LEMMA DecodesBeside ==
  ASSUME seedOf \in [-2..MaxBucket -> Seeds], NEW b \in 0..MaxBucket, NEW c \in 0..MaxBucket,
         NEW n \in 0..125, ~Alike(c, b)
  PROVE  DecodePacket(EncodePacket(n, b), c) \in {-1, n}
<1>1. PICK r : r = EncodePacket(n, b)
  OBVIOUS
<1>2. /\ r \in Seq(Nat) /\ Len(r) \in Nat
      /\ \A i \in 1..Len(r) : r[i] = Magic <=> i = seedOf[b].offset + 1
      /\ \A i \in 1..4 : r[seedOf[b].offset + i] = Control(b)[i]
  BY Zenon, <1>1, PacketIs
<1>3. /\ seedOf[b].offset \in Nat
      /\ seedOf[c].length \in Nat /\ seedOf[c].offset \in Nat
      /\ seedOf[c].offset + 4 <= seedOf[c].length
  BY SeedIs
<1> SUFFICES ASSUME DecodePacket(r, c) # -1 PROVE DecodePacket(r, c) = n
  BY <1>1
<1>4. /\ seedOf[c].length + 1 <= Len(r)
      /\ SubSeq(r, seedOf[c].offset + 1, seedOf[c].offset + 4) = Control(c)
  BY DEF DecodePacket
<1>5. PICK k \in Nat : k = seedOf[c].offset /\ k + 4 <= Len(r)
  <2>1. \A o, l, m \in Nat : o + 4 <= l /\ l + 1 <= m => o + 4 <= m
    OBVIOUS
  <2>2. seedOf[c].offset + 4 <= Len(r)
    BY Zenon, <1>2, <1>3, <1>4, <2>1
  <2> QED BY <1>3, <2>2
<1>6. \A i \in 1..4 : Control(c)[i] = r[k + i]
  <2>1. PICK d : d = SubSeq(r, k + 1, k + 4)
    OBVIOUS
  <2>2. \A i \in 1..4 : d[i] = r[k + i]
    BY <1>2, <1>5, <2>1, FourFrom
  <2>3. d = Control(c)
    BY <1>4, <1>5, <2>1
  <2> QED BY Zenon, <2>2, <2>3
<1>7. k = seedOf[b].offset
  <2>1. Control(c)[1] = Magic
    BY ControlIs
  <2>2. r[k + 1] = Magic /\ k + 1 \in 1..Len(r)
    <3>1. \A m \in Nat : k + 4 <= m => k + 1 \in 1..m
      OBVIOUS
    <3>2. 1 \in 1..4
      OBVIOUS
    <3> QED BY Zenon, <1>2, <1>5, <1>6, <2>1, <3>1, <3>2
  <2>3. k + 1 = seedOf[b].offset + 1
    BY <1>2, <2>2
  <2> QED BY <1>3, <2>3
<1>8. Frame(c) = Frame(b)
  <2>1. Control(c)[3] = Control(b)[3]
    BY <1>2, <1>6, <1>7
  <2>2. \A d : Control(d)[3] = Frame(d)
    BY DEF Control
  <2> QED BY Zenon, <2>1, <2>2
<1>9. seedOf[c].length = seedOf[b].length
  BY <1>5, <1>7, <1>8 DEF Alike
<1>10. Control(c) = Control(b)
  BY <1>8 DEF Control
<1>11. DecodePacket(r, c) = DecodePacket(r, b)
  BY <1>5, <1>7, <1>8, <1>9, <1>10 DEF DecodePacket
<1> QED BY Zenon, <1>1, <1>11, DecodesInWindow

(* A stream of records that is under way: its pieces, those in the buffer  *)
(* first, are the records that have no result yet, two pieces for each.    *)
Piece == Seq(Nat)
Stream == buffer \o wire
Waiting == Len(sent) - Len(results)

ChaosTyped ==
  /\ seedOf \in [-2..MaxBucket -> Seeds] /\ bucket \in 0..MaxBucket
  /\ sent \in Seq([size : Sizes, at : 0..MaxBucket]) /\ Len(sent) <= MaxRecords
  /\ results \in Seq([size : Int, at : 0..MaxBucket]) /\ Len(results) <= Len(sent)
  /\ wire \in Seq(Piece) /\ buffer \in Seq(Piece)

ChaosInv ==
  /\ ChaosTyped
  /\ Len(Stream) = 2 * Waiting
  /\ \A j \in 1..Waiting :
       Stream[2 * j - 1] = EncodePacket(sent[Len(results) + j].size, sent[Len(results) + j].at)
  /\ \A i \in 1..Len(sent) : sent[i].at <= bucket
  /\ \A i \in 1..Len(results) : sent[i].at <= results[i].at
  /\ RecordsDecode

LEMMA UnframedIs ==
  ASSUME NEW f \in 0..3, NEW r \in Seq(Nat)
  PROVE  Unframed(f, r) \in Int
<1> SUFFICES ASSUME Len(r) >= Len(Header(f, 0)) PROVE Length(f, r) \in Int
  BY DEF Unframed, HeaderFits
<1>1. \A i \in 1..Len(r) : r[i] \in Nat
  OBVIOUS
<1>2. Len(r) \in Nat
  OBVIOUS
<1>3. CASE f = 0
  <2>1. Len(Header(0, 0)) = 9
    BY DEF Header
  <2>2. r[1] \in Nat /\ r[2] \in Nat /\ r[3] \in Nat
    <3>1. \A l \in Nat : l >= 9 => {1, 2, 3} \subseteq 1..l
      OBVIOUS
    <3>2. Len(r) >= 9
      BY <1>3, <2>1
    <3> QED BY <1>1, <1>2, <3>1, <3>2
  <2>3. Length(0, r) = r[1] * 65536 + r[2] * 256 + r[3]
    BY DEF Length
  <2>4. \A x, y, z \in Nat : x * 65536 + y * 256 + z \in Int
    OBVIOUS
  <2>5. Length(0, r) \in Int
    <3>1. PICK x \in Nat : x = r[1]
      BY <2>2
    <3>2. PICK y \in Nat : y = r[2]
      BY <2>2
    <3>3. PICK z \in Nat : z = r[3]
      BY <2>2
    <3>4. PICK v \in Int : v = x * 65536 + y * 256 + z
      OBVIOUS
    <3>5. Length(0, r) = v
      BY <3>1, <3>2, <3>3, <3>4 DEF Length
    <3> QED BY <3>5
  <2> QED BY <1>3, <2>5
<1>4. CASE f = 1
  <2>1. Len(Header(1, 0)) = 2
    BY DEF Header
  <2>2. r[2] \in Nat
    <3>1. \A l \in Nat : l >= 2 => {2} \subseteq 1..l
      OBVIOUS
    <3>2. Len(r) >= 2
      BY <1>4, <2>1
    <3> QED BY <1>1, <1>2, <3>1, <3>2
  <2> QED BY <1>4, <2>2 DEF Length
<1>5. CASE f = 2
  <2>1. Len(Header(2, 0)) = 5
    BY DEF Header
  <2>2. r[4] \in Nat /\ r[5] \in Nat
    <3>1. \A l \in Nat : l >= 5 => {4, 5} \subseteq 1..l
      OBVIOUS
    <3>2. Len(r) >= 5
      BY <1>5, <2>1
    <3> QED BY <1>1, <1>2, <3>1, <3>2
  <2> QED BY SMTT(40), <1>5, <2>2 DEF Length
<1>6. CASE f = 3
  <2>1. Len(Header(3, 0)) = 3
    BY DEF Header
  <2>2. r[2] \in Nat /\ r[3] \in Nat
    <3>1. \A l \in Nat : l >= 3 => {2, 3} \subseteq 1..l
      OBVIOUS
    <3>2. Len(r) >= 3
      BY <1>6, <2>1
    <3> QED BY <1>1, <1>2, <3>1, <3>2
  <2> QED BY <1>6, <2>2 DEF Length
<1> QED BY <1>3, <1>4, <1>5, <1>6

LEMMA DecodedPacketIs ==
  ASSUME seedOf \in [-2..MaxBucket -> Seeds], NEW b \in 0..MaxBucket, NEW r \in Seq(Nat)
  PROVE  DecodePacket(r, b) \in Int
<1>1. seedOf[b].length \in Nat /\ Frame(b) \in 0..3
  BY SeedIs
<1>2. PICK l \in Nat : l = seedOf[b].length
  BY <1>1
<1> SUFFICES ASSUME l + 1 <= Len(r)
             PROVE  Unframed(Frame(b), SubSeq(r, l + 1, Len(r))) \in Int
  BY <1>2 DEF DecodePacket
<1>3. SubSeq(r, l + 1, Len(r)) \in Seq(Nat)
  <2>1. Len(r) \in Nat /\ \A i \in 1..Len(r) : r[i] \in Nat
    OBVIOUS
  <2>2. \A i \in (l + 1)..Len(r) : r[i] \in Nat
    BY <2>1
  <2>3. l + 1 \in Int /\ Len(r) \in Int
    BY <2>1
  <2> QED BY <2>2, <2>3, SubSeqProperties
<1> QED BY <1>1, <1>3, UnframedIs

(* What a record gives that is read in its window or later.                *)
LEMMA DecodedIs ==
  ASSUME seedOf \in [-2..MaxBucket -> Seeds], bucket \in 0..MaxBucket,
         NEW b \in 0..bucket, NEW n \in 0..125
  PROVE  /\ Decoded(EncodePacket(n, b)) \in Int
         /\ bucket - b <= 1 /\ ~Alike(bucket, b) => Decoded(EncodePacket(n, b)) = n
<1>1. PICK r \in Seq(Nat) : r = EncodePacket(n, b)
  <2>1. b \in 0..MaxBucket
    BY CodecAssumption
  <2> QED BY Zenon, <2>1, PacketIs
<1>2. b \in 0..MaxBucket /\ b \in Nat /\ bucket \in Nat
  BY CodecAssumption
<1>3. DecodePacket(r, b) = n /\ n # -1 /\ n \in Int
  <2>1. DecodePacket(EncodePacket(n, b), b) = n
    BY <1>2, DecodesInWindow
  <2>2. n # -1 /\ n \in Int
    OBVIOUS
  <2> QED BY <1>1, <2>1, <2>2
<1>4. CASE b = bucket
  BY <1>1, <1>3, <1>4 DEF Decoded
<1>5. CASE b # bucket
  <2>1. bucket - 1 \in 0..MaxBucket
    BY <1>2, <1>5, CodecAssumption
  <2>2. DecodePacket(r, bucket) \in Int /\ DecodePacket(r, bucket - 1) \in Int
    BY <2>1, DecodedPacketIs
  <2>3. Decoded(r) \in Int
    BY <2>2 DEF Decoded
  <2>4. ASSUME bucket - b <= 1, ~Alike(bucket, b) PROVE Decoded(r) = n
    <3>1. bucket - 1 = b
      BY <1>2, <1>5, <2>4
    <3>2. DecodePacket(r, bucket) \in {-1, n}
      BY <1>1, <1>2, <2>4, DecodesBeside
    <3> QED BY <1>3, <3>1, <3>2 DEF Decoded
  <2> QED BY <1>1, <2>3, <2>4
<1> QED BY Zenon, <1>4, <1>5

LEMMA ChaosTickKeeps == ChaosInv /\ ChaosTick => ChaosInv'
<1> SUFFICES ASSUME ChaosInv, ChaosTick PROVE ChaosInv'
  OBVIOUS
<1>1. /\ bucket' = bucket + 1 /\ bucket < MaxBucket
      /\ UNCHANGED <<seedOf, sent, wire, buffer, results>>
  BY DEF ChaosTick
<1>2. MaxBucket \in Nat /\ bucket \in 0..MaxBucket
  BY CodecAssumption DEF ChaosInv, ChaosTyped
<1>3. bucket' \in 0..MaxBucket
  BY <1>1, <1>2
<1>4. ChaosTyped'
  BY <1>1, <1>3 DEF ChaosInv, ChaosTyped
<1>5. \A i \in 1..Len(sent) : sent[i].at <= bucket'
  <2> SUFFICES ASSUME NEW i \in 1..Len(sent) PROVE sent[i].at <= bucket'
    OBVIOUS
  <2>1. sent[i].at <= bucket /\ sent[i].at \in Nat
    <3>0. sent \in Seq([size : Sizes, at : 0..MaxBucket])
      BY DEF ChaosInv, ChaosTyped
    <3>1. sent[i] \in [size : Sizes, at : 0..MaxBucket]
      BY <3>0, ElementOfSeq
    <3> QED BY <1>2, <3>1 DEF ChaosInv
  <2> QED BY <1>1, <1>2, <2>1
<1>6. \A b, n : EncodePacket(n, b)' = EncodePacket(n, b)
  BY <1>1 DEF EncodePacket, Control, Frame
<1>7. Stream' = Stream /\ Waiting' = Waiting
  BY <1>1 DEF Stream, Waiting
<1>8. RecordsDecode'
  BY <1>1 DEF ChaosInv, RecordsDecode, Alike, Frame
<1> QED BY <1>1, <1>4, <1>5, <1>6, <1>7, <1>8 DEF ChaosInv

LEMMA EncodeKeeps ==
  ASSUME ChaosInv, NEW n \in Sizes, Encode(n)
  PROVE  ChaosInv'
<1> DEFINE rec == [size |-> n, at |-> bucket]
           two == <<EncodePacket(n, bucket), <<>>>>
<1>1. /\ sent' = Append(sent, rec) /\ wire' = wire \o two
      /\ UNCHANGED <<seedOf, bucket, buffer, results>> /\ Len(sent) < MaxRecords
  BY DEF Encode
<1>2. /\ n \in 0..125 /\ MaxBucket \in Nat /\ MaxRecords \in Nat
      /\ bucket \in 0..MaxBucket
      /\ Len(sent) \in Nat /\ Len(results) \in Nat /\ Len(results) <= Len(sent)
  <2>1. bucket \in 0..MaxBucket /\ Len(results) <= Len(sent)
    BY DEF ChaosInv, ChaosTyped
  <2>2. Len(sent) \in Nat /\ Len(results) \in Nat
    BY LenProperties DEF ChaosInv, ChaosTyped
  <2> QED BY <2>1, <2>2, CodecAssumption
<1>3. /\ sent' \in Seq([size : Sizes, at : 0..MaxBucket]) /\ Len(sent') = Len(sent) + 1
      /\ \A i \in 1..Len(sent) : sent'[i] = sent[i]
      /\ sent'[Len(sent) + 1] = rec
  <2>1. rec \in [size : Sizes, at : 0..MaxBucket]
    BY Zenon, <1>2
  <2> HIDE DEF rec
  <2> QED BY <1>1, <2>1, AppendProperties DEF ChaosInv, ChaosTyped
<1>4. EncodePacket(n, bucket) \in Piece
  BY Zenon, <1>2, PacketIs DEF Piece, ChaosInv, ChaosTyped
<1>5. /\ two \in Seq(Piece) /\ Len(two) = 2 /\ two[1] = EncodePacket(n, bucket)
  <2>1. <<>> \in Piece
    BY DEF Piece
  <2> QED BY <1>4, <2>1
<1> HIDE DEF two
<1>6. wire' \in Seq(Piece) /\ Stream' = Stream \o two
  <2>1. wire \in Seq(Piece) /\ buffer \in Seq(Piece)
    BY DEF ChaosInv, ChaosTyped
  <2>2. wire \o two \in Seq(Piece) /\ (buffer \o wire) \o two = buffer \o (wire \o two)
    BY <1>5, <2>1, JoinedIs, ConcatAssociative
  <2> QED BY <1>1, <2>2 DEF Stream
<1>7. /\ Stream \in Seq(Piece) /\ Len(Stream') = Len(Stream) + 2
      /\ \A i \in 1..Len(Stream) : Stream'[i] = Stream[i]
      /\ Stream'[Len(Stream) + 1] = EncodePacket(n, bucket)
  <2>1. Stream \in Seq(Piece)
    BY JoinedIs DEF ChaosInv, ChaosTyped, Stream
  <2>2. /\ Len(Stream \o two) = Len(Stream) + Len(two)
        /\ \A i \in 1..Len(Stream) : (Stream \o two)[i] = Stream[i]
        /\ \A i \in 1..Len(two) : (Stream \o two)[Len(Stream) + i] = two[i]
    BY <1>5, <2>1, JoinedIs
  <2>3. 1 \in 1..2
    OBVIOUS
  <2> QED BY Zenon, <1>5, <1>6, <2>1, <2>2, <2>3
<1>8. ChaosTyped'
  BY <1>1, <1>2, <1>3, <1>6 DEF ChaosInv, ChaosTyped
<1>9. Waiting \in Nat /\ Waiting' = Waiting + 1 /\ Len(Stream) = 2 * Waiting
  BY <1>1, <1>2, <1>3 DEF Waiting, ChaosInv
<1>10. \A m, b : EncodePacket(m, b)' = EncodePacket(m, b)
  BY <1>1 DEF EncodePacket, Control, Frame
<1>11. ASSUME NEW j \in 1..Waiting'
       PROVE  Stream'[2 * j - 1] = EncodePacket(sent'[Len(results) + j].size, sent'[Len(results) + j].at)
  <2>1. CASE j \in 1..Waiting
    <3>1. 2 * j - 1 \in 1..Len(Stream)
      BY <1>9, <2>1
    <3>2. Len(results) + j \in 1..Len(sent)
      BY <1>2, <2>1 DEF Waiting
    <3>3. Stream[2 * j - 1] = EncodePacket(sent[Len(results) + j].size, sent[Len(results) + j].at)
      BY <2>1 DEF ChaosInv
    <3> QED BY Zenon, <1>3, <1>7, <3>1, <3>2, <3>3
  <2>2. CASE j = Waiting'
    <3>1. 2 * j - 1 = Len(Stream) + 1
      BY <1>9, <2>2
    <3>2. Len(results) + j = Len(sent) + 1
      BY <1>2, <1>9, <2>2 DEF Waiting
    <3> QED BY <1>3, <1>7, <3>1, <3>2
  <2> QED BY <1>9, <2>1, <2>2
<1>12. Len(Stream') = 2 * Waiting'
  BY <1>7, <1>9
<1>13. \A i \in 1..Len(sent') : sent'[i].at <= bucket
  <2> SUFFICES ASSUME NEW i \in 1..Len(sent') PROVE sent'[i].at <= bucket
    OBVIOUS
  <2>1. CASE i \in 1..Len(sent)
    BY <1>3, <2>1 DEF ChaosInv
  <2>2. CASE i = Len(sent) + 1
    BY <1>2, <1>3, <2>2
  <2> QED BY <1>2, <1>3, <2>1, <2>2
<1>14. \A i \in 1..Len(results) : i \in 1..Len(sent) /\ sent'[i] = sent[i]
  BY <1>2, <1>3
<1>15. RecordsDecode'
  <2>1. \A a, b : Alike(a, b)' = Alike(a, b)
    BY <1>1 DEF Alike, Frame
  <2> QED BY <1>1, <1>14, <2>1 DEF ChaosInv, RecordsDecode
<1>16. \A i \in 1..Len(results) : sent'[i].at <= results[i].at
  BY <1>14 DEF ChaosInv
<1> QED BY <1>1, <1>8, <1>10, <1>11, <1>12, <1>13, <1>15, <1>16 DEF ChaosInv

(* A sequence in two parts.                                                *)
LEMMA TwoParts ==
  ASSUME NEW S, NEW s \in Seq(S), NEW k \in 0..Len(s)
  PROVE  LET a == SubSeq(s, 1, k)  b == SubSeq(s, k + 1, Len(s))
         IN /\ a \in Seq(S) /\ b \in Seq(S) /\ Len(a) = k /\ Len(b) = Len(s) - k
            /\ a \o b = s
<1> DEFINE a == SubSeq(s, 1, k)
           b == SubSeq(s, k + 1, Len(s))
<1>1. Len(s) \in Nat /\ k \in Nat /\ k <= Len(s) /\ \A i \in 1..Len(s) : s[i] \in S
  BY LenProperties, ElementOfSeq
<1>2. a \in Seq(S) /\ Len(a) = k
  <2>1. \A i \in 1..k : s[i] \in S
    BY <1>1
  <2>2. a \in Seq(S) /\ Len(a) = IF 1 <= k THEN k - 1 + 1 ELSE 0
    BY <1>1, <2>1, SubSeqProperties
  <2> HIDE DEF a
  <2>3. \A n \in Nat : (IF 1 <= n THEN n - 1 + 1 ELSE 0) = n
    OBVIOUS
  <2> QED BY Zenon, <1>1, <2>2, <2>3
<1>3. b \in Seq(S) /\ Len(b) = Len(s) - k
  <2>1. \A i \in (k + 1)..Len(s) : s[i] \in S
    BY <1>1
  <2>2. b \in Seq(S) /\ Len(b) = IF k + 1 <= Len(s) THEN Len(s) - (k + 1) + 1 ELSE 0
    <3>1. k + 1 \in Int /\ Len(s) \in Int
      BY <1>1
    <3> QED BY <2>1, <3>1, SubSeqProperties
  <2> HIDE DEF b
  <2>3. \A n, m \in Nat : m <= n => (IF m + 1 <= n THEN n - (m + 1) + 1 ELSE 0) = n - m
    OBVIOUS
  <2> QED BY Zenon, <1>1, <2>2, <2>3
<1>4. a \o b = s
  <2>1. \A n \in Nat : \A m \in 0..n : 1 \in 1..(n + 1) /\ m \in (1 - 1)..n /\ n \in m..n
    OBVIOUS
  <2>2. SubSeq(s, 1, k) \o SubSeq(s, k + 1, Len(s)) = SubSeq(s, 1, Len(s))
    BY <1>1, <2>1, ConcatAdjacentSubSeq
  <2>3. SubSeq(s, 1, Len(s)) = s
    BY SubSeqFull
  <2> QED BY Zenon, <2>2, <2>3
<1> QED BY <1>2, <1>3, <1>4

LEMMA ReceiveKeeps ==
  ASSUME ChaosInv, NEW k, Receive(k)
  PROVE  ChaosInv'
<1> DEFINE a == SubSeq(wire, 1, k)
           rest == SubSeq(wire, k + 1, Len(wire))
           all == buffer \o a
<1>0. /\ k \in 1..Len(wire) /\ UNCHANGED <<seedOf, bucket, sent>> /\ wire' = rest
      /\ IF Len(all) < 2
         THEN buffer' = all /\ UNCHANGED results
         ELSE /\ buffer' = SubSeq(all, 3, Len(all))
              /\ results' = Append(results, [size |-> Decoded(all[1]), at |-> bucket])
  BY DEF Receive
<1>1. /\ wire \in Seq(Piece) /\ buffer \in Seq(Piece)
      /\ Len(wire) \in Nat /\ Len(sent) \in Nat /\ Len(results) \in Nat /\ Len(results) <= Len(sent)
      /\ k \in 0..Len(wire)
  <2>1. /\ wire \in Seq(Piece) /\ buffer \in Seq(Piece) /\ Len(results) <= Len(sent)
        /\ Len(sent) \in Nat /\ Len(results) \in Nat
    BY LenProperties DEF ChaosInv, ChaosTyped
  <2>2. Len(wire) \in Nat
    BY <2>1
  <2> QED BY <1>0, <2>1, <2>2
<1>2. a \in Seq(Piece) /\ rest \in Seq(Piece) /\ a \o rest = wire
  BY <1>1, TwoParts
<1> HIDE DEF a, rest
<1>3. all \in Seq(Piece) /\ all \o rest = Stream
  <2>1. buffer \o a \in Seq(Piece) /\ (buffer \o a) \o rest = buffer \o (a \o rest)
    <3>1. buffer \in Seq(Piece) /\ a \in Seq(Piece) /\ rest \in Seq(Piece)
      BY <1>1, <1>2
    <3>2. buffer \o a \in Seq(Piece)
      BY <3>1, ConcatProperties
    <3>3. (buffer \o a) \o rest = buffer \o (a \o rest)
      BY <3>1, ConcatAssociative
    <3> QED BY <3>2, <3>3
  <2> QED BY <1>2, <2>1 DEF Stream
<1> HIDE DEF all
<1>4. \A m, b : EncodePacket(m, b)' = EncodePacket(m, b)
  BY <1>0 DEF EncodePacket, Control, Frame
<1>5. \A b, c : Alike(b, c)' = Alike(b, c)
  BY <1>0 DEF Alike, Frame
<1>6. CASE Len(all) < 2
  <2>1. buffer' = all /\ UNCHANGED results
    BY <1>0, <1>6
  <2>2. Stream' = Stream /\ Waiting' = Waiting
    BY <1>0, <1>3, <2>1 DEF Stream, Waiting
  <2>3. ChaosTyped'
    BY <1>0, <1>2, <1>3, <2>1 DEF ChaosInv, ChaosTyped
  <2>4. RecordsDecode'
    BY <1>0, <1>5, <2>1 DEF ChaosInv, RecordsDecode
  <2> QED BY <1>0, <1>4, <2>1, <2>2, <2>3, <2>4 DEF ChaosInv
<1>7. CASE ~(Len(all) < 2)
  <2> DEFINE two == SubSeq(all, 1, 2)
             after == SubSeq(all, 2 + 1, Len(all))
             newest == [size |-> Decoded(all[1]), at |-> bucket]
             R == Len(results)
  <2>1. buffer' = after /\ results' = Append(results, newest)
    <3>1. 2 + 1 = 3
      OBVIOUS
    <3> QED BY <1>0, <1>7, <3>1
  <2>2. 2 \in 0..Len(all)
    <3>1. Len(all) \in Nat
      BY <1>3
    <3> QED BY <1>7, <3>1
  <2>3. /\ two \in Seq(Piece) /\ after \in Seq(Piece) /\ Len(two) = 2
        /\ two \o after = all
    BY <1>3, <2>2, TwoParts
  <2> HIDE DEF two, after
  <2>4. Stream' \in Seq(Piece) /\ Stream = two \o Stream'
    <3>1. after \o rest \in Seq(Piece) /\ (two \o after) \o rest = two \o (after \o rest)
      <4>1. two \in Seq(Piece) /\ after \in Seq(Piece) /\ rest \in Seq(Piece)
        BY <1>2, <2>3
      <4>2. after \o rest \in Seq(Piece)
        BY <4>1, ConcatProperties
      <4>3. (two \o after) \o rest = two \o (after \o rest)
        BY <4>1, ConcatAssociative
      <4> QED BY <4>2, <4>3
    <3>2. Stream' = after \o rest
      BY <1>0, <2>1 DEF Stream
    <3> QED BY <1>3, <2>3, <3>1, <3>2
  <2>5. /\ Len(Stream) = 2 + Len(Stream') /\ Len(Stream') \in Nat
        /\ \A i \in 1..Len(Stream') : Stream[2 + i] = Stream'[i]
    <3>1. PICK t \in Seq(Piece) : t = Stream'
      BY <2>4
    <3>2. /\ Len(two \o t) = Len(two) + Len(t) /\ Len(t) \in Nat
          /\ \A i \in 1..Len(t) : (two \o t)[Len(two) + i] = t[i]
      <4>1. two \in Seq(Piece) /\ t \in Seq(Piece)
        BY <2>3
      <4> QED BY <4>1, JoinedIs
    <3> QED BY Zenon, <2>3, <2>4, <3>1, <3>2
  <2>6. Len(Stream) = 2 * Waiting /\ Waiting \in Nat
    BY <1>1 DEF ChaosInv, Waiting
  <2>7. Waiting >= 1 /\ R + 1 \in 1..Len(sent)
    <3>1. Waiting # 0
      BY <2>5, <2>6
    <3> QED BY <1>1, <2>6, <3>1 DEF Waiting
  <2>8. all[1] = EncodePacket(sent[R + 1].size, sent[R + 1].at)
    <3>1. Stream[2 * 1 - 1] = EncodePacket(sent[R + 1].size, sent[R + 1].at)
      <4>1. 1 \in 1..Waiting
        BY <2>6, <2>7
      <4> QED BY <4>1 DEF ChaosInv
    <3>2. 2 * 1 - 1 = 1
      OBVIOUS
    <3>3. Stream[1] = all[1]
      <4>1. 1 \in 1..Len(all)
        BY <2>2
      <4>2. \A i \in 1..Len(all) : (all \o rest)[i] = all[i]
        BY <1>2, <1>3, JoinedIs
      <4> QED BY Zenon, <1>3, <4>1, <4>2
    <3> QED BY <3>1, <3>2, <3>3
  <2>9. /\ seedOf \in [-2..MaxBucket -> Seeds] /\ bucket \in 0..MaxBucket /\ MaxBucket \in Nat
        /\ sent \in Seq([size : Sizes, at : 0..MaxBucket])
    BY CodecAssumption DEF ChaosInv, ChaosTyped
  <2>10. PICK n \in 0..125, b \in 0..bucket : n = sent[R + 1].size /\ b = sent[R + 1].at
    <3>1. sent[R + 1] \in [size : Sizes, at : 0..MaxBucket]
      BY <2>7, <2>9, ElementOfSeq
    <3>2. sent[R + 1].at <= bucket
      BY <2>7 DEF ChaosInv
    <3>3. sent[R + 1].size \in 0..125 /\ sent[R + 1].at \in 0..MaxBucket
      BY <3>1, CodecAssumption
    <3>4. \A x \in 0..MaxBucket : x <= bucket => x \in 0..bucket
      BY <2>9
    <3>5. sent[R + 1].at \in 0..bucket
      BY Zenon, <3>2, <3>3, <3>4
    <3> QED BY <3>3, <3>5
  <2>11. /\ Decoded(all[1]) \in Int
         /\ bucket - b <= 1 /\ ~Alike(bucket, b) => Decoded(all[1]) = n
    <3>1. all[1] = EncodePacket(n, b)
      BY Zenon, <2>8, <2>10
    <3> QED BY <2>9, <3>1, DecodedIs
  <2>12. /\ results' \in Seq([size : Int, at : 0..MaxBucket]) /\ Len(results') = R + 1
         /\ \A i \in 1..R : results'[i] = results[i]
         /\ results'[R + 1] = newest
    <3>1. newest \in [size : Int, at : 0..MaxBucket]
      BY <2>9, <2>11
    <3> HIDE DEF newest
    <3> QED BY <2>1, <3>1, AppendProperties DEF ChaosInv, ChaosTyped
  <2>13. newest.size = Decoded(all[1]) /\ newest.at = bucket
    OBVIOUS
  <2> HIDE DEF newest
  <2>14. ChaosTyped'
    BY <1>0, <1>1, <1>2, <2>1, <2>3, <2>7, <2>12 DEF ChaosInv, ChaosTyped
  <2>15. Waiting' = Waiting - 1
    BY <1>0, <1>1, <2>12 DEF Waiting
  <2>16. Len(Stream') = 2 * Waiting'
    BY <2>5, <2>6, <2>15
  <2>17. ASSUME NEW j \in 1..Waiting'
         PROVE  Stream'[2 * j - 1] = EncodePacket(sent[(R + 1) + j].size, sent[(R + 1) + j].at)
    <3>1. PICK i : i = j + 1
      OBVIOUS
    <3>2. /\ i \in 1..Waiting /\ 2 * i - 1 = 2 + (2 * j - 1) /\ R + i = (R + 1) + j
          /\ 2 * j - 1 \in 1..(2 * Waiting')
      BY <1>1, <2>6, <2>15, <3>1
    <3>3. Stream[2 * i - 1] = EncodePacket(sent[R + i].size, sent[R + i].at)
      BY <3>2 DEF ChaosInv
    <3>4. Stream[2 + (2 * j - 1)] = Stream'[2 * j - 1]
      BY <2>5, <2>16, <3>2
    <3> QED BY Zenon, <3>2, <3>3, <3>4
  <2>18. \A i \in 1..(R + 1) : i \in 1..R \/ i = R + 1
    BY <1>1
  <2>19. \A i \in 1..(R + 1) : sent[i].at <= results'[i].at
    <3> SUFFICES ASSUME NEW i \in 1..(R + 1) PROVE sent[i].at <= results'[i].at
      OBVIOUS
    <3>1. CASE i \in 1..R
      BY <2>12, <3>1 DEF ChaosInv
    <3>2. CASE i = R + 1
      BY <2>7, <2>12, <2>13, <3>2 DEF ChaosInv
    <3> QED BY <2>18, <3>1, <3>2
  <2>20. RecordsDecode'
    <3> SUFFICES ASSUME NEW i \in 1..(R + 1), results'[i].at - sent[i].at <= 1,
                        ~Alike(results'[i].at, sent[i].at)
                 PROVE  results'[i].size = sent[i].size
      BY <1>0, <1>5, <2>12 DEF RecordsDecode
    <3>1. CASE i \in 1..R
      BY <2>12, <3>1 DEF ChaosInv, RecordsDecode
    <3>2. CASE i = R + 1
      BY <2>10, <2>11, <2>12, <2>13, <3>2
    <3> QED BY <2>18, <3>1, <3>2
  <2>21. \A i \in 1..Len(sent) : sent[i].at <= bucket
    BY DEF ChaosInv
  <2> QED BY <1>0, <1>4, <2>12, <2>14, <2>16, <2>17, <2>19, <2>20, <2>21 DEF ChaosInv
<1> QED BY <1>6, <1>7

ChaosStep == ChaosTick \/ (\E n \in Sizes : Encode(n)) \/ \E k : Receive(k)

LEMMA ChaosStarts == ChaosInit => ChaosInv
<1> SUFFICES ASSUME ChaosInit PROVE ChaosInv
  OBVIOUS
<1>1. /\ seedOf \in [-2..MaxBucket -> Seeds] /\ bucket = 0
      /\ sent = <<>> /\ wire = <<>> /\ buffer = <<>> /\ results = <<>>
  BY DEF ChaosInit
<1>2. MaxBucket \in Nat /\ MaxRecords \in Nat
  BY CodecAssumption
<1>3. Stream = <<>> /\ Waiting = 0
  BY <1>1 DEF Stream, Waiting
<1>4. ChaosTyped
  BY <1>1, <1>2 DEF ChaosTyped, Piece
<1> QED BY <1>1, <1>3, <1>4 DEF ChaosInv, RecordsDecode

LEMMA ChaosIsTyped == ChaosInv => ChaosTypeOK
<1> SUFFICES ASSUME ChaosInv PROVE ChaosTypeOK
  OBVIOUS
<1>1. /\ wire \in Seq(Piece) /\ buffer \in Seq(Piece)
      /\ Len(sent) \in Nat /\ Len(results) \in Nat
  BY LenProperties DEF ChaosInv, ChaosTyped
<1>2. Len(Stream) = Len(buffer) + Len(wire) /\ Len(buffer) \in Nat /\ Len(wire) \in Nat
  BY <1>1, JoinedIs DEF Stream
<1>3. Len(Stream) = 2 * (Len(sent) - Len(results))
  BY DEF ChaosInv, Waiting
<1>4. Len(wire) + Len(buffer) + 2 * Len(results) = 2 * Len(sent)
  BY <1>1, <1>2, <1>3
<1> QED BY <1>4 DEF ChaosTypeOK, ChaosInv, ChaosTyped

-----------------------------------------------------------------------------
(* Parity groups: the greatest of some numbers, and the parity of a set.   *)
LEMMA FiniteInduction ==
  ASSUME NEW S, IsFiniteSet(S), NEW G,
         \A T \in SUBSET S : (\A c \in T : T \ {c} \in G) => T \in G
  PROVE  S \in G
<1> DEFINE U == {n \in Nat : \E T \in SUBSET S : T \notin G /\ Cardinality(T) = n}
<1>1. \A T \in SUBSET S : IsFiniteSet(T) /\ Cardinality(T) \in Nat
  BY FS_Subset, FS_CardinalityType
<1> SUFFICES ASSUME S \notin G PROVE FALSE
  OBVIOUS
<1>2. U # {} /\ U \subseteq Nat
  BY <1>1
<1>3. PICK m \in U : \A k \in U : m <= k
  <2> HIDE DEF U
  <2> QED
    BY <1>2, SetsOfNumbersHaveALeast
<1>4. PICK D \in SUBSET S : D \notin G /\ Cardinality(D) = m
  OBVIOUS
<1>5. PICK c \in D : D \ {c} \notin G
  BY <1>4
<1>6. D \ {c} \in SUBSET S /\ m \in Nat /\ m # 0 /\ Cardinality(D \ {c}) = m - 1
  <2>1. IsFiniteSet(D) /\ Cardinality(D) \in Nat
    BY <1>1
  <2>2. Cardinality(D \ {c}) = Cardinality(D) - 1
    BY <2>1, FS_RemoveElement
  <2>3. Cardinality(D \ {c}) \in Nat
    BY <1>1
  <2> QED
    BY <1>4, <2>1, <2>2, <2>3
<1>7. m - 1 \in U
  BY <1>5, <1>6
<1> HIDE DEF U
<1> QED
  BY <1>3, <1>6, <1>7

LEMMA MaxIs ==
  ASSUME NEW S \in SUBSET Nat, IsFiniteSet(S), S # {}
  PROVE  Max(S) \in S /\ \A y \in S : y <= Max(S)
<1> DEFINE G == {T \in SUBSET S : T # {} => \E x \in T : \A y \in T : x >= y}
<1>1. ASSUME NEW T \in SUBSET S, \A c \in T : T \ {c} \in G PROVE T \in G
  <2> SUFFICES ASSUME T # {} PROVE \E x \in T : \A y \in T : x >= y
    OBVIOUS
  <2>1. PICK c \in T : TRUE
    OBVIOUS
  <2>2. CASE T \ {c} = {}
    BY <2>1, <2>2
  <2>3. CASE T \ {c} # {}
    <3>1. PICK x \in T \ {c} : \A y \in T \ {c} : x >= y
      BY <1>1, <2>1, <2>3
    <3>2. c \in Nat /\ x \in Nat
      BY <2>1, <3>1
    <3>3. CASE x >= c
      BY <3>1, <3>3
    <3>4. CASE ~(x >= c)
      BY <2>1, <3>1, <3>2, <3>4
    <3> QED BY <3>3, <3>4
  <2> QED BY <2>2, <2>3
<1>2. S \in G
  <2> HIDE DEF G
  <2> QED BY <1>1, FiniteInduction
<1>3. \E x \in S : \A y \in S : x >= y
  BY <1>2
<1>4. Max(S) \in S /\ \A y \in S : Max(S) >= y
  BY <1>3 DEF Max
<1>5. \A x, y \in Nat : x >= y => y <= x
  OBVIOUS
<1> QED BY <1>4, <1>5

(* An odd number of blocks have a bit of the exclusive or.                 *)
LEMMA XorIs ==
  ASSUME NEW bs, NEW is, IsFiniteSet(is), NEW b
  PROVE  LET c == Cardinality({i \in is : b \in bs[i].bits})
         IN c \in Nat /\ (b \in XorOf(bs, is) <=> c % 2 = 1)
<1> DEFINE I == {i \in is : b \in bs[i].bits}
<1>1. IsFiniteSet(I) /\ Cardinality(I) \in Nat /\ (Cardinality(I) = 0 <=> I = {})
  BY FS_Subset, FS_CardinalityType, FS_EmptySet
<1>2. ASSUME Cardinality(I) % 2 = 1 PROVE b \in UNION {bs[i].bits : i \in is}
  <2>1. I # {}
    BY <1>1, <1>2
  <2>2. PICK i \in is : b \in bs[i].bits
    BY <2>1
  <2> QED BY <2>2
<1> QED BY <1>1, <1>2 DEF XorOf

(* A block is what its parity and the others of its class say.             *)
LEMMA XorBack ==
  ASSUME NEW d, NEW class, IsFiniteSet(class), NEW i \in class,
         NEW a, NEW p, p \notin class, a[p].bits = XorOf(d, class),
         \A j \in class \ {i} : a[j].bits = d[j].bits
  PROVE  XorOf(a, (class \ {i}) \cup {p}) = d[i].bits
<1> DEFINE is == (class \ {i}) \cup {p}
<1> SUFFICES ASSUME NEW b PROVE b \in XorOf(a, is) <=> b \in d[i].bits
  OBVIOUS
<1> DEFINE C == {j \in class : b \in d[j].bits}
           O == {j \in class \ {i} : b \in d[j].bits}
           D == {j \in is : b \in a[j].bits}
<1>1. IsFiniteSet(class \ {i}) /\ IsFiniteSet(is) /\ IsFiniteSet(O)
  <2>1. IsFiniteSet(class \ {i})
    BY FS_RemoveElement
  <2> QED BY <2>1, FS_AddElement, FS_Subset
<1>2. PICK o \in Nat : o = Cardinality(O)
  BY <1>1, FS_CardinalityType
<1>3. b \in a[p].bits <=> Cardinality(C) % 2 = 1
  BY XorIs
<1>4. b \in XorOf(a, is) <=> Cardinality(D) % 2 = 1
  BY <1>1, XorIs
<1>5. Cardinality(C) = IF b \in d[i].bits THEN o + 1 ELSE o
  <2>1. CASE b \in d[i].bits
    <3>1. C = O \cup {i} /\ i \notin O
      BY <2>1
    <3> QED BY <1>1, <1>2, <2>1, <3>1, FS_AddElement
  <2>2. CASE b \notin d[i].bits
    <3>1. C = O
      BY <2>2
    <3> QED BY <1>2, <2>2, <3>1
  <2> QED BY <2>1, <2>2
<1>6. Cardinality(D) = IF b \in a[p].bits THEN o + 1 ELSE o
  <2>0. p \notin O
    OBVIOUS
  <2>1. CASE b \in a[p].bits
    <3>1. D = O \cup {p}
      BY <2>1
    <3> HIDE DEF D, O
    <3>2. Cardinality(O \cup {p}) = o + 1
      BY <1>1, <1>2, <2>0, FS_AddElement
    <3> QED BY <2>1, <3>1, <3>2
  <2>2. CASE b \notin a[p].bits
    <3>1. D = O
      BY <2>2
    <3> QED BY <1>2, <2>2, <3>1
  <2> QED BY <2>1, <2>2
<1> HIDE DEF C, D, O, is
<1>7. (o % 2 = 1 /\ (o + 1) % 2 = 0) \/ (o % 2 = 0 /\ (o + 1) % 2 = 1)
  OBVIOUS
<1> QED BY <1>3, <1>4, <1>5, <1>6, <1>7

RestIsThere(d, class, i, a, p) ==
  /\ IsFiniteSet(class) /\ i \in class /\ p \notin class
  /\ a[p].bits = XorOf(d, class) /\ \A j \in class \ {i} : a[j].bits = d[j].bits

LEMMA XorBackAgain ==
  \A d, class, i, a, p :
    RestIsThere(d, class, i, a, p) => XorOf(a, (class \ {i}) \cup {p}) = d[i].bits
<1> TAKE d, class, i, a, p
<1> HAVE RestIsThere(d, class, i, a, p)
<1> QED BY XorBack DEF RestIsThere

(* A group on its way: blocks are lost, those that are not are as sent.    *)
Block == [len : Nat, bits : SUBSET (Nat \ {0})]
Arrived(d, k, blocks) ==
  /\ Len(d) \in Nat \ {0} /\ d \in Seq(Block) /\ k \in 1..Len(d)
  /\ blocks \in Seq(Block \cup {Lost}) /\ Len(blocks) = Len(d) + k
  /\ \A i \in 1..(Len(d) + k) : blocks[i] \in {Encoded(d, k)[i], Lost}

LEMMA LostIsNoBlock == Lost \notin Block /\ \A b \in Block : \A n : Padded(b, n) # Lost
<1>1. Lost.bits = {0} /\ 0 \in Lost.bits
  BY DEF Lost
<1>2. \A b \in Block : 0 \notin b.bits
  BY DEF Block
<1>3. \A b \in Block : \A n : Padded(b, n).bits = b.bits
  BY DEF Block, Padded
<1> QED BY Zenon, <1>1, <1>2, <1>3

LEMMA EncodedIs ==
  ASSUME NEW d \in Seq(Block), NEW k \in Nat, Len(d) \in Nat \ {0}
  PROVE  LET size == LongestOf({d[i] : i \in 1..Len(d)})
         IN /\ Encoded(d, k) \in Seq(Block) /\ Len(Encoded(d, k)) = Len(d) + k
            /\ size \in Nat /\ \A i \in 1..Len(d) : d[i].len <= size
            /\ \A i \in 1..Len(d) : Encoded(d, k)[i] = d[i]
            /\ \A p \in 1..k : Encoded(d, k)[Len(d) + p] =
                 [len |-> size, bits |-> XorOf(d, {j \in 1..Len(d) : (j - 1) % k = p - 1})]
<1> DEFINE n == Len(d)
           size == LongestOf({d[i] : i \in 1..n})
           par(p) == [len |-> size, bits |-> XorOf(d, {j \in 1..n : (j - 1) % k = p - 1})]
           tail == [p \in 1..k |-> par(p)]
<1>1. DOMAIN d = 1..n /\ n \in Nat /\ \A i \in 1..n : d[i] \in Block
  OBVIOUS
<1>2. \A i \in 1..n : d[i].len \in Nat /\ d[i].bits \in SUBSET (Nat \ {0})
  BY <1>1 DEF Block
<1>3. size \in Nat /\ \A i \in 1..n : d[i].len <= size
  <2> DEFINE L == {d[i].len : i \in 1..n}
  <2>1. IsFiniteSet(1..n) /\ 1 \in 1..n
    BY <1>1, FS_Interval
  <2>2. IsFiniteSet(L)
    <3> DEFINE f == [i \in 1..n |-> d[i].len]
    <3>1. f \in Surjection(1..n, L)
      BY DEF Surjection
    <3> HIDE DEF f, L
    <3> QED BY <2>1, <3>1, FS_Surjection
  <2>3. L \in SUBSET Nat /\ L # {}
    BY <1>2, <2>1
  <2> HIDE DEF L
  <2>4. Max(L) \in L /\ \A y \in L : y <= Max(L)
    BY <2>2, <2>3, MaxIs
  <2>5. {b.len : b \in {d[i] : i \in 1..n}} = L
    BY DEF L
  <2>6. size = Max(L)
    BY <2>5 DEF LongestOf
  <2>7. \A i \in 1..n : d[i].len \in L
    BY DEF L
  <2> QED BY <2>3, <2>4, <2>6, <2>7
<1> HIDE DEF size
<1>4. \A is \in SUBSET (1..n) : XorOf(d, is) \in SUBSET (Nat \ {0})
  BY <1>2 DEF XorOf
<1>5. \A p \in 1..k : par(p) \in Block
  BY <1>3, <1>4 DEF Block
<1>6. tail \in Seq(Block) /\ Len(tail) = k /\ \A p \in 1..k : tail[p] = par(p)
  <2> HIDE DEF par
  <2> QED BY <1>5
<1>7. Encoded(d, k) = d \o tail
  BY <1>1 DEF Encoded, size
<1> HIDE DEF tail
<1>8. /\ d \o tail \in Seq(Block) /\ Len(d \o tail) = n + Len(tail)
      /\ \A i \in 1..n : (d \o tail)[i] = d[i]
      /\ \A i \in 1..Len(tail) : (d \o tail)[n + i] = tail[i]
  <2>1. d \in Seq(Block) /\ tail \in Seq(Block)
    BY <1>6
  <2> QED BY <2>1, JoinedIs
<1> HIDE DEF par
<1>9. /\ Encoded(d, k) \in Seq(Block) /\ Len(Encoded(d, k)) = n + k
      /\ \A i \in 1..n : Encoded(d, k)[i] = d[i]
      /\ \A p \in 1..k : Encoded(d, k)[n + p] = par(p)
  BY Zenon, <1>6, <1>7, <1>8
<1> QED BY <1>3, <1>9 DEF size, par

(* What decode_group has after the blocks up to i: a block that was lost   *)
(* is back when it was the only one of its class and its parity is there.  *)
Longest(blocks) == LongestOf({blocks[i] : i \in DOMAIN blocks} \ {Lost})
Back(n, k, blocks, j) ==
  blocks[j] # Lost \/ /\ \A m \in ClassOf(j, k, n) : blocks[m] = Lost => m = j
                      /\ blocks[ParityOf(j, k, n)] # Lost
Half(d, k, blocks, i) ==
  IF \A j \in 1..i : Back(Len(d), k, blocks, j)
  THEN [j \in 1..Len(d) |-> IF j <= i \/ blocks[j] # Lost THEN Padded(d[j], Longest(blocks)) ELSE Lost]
  ELSE <<>>

(* One turn of its loop.                                                   *)
Turn(n, k, blocks, i, out) ==
  LET others == ClassOf(i, k, n) \ {i}
      parity == blocks[ParityOf(i, k, n)]
  IN CASE out = <<>> -> out
       [] out # <<>> /\ out[i] # Lost -> out
       [] OTHER ->
            IF parity = Lost \/ \E j \in others : out[j] = Lost THEN <<>>
            ELSE [out EXCEPT ![i] =
                    [len  |-> Longest(blocks),
                     bits |-> XorOf(Append(out, parity), others \cup {n + 1})]]

Turns(n, k, blocks, it) ==
  it = [i \in 0..n |-> IF i = 0
                       THEN [j \in 1..n |-> IF blocks[j] = Lost THEN blocks[j]
                                            ELSE Padded(blocks[j], Longest(blocks))]
                       ELSE Turn(n, k, blocks, i, it[i - 1])]

LEMMA RecoveredByTurns ==
  ASSUME NEW blocks, NEW k, NEW n, n = Len(blocks) - k
  PROVE  Recovered(blocks, k) =
           CASE \A i \in DOMAIN blocks : blocks[i] = Lost -> <<Lost>>
             [] \A i \in 1..n : blocks[i] # Lost -> SubSeq(blocks, 1, n)
             [] OTHER -> (CHOOSE it : Turns(n, k, blocks, it))[n]
  BY DEF Recovered, Turns, Turn, Longest

LEMMA ParityIs ==
  ASSUME NEW n \in Nat, NEW k \in 1..n, NEW i \in 1..n
  PROVE  /\ (i - 1) % k \in 0..(k - 1)
         /\ ParityOf(i, k, n) \in (n + 1)..(n + k)
         /\ i \in ClassOf(i, k, n) /\ ClassOf(i, k, n) \subseteq 1..n
         /\ \A j \in ClassOf(i, k, n) : ClassOf(j, k, n) = ClassOf(i, k, n)
<1>1. PICK r : r = (i - 1) % k
  OBVIOUS
<1>2. r \in 0..(k - 1)
  BY <1>1
<1>3. n + 1 + r \in (n + 1)..(n + k)
  BY <1>2
<1> QED BY <1>1, <1>2, <1>3 DEF ParityOf, ClassOf

LEMMA TurnIs ==
  ASSUME NEW d, NEW k, NEW blocks, Arrived(d, k, blocks), NEW i \in 1..Len(d)
  PROVE  Turn(Len(d), k, blocks, i, Half(d, k, blocks, i - 1)) = Half(d, k, blocks, i)
<1> DEFINE n == Len(d)
           size == Longest(blocks)
           others == ClassOf(i, k, n) \ {i}
           parity == blocks[ParityOf(i, k, n)]
           Good(j) == Back(n, k, blocks, j)
           full(m) == [j \in 1..n |-> IF j <= m \/ blocks[j] # Lost THEN Padded(d[j], size) ELSE Lost]
<1>0. PICK out : out = Half(d, k, blocks, i - 1)
  OBVIOUS
<1> SUFFICES Turn(n, k, blocks, i, out) = Half(d, k, blocks, i)
  BY <1>0
<1>1. /\ n \in Nat \ {0} /\ d \in Seq(Block) /\ k \in 1..n /\ k \in Nat
      /\ blocks \in Seq(Block \cup {Lost}) /\ Len(blocks) = n + k
      /\ \A j \in 1..(n + k) : blocks[j] \in {Encoded(d, k)[j], Lost}
  BY DEF Arrived
<1>2. /\ ParityOf(i, k, n) \in (n + 1)..(n + k)
      /\ i \in ClassOf(i, k, n) /\ ClassOf(i, k, n) \subseteq 1..n
      /\ \A j \in ClassOf(i, k, n) : ClassOf(j, k, n) = ClassOf(i, k, n)
  BY <1>1, ParityIs
<1>3. /\ \A j \in 1..n : d[j] \in Block /\ Padded(d[j], size) # Lost
      /\ \A m : full(m) # <<>>
  <2>1. \A j \in 1..n : d[j] \in Block
    BY <1>1
  <2>2. \A m : DOMAIN full(m) = 1..n /\ 1 \in 1..n
    BY <1>1
  <2> QED BY <2>1, <2>2, LostIsNoBlock
<1>4. /\ (\A j \in 1..(i - 1) : Good(j)) => out = full(i - 1)
      /\ ~(\A j \in 1..(i - 1) : Good(j)) => out = <<>>
      /\ (\A j \in 1..i : Good(j)) => Half(d, k, blocks, i) = full(i)
      /\ ~(\A j \in 1..i : Good(j)) => Half(d, k, blocks, i) = <<>>
  BY <1>0 DEF Half
<1>5. \A j : j \in 1..i <=> j \in 1..(i - 1) \/ j = i
  BY <1>1
<1> HIDE DEF full, Good
<1>6. CASE ~(\A j \in 1..(i - 1) : Good(j))
  <2>1. out = <<>> /\ Half(d, k, blocks, i) = <<>>
    BY <1>4, <1>5, <1>6
  <2> QED BY <2>1 DEF Turn
<1>7. CASE (\A j \in 1..(i - 1) : Good(j)) /\ blocks[i] # Lost
  <2>1. Good(i)
    BY <1>7 DEF Good, Back
  <2>2. out = full(i - 1) /\ Half(d, k, blocks, i) = full(i)
    BY <1>4, <1>5, <1>7, <2>1
  <2>3. full(i - 1) = full(i)
    <3>1. \A j \in 1..n : (j <= i - 1 \/ blocks[j] # Lost) <=> (j <= i \/ blocks[j] # Lost)
      BY <1>1, <1>7
    <3> QED BY <3>1 DEF full
  <2>4. full(i)[i] = Padded(d[i], size)
    BY DEF full
  <2>5. out # <<>> /\ out[i] # Lost
    BY <1>3, <2>2, <2>3, <2>4
  <2> QED BY <2>2, <2>3, <2>5 DEF Turn
<1>8. CASE (\A j \in 1..(i - 1) : Good(j)) /\ blocks[i] = Lost
  <2>1. out = full(i - 1) /\ out # <<>> /\ out[i] = Lost
    <3>1. ~(i <= i - 1)
      BY <1>1
    <3>2. full(i - 1)[i] = Lost
      BY <1>8, <3>1 DEF full
    <3>3. out = full(i - 1)
      BY <1>4, <1>8
    <3> QED BY <1>3, <3>2, <3>3
  <2>2. \A j \in others : out[j] = Lost <=> j > i - 1 /\ blocks[j] = Lost
    <3> SUFFICES ASSUME NEW j \in others PROVE out[j] = Lost <=> j > i - 1 /\ blocks[j] = Lost
      OBVIOUS
    <3>1. j \in 1..n
      BY <1>2
    <3>2. out[j] = IF j <= i - 1 \/ blocks[j] # Lost THEN Padded(d[j], size) ELSE Lost
      BY <2>1, <3>1 DEF full
    <3>3. j <= i - 1 <=> ~(j > i - 1)
      BY <1>1, <3>1
    <3> QED BY <1>3, <3>1, <3>2, <3>3
  <2>3. Good(i) <=> parity # Lost /\ \A j \in others : blocks[j] # Lost
    BY <1>2, <1>8 DEF Good, Back
  <2>4. (\E j \in others : out[j] = Lost) <=> (\E j \in others : blocks[j] = Lost)
    <3> SUFFICES ASSUME NEW j \in others, blocks[j] = Lost PROVE j > i - 1
      BY <2>2
    <3> SUFFICES ASSUME j <= i - 1 PROVE FALSE
      BY <1>1, <1>2
    <3>1. j \in 1..(i - 1) /\ j \in ClassOf(i, k, n) /\ j # i
      BY <1>1, <1>2
    <3>2. Good(j)
      BY <1>8, <3>1
    <3>3. i \in ClassOf(j, k, n)
      BY <1>2, <3>1
    <3> QED BY <1>8, <3>1, <3>2, <3>3 DEF Good, Back
  <2> DEFINE made == [len |-> size, bits |-> XorOf(Append(out, parity), others \cup {n + 1})]
  <2>5. Turn(n, k, blocks, i, out) =
          IF parity = Lost \/ \E j \in others : blocks[j] = Lost THEN <<>>
          ELSE [out EXCEPT ![i] = made]
    BY <2>1, <2>4 DEF Turn
  <2>6. CASE ~Good(i)
    <3>1. Half(d, k, blocks, i) = <<>>
      BY <1>4, <1>5, <2>6
    <3> QED BY <2>3, <2>5, <2>6, <3>1
  <2>7. CASE Good(i)
    <3>1. Half(d, k, blocks, i) = full(i) /\ parity # Lost /\ \A j \in others : blocks[j] # Lost
      BY <1>4, <1>5, <1>8, <2>3, <2>7
    <3> DEFINE a == Append(out, parity)
               class == ClassOf(i, k, n)
               S == {out[j] : j \in 1..n} \cup {parity}
    <3>2. out \in [1..n -> {out[j] : j \in 1..n}]
      BY <2>1 DEF full
    <3>3. out \in Seq(S) /\ Len(out) = n
      <4>1. out \in [1..n -> S]
        BY <3>2
      <4> HIDE DEF S
      <4> QED BY <1>1, <4>1
    <3> HIDE DEF S
    <3>4. a[n + 1] = parity /\ \A j \in 1..n : a[j] = out[j]
      <4>1. parity \in S
        BY DEF S
      <4> QED BY <3>3, <4>1, AppendProperties
    <3> HIDE DEF a
    <3>5. \A j \in others : a[j].bits = d[j].bits
      <4> SUFFICES ASSUME NEW j \in others PROVE a[j].bits = d[j].bits
        OBVIOUS
      <4>1. j \in 1..n /\ blocks[j] # Lost
        BY <1>2, <3>1
      <4>2. out[j] = Padded(d[j], size)
        BY <2>1, <4>1 DEF full
      <4>3. Padded(d[j], size).bits = d[j].bits
        BY <1>3, <4>1 DEF Padded, Block
      <4> QED BY <3>4, <4>1, <4>2, <4>3
    <3>6. parity.bits = XorOf(d, class)
      <4>1. PICK p : p = 1 + ((i - 1) % k)
        OBVIOUS
      <4>2. (i - 1) % k \in 0..(k - 1)
        BY <1>1, ParityIs
      <4>3. p \in 1..k /\ p - 1 = (i - 1) % k
        BY <1>1, <4>1, <4>2
      <4>4. parity = blocks[n + p] /\ n + p \in 1..(n + k)
        <5>1. ParityOf(i, k, n) = n + p
          <6>1. \A q \in Int : n + 1 + q = n + (1 + q)
            BY <1>1
          <6>2. (i - 1) % k \in Int
            BY <4>2
          <6> QED BY Zenon, <4>1, <6>1, <6>2 DEF ParityOf
        <5> QED BY <1>1, <4>3, <5>1
      <4>5. parity = Encoded(d, k)[n + p]
        BY <1>1, <3>1, <4>4
      <4>6. Encoded(d, k)[n + p] =
              [len  |-> LongestOf({d[j] : j \in 1..n}),
               bits |-> XorOf(d, {j \in 1..n : (j - 1) % k = p - 1})]
        BY <1>1, <4>3, EncodedIs
      <4>7. parity.bits = XorOf(d, {j \in 1..n : (j - 1) % k = p - 1})
        BY <4>5, <4>6
      <4>8. {j \in 1..n : (j - 1) % k = p - 1} = class
        BY <4>3 DEF ClassOf
      <4> QED BY <4>7, <4>8
    <3>7. XorOf(a, others \cup {n + 1}) = d[i].bits
      <4>1. IsFiniteSet(class)
        <5>1. IsFiniteSet(1..n)
          BY <1>1, FS_Interval
        <5> QED BY <1>2, <5>1, FS_Subset
      <4>2. n + 1 \notin class
        BY <1>1, <1>2
      <4>3. a[n + 1].bits = XorOf(d, class)
        BY <3>4, <3>6
      <4> HIDE DEF class
      <4>4. i \in class /\ others = class \ {i}
        BY <1>2 DEF class
      <4>5. \A j \in class \ {i} : a[j].bits = d[j].bits
        BY <3>5, <4>4
      <4> HIDE DEF others
      <4>6. XorOf(a, (class \ {i}) \cup {n + 1}) = d[i].bits
        <5>1. PICK p : p = n + 1
          OBVIOUS
        <5>2. p \notin class /\ a[p].bits = XorOf(d, class)
          BY <4>2, <4>3, <5>1
        <5>3. XorOf(a, (class \ {i}) \cup {p}) = d[i].bits
          <6>1. PICK cl : cl = class
            OBVIOUS
          <6>2. PICK c : c = a
            OBVIOUS
          <6>3. /\ IsFiniteSet(cl) /\ i \in cl /\ p \notin cl /\ c[p].bits = XorOf(d, cl)
                /\ \A j \in cl \ {i} : c[j].bits = d[j].bits
            BY <4>1, <4>4, <4>5, <5>2, <6>1, <6>2
          <6>4. XorOf(c, (cl \ {i}) \cup {p}) = d[i].bits
            <7>1. RestIsThere(d, cl, i, c, p)
              BY <6>3 DEF RestIsThere
            <7> QED BY SMT, <7>1, XorBackAgain
          <6> QED BY <6>1, <6>2, <6>4
        <5> QED BY <5>1, <5>3
      <4> QED BY Zenon, <4>4, <4>6
    <3>8. made = Padded(d[i], size)
      <4>1. made = [len |-> size, bits |-> d[i].bits]
        BY Zenon, <3>7 DEF a
      <4>2. d[i] \in Block
        BY <1>3
      <4> HIDE DEF made, size
      <4> QED BY <4>1, <4>2 DEF Padded, Block
    <3>9. full(i) = [out EXCEPT ![i] = Padded(d[i], size)]
      <4> DEFINE o == [out EXCEPT ![i] = Padded(d[i], size)]
      <4>1. DOMAIN o = 1..n /\ DOMAIN full(i) = 1..n
        BY <3>2 DEF full
      <4>2. ASSUME NEW j \in 1..n PROVE o[j] = full(i)[j]
        <5>1. out[j] = IF j <= i - 1 \/ blocks[j] # Lost THEN Padded(d[j], size) ELSE Lost
          BY <2>1 DEF full
        <5>2. full(i)[j] = IF j <= i \/ blocks[j] # Lost THEN Padded(d[j], size) ELSE Lost
          BY DEF full
        <5>3. j # i => (j <= i - 1 <=> j <= i)
          BY <1>1
        <5>4. i <= i
          BY <1>1
        <5>5. o[j] = IF j = i THEN Padded(d[i], size) ELSE out[j]
          BY <3>2
        <5> HIDE DEF o
        <5> QED BY <5>1, <5>2, <5>3, <5>4, <5>5
      <4>3. full(i) = [j \in 1..n |-> full(i)[j]] /\ o = [j \in 1..n |-> o[j]]
        BY <3>2 DEF full
      <4> QED BY <4>2, <4>3
    <3> HIDE DEF made
    <3> QED BY <2>3, <2>5, <2>7, <3>1, <3>8, <3>9
  <2> QED BY <2>6, <2>7
<1> QED BY <1>6, <1>7, <1>8

(* The turns of the loop, from the blocks that arrived on.                 *)
First(n, blocks) ==
  [j \in 1..n |-> IF blocks[j] = Lost THEN blocks[j] ELSE Padded(blocks[j], Longest(blocks))]

LEMMA HalfStarts ==
  ASSUME NEW d, NEW k, NEW blocks, Arrived(d, k, blocks)
  PROVE  Half(d, k, blocks, 0) = First(Len(d), blocks)
<1> DEFINE n == Len(d)
           size == Longest(blocks)
<1>1. /\ n \in Nat \ {0} /\ d \in Seq(Block) /\ k \in 1..n /\ k \in Nat
      /\ blocks \in Seq(Block \cup {Lost}) /\ Len(blocks) = n + k
      /\ \A j \in 1..(n + k) : blocks[j] \in {Encoded(d, k)[j], Lost}
  BY DEF Arrived
<1>2. \A j \in 1..n : Encoded(d, k)[j] = d[j]
  BY <1>1, EncodedIs
<1>3. Half(d, k, blocks, 0) =
        [j \in 1..n |-> IF blocks[j] = Lost THEN blocks[j] ELSE Padded(blocks[j], size)]
  <2>1. \A j \in 1..n : (IF j <= 0 \/ blocks[j] # Lost THEN Padded(d[j], size) ELSE Lost)
                          = (IF blocks[j] = Lost THEN blocks[j] ELSE Padded(blocks[j], size))
    <3> SUFFICES ASSUME NEW j \in 1..n
                 PROVE (IF j <= 0 \/ blocks[j] # Lost THEN Padded(d[j], size) ELSE Lost)
                          = (IF blocks[j] = Lost THEN blocks[j] ELSE Padded(blocks[j], size))
      OBVIOUS
    <3>1. ~(j <= 0) /\ j \in 1..(n + k)
      BY <1>1
    <3>2. blocks[j] # Lost => blocks[j] = d[j]
      BY <1>1, <1>2, <3>1
    <3> QED BY <3>1, <3>2
  <2>2. 1..0 = {}
    OBVIOUS
  <2> HIDE DEF size
  <2> QED BY <2>1, <2>2 DEF Half, size
<1> QED BY <1>3 DEF First

LEMMA HalvesAreTurns ==
  ASSUME NEW d, NEW k, NEW blocks, Arrived(d, k, blocks)
  PROVE  \E it : Turns(Len(d), k, blocks, it)
<1> DEFINE n == Len(d)
           it == [i \in 0..n |-> Half(d, k, blocks, i)]
<1>1. n \in Nat \ {0}
  BY DEF Arrived
<1>4. \A i \in 1..n : i \in 0..n /\ i - 1 \in 0..n
  BY <1>1
<1>5. \A i \in 1..n : Turn(n, k, blocks, i, it[i - 1]) = it[i]
  <2>1. \A i \in 1..n : it[i - 1] = Half(d, k, blocks, i - 1) /\ it[i] = Half(d, k, blocks, i)
    BY <1>4
  <2> HIDE DEF it
  <2> SUFFICES ASSUME NEW i \in 1..n PROVE Turn(n, k, blocks, i, it[i - 1]) = it[i]
    OBVIOUS
  <2>2. Turn(n, k, blocks, i, Half(d, k, blocks, i - 1)) = Half(d, k, blocks, i)
    BY TurnIs
  <2> QED BY <2>1, <2>2
<1>6. it[0] = First(n, blocks)
  BY <1>1, HalfStarts
<1>7. it = [i \in 0..n |-> it[i]] /\ \A i \in 0..n : i # 0 => i \in 1..n
  BY <1>1
<1>8. it = [i \in 0..n |-> IF i = 0 THEN First(n, blocks) ELSE Turn(n, k, blocks, i, it[i - 1])]
  <2> HIDE DEF it
  <2> QED BY Zenon, <1>5, <1>6, <1>7
<1> HIDE DEF it
<1> QED BY <1>8 DEF Turns, First

LEMMA TurnsAreHalves ==
  ASSUME NEW d, NEW k, NEW blocks, Arrived(d, k, blocks),
         NEW it, Turns(Len(d), k, blocks, it)
  PROVE  it[Len(d)] = Half(d, k, blocks, Len(d))
<1> DEFINE n == Len(d)
           bad == {i \in 0..n : it[i] # Half(d, k, blocks, i)}
<1>1. n \in Nat \ {0}
  BY DEF Arrived
<1>2. it[0] = First(n, blocks) /\ \A i \in 1..n : it[i] = Turn(n, k, blocks, i, it[i - 1])
  <2>1. 0 \in 0..n /\ \A i \in 1..n : i \in 0..n /\ i # 0
    BY <1>1
  <2>2. it = [i \in 0..n |-> IF i = 0 THEN First(n, blocks) ELSE Turn(n, k, blocks, i, it[i - 1])]
    BY DEF Turns, First
  <2> QED BY <2>1, <2>2
<1> SUFFICES ASSUME bad # {} PROVE FALSE
  BY <1>1
<1>3. bad \subseteq Nat
  BY <1>1
<1>4. PICK i \in bad : \A j \in bad : i <= j
  <2> HIDE DEF bad
  <2> QED BY <1>3, SetsOfNumbersHaveALeast
<1>5. i # 0
  BY <1>2, HalfStarts
<1>6. i \in 1..n /\ i - 1 \in 0..n /\ ~(i <= i - 1)
  BY <1>1, <1>5
<1>7. it[i - 1] = Half(d, k, blocks, i - 1)
  BY <1>4, <1>6
<1>8. Turn(n, k, blocks, i, Half(d, k, blocks, i - 1)) = Half(d, k, blocks, i)
  BY <1>6, TurnIs
<1> QED BY <1>2, <1>6, <1>7, <1>8

LEMMA LongestIs ==
  ASSUME NEW d, NEW k, NEW blocks, Arrived(d, k, blocks),
         NEW q \in 1..k, blocks[Len(d) + q] # Lost
  PROVE  Longest(blocks) = LongestOf({d[i] : i \in 1..Len(d)})
<1> DEFINE n == Len(d)
           size == LongestOf({d[i] : i \in 1..n})
           I == {i \in 1..(n + k) : blocks[i] # Lost}
           L == {blocks[i].len : i \in I}
<1>1. /\ n \in Nat \ {0} /\ d \in Seq(Block) /\ k \in 1..n /\ k \in Nat
      /\ blocks \in Seq(Block \cup {Lost}) /\ Len(blocks) = n + k
      /\ \A j \in 1..(n + k) : blocks[j] \in {Encoded(d, k)[j], Lost}
  BY DEF Arrived
<1>2. /\ size \in Nat /\ \A i \in 1..n : d[i].len <= size
      /\ \A i \in 1..n : Encoded(d, k)[i] = d[i]
      /\ \A p \in 1..k : Encoded(d, k)[n + p].len = size
      /\ \A i \in 1..n : d[i].len \in Nat
  <2>1. \A i \in 1..n : d[i] \in Block
    BY <1>1
  <2>2. \A i \in 1..n : d[i].len \in Nat
    BY <2>1 DEF Block
  <2>3. /\ size \in Nat /\ \A i \in 1..n : d[i].len <= size
        /\ \A i \in 1..n : Encoded(d, k)[i] = d[i]
        /\ \A p \in 1..k : Encoded(d, k)[n + p] =
             [len |-> size, bits |-> XorOf(d, {j \in 1..n : (j - 1) % k = p - 1})]
    BY <1>1, EncodedIs
  <2> HIDE DEF size
  <2>4. \A p \in 1..k : Encoded(d, k)[n + p].len = size
    <3> SUFFICES ASSUME NEW p \in 1..k PROVE Encoded(d, k)[n + p].len = size
      OBVIOUS
    <3>1. PICK x : x = XorOf(d, {j \in 1..n : (j - 1) % k = p - 1})
      OBVIOUS
    <3>2. Encoded(d, k)[n + p] = [len |-> size, bits |-> x]
      BY Zenon, <2>3, <3>1
    <3> QED BY <3>2
  <2> QED BY Zenon, <2>2, <2>3, <2>4
<1> HIDE DEF size
<1>3. \A i \in I : blocks[i].len \in Nat /\ blocks[i].len <= size
  <2> SUFFICES ASSUME NEW i \in I PROVE blocks[i].len \in Nat /\ blocks[i].len <= size
    OBVIOUS
  <2>1. blocks[i] = Encoded(d, k)[i] /\ i \in 1..(n + k)
    BY <1>1
  <2>2. CASE i \in 1..n
    BY <1>2, <2>1, <2>2
  <2>3. CASE i \notin 1..n
    <3>1. i - n \in 1..k /\ n + (i - n) = i
      BY <1>1, <2>1, <2>3
    <3>2. Encoded(d, k)[n + (i - n)].len = size
      BY <1>2, <3>1
    <3> QED BY <1>2, <2>1, <3>1, <3>2
  <2> QED BY <2>2, <2>3
<1>4. size \in L
  <2>1. n + q \in 1..(n + k) /\ n + q \in I
    BY <1>1
  <2>2. blocks[n + q] = Encoded(d, k)[n + q]
    BY <1>1, <2>1
  <2>3. blocks[n + q].len = size
    BY <1>2, <2>2
  <2> HIDE DEF I
  <2> QED BY <2>1, <2>3
<1>5. IsFiniteSet(L)
  <2> DEFINE f == [i \in I |-> blocks[i].len]
  <2>1. f \in Surjection(I, L)
    BY DEF Surjection
  <2>2. IsFiniteSet(1..(n + k)) /\ IsFiniteSet(I)
    <3>0. PICK m \in Nat : m = n + k
      BY <1>1
    <3>1. IsFiniteSet(1..(n + k))
      BY <3>0, FS_Interval
    <3> QED BY <3>1, FS_Subset
  <2> HIDE DEF f, L, I
  <2> QED BY <2>1, <2>2, FS_Surjection
<1>6. L \in SUBSET Nat /\ \A x \in L : x <= size
  BY <1>3
<1>7. Longest(blocks) = Max(L)
  <2>1. {b.len : b \in ({blocks[i] : i \in DOMAIN blocks} \ {Lost})} = L
    <3>1. DOMAIN blocks = 1..(n + k)
      BY <1>1
    <3>2. {blocks[i] : i \in DOMAIN blocks} \ {Lost} = {blocks[i] : i \in I}
      BY <3>1
    <3> QED BY <3>2
  <2> QED BY <2>1 DEF Longest, LongestOf
<1> HIDE DEF L
<1>8. Max(L) \in L /\ size <= Max(L)
  BY <1>4, <1>5, <1>6, MaxIs
<1>9. Max(L) \in Nat /\ Max(L) <= size
  BY <1>6, <1>8
<1> QED BY <1>2, <1>7, <1>8, <1>9 DEF size

(* What decode_group makes of a group whatever of it was lost.             *)
LEMMA RecoveredIs ==
  ASSUME NEW d, NEW k, NEW blocks, Arrived(d, k, blocks)
  PROVE  LET n == Len(d)
             none == \A i \in DOMAIN blocks : blocks[i] = Lost
             whole == \A i \in 1..n : blocks[i] # Lost
             back == \A i \in 1..n : Back(n, k, blocks, i)
         IN /\ none => Recovered(blocks, k) = <<Lost>>
            /\ whole => Recovered(blocks, k) = d
            /\ ~none /\ ~whole /\ back =>
                 Recovered(blocks, k) = [i \in 1..n |-> Padded(d[i], LongestOf({d[j] : j \in 1..n}))]
            /\ ~none /\ ~whole /\ ~back => Recovered(blocks, k) = <<>>
<1> DEFINE n == Len(d)
           size == LongestOf({d[j] : j \in 1..n})
           none == \A i \in DOMAIN blocks : blocks[i] = Lost
           whole == \A i \in 1..n : blocks[i] # Lost
           back == \A i \in 1..n : Back(n, k, blocks, i)
           loop == (CHOOSE it : Turns(n, k, blocks, it))[n]
<1>1. /\ n \in Nat \ {0} /\ d \in Seq(Block) /\ k \in 1..n /\ k \in Nat
      /\ blocks \in Seq(Block \cup {Lost}) /\ Len(blocks) = n + k /\ n = Len(blocks) - k
      /\ \A j \in 1..(n + k) : blocks[j] \in {Encoded(d, k)[j], Lost}
  BY DEF Arrived
<1>2. Recovered(blocks, k) = CASE none -> <<Lost>> [] whole -> SubSeq(blocks, 1, n) [] OTHER -> loop
  <2>1. PICK m : m = n
    OBVIOUS
  <2>2. m = Len(blocks) - k
    BY <1>1, <2>1
  <2>3. Recovered(blocks, k) =
           CASE \A i \in DOMAIN blocks : blocks[i] = Lost -> <<Lost>>
             [] \A i \in 1..m : blocks[i] # Lost -> SubSeq(blocks, 1, m)
             [] OTHER -> (CHOOSE it : Turns(m, k, blocks, it))[m]
    BY <2>2, RecoveredByTurns
  <2> QED BY <2>1, <2>3
<1>3. loop = Half(d, k, blocks, n)
  <2>1. \E it : Turns(n, k, blocks, it)
    BY HalvesAreTurns
  <2>2. PICK it : it = CHOOSE o : Turns(n, k, blocks, o)
    OBVIOUS
  <2>3. Turns(n, k, blocks, it)
    BY <2>1, <2>2
  <2>4. it[n] = Half(d, k, blocks, n)
    BY <2>3, TurnsAreHalves
  <2> QED BY <2>2, <2>4
<1>4. ~(none /\ whole)
  <2>1. 1 \in 1..n /\ 1 \in DOMAIN blocks
    BY <1>1
  <2> QED BY <2>1
<1>5. whole => SubSeq(blocks, 1, n) = d
  <2> SUFFICES ASSUME whole PROVE SubSeq(blocks, 1, n) = d
    OBVIOUS
  <2>1. \A i \in 1..n : blocks[i] = d[i]
    <3>1. \A i \in 1..n : i \in 1..(n + k)
      BY <1>1
    <3>2. \A i \in 1..n : Encoded(d, k)[i] = d[i]
      BY <1>1, EncodedIs
    <3> QED BY <1>1, <3>1, <3>2
  <2>2. SubSeq(blocks, 1, n) = [i \in 1..n |-> blocks[i]]
    <3> DEFINE B == Block \cup {Lost}
    <3>1. blocks \in Seq(B)
      BY <1>1
    <3> HIDE DEF B
    <3> QED BY <1>1, <3>1
  <2>3. d = [i \in 1..n |-> d[i]]
    BY <1>1
  <2> QED BY <2>1, <2>2, <2>3
<1>6. ~whole /\ back => Half(d, k, blocks, n) = [i \in 1..n |-> Padded(d[i], size)]
  <2> SUFFICES ASSUME ~whole, back
               PROVE Half(d, k, blocks, n) = [i \in 1..n |-> Padded(d[i], size)]
    OBVIOUS
  <2>1. PICK i \in 1..n : blocks[i] = Lost
    OBVIOUS
  <2>2. ParityOf(i, k, n) \in (n + 1)..(n + k) /\ blocks[ParityOf(i, k, n)] # Lost
    <3>1. ParityOf(i, k, n) \in (n + 1)..(n + k)
      BY <1>1, ParityIs
    <3>2. Back(n, k, blocks, i)
      OBVIOUS
    <3> QED BY <2>1, <3>1, <3>2 DEF Back
  <2>3. PICK q : q = ParityOf(i, k, n) - n
    OBVIOUS
  <2>4. q \in 1..k /\ n + q = ParityOf(i, k, n)
    <3>1. PICK y : y = ParityOf(i, k, n)
      OBVIOUS
    <3> HIDE DEF n
    <3>2. y \in (n + 1)..(n + k) /\ q = y - n
      BY <2>2, <2>3, <3>1
    <3>3. q \in 1..k /\ n + q = y
      BY <1>1, <3>2
    <3> QED BY <3>1, <3>3
  <2>5. Longest(blocks) = size
    <3>1. blocks[n + q] # Lost
      BY <2>2, <2>4
    <3> QED BY <2>4, <3>1, LongestIs
  <2>6. Half(d, k, blocks, n) =
          [j \in 1..n |-> IF j <= n \/ blocks[j] # Lost THEN Padded(d[j], Longest(blocks)) ELSE Lost]
    BY DEF Half
  <2>7. \A j \in 1..n : j <= n
    BY <1>1
  <2> HIDE DEF size
  <2> QED BY <2>5, <2>6, <2>7
<1>7. ~back => Half(d, k, blocks, n) = <<>>
  BY DEF Half
<1> HIDE DEF none, whole, back, loop, size
<1>8. /\ none => Recovered(blocks, k) = <<Lost>>
      /\ whole => Recovered(blocks, k) = d
      /\ ~none /\ ~whole => Recovered(blocks, k) = Half(d, k, blocks, n)
  BY <1>2, <1>3, <1>4, <1>5
<1>9. /\ none => Recovered(blocks, k) = <<Lost>>
      /\ whole => Recovered(blocks, k) = d
      /\ ~none /\ ~whole /\ back => Recovered(blocks, k) = [i \in 1..n |-> Padded(d[i], size)]
      /\ ~none /\ ~whole /\ ~back => Recovered(blocks, k) = <<>>
  BY <1>6, <1>7, <1>8
<1> QED BY <1>9 DEF none, whole, back, size

Groups == UNION {[data : [1..n -> Blocks], parity : 1..n] : n \in 1..DataBlocks}
FecInv == group \in Groups /\ Arrived(group.data, group.parity, received)

LEMMA FecStarts == FecInit => FecInv
<1> SUFFICES ASSUME FecInit PROVE FecInv
  OBVIOUS
<1>1. group \in Groups /\ received = Encoded(group.data, group.parity)
  BY DEF FecInit, Groups
<1>2. PICK n \in 1..DataBlocks : group \in [data : [1..n -> Blocks], parity : 1..n]
  BY <1>1 DEF Groups
<1>3. PICK d \in [1..n -> Blocks], k \in 1..n : d = group.data /\ k = group.parity
  BY <1>2
<1>4. n \in Nat \ {0} /\ k \in Nat
  BY CodecAssumption
<1>5. Blocks \subseteq Block
  BY CodecAssumption DEF Block
<1>6. d \in Seq(Block) /\ Len(d) = n
  <2>1. d \in [1..n -> Block]
    BY <1>5
  <2> QED BY <1>4, <2>1
<1>7. Encoded(d, k) \in Seq(Block) /\ Len(Encoded(d, k)) = n + k
  BY <1>4, <1>6, EncodedIs
<1>8. Encoded(d, k) \in Seq(Block \cup {Lost})
  <2>1. PICK e : e = Encoded(d, k)
    OBVIOUS
  <2>2. PICK B : B = Block
    OBVIOUS
  <2>3. e \in Seq(B) => e \in Seq(B \cup {Lost})
    OBVIOUS
  <2> QED BY <1>7, <2>1, <2>2, <2>3
<1>9. Arrived(d, k, received)
  BY <1>1, <1>3, <1>4, <1>6, <1>7, <1>8 DEF Arrived
<1> QED BY <1>1, <1>3, <1>9 DEF FecInv

LEMMA LoseBlockKeeps == FecInv /\ (\E i \in DOMAIN received : LoseBlock(i)) => FecInv'
<1> SUFFICES ASSUME FecInv, NEW i \in DOMAIN received, LoseBlock(i) PROVE FecInv'
  OBVIOUS
<1>1. UNCHANGED group /\ received' = [received EXCEPT ![i] = Lost]
  BY DEF LoseBlock
<1>2. PICK d, k : d = group.data /\ k = group.parity
  OBVIOUS
<1>3. Arrived(d, k, received)
  BY <1>2 DEF FecInv
<1>4. PICK B : B = Block \cup {Lost}
  OBVIOUS
<1>5. received \in Seq(B) /\ Lost \in B
  BY <1>3, <1>4 DEF Arrived
<1>6. received' \in Seq(B) /\ Len(received') = Len(received) /\ i \in 1..Len(received)
  BY <1>1, <1>5
<1>7. \A j \in 1..Len(received) : received'[j] = IF j = i THEN Lost ELSE received[j]
  BY <1>1, <1>5
<1>8. Arrived(d, k, received')
  BY <1>3, <1>4, <1>6, <1>7 DEF Arrived
<1> QED BY <1>1, <1>2, <1>8 DEF FecInv, Groups

FecStep == \E i \in DOMAIN received : LoseBlock(i)

LEMMA FecIsKept == FecInv => FecHolds
<1> SUFFICES ASSUME FecInv PROVE FecHolds
  OBVIOUS
<1>1. PICK d, k, n : d = group.data /\ k = group.parity /\ n = Len(d)
  OBVIOUS
<1>2. Arrived(d, k, received)
  BY <1>1 DEF FecInv
<1>3. n \in Nat \ {0} /\ k \in 1..n /\ DOMAIN received = 1..(n + k)
  BY <1>1, <1>2 DEF Arrived
<1> DEFINE size == LongestOf({d[i] : i \in 1..n})
           none == \A i \in DOMAIN received : received[i] = Lost
           whole == \A i \in 1..n : received[i] # Lost
           back == \A i \in 1..n : Back(n, k, received, i)
           lost == {i \in 1..n : received[i] = Lost}
           possible == \A i \in lost : /\ ClassOf(i, k, n) \cap lost = {i}
                                       /\ received[ParityOf(i, k, n)] # Lost
<1>4. /\ none => Recovered(received, k) = <<Lost>>
      /\ whole => Recovered(received, k) = d
      /\ ~none /\ ~whole /\ back => Recovered(received, k) = [i \in 1..n |-> Padded(d[i], size)]
      /\ ~none /\ ~whole /\ ~back => Recovered(received, k) = <<>>
  <2>1. LET m == Len(d) IN
          /\ (\A i \in DOMAIN received : received[i] = Lost) => Recovered(received, k) = <<Lost>>
          /\ (\A i \in 1..m : received[i] # Lost) => Recovered(received, k) = d
          /\ (/\ ~(\A i \in DOMAIN received : received[i] = Lost)
              /\ ~(\A i \in 1..m : received[i] # Lost)
              /\ \A i \in 1..m : Back(m, k, received, i))
               => Recovered(received, k) = [i \in 1..m |-> Padded(d[i], LongestOf({d[j] : j \in 1..m}))]
          /\ (/\ ~(\A i \in DOMAIN received : received[i] = Lost)
              /\ ~(\A i \in 1..m : received[i] # Lost)
              /\ ~(\A i \in 1..m : Back(m, k, received, i))) => Recovered(received, k) = <<>>
    BY <1>2, RecoveredIs
  <2> QED BY <1>1, <2>1
<1>5. whole <=> lost = {}
  OBVIOUS
<1>6. possible <=> back
  <2> SUFFICES ASSUME NEW i \in 1..n, received[i] = Lost
               PROVE (ClassOf(i, k, n) \cap lost = {i} /\ received[ParityOf(i, k, n)] # Lost)
                       <=> Back(n, k, received, i)
    BY DEF Back
  <2>1. i \in ClassOf(i, k, n) /\ ClassOf(i, k, n) \subseteq 1..n
    BY <1>3, ParityIs
  <2>2. (ClassOf(i, k, n) \cap lost = {i})
          <=> \A m \in ClassOf(i, k, n) : received[m] = Lost => m = i
    BY <2>1
  <2> QED BY <2>2 DEF Back
<1>7. none => ~whole /\ ~possible
  <2>1. 1 \in 1..n /\ 1 \in DOMAIN received
    BY <1>3
  <2>2. \A i \in 1..n : ParityOf(i, k, n) \in DOMAIN received
    <3> SUFFICES ASSUME NEW i \in 1..n PROVE ParityOf(i, k, n) \in 1..(n + k)
      BY <1>3
    <3>1. PICK y : y = ParityOf(i, k, n)
      OBVIOUS
    <3>2. y \in (n + 1)..(n + k)
      BY <1>3, <3>1, ParityIs
    <3>3. y \in 1..(n + k)
      BY <1>3, <3>2
    <3> QED BY <3>1, <3>3
  <2> QED BY <2>1, <2>2
<1> HIDE DEF none, whole, back, lost, possible, size
<1>8. Recovered(received, k) =
        CASE none -> <<Lost>>
          [] lost = {} -> d
          [] lost # {} /\ possible -> [i \in 1..n |-> Padded(d[i], size)]
          [] OTHER -> <<>>
  BY <1>4, <1>5, <1>6, <1>7
<1> QED BY <1>1, <1>8 DEF FecHolds, none, whole, back, lost, possible, size

-----------------------------------------------------------------------------
(* Responses: the folds over messages and lengths, turn by turn.           *)
Sums(s, n, f) == f = [i \in 0..n |-> IF i = 0 THEN 0 ELSE f[i - 1] + s[i]]
Joins(s, n, f) == f = [i \in 0..n |-> IF i = 0 THEN <<>> ELSE f[i - 1] \o s[i].parts]

LEMMA ByTurns ==
  ASSUME NEW s
  PROVE  /\ SumOf(s) = (CHOOSE f : Sums(s, Len(s), f))[Len(s)]
         /\ PartsOf(s) = (CHOOSE f : Joins(s, Len(s), f))[Len(s)]
  BY DEF SumOf, PartsOf, Sums, Joins

LEMMA SumsExist == ASSUME NEW s, NEW n \in Nat PROVE \E f : Sums(s, n, f)
<1> DEFINE bad == {m \in Nat : ~\E f : Sums(s, m, f)}
<1> SUFFICES ASSUME bad # {} PROVE FALSE
  OBVIOUS
<1>1. PICK m \in bad : \A j \in bad : m <= j
  <2> HIDE DEF bad
  <2>1. bad \subseteq Nat
    BY DEF bad
  <2> QED BY <2>1, SetsOfNumbersHaveALeast
<1>2. CASE m = 0
  <2> DEFINE f == [i \in 0..0 |-> 0]
  <2>1. \A i \in 0..0 : i = 0
    OBVIOUS
  <2>2. Sums(s, 0, f)
    BY <2>1 DEF Sums
  <2> QED BY <1>2, <2>2
<1>3. CASE m # 0
  <2>1. m - 1 \in Nat /\ ~(m <= m - 1)
    BY <1>3
  <2>2. PICK f : Sums(s, m - 1, f)
    BY <1>1, <2>1
  <2> DEFINE g == [i \in 0..m |-> IF i = m THEN f[m - 1] + s[m] ELSE f[i]]
  <2>3. \A i \in 0..(m - 1) : f[i] = IF i = 0 THEN 0 ELSE f[i - 1] + s[i]
    BY <2>2 DEF Sums
  <2>4. ASSUME NEW i \in 0..m
        PROVE  g[i] = IF i = 0 THEN 0 ELSE g[i - 1] + s[i]
    <3>1. CASE i = m
      <4>1. m - 1 \in 0..m /\ m - 1 # m /\ m # 0
        BY <1>3, <2>1
      <4>2. g[m] = f[m - 1] + s[m] /\ g[m - 1] = f[m - 1]
        BY <4>1
      <4> HIDE DEF g
      <4> QED BY <3>1, <4>1, <4>2
    <3>2. CASE i # m
      <4>1. i \in 0..(m - 1)
        BY <2>1, <3>2
      <4>2. g[i] = f[i] /\ (i # 0 => i - 1 \in 0..m /\ i - 1 # m /\ g[i - 1] = f[i - 1])
        BY <2>1, <4>1
      <4> HIDE DEF g
      <4> QED BY <2>3, <4>1, <4>2
    <3> QED BY <3>1, <3>2
  <2>5. g = [i \in 0..m |-> g[i]]
    OBVIOUS
  <2>6. Sums(s, m, g)
    <3> HIDE DEF g
    <3> QED BY <2>4, <2>5 DEF Sums
  <2> QED BY <2>6
<1> QED BY <1>2, <1>3

LEMMA JoinsExist == ASSUME NEW s, NEW n \in Nat PROVE \E f : Joins(s, n, f)
<1> DEFINE bad == {m \in Nat : ~\E f : Joins(s, m, f)}
<1> SUFFICES ASSUME bad # {} PROVE FALSE
  OBVIOUS
<1>1. PICK m \in bad : \A j \in bad : m <= j
  <2> HIDE DEF bad
  <2>1. bad \subseteq Nat
    BY DEF bad
  <2> QED BY <2>1, SetsOfNumbersHaveALeast
<1>2. CASE m = 0
  <2> DEFINE f == [i \in 0..0 |-> <<>>]
  <2>1. \A i \in 0..0 : i = 0
    OBVIOUS
  <2>2. Joins(s, 0, f)
    BY <2>1 DEF Joins
  <2> QED BY <1>2, <2>2
<1>3. CASE m # 0
  <2>1. m - 1 \in Nat /\ ~(m <= m - 1)
    BY <1>3
  <2>2. PICK f : Joins(s, m - 1, f)
    BY <1>1, <2>1
  <2>7. PICK w : w = f[m - 1] \o s[m].parts
    OBVIOUS
  <2> DEFINE g == [i \in 0..m |-> IF i = m THEN w ELSE f[i]]
  <2>3. \A i \in 0..(m - 1) : f[i] = IF i = 0 THEN <<>> ELSE f[i - 1] \o s[i].parts
    BY <2>2 DEF Joins
  <2>4. ASSUME NEW i \in 0..m
        PROVE  g[i] = IF i = 0 THEN <<>> ELSE g[i - 1] \o s[i].parts
    <3>1. CASE i = m
      <4>1. m - 1 \in 0..m /\ m - 1 # m /\ m # 0
        BY <1>3, <2>1
      <4>2. g[m] = w /\ g[m - 1] = f[m - 1]
        BY <4>1
      <4> HIDE DEF g
      <4> QED BY <2>7, <3>1, <4>1, <4>2
    <3>2. CASE i # m
      <4>1. i \in 0..(m - 1)
        BY <2>1, <3>2
      <4>2. g[i] = f[i] /\ (i # 0 => i - 1 \in 0..m /\ i - 1 # m /\ g[i - 1] = f[i - 1])
        BY <2>1, <4>1
      <4> HIDE DEF g
      <4> QED BY <2>3, <4>1, <4>2
    <3> QED BY <3>1, <3>2
  <2>5. g = [i \in 0..m |-> g[i]]
    OBVIOUS
  <2>6. Joins(s, m, g)
    <3> HIDE DEF g
    <3> QED BY <2>4, <2>5 DEF Joins
  <2> QED BY <2>6
<1> QED BY <1>2, <1>3

LEMMA SumsAgree ==
  ASSUME NEW s, NEW n \in Nat, NEW f, Sums(s, n, f), NEW t, NEW m \in Nat, NEW g, Sums(t, m, g),
         NEW k \in Nat, k <= n, k <= m, \A i \in 1..k : s[i] = t[i]
  PROVE  \A i \in 0..k : f[i] = g[i]
<1> DEFINE bad == {i \in 0..k : f[i] # g[i]}
<1> SUFFICES ASSUME bad # {} PROVE FALSE
  OBVIOUS
<1>1. /\ \A i \in 0..n : f[i] = IF i = 0 THEN 0 ELSE f[i - 1] + s[i]
      /\ \A i \in 0..m : g[i] = IF i = 0 THEN 0 ELSE g[i - 1] + t[i]
  BY DEF Sums
<1>2. PICK i \in bad : \A j \in bad : i <= j
  <2>1. bad \subseteq Nat
    OBVIOUS
  <2> HIDE DEF bad
  <2> QED BY <2>1, SetsOfNumbersHaveALeast
<1>3. i \in 0..n /\ i \in 0..m
  OBVIOUS
<1>4. i # 0
  BY <1>1, <1>3
<1>5. i \in 1..k /\ i - 1 \in 0..k /\ ~(i <= i - 1)
  BY <1>4
<1>6. f[i - 1] = g[i - 1]
  BY <1>2, <1>5
<1> QED BY <1>1, <1>3, <1>4, <1>5, <1>6

LEMMA JoinsAgree ==
  ASSUME NEW s, NEW n \in Nat, NEW f, Joins(s, n, f), NEW t, NEW m \in Nat, NEW g, Joins(t, m, g),
         NEW k \in Nat, k <= n, k <= m, \A i \in 1..k : s[i] = t[i]
  PROVE  \A i \in 0..k : f[i] = g[i]
<1> DEFINE bad == {i \in 0..k : f[i] # g[i]}
<1> SUFFICES ASSUME bad # {} PROVE FALSE
  OBVIOUS
<1>1. /\ \A i \in 0..n : f[i] = IF i = 0 THEN <<>> ELSE f[i - 1] \o s[i].parts
      /\ \A i \in 0..m : g[i] = IF i = 0 THEN <<>> ELSE g[i - 1] \o t[i].parts
  BY DEF Joins
<1>2. PICK i \in bad : \A j \in bad : i <= j
  <2>1. bad \subseteq Nat
    OBVIOUS
  <2> HIDE DEF bad
  <2> QED BY <2>1, SetsOfNumbersHaveALeast
<1>3. i \in 0..n /\ i \in 0..m
  OBVIOUS
<1>4. i # 0
  BY <1>1, <1>3
<1>5. i \in 1..k /\ i - 1 \in 0..k /\ ~(i <= i - 1)
  BY <1>4
<1>6. f[i - 1] = g[i - 1]
  BY <1>2, <1>5
<1> QED BY <1>1, <1>3, <1>4, <1>5, <1>6

(* The sums of the first numbers of a sequence.                            *)
Running(s, n, f) ==
  /\ f \in [0..n -> Nat] /\ f[0] = 0 /\ \A i \in 1..n : f[i] = f[i - 1] + s[i]
  /\ SumOf(s) = f[n] /\ \A i \in 0..n : SumOf(SubSeq(s, 1, i)) = f[i]
  /\ \A i, j \in 0..n : i <= j => f[i] <= f[j]

LEMMA SumIs ==
  ASSUME NEW s, NEW n \in Nat, Len(s) = n, NEW f, Sums(s, n, f)
  PROVE  SumOf(s) = f[n]
<1>1. PICK g : g = CHOOSE h : Sums(s, n, h)
  OBVIOUS
<1>2. Sums(s, n, g)
  BY <1>1
<1>3. SumOf(s) = g[n]
  BY <1>1, ByTurns
<1>4. \A i \in 0..n : g[i] = f[i]
  BY <1>2, SumsAgree
<1> QED BY <1>3, <1>4

LEMMA SumOfFirst ==
  ASSUME NEW s, NEW n \in Nat, NEW f, Sums(s, n, f),
         NEW t, NEW k \in Nat, k <= n, Len(t) = k, \A i \in 1..k : t[i] = s[i]
  PROVE  SumOf(t) = f[k]
<1>0. PICK m \in Nat : m = k
  OBVIOUS
<1>1. PICK g : Sums(t, m, g)
  BY SumsExist
<1>2. SumOf(t) = g[k]
  BY <1>0, <1>1, SumIs
<1>3. k <= m /\ k \in 0..k /\ \A i \in 1..k : s[i] = t[i]
  BY <1>0
<1>4. \A i \in 0..k : f[i] = g[i]
  BY <1>1, <1>3, SumsAgree
<1> QED BY <1>2, <1>3, <1>4

LEMMA SumsRun ==
  ASSUME NEW n \in Nat, NEW s \in [1..n -> Nat]
  PROVE  \E f : Running(s, n, f)
<1>1. PICK f : Sums(s, n, f)
  BY SumsExist
<1>2. \A i \in 0..n : f[i] = IF i = 0 THEN 0 ELSE f[i - 1] + s[i]
  BY <1>1 DEF Sums
<1>3. f[0] = 0 /\ \A i \in 1..n : f[i] = f[i - 1] + s[i]
  BY <1>2
<1>4. \A i \in 0..n : f[i] \in Nat
  <2> DEFINE bad == {i \in 0..n : f[i] \notin Nat}
  <2> SUFFICES ASSUME bad # {} PROVE FALSE
    OBVIOUS
  <2>1. PICK i \in bad : \A j \in bad : i <= j
    <3>1. bad \subseteq Nat
      OBVIOUS
    <3> HIDE DEF bad
    <3> QED BY <3>1, SetsOfNumbersHaveALeast
  <2>2. i \in 1..n /\ i - 1 \in 0..n /\ ~(i <= i - 1)
    BY <1>3
  <2>3. f[i - 1] \in Nat /\ s[i] \in Nat
    BY <2>1, <2>2
  <2> QED BY <1>3, <2>2, <2>3
<1>5. f \in [0..n -> Nat]
  <2>1. f = [i \in 0..n |-> IF i = 0 THEN 0 ELSE f[i - 1] + s[i]]
    BY <1>1 DEF Sums
  <2>2. f = [i \in 0..n |-> f[i]]
    BY <2>1
  <2> QED BY <1>4, <2>2
<1>6. \A i \in 0..n : SumOf(SubSeq(s, 1, i)) = f[i]
  <2> SUFFICES ASSUME NEW i \in 0..n PROVE SumOf(SubSeq(s, 1, i)) = f[i]
    OBVIOUS
  <2>1. PICK t : t = SubSeq(s, 1, i)
    OBVIOUS
  <2>2. s \in Seq(Nat) /\ Len(s) = n /\ i \in Nat /\ i <= n
    OBVIOUS
  <2>3. Len(t) = i /\ \A j \in 1..i : t[j] = s[j]
    BY <2>1, <2>2
  <2>4. SumOf(t) = f[i]
    BY <1>1, <2>2, <2>3, SumOfFirst
  <2> QED BY <2>1, <2>4
<1>7. SumOf(s) = f[n]
  BY <1>1, SumIs
<1>8. \A i, j \in 0..n : i <= j => f[i] <= f[j]
  <2> SUFFICES ASSUME NEW i \in 0..n PROVE \A j \in 0..n : i <= j => f[i] <= f[j]
    OBVIOUS
  <2> DEFINE bad == {j \in 0..n : i <= j /\ ~(f[i] <= f[j])}
  <2> SUFFICES ASSUME bad # {} PROVE FALSE
    OBVIOUS
  <2>1. PICK j \in bad : \A x \in bad : j <= x
    <3>1. bad \subseteq Nat
      OBVIOUS
    <3> HIDE DEF bad
    <3> QED BY <3>1, SetsOfNumbersHaveALeast
  <2>2. j # i
    BY <1>4
  <2>3. j \in 1..n /\ j - 1 \in 0..n /\ ~(j <= j - 1) /\ i <= j - 1
    BY <2>2
  <2>4. f[i] <= f[j - 1]
    BY <2>1, <2>3
  <2>5. f[j] = f[j - 1] + s[j] /\ f[j - 1] \in Nat /\ s[j] \in Nat /\ f[i] \in Nat
    BY <1>3, <1>4, <2>3
  <2>6. f[i] <= f[j]
    BY <2>4, <2>5
  <2> QED BY <2>6
<1> QED BY <1>3, <1>5, <1>6, <1>7, <1>8 DEF Running

LEMMA PartsIs ==
  ASSUME NEW s, NEW n \in Nat, Len(s) = n, NEW f, Joins(s, n, f)
  PROVE  PartsOf(s) = f[n]
<1>1. PICK g : g = CHOOSE h : Joins(s, n, h)
  OBVIOUS
<1>2. Joins(s, n, g)
  BY <1>1
<1>3. PartsOf(s) = g[n]
  BY <1>1, ByTurns
<1>4. \A i \in 0..n : g[i] = f[i]
  BY <1>2, JoinsAgree
<1> QED BY <1>3, <1>4

LEMMA PartsStart == PartsOf(<<>>) = <<>>
<1>1. PICK f : Joins(<<>>, 0, f)
  BY JoinsExist
<1>2. f[0] = <<>>
  BY <1>1 DEF Joins
<1> QED BY <1>1, <1>2, PartsIs

LEMMA PartsGrow ==
  ASSUME NEW T, NEW s \in Seq(T), NEW m \in T
  PROVE  PartsOf(Append(s, m)) = PartsOf(s) \o m.parts
<1>1. PICK n \in Nat : n = Len(s)
  OBVIOUS
<1>2. PICK t : t = Append(s, m)
  OBVIOUS
<1>3. Len(t) = n + 1 /\ t[n + 1] = m /\ \A i \in 1..n : s[i] = t[i]
  BY <1>1, <1>2, AppendProperties
<1>4. PICK f : Joins(s, n, f)
  BY JoinsExist
<1>0. n + 1 \in Nat /\ n <= n + 1 /\ n <= n /\ n \in 0..n
  OBVIOUS
<1>5. PICK g : Joins(t, n + 1, g)
  BY <1>0, JoinsExist
<1>6. \A i \in 0..n : f[i] = g[i]
  BY SMTT(40), <1>0, <1>3, <1>4, <1>5, JoinsAgree
<1>7. g[n + 1] = g[n] \o t[n + 1].parts
  <2>1. \A i \in 0..(n + 1) : g[i] = IF i = 0 THEN <<>> ELSE g[i - 1] \o t[i].parts
    BY <1>5 DEF Joins
  <2>2. n + 1 \in 0..(n + 1) /\ n + 1 # 0 /\ (n + 1) - 1 = n
    OBVIOUS
  <2> QED BY <2>1, <2>2
<1>8. PartsOf(s) = f[n] /\ PartsOf(t) = g[n + 1]
  BY <1>0, <1>1, <1>3, <1>4, <1>5, PartsIs
<1>9. f[n] = g[n]
  BY <1>0, <1>6
<1> QED BY Zenon, <1>2, <1>3, <1>7, <1>8, <1>9

LEMMA SumShifted ==
  ASSUME NEW n \in Nat, NEW s, NEW f, Sums(s, n, f),
         NEW t, Len(t) = n + 1, t[1] = 0, \A i \in 1..n : t[i + 1] = s[i]
  PROVE  SumOf(t) = f[n]
<1>0. n + 1 \in Nat
  OBVIOUS
<1>1. PICK g : Sums(t, n + 1, g)
  BY <1>0, SumsExist
<1>2. SumOf(t) = g[n + 1]
  BY <1>0, <1>1, SumIs
<1>3. /\ \A i \in 0..n : f[i] = IF i = 0 THEN 0 ELSE f[i - 1] + s[i]
      /\ \A i \in 0..(n + 1) : g[i] = IF i = 0 THEN 0 ELSE g[i - 1] + t[i]
  BY <1>1 DEF Sums
<1>4. \A i \in 0..n : g[i + 1] = g[i] + t[i + 1]
  <2>1. \A i \in 0..n : i + 1 \in 0..(n + 1) /\ i + 1 # 0 /\ (i + 1) - 1 = i
    OBVIOUS
  <2> QED BY <1>3, <2>1
<1>5. g[0] = 0 /\ g[1] = 0 /\ f[0] = 0
  <2>1. g[0] = 0 /\ f[0] = 0 /\ 0 \in 0..n
    BY <1>3
  <2>2. g[0 + 1] = g[0] + t[0 + 1]
    BY <1>4, <2>1
  <2> QED BY <2>1, <2>2
<1> DEFINE bad == {i \in 0..n : g[i + 1] # f[i]}
<1>6. bad = {}
  <2> SUFFICES ASSUME bad # {} PROVE FALSE
    OBVIOUS
  <2>1. PICK i \in bad : \A j \in bad : i <= j
    <3>1. bad \subseteq Nat
      OBVIOUS
    <3> HIDE DEF bad
    <3> QED BY <3>1, SetsOfNumbersHaveALeast
  <2>2. i # 0
    BY <1>5
  <2>3. i \in 1..n /\ i - 1 \in 0..n /\ ~(i <= i - 1) /\ (i - 1) + 1 = i
    BY <2>2
  <2>4. g[i] = f[i - 1]
    BY <2>1, <2>3
  <2>5. g[i + 1] = g[i] + s[i] /\ f[i] = f[i - 1] + s[i]
    BY <1>3, <1>4, <2>2, <2>3
  <2> QED BY <2>4, <2>5
<1> QED BY <1>2, <1>6

(* The shapes of a response on its way out: nothing yet; one message for a *)
(* body that was held; what the application sent, as it was; or recoded, as*)
(* an open beginning or a whole response.  n: the chunks that are through. *)
Msg == [kind : {"start", "body"}, status : Int, length : Int, coded : BOOLEAN,
        parts : Seq(Nat), fresh : BOOLEAN, more : BOOLEAN]
Chunks(n) == [i \in 1..n |-> i]

Paired(pl, out) ==
  \E st \in Int, len \in Int, body \in Nat, fresh \in BOOLEAN :
    /\ len \in {NoLength, body}
    /\ out = <<StartMsg(st, len, FALSE), BodyMsg(Chunks(Len(pl)), body, fresh, FALSE, FALSE)>>

Passed(pl, out, n) ==
  /\ out \in Seq(Msg) /\ Len(out) = n + 1 /\ PartsOf(out) = Chunks(n)
  /\ \E len \in {NoLength, SumOf(pl)} : out[1] = StartMsg(200, len, FALSE)
  /\ \A i \in 1..n : out[i + 1] = BodyMsg(<<i>>, pl[i], FALSE, FALSE, i < Len(pl))

Recodes(out) ==
  /\ out \in Seq(Msg) /\ Len(out) > 0 /\ out[1].length = NoLength
  /\ \A i \in 1..Len(out) : out[i].coded /\ (out[i].kind = "start" <=> i = 1)
  /\ \A i \in 1..Len(out) : i < Len(out) => out[i].more

Opened(out, held, n) ==
  /\ Recodes(out) /\ out[Len(out)].more
  /\ held \in Seq(Nat) /\ PartsOf(out) \in Seq(Nat) /\ PartsOf(out) \o held = Chunks(n)

Closed(pl, out) ==
  /\ Recodes(out) /\ Len(out) > 1 /\ ~out[Len(out)].more /\ PartsOf(out) = Chunks(Len(pl))

LEMMA StartIsMsg ==
  ASSUME NEW st \in Int, NEW len \in Int, NEW coded \in BOOLEAN
  PROVE  /\ StartMsg(st, len, coded) \in Msg
         /\ StartMsg(st, len, coded).kind = "start" /\ StartMsg(st, len, coded).more
         /\ StartMsg(st, len, coded).parts = <<>> /\ StartMsg(st, len, coded).length = len
         /\ StartMsg(st, len, coded).coded = coded /\ StartMsg(st, len, coded).status = st
<1>1. <<>> \in Seq(Nat)
  OBVIOUS
<1> QED BY <1>1 DEF StartMsg, Msg

LEMMA BodyIsMsg ==
  ASSUME NEW ps \in Seq(Nat), NEW len \in Int, NEW fresh \in BOOLEAN, NEW coded \in BOOLEAN,
         NEW more \in BOOLEAN
  PROVE  /\ BodyMsg(ps, len, fresh, coded, more) \in Msg
         /\ BodyMsg(ps, len, fresh, coded, more).kind = "body"
         /\ BodyMsg(ps, len, fresh, coded, more).more = more
         /\ BodyMsg(ps, len, fresh, coded, more).parts = ps
         /\ BodyMsg(ps, len, fresh, coded, more).length = len
         /\ BodyMsg(ps, len, fresh, coded, more).coded = coded
  BY DEF BodyMsg, Msg

LEMMA ChunksGrow ==
  ASSUME NEW n \in Nat
  PROVE  /\ Chunks(n) \in Seq(Nat) /\ Len(Chunks(n)) = n /\ Chunks(0) = <<>>
         /\ Append(Chunks(n), n + 1) = Chunks(n + 1) /\ Chunks(n) \o <<n + 1>> = Chunks(n + 1)
<1>1. Chunks(n) \in Seq(Nat) /\ Len(Chunks(n)) = n /\ \A i \in 1..n : Chunks(n)[i] = i
  BY DEF Chunks
<1>2. Chunks(0) = <<>>
  <2>1. 1..0 = {}
    OBVIOUS
  <2> QED BY <2>1 DEF Chunks
<1>3. PICK c : c = Chunks(n)
  OBVIOUS
<1>4. PICK a : a = Append(c, n + 1)
  OBVIOUS
<1>5. c \in Seq(Nat) /\ Len(c) = n /\ \A i \in 1..n : c[i] = i
  BY <1>1, <1>3
<1>6. a \in Seq(Nat) /\ Len(a) = n + 1 /\ \A i \in 1..(n + 1) : a[i] = i
  BY <1>4, <1>5
<1>7. a = [i \in 1..(n + 1) |-> i]
  BY <1>6
<1>8. c \o <<n + 1>> = a
  BY <1>4, <1>5
<1> QED BY <1>1, <1>2, <1>3, <1>4, <1>7, <1>8 DEF Chunks

(* Each shape is a response that is kept.                                  *)
ShapeKept(n) == WellFormed /\ (n = Len(plan) => Faithful)

PlanTyped ==
  /\ request \in Requests /\ Len(plan) \in Nat \ {0} /\ Len(plan) <= MaxChunks
  /\ plan \in [1..Len(plan) -> 0..2]

LEMMA OpenedIsKept ==
  ASSUME NEW held, NEW n \in Nat, n < Len(plan), Opened(output, held, n)
  PROVE  ShapeKept(n)
<1>1. output[1].kind = "start" /\ \A i \in 1..Len(output) : (output[i].kind = "start") <=> (i = 1)
  BY DEF Opened, Recodes
<1>2. \A i \in 1..Len(output) : i < Len(output) => output[i].more
  BY DEF Opened, Recodes
<1>3. n # Len(plan)
  OBVIOUS
<1> QED BY <1>1, <1>2, <1>3 DEF ShapeKept, WellFormed

LEMMA ClosedIsKept ==
  ASSUME NEW n, Closed(plan, output)
  PROVE  ShapeKept(n)
<1>1. /\ output \in Seq(Msg) /\ Len(output) > 1 /\ output[1].length = NoLength
      /\ \A i \in 1..Len(output) : output[i].coded /\ (output[i].kind = "start" <=> i = 1)
      /\ \A i \in 1..Len(output) : i < Len(output) => output[i].more
      /\ ~output[Len(output)].more /\ PartsOf(output) = Chunks(Len(plan))
  BY DEF Closed, Recodes
<1>2. \A i \in 1..Len(output) : output[i].coded = output[1].coded
  <2>1. \A i \in 1..Len(output) : output[i] \in Msg
    BY <1>1, ElementOfSeq
  <2>2. \A i \in 1..Len(output) : output[i].coded \in BOOLEAN
    BY <2>1 DEF Msg
  <2>3. 1 \in 1..Len(output)
    BY <1>1
  <2>4. \A i \in 1..Len(output) : output[i].coded
    BY <1>1
  <2> QED BY <2>2, <2>3, <2>4
<1>3. WellFormed
  BY <1>1 DEF WellFormed
<1>4. Faithful
  BY <1>1, <1>2 DEF Faithful, Chunks
<1> QED BY <1>3, <1>4 DEF ShapeKept

LEMMA PairedIsKept ==
  ASSUME NEW n, PlanTyped, Paired(plan, output)
  PROVE  ShapeKept(n) /\ output \in Seq(Msg)
<1>1. PICK st \in Int, len \in Int, body \in Nat, fresh \in BOOLEAN :
        /\ len \in {NoLength, body}
        /\ output = <<StartMsg(st, len, FALSE), BodyMsg(Chunks(Len(plan)), body, fresh, FALSE, FALSE)>>
  BY DEF Paired
<1>2. PICK s : s = StartMsg(st, len, FALSE)
  OBVIOUS
<1>3. PICK b : b = BodyMsg(Chunks(Len(plan)), body, fresh, FALSE, FALSE)
  OBVIOUS
<1>4. PICK c \in Seq(Nat) : c = Chunks(Len(plan))
  BY ChunksGrow DEF PlanTyped
<1>5. s \in Msg /\ s.kind = "start" /\ s.more = TRUE /\ s.parts = <<>> /\ s.length = len /\ s.coded = FALSE
  BY <1>2, StartIsMsg DEF StartMsg
<1>6. /\ b \in Msg /\ b.kind = "body" /\ b.more = FALSE /\ b.parts = c /\ b.length = body
      /\ b.coded = FALSE
  <2>1. b = BodyMsg(c, body, fresh, FALSE, FALSE)
    BY <1>3, <1>4
  <2>2. body \in Int
    OBVIOUS
  <2>3. b \in Msg
    BY <2>1, <2>2, BodyIsMsg
  <2> QED BY <2>1, <2>3 DEF BodyMsg
<1>7. output = <<s, b>>
  BY <1>1, <1>2, <1>3
<1>8. /\ output \in Seq(Msg) /\ Len(output) = 2 /\ output[1] = s /\ output[2] = b
      /\ \A i \in 1..2 : i = 1 \/ i = 2
  <2>1. s \in Msg /\ b \in Msg
    BY <1>5, <1>6
  <2> QED BY <1>7, <2>1
<1>9. PartsOf(output) = c
  <2>1. s \in Msg /\ b \in Msg /\ <<>> \in Seq(Msg) /\ <<s>> \in Seq(Msg)
    BY <1>5, <1>6
  <2>2. <<s>> = Append(<<>>, s) /\ output = Append(<<s>>, b)
    BY <1>7
  <2>3. PartsOf(Append(<<>>, s)) = PartsOf(<<>>) \o s.parts
    BY <2>1, PartsGrow
  <2>4. PartsOf(Append(<<s>>, b)) = PartsOf(<<s>>) \o b.parts
    BY <2>1, PartsGrow
  <2>5. <<>> \o <<>> = <<>> /\ <<>> \o c = c
    BY <1>4
  <2>6. PartsOf(<<s>>) = <<>>
    BY <1>5, <2>2, <2>3, <2>5, PartsStart
  <2> QED BY <1>6, <2>2, <2>4, <2>5, <2>6
<1>10. Delivered = body
  <2> DEFINE t == [i \in 1..Len(output) |-> IF output[i].kind = "body" THEN output[i].length ELSE 0]
             one == [i \in 1..1 |-> body]
  <2>1. Len(t) = 1 + 1 /\ t[1] = 0 /\ t[2] = body
    BY <1>5, <1>6, <1>8
  <2>2. PICK f : Sums(one, 1, f)
    BY SumsExist
  <2>3. f[1] = body
    <3>1. \A i \in 0..1 : f[i] = IF i = 0 THEN 0 ELSE f[i - 1] + one[i]
      BY <2>2 DEF Sums
    <3>2. f[0] = 0 /\ f[1] = f[0] + one[1] /\ one[1] = body
      BY <3>1
    <3> QED BY <3>2
  <2>4. \A i \in 1..1 : t[i + 1] = one[i]
    BY <2>1
  <2> HIDE DEF t, one
  <2>5. SumOf(t) = f[1]
    <3>1. PICK N \in Nat : N = 1
      OBVIOUS
    <3>2. Sums(one, N, f) /\ Len(t) = N + 1 /\ t[1] = 0 /\ \A i \in 1..N : t[i + 1] = one[i]
      BY <2>1, <2>2, <2>4, <3>1
    <3>3. SumOf(t) = f[N]
      BY SMTT(40), <3>2, SumShifted
    <3> QED BY <3>1, <3>3
  <2> QED BY <2>3, <2>5 DEF Delivered, t
<1>11. WellFormed
  <2>1. \A i \in 1..Len(output) : (output[i].kind = "start") <=> (i = 1)
    BY <1>5, <1>6, <1>8
  <2>2. \A i \in 1..Len(output) : i < Len(output) => output[i].more
    BY <1>5, <1>8
  <2> QED BY <2>1, <2>2 DEF WellFormed
<1>12. Faithful
  <2>1. Len(output) > 1 /\ ~output[Len(output)].more
    BY <1>6, <1>8
  <2>2. PartsOf(output) = [i \in 1..Len(plan) |-> i]
    BY <1>4, <1>9 DEF Chunks
  <2>3. output[1].length \in {NoLength, Delivered}
    BY <1>1, <1>5, <1>8, <1>10
  <2>4. \A i \in 1..Len(output) : output[i].coded = output[1].coded
    BY <1>5, <1>6, <1>8
  <2>5. ~output[1].coded
    BY <1>5, <1>8
  <2> QED BY <2>1, <2>2, <2>3, <2>4, <2>5 DEF Faithful
<1> QED BY <1>8, <1>11, <1>12 DEF ShapeKept

LEMMA PassedIsKept ==
  ASSUME NEW n \in Nat, n <= Len(plan), PlanTyped, Passed(plan, output, n)
  PROVE  ShapeKept(n)
<1>1. PICK len \in {NoLength, SumOf(plan)} : output[1] = StartMsg(200, len, FALSE)
  BY DEF Passed
<1>2. /\ output \in Seq(Msg) /\ Len(output) = n + 1 /\ PartsOf(output) = Chunks(n)
      /\ \A i \in 1..n : output[i + 1] = BodyMsg(<<i>>, plan[i], FALSE, FALSE, i < Len(plan))
  BY DEF Passed
<1>3. PICK N \in Nat \ {0} : N = Len(plan)
  BY DEF PlanTyped
<1>4. /\ output[1].kind = "start" /\ output[1].more = TRUE /\ output[1].length = len
      /\ output[1].coded = FALSE
  BY <1>1 DEF StartMsg
<1>5. \A i \in 1..n : /\ output[i + 1].kind = "body" /\ output[i + 1].length = plan[i]
                      /\ output[i + 1].coded = FALSE /\ output[i + 1].more = (i < N)
  <2> SUFFICES ASSUME NEW i \in 1..n
               PROVE /\ output[i + 1].kind = "body" /\ output[i + 1].length = plan[i]
                     /\ output[i + 1].coded = FALSE /\ output[i + 1].more = (i < N)
    OBVIOUS
  <2>1. PICK l, m, ps : l = plan[i] /\ m = (i < Len(plan)) /\ ps = <<i>>
    OBVIOUS
  <2>2. PICK o : o = output[i + 1]
    OBVIOUS
  <2>3. o = BodyMsg(ps, l, FALSE, FALSE, m)
    BY <1>2, <2>1, <2>2
  <2>4. o.kind = "body" /\ o.length = l /\ o.coded = FALSE /\ o.more = m
    BY <2>3 DEF BodyMsg
  <2>5. m = (i < N)
    BY <1>3, <2>1
  <2> QED BY Zenon, <2>1, <2>2, <2>4, <2>5
<1>6. \A i \in 1..(n + 1) : i = 1 \/ (i - 1 \in 1..n /\ (i - 1) + 1 = i)
  OBVIOUS
<1>7. WellFormed
  <2>1. \A i \in 1..Len(output) : (output[i].kind = "start") <=> (i = 1)
    BY <1>2, <1>4, <1>5, <1>6
  <2>2. \A i \in 1..Len(output) : i < Len(output) => output[i].more
    <3> SUFFICES ASSUME NEW i \in 1..Len(output), i < Len(output) PROVE output[i].more
      OBVIOUS
    <3>1. CASE i = 1
      BY <1>4, <3>1
    <3>2. CASE i # 1
      <4>1. i - 1 \in 1..n /\ (i - 1) + 1 = i /\ i - 1 < N
        BY <1>2, <1>3, <3>2
      <4>2. output[(i - 1) + 1].more = (i - 1 < N)
        BY <1>5, <4>1
      <4> QED BY <4>1, <4>2
    <3> QED BY <3>1, <3>2
  <2> QED BY <2>1, <2>2 DEF WellFormed
<1>8. ASSUME n = Len(plan) PROVE Faithful
  <2>1. n = N /\ Len(output) = N + 1 /\ N \in 1..n
    BY <1>2, <1>3, <1>8
  <2>2. Len(output) > 1 /\ ~output[Len(output)].more
    <3>1. output[N + 1].more = (N < N)
      BY <1>5, <2>1
    <3>2. ~(N < N) /\ N + 1 > 1
      OBVIOUS
    <3>3. ~output[N + 1].more
      BY <3>1, <3>2
    <3> QED BY <2>1, <3>2, <3>3
  <2>3. PartsOf(output) = [i \in 1..Len(plan) |-> i]
    BY <1>2, <1>8 DEF Chunks
  <2>4. Delivered = SumOf(plan)
    <3> DEFINE t == [i \in 1..Len(output) |-> IF output[i].kind = "body" THEN output[i].length ELSE 0]
    <3>1. PICK f : Sums(plan, N, f)
      BY SumsExist
    <3>2. SumOf(plan) = f[N]
      BY <1>3, <3>1, SumIs
    <3>3. Len(t) = N + 1 /\ t[1] = 0 /\ \A i \in 1..N : t[i + 1] = plan[i]
      <4>1. \A i \in 1..N : i \in 1..n /\ i + 1 \in 1..Len(output)
        BY <2>1
      <4>2. 1 \in 1..Len(output) /\ Len(output) \in Nat
        BY <2>1
      <4>3. Len(t) = Len(output)
        BY <4>2
      <4> QED BY <1>4, <1>5, <2>1, <4>1, <4>2, <4>3
    <3> HIDE DEF t
    <3>4. SumOf(t) = f[N]
      BY <3>1, <3>3, SumShifted
    <3> QED BY <3>2, <3>4 DEF Delivered, t
  <2>5. output[1].length \in {NoLength, Delivered}
    BY <1>4, <2>4
  <2>6. \A i \in 1..Len(output) : output[i].coded = FALSE
    <3> SUFFICES ASSUME NEW i \in 1..Len(output) PROVE output[i].coded = FALSE
      OBVIOUS
    <3>1. CASE i = 1
      BY Zenon, <1>4, <3>1
    <3>2. CASE i # 1
      <4>1. i - 1 \in 1..n /\ (i - 1) + 1 = i
        BY <1>2, <3>2
      <4>2. output[(i - 1) + 1].coded = FALSE
        BY <1>5, <4>1, Zenon
      <4> QED BY <4>1, <4>2, Zenon
    <3> QED BY <3>1, <3>2, Zenon
  <2>7. 1 \in 1..Len(output)
    BY <2>1
  <2> QED BY <2>2, <2>3, <2>5, <2>6, <2>7 DEF Faithful
<1> QED BY <1>7, <1>8 DEF ShapeKept

(* How a shape grows.                                                      *)
LEMMA PlanSums ==
  ASSUME PlanTyped
  PROVE  /\ SumOf(plan) \in Nat /\ \E f : Running(plan, Len(plan), f)
         /\ \A i \in 1..Len(plan) : plan[i] \in Nat /\ plan[i] <= 2
<1>1. PICK n \in Nat : n = Len(plan)
  BY DEF PlanTyped
<1>2. \A x \in 0..2 : x \in Nat /\ x <= 2
  OBVIOUS
<1>3. plan \in [1..n -> Nat]
  BY <1>1, <1>2 DEF PlanTyped
<1>4. PICK f : Running(plan, n, f)
  BY <1>3, SumsRun
<1>5. SumOf(plan) \in Nat
  BY <1>4 DEF Running
<1>6. \A i \in 1..n : plan[i] \in 0..2
  BY <1>1 DEF PlanTyped
<1> QED BY <1>1, <1>2, <1>4, <1>5, <1>6

LEMMA PassedStarts ==
  ASSUME PlanTyped, NEW len \in {NoLength, SumOf(plan)}
  PROVE  Passed(plan, <<StartMsg(200, len, FALSE)>>, 0)
<1>1. PICK s : s = StartMsg(200, len, FALSE)
  OBVIOUS
<1>2. len \in Int
  BY PlanSums DEF NoLength
<1>3. s \in Msg /\ s.parts = <<>>
  <2>1. PICK l \in Int : l = len
    BY <1>2
  <2>2. s = StartMsg(200, l, FALSE)
    BY <1>1, <2>1
  <2>3. PICK st \in Int : st = 200
    OBVIOUS
  <2>4. s = StartMsg(st, l, FALSE)
    BY <2>2, <2>3
  <2>5. s \in Msg
    BY <2>4, StartIsMsg
  <2> QED BY <1>1, <2>5 DEF StartMsg
<1>4. <<s>> \in Seq(Msg) /\ Len(<<s>>) = 0 + 1 /\ <<s>>[1] = s /\ <<s>> = Append(<<>>, s) /\ <<>> \in Seq(Msg)
  BY <1>3
<1>5. PartsOf(Append(<<>>, s)) = PartsOf(<<>>) \o s.parts
  BY <1>3, <1>4, PartsGrow
<1>6. <<>> \o <<>> = <<>>
  OBVIOUS
<1>7. PartsOf(<<s>>) = Chunks(0)
  BY <1>3, <1>4, <1>5, <1>6, PartsStart, ChunksGrow
<1>8. 1..0 = {}
  OBVIOUS
<1> QED BY <1>1, <1>4, <1>7, <1>8 DEF Passed

LEMMA PassedGrows ==
  ASSUME PlanTyped, NEW out, NEW n \in Nat, n < Len(plan), Passed(plan, out, n)
  PROVE  Passed(plan, out \o <<BodyMsg(<<n + 1>>, plan[n + 1], FALSE, FALSE, n + 1 < Len(plan))>>, n + 1)
<1>1. PICK b : b = BodyMsg(<<n + 1>>, plan[n + 1], FALSE, FALSE, n + 1 < Len(plan))
  OBVIOUS
<1>2. /\ out \in Seq(Msg) /\ Len(out) = n + 1 /\ PartsOf(out) = Chunks(n)
      /\ \A i \in 1..n : out[i + 1] = BodyMsg(<<i>>, plan[i], FALSE, FALSE, i < Len(plan))
  BY DEF Passed
<1>3. PICK len \in {NoLength, SumOf(plan)} : out[1] = StartMsg(200, len, FALSE)
  BY DEF Passed
<1>4. b \in Msg /\ b.parts = <<n + 1>>
  <2>1. n + 1 \in 1..Len(plan) /\ <<n + 1>> \in Seq(Nat) /\ (n + 1 < Len(plan)) \in BOOLEAN
    BY DEF PlanTyped
  <2>2. plan[n + 1] \in Int
    BY <2>1, PlanSums
  <2>3. PICK ps \in Seq(Nat), l \in Int, m \in BOOLEAN :
          ps = <<n + 1>> /\ l = plan[n + 1] /\ m = (n + 1 < Len(plan))
    BY <2>1, <2>2
  <2>4. b = BodyMsg(ps, l, FALSE, FALSE, m)
    BY <1>1, <2>3
  <2>5. b \in Msg
    BY <2>4, BodyIsMsg
  <2> QED BY <2>3, <2>4, <2>5 DEF BodyMsg
<1>5. PICK a : a = out \o <<b>>
  OBVIOUS
<1>6. a = Append(out, b)
  BY <1>2, <1>4, <1>5
<1>7. a \in Seq(Msg) /\ Len(a) = n + 2 /\ a[n + 2] = b /\ \A i \in 1..(n + 1) : a[i] = out[i]
  BY <1>2, <1>4, <1>6, AppendProperties
<1>8. PartsOf(a) = Chunks(n + 1)
  <2>1. PartsOf(a) = PartsOf(out) \o b.parts
    BY <1>2, <1>4, <1>6, PartsGrow
  <2> QED BY <1>2, <1>4, <2>1, ChunksGrow
<1>9. \A i \in 1..(n + 1) : a[i + 1] = BodyMsg(<<i>>, plan[i], FALSE, FALSE, i < Len(plan))
  <2> SUFFICES ASSUME NEW i \in 1..(n + 1)
               PROVE a[i + 1] = BodyMsg(<<i>>, plan[i], FALSE, FALSE, i < Len(plan))
    OBVIOUS
  <2>1. CASE i = n + 1
    <3>1. i + 1 = n + 2
      BY <2>1
    <3> QED BY <1>1, <1>7, <2>1, <3>1
  <2>2. CASE i # n + 1
    <3>1. i \in 1..n /\ i + 1 \in 1..(n + 1)
      BY <2>2
    <3> QED BY <1>2, <1>7, <3>1
  <2> QED BY <2>1, <2>2
<1>10. a[1] = StartMsg(200, len, FALSE)
  <2>1. 1 \in 1..(n + 1)
    OBVIOUS
  <2> QED BY <1>3, <1>7, <2>1
<1>11. n + 2 = (n + 1) + 1
  OBVIOUS
<1>12. Passed(plan, a, n + 1)
  BY <1>7, <1>8, <1>9, <1>10, <1>11 DEF Passed
<1> QED BY <1>1, <1>5, <1>12

LEMMA OpenedStarts ==
  ASSUME NEW st \in Int
  PROVE  Opened(<<StartMsg(st, NoLength, TRUE)>>, <<>>, 0)
<1>1. PICK s : s = StartMsg(st, NoLength, TRUE)
  OBVIOUS
<1>2. NoLength \in Int
  BY DEF NoLength
<1>3. s \in Msg /\ s.parts = <<>> /\ s.kind = "start" /\ s.more /\ s.length = NoLength /\ s.coded = TRUE
  BY <1>1, <1>2, StartIsMsg DEF StartMsg
<1>4. <<s>> \in Seq(Msg) /\ Len(<<s>>) = 1 /\ <<s>>[1] = s /\ <<s>> = Append(<<>>, s) /\ <<>> \in Seq(Msg)
  BY <1>3
<1>5. PartsOf(Append(<<>>, s)) = PartsOf(<<>>) \o s.parts
  BY <1>3, <1>4, PartsGrow
<1>6. <<>> \o <<>> = <<>> /\ <<>> \in Seq(Nat)
  OBVIOUS
<1>7. PartsOf(<<s>>) = <<>> /\ Chunks(0) = <<>>
  BY <1>3, <1>4, <1>5, <1>6, PartsStart, ChunksGrow
<1>8. PICK x : x = <<s>>
  OBVIOUS
<1>9. x \in Seq(Msg) /\ Len(x) = 1 /\ x[1] = s /\ PartsOf(x) = <<>>
  BY <1>4, <1>7, <1>8
<1>10. \A i \in 1..1 : i = 1
  OBVIOUS
<1>11. Recodes(x)
  BY <1>3, <1>9, <1>10 DEF Recodes
<1>12. Opened(x, <<>>, 0)
  BY <1>3, <1>6, <1>7, <1>9, <1>11 DEF Opened
<1> QED BY <1>1, <1>8, <1>12

LEMMA OpenedTakes ==
  ASSUME NEW out, NEW held, NEW n, NEW k, Opened(out, held, n),
         NEW ps \in Seq(Nat), Chunks(n) \o ps = Chunks(k)
  PROVE  Opened(out, held \o ps, k)
<1>1. PICK j \in Seq(Nat) : j = PartsOf(out)
  BY DEF Opened
<1>2. held \in Seq(Nat) /\ j \o held = Chunks(n)
  BY <1>1 DEF Opened
<1>3. (j \o held) \o ps = j \o (held \o ps) /\ held \o ps \in Seq(Nat)
  <2>1. j \in Seq(Nat) /\ held \in Seq(Nat) /\ ps \in Seq(Nat)
    BY <1>2
  <2>2. (j \o held) \o ps = j \o (held \o ps)
    BY SMTT(40), <2>1, ConcatAssociative
  <2> QED BY <2>1, <2>2, ConcatProperties
<1>4. j \o (held \o ps) = Chunks(k)
  BY <1>2, <1>3
<1> QED BY <1>1, <1>3, <1>4 DEF Opened

(* A recoded body message behind an open beginning.                        *)
LEMMA RecodesGrows ==
  ASSUME NEW out, Recodes(out), out[Len(out)].more, NEW b \in Msg, b.kind = "body", b.coded
  PROVE  LET a == out \o <<b>>
         IN /\ Recodes(a) /\ Len(a) > 1 /\ a[Len(a)] = b
            /\ PartsOf(a) = PartsOf(out) \o b.parts
<1>3. PICK n \in Nat : n = Len(out)
  BY LenProperties DEF Recodes
<1>4. /\ out \in Seq(Msg) /\ n > 0 /\ out[1].length = NoLength
      /\ \A i \in 1..n : out[i].coded /\ (out[i].kind = "start" <=> i = 1)
      /\ \A i \in 1..n : i < n => out[i].more
  BY <1>3 DEF Recodes
<1>5. PICK a : a = out \o <<b>>
  OBVIOUS
<1>6. a = Append(out, b)
  BY <1>4, <1>5
<1>7. a \in Seq(Msg) /\ Len(a) = n + 1 /\ a[n + 1] = b /\ \A i \in 1..n : a[i] = out[i]
  BY <1>3, <1>4, <1>6, AppendProperties
<1>8. PartsOf(a) = PartsOf(out) \o b.parts
  BY <1>4, <1>6, PartsGrow
<1>9. \A i \in 1..(n + 1) : i \in 1..n \/ i = n + 1
  OBVIOUS
<1>10. 1 \in 1..n /\ n + 1 # 1 /\ n + 1 > 1 /\ \A i \in 1..n : i < n \/ i = n
  BY <1>4
<1>11. \A i \in 1..n : out[i].more
  BY <1>3, <1>4, <1>10
<1>12. Recodes(a)
  <2>1. \A i \in 1..(n + 1) : a[i].coded /\ (a[i].kind = "start" <=> i = 1)
    BY <1>4, <1>7, <1>9, <1>10
  <2>2. \A i \in 1..(n + 1) : i < n + 1 => a[i].more
    BY <1>7, <1>9, <1>11
  <2>3. a[1].length = NoLength
    BY <1>4, <1>7, <1>10
  <2> QED BY <1>7, <1>10, <2>1, <2>2, <2>3 DEF Recodes
<1>13. Recodes(a) /\ Len(a) > 1 /\ a[Len(a)] = b /\ PartsOf(a) = PartsOf(out) \o b.parts
  BY Zenon, <1>7, <1>8, <1>10, <1>12
<1> QED BY <1>5, <1>13

(* What the compressor makes of the messages it is given, turn by turn.    *)
OuterRec == [skip : BOOLEAN, made : BOOLEAN, status : Int, length : Int, held : Seq(Nat),
             heldLength : Int, fresh : BOOLEAN]
Treats(msgs, hold, n, f) ==
  f = [i \in 0..n |->
        IF i = 0 THEN [state |-> outer, out |-> <<>>]
        ELSE [state |-> Recoded(f[i - 1].state, msgs[i], request.type, hold).state,
              out |-> f[i - 1].out \o Recoded(f[i - 1].state, msgs[i], request.type, hold).out]]

LEMMA OutwardBy ==
  ASSUME NEW msgs, NEW hold, Outward(msgs, hold)
  PROVE  /\ ~Compresses(request) => output' = output \o msgs /\ outer' = outer
         /\ Compresses(request) =>
              LET final == (CHOOSE f : Treats(msgs, hold, Len(msgs), f))[Len(msgs)]
              IN output' = output \o final.out /\ outer' = final.state
  BY Zenon DEF Outward, Treats

LEMMA TreatsOne ==
  ASSUME NEW msgs, Len(msgs) = 1, NEW hold, Outward(msgs, hold), Compresses(request)
  PROVE  \E p : /\ p = Recoded(outer, msgs[1], request.type, hold)
               /\ output' = output \o (<<>> \o p.out) /\ outer' = p.state
<1> PICK m : m = msgs[1]
  OBVIOUS
<1> PICK p : p = Recoded(outer, m, request.type, hold)
  OBVIOUS
<1> DEFINE zero == [state |-> outer, out |-> <<>>]
           Next1(b, x) == [state |-> Recoded(b.state, x, request.type, hold).state,
                           out |-> b.out \o Recoded(b.state, x, request.type, hold).out]
<1>1. PICK g : g = CHOOSE f : Treats(msgs, hold, 1, f)
  OBVIOUS
<1>2. output' = output \o g[1].out /\ outer' = g[1].state
  BY <1>1, OutwardBy
<1>3. PICK one : one = Next1(zero, m)
  OBVIOUS
<1> DEFINE w == [i \in 0..1 |-> IF i = 0 THEN zero ELSE one]
<1>4. w[0] = zero /\ w[1] = one /\ msgs[1] = m /\ \A i \in 0..1 : i = 0 \/ i = 1
  OBVIOUS
<1>5. w = [i \in 0..1 |-> w[i]]
  OBVIOUS
<1> HIDE DEF w, zero, Next1
<1>6. \A i \in 0..1 : w[i] = IF i = 0 THEN zero ELSE Next1(w[i - 1], msgs[i])
  BY <1>3, <1>4
<1>7. w = [i \in 0..1 |-> IF i = 0 THEN zero ELSE Next1(w[i - 1], msgs[i])]
  BY <1>5, <1>6
<1>8. Treats(msgs, hold, 1, w)
  BY <1>7 DEF Treats, zero, Next1
<1>9. Treats(msgs, hold, 1, g)
  BY <1>1, <1>8
<1>10. g = [i \in 0..1 |-> IF i = 0 THEN zero ELSE Next1(g[i - 1], msgs[i])]
  BY <1>9 DEF Treats, zero, Next1
<1>11. g[0] = zero /\ g[1] = Next1(g[0], msgs[1])
  BY <1>10
<1>12. g[1] = Next1(zero, m)
  BY <1>4, <1>11
<1>13. zero.state = outer /\ zero.out = <<>>
  BY DEF zero
<1>14. Next1(zero, m) = [state |-> p.state, out |-> <<>> \o p.out]
  BY <1>13 DEF Next1
<1>15. g[1].state = p.state /\ g[1].out = <<>> \o p.out
  BY <1>12, <1>14
<1>16. output' = output \o (<<>> \o p.out) /\ outer' = p.state
  BY Zenon, <1>2, <1>15
<1> QED BY <1>16

LEMMA TreatsTwo ==
  ASSUME NEW msgs, Len(msgs) = 2, NEW hold, Outward(msgs, hold), Compresses(request)
  PROVE  \E p, q : /\ p = Recoded(outer, msgs[1], request.type, hold)
                  /\ q = Recoded(p.state, msgs[2], request.type, hold)
                  /\ output' = output \o ((<<>> \o p.out) \o q.out) /\ outer' = q.state
<1> PICK m, o : m = msgs[1] /\ o = msgs[2]
  OBVIOUS
<1> PICK p : p = Recoded(outer, m, request.type, hold)
  OBVIOUS
<1> PICK q : q = Recoded(p.state, o, request.type, hold)
  OBVIOUS
<1> DEFINE zero == [state |-> outer, out |-> <<>>]
           Next1(b, x) == [state |-> Recoded(b.state, x, request.type, hold).state,
                           out |-> b.out \o Recoded(b.state, x, request.type, hold).out]
<1>1. PICK g : g = CHOOSE f : Treats(msgs, hold, 2, f)
  OBVIOUS
<1>2. output' = output \o g[2].out /\ outer' = g[2].state
  BY <1>1, OutwardBy
<1>3. PICK one : one = Next1(zero, m)
  OBVIOUS
<1>15. PICK two : two = Next1(one, o)
  OBVIOUS
<1> DEFINE w == [i \in 0..2 |-> IF i = 0 THEN zero ELSE IF i = 1 THEN one ELSE two]
<1>4. /\ w[0] = zero /\ w[1] = one /\ w[2] = two /\ msgs[1] = m /\ msgs[2] = o
      /\ \A i \in 0..2 : i = 0 \/ i = 1 \/ i = 2
  OBVIOUS
<1>5. w = [i \in 0..2 |-> w[i]]
  OBVIOUS
<1> HIDE DEF w, zero, Next1
<1>6. \A i \in 0..2 : w[i] = IF i = 0 THEN zero ELSE Next1(w[i - 1], msgs[i])
  BY <1>3, <1>4, <1>15
<1>7. w = [i \in 0..2 |-> IF i = 0 THEN zero ELSE Next1(w[i - 1], msgs[i])]
  BY <1>5, <1>6
<1>8. Treats(msgs, hold, 2, w)
  BY <1>7 DEF Treats, zero, Next1
<1>9. Treats(msgs, hold, 2, g)
  BY <1>1, <1>8
<1>10. g = [i \in 0..2 |-> IF i = 0 THEN zero ELSE Next1(g[i - 1], msgs[i])]
  BY <1>9 DEF Treats, zero, Next1
<1>11. g[0] = zero /\ g[1] = Next1(g[0], msgs[1]) /\ g[2] = Next1(g[1], msgs[2])
  BY <1>10
<1>12. g[1] = Next1(zero, m) /\ g[2] = Next1(g[1], o)
  BY <1>4, <1>11
<1>13. zero.state = outer /\ zero.out = <<>>
  BY DEF zero
<1>14. Next1(zero, m) = [state |-> p.state, out |-> <<>> \o p.out]
  BY <1>13 DEF Next1
<1>16. g[1].state = p.state /\ g[1].out = <<>> \o p.out
  BY <1>12, <1>14
<1>17. Next1(g[1], o) = [state |-> q.state, out |-> (<<>> \o p.out) \o q.out]
  BY <1>16 DEF Next1
<1>18. g[2].state = q.state /\ g[2].out = (<<>> \o p.out) \o q.out
  <2>1. PICK u, v : u = (<<>> \o p.out) \o q.out /\ v = q.state
    OBVIOUS
  <2>2. Next1(g[1], o) = [state |-> v, out |-> u]
    BY <1>17, <2>1
  <2>3. g[2] = [state |-> v, out |-> u]
    BY <1>12, <2>2
  <2>4. g[2].state = v /\ g[2].out = u
    BY <2>3
  <2> QED BY Zenon, <2>1, <2>4
<1>19. output' = output \o ((<<>> \o p.out) \o q.out) /\ outer' = q.state
  BY Zenon, <1>2, <1>18
<1> QED BY <1>19

LEMMA RecodedIs ==
  ASSUME NEW o, NEW m, NEW type, NEW hold, NEW p, p = Recoded(o, m, type, hold)
  PROVE  /\ m.kind = "start" /\ type = "binary" =>
              p = [state |-> [o EXCEPT !.skip = TRUE], out |-> <<m>>]
         /\ m.kind = "start" /\ type # "binary" =>
              p = [state |-> [o EXCEPT !.status = m.status, !.length = m.length], out |-> <<>>]
         /\ m.kind = "body" /\ o.skip => p = [state |-> o, out |-> <<m>>]
         /\ m.kind = "body" /\ ~o.skip /\ ~o.made /\ ~m.more /\ m.length < MinSize =>
              p = [state |-> [o EXCEPT !.skip = TRUE],
                   out |-> <<StartMsg(o.status, o.length, FALSE), m>>]
         /\ m.kind = "body" /\ ~o.skip /\ ~(~o.made /\ ~m.more /\ m.length < MinSize) =>
              LET opening == IF o.made THEN <<>> ELSE <<StartMsg(o.status, NoLength, TRUE)>>
                  ps      == o.held \o m.parts
                  length  == o.heldLength + m.length
                  keeps   == hold \/ m.length = 0
                  chunk   == IF keeps THEN <<>>
                             ELSE <<BodyMsg(ps, length, m.fresh, TRUE, TRUE)>>
                  rest    == IF keeps THEN ps ELSE <<>>
                  left    == IF keeps THEN length ELSE 0
                  tail    == IF m.more THEN <<>>
                             ELSE <<BodyMsg(rest, left, m.fresh, TRUE, FALSE)>>
              IN p = [state |-> [o EXCEPT !.made = TRUE, !.fresh = m.fresh,
                                          !.held = IF m.more THEN rest ELSE <<>>,
                                          !.heldLength = IF m.more THEN left ELSE 0],
                      out |-> opening \o chunk \o tail]
<1>1. "start" # "body"
  OBVIOUS
<1> QED BY Zenon, <1>1 DEF Recoded

(* The cases of Recoded that leave the message as it is.                   *)
Skipped(o)            == [o EXCEPT !.skip = TRUE]
StartKept(o, st, len) == [o EXCEPT !.status = st, !.length = len]
LEMMA RecodedApart ==
  ASSUME NEW o, NEW m, NEW type, NEW hold, m.kind = "start", type = "binary"
  PROVE  /\ Recoded(o, m, type, hold).state = Skipped(o)
         /\ Recoded(o, m, type, hold).out = <<m>>
<1>1. PICK p : p = Recoded(o, m, type, hold)
  OBVIOUS
<1>2. PICK x, y : x = Skipped(o) /\ y = <<m>>
  OBVIOUS
<1>3. p = [state |-> x, out |-> y]
  BY Zenon, <1>1, <1>2, RecodedIs DEF Skipped
<1>4. p.state = x /\ p.out = y
  BY <1>3
<1> QED BY Zenon, <1>1, <1>2, <1>4

LEMMA RecodedStart ==
  ASSUME NEW o, NEW m, NEW type, NEW hold, m.kind = "start", type = "text"
  PROVE  /\ Recoded(o, m, type, hold).state = StartKept(o, m.status, m.length)
         /\ Recoded(o, m, type, hold).out = <<>>
<1>1. PICK p : p = Recoded(o, m, type, hold)
  OBVIOUS
<1>2. PICK x, y : x = StartKept(o, m.status, m.length) /\ y = <<>>
  OBVIOUS
<1>3. p = [state |-> x, out |-> y]
  <2>1. type # "binary"
    OBVIOUS
  <2> QED BY Zenon, <1>1, <1>2, <2>1, RecodedIs DEF StartKept
<1>4. p.state = x /\ p.out = y
  BY <1>3
<1> QED BY Zenon, <1>1, <1>2, <1>4

LEMMA RecodedSkips ==
  ASSUME NEW o, NEW m, NEW type, NEW hold, m.kind = "body", o.skip
  PROVE  /\ Recoded(o, m, type, hold).state = o
         /\ Recoded(o, m, type, hold).out = <<m>>
<1>1. PICK p : p = Recoded(o, m, type, hold)
  OBVIOUS
<1>2. PICK x, y : x = o /\ y = <<m>>
  OBVIOUS
<1>3. p = [state |-> x, out |-> y]
  BY Zenon, <1>1, <1>2, RecodedIs
<1>4. p.state = x /\ p.out = y
  BY <1>3
<1> QED BY Zenon, <1>1, <1>2, <1>4

LEMMA RecodedShort ==
  ASSUME NEW o, NEW m, NEW type, NEW hold, m.kind = "body", o.skip = FALSE, o.made = FALSE,
         m.more = FALSE, m.length < MinSize
  PROVE  /\ Recoded(o, m, type, hold).state = Skipped(o)
         /\ Recoded(o, m, type, hold).out = <<StartMsg(o.status, o.length, FALSE), m>>
<1>1. PICK p : p = Recoded(o, m, type, hold)
  OBVIOUS
<1>2. PICK x, y : x = Skipped(o) /\ y = <<StartMsg(o.status, o.length, FALSE), m>>
  OBVIOUS
<1>3. p = [state |-> x, out |-> y]
  BY Zenon, <1>1, <1>2, RecodedIs DEF Skipped
<1>4. p.state = x /\ p.out = y
  BY <1>3
<1> QED BY Zenon, <1>1, <1>2, <1>4

(* A body message that is recoded, behind an open beginning or the start   *)
(* that was held for it.                                                   *)
Recodable(o, m, out, n, k) ==
  /\ o \in OuterRec /\ ~o.skip /\ m \in Msg /\ m.kind = "body"
  /\ ~(~o.made /\ ~m.more /\ m.length < MinSize)
  /\ k \in Nat /\ k <= Len(plan) /\ (m.more <=> k < Len(plan))
  /\ Chunks(n) \o m.parts = Chunks(k)
  /\ o.made => Opened(out, o.held, n)
  /\ ~o.made => out = <<>> /\ o.held = <<>> /\ n = 0
WasRecoded(p, out, k) ==
  /\ p.state \in OuterRec /\ p.state.made /\ ~p.state.skip /\ p.out \in Seq(Msg)
  /\ IF k < Len(plan) THEN Opened(out \o p.out, p.state.held, k) ELSE Closed(plan, out \o p.out)

LEMMA RecodedBody ==
  ASSUME PlanTyped, NEW o, NEW m, NEW out, NEW n, NEW k, Recodable(o, m, out, n, k),
         NEW type, NEW hold \in BOOLEAN
  PROVE  WasRecoded(Recoded(o, m, type, hold), out, k)
<1> PICK p : p = Recoded(o, m, type, hold)
  OBVIOUS
<1> /\ o \in OuterRec /\ ~o.skip /\ m \in Msg /\ m.kind = "body"
    /\ ~(~o.made /\ ~m.more /\ m.length < MinSize)
    /\ k \in Nat /\ k <= Len(plan) /\ (m.more <=> k < Len(plan))
    /\ Chunks(n) \o m.parts = Chunks(k)
    /\ o.made => Opened(out, o.held, n)
    /\ ~o.made => out = <<>> /\ o.held = <<>> /\ n = 0
  BY DEF Recodable
<1> DEFINE opening == IF o.made THEN <<>> ELSE <<StartMsg(o.status, NoLength, TRUE)>>
           ps == o.held \o m.parts
           length == o.heldLength + m.length
           keeps == hold \/ m.length = 0
           chunk == IF keeps THEN <<>> ELSE <<BodyMsg(ps, length, m.fresh, TRUE, TRUE)>>
           rest == IF keeps THEN ps ELSE <<>>
           left == IF keeps THEN length ELSE 0
           tail == IF m.more THEN <<>> ELSE <<BodyMsg(rest, left, m.fresh, TRUE, FALSE)>>
           keep == IF m.more THEN rest ELSE <<>>
           stays == IF m.more THEN left ELSE 0
<1>11. p = [state |-> [o EXCEPT !.made = TRUE, !.fresh = m.fresh, !.held = keep, !.heldLength = stays],
            out |-> opening \o chunk \o tail]
  BY Zenon, RecodedIs
<1>3. length \in Int /\ left \in Int /\ stays \in Int
  BY DEF OuterRec, Msg
<1> HIDE DEF opening, ps, length, keeps, chunk, rest, left, tail, keep, stays
<1>12. /\ o.held \in Seq(Nat) /\ m.parts \in Seq(Nat) /\ m.fresh \in BOOLEAN /\ m.more \in BOOLEAN
       /\ o.status \in Int
  BY DEF OuterRec, Msg
<1>13. ps \in Seq(Nat) /\ rest \in Seq(Nat) /\ keep \in Seq(Nat)
  <2>1. ps \in Seq(Nat)
    BY <1>12, ConcatProperties DEF ps
  <2>2. rest \in Seq(Nat)
    BY <2>1 DEF rest
  <2> QED BY <2>1, <2>2 DEF keep
<1>14. opening \in Seq(Msg) /\ chunk \in Seq(Msg) /\ tail \in Seq(Msg)
  <2>1. StartMsg(o.status, NoLength, TRUE) \in Msg
    <3>1. NoLength \in Int
      BY DEF NoLength
    <3> QED BY <1>12, <3>1, StartIsMsg
  <2>2. BodyMsg(ps, length, m.fresh, TRUE, TRUE) \in Msg
    BY <1>3, <1>12, <1>13, BodyIsMsg
  <2>3. BodyMsg(rest, left, m.fresh, TRUE, FALSE) \in Msg
    BY <1>3, <1>12, <1>13, BodyIsMsg
  <2>7. <<>> \in Seq(Msg) /\ \A x \in Msg : <<x>> \in Seq(Msg)
    OBVIOUS
  <2>4. opening \in Seq(Msg)
    BY Zenon, <2>1, <2>7 DEF opening
  <2>5. chunk \in Seq(Msg)
    BY Zenon, <2>2, <2>7 DEF chunk
  <2>6. tail \in Seq(Msg)
    BY Zenon, <2>3, <2>7 DEF tail
  <2> QED BY <2>4, <2>5, <2>6
<1>15. PICK base : base = out \o opening
  OBVIOUS
<1>16. Opened(base, o.held, n) /\ out \in Seq(Msg)
  <2>1. CASE o.made
    <3>1. Opened(out, o.held, n) /\ out \in Seq(Msg) /\ opening = <<>>
      BY <2>1 DEF Opened, Recodes, opening
    <3>2. base = out
      BY <1>15, <3>1
    <3> QED BY <3>1, <3>2
  <2>2. CASE ~o.made
    <3>1. opening = <<StartMsg(o.status, NoLength, TRUE)>> /\ out = <<>> /\ o.held = <<>> /\ n = 0
      BY <2>2 DEF opening
    <3>2. base = opening
      BY <1>14, <1>15, <3>1
    <3>3. Opened(opening, <<>>, 0)
      BY <1>12, <3>1, OpenedStarts
    <3> QED BY <3>1, <3>2, <3>3
  <2> QED BY <2>1, <2>2
<1>17. Opened(base, ps, k)
  BY <1>12, <1>16, OpenedTakes DEF ps
<1>18. PICK mid : mid = base \o chunk
  OBVIOUS
<1>19. Opened(mid, rest, k)
  <2>1. CASE keeps
    <3>1. chunk = <<>> /\ rest = ps /\ base \in Seq(Msg)
      BY <1>17, <2>1 DEF Opened, Recodes, chunk, rest
    <3>2. mid = base
      BY <1>18, <3>1
    <3> QED BY <1>17, <3>1, <3>2
  <2>2. CASE ~keeps
    <3>1. mid = base \o <<BodyMsg(ps, length, m.fresh, TRUE, TRUE)>> /\ rest = <<>>
      BY <1>18, <2>2 DEF chunk, rest
    <3>2. Recodes(base) /\ base[Len(base)].more
      BY <1>17 DEF Opened
    <3>3. Recodes(mid) /\ mid[Len(mid)].more = TRUE /\ PartsOf(mid) = PartsOf(base) \o ps
      <4>1. PICK b : b = BodyMsg(ps, length, m.fresh, TRUE, TRUE)
        OBVIOUS
      <4>2. b \in Msg
        BY <1>3, <1>12, <1>13, <4>1, BodyIsMsg
      <4>3. b.kind = "body" /\ b.coded = TRUE /\ b.more = TRUE /\ b.parts = ps
        BY <4>1 DEF BodyMsg
      <4>4. LET a == base \o <<b>>
            IN /\ Recodes(a) /\ Len(a) > 1 /\ a[Len(a)] = b
               /\ PartsOf(a) = PartsOf(base) \o b.parts
        BY <3>2, <4>2, <4>3, RecodesGrows
      <4>5. mid = base \o <<b>>
        BY <3>1, <4>1
      <4> QED BY <4>3, <4>4, <4>5
    <3>4. PICK c \in Seq(Nat) : c = Chunks(k)
      BY ChunksGrow
    <3>5. PartsOf(mid) = c
      BY <1>17, <3>3, <3>4 DEF Opened
    <3>6. c \o <<>> = c /\ <<>> \in Seq(Nat)
      OBVIOUS
    <3> QED BY <3>1, <3>3, <3>4, <3>5, <3>6 DEF Opened
  <2> QED BY <2>1, <2>2
<1>20. PICK end : end = mid \o tail
  OBVIOUS
<1>21. IF k < Len(plan) THEN Opened(end, keep, k) ELSE Closed(plan, end)
  <2>1. CASE k < Len(plan)
    <3>1. tail = <<>> /\ keep = rest /\ mid \in Seq(Msg)
      BY <1>19, <2>1 DEF Opened, Recodes, tail, keep
    <3>2. end = mid
      BY <1>20, <3>1
    <3> QED BY <1>19, <2>1, <3>1, <3>2
  <2>2. CASE ~(k < Len(plan))
    <3>1. k = Len(plan)
      <4>1. PICK N \in Nat : N = Len(plan)
        BY DEF PlanTyped
      <4>2. k \in Nat /\ k <= N /\ ~(k < N)
        BY <2>2, <4>1
      <4>3. k = N
        BY <4>2
      <4> QED BY Zenon, <4>1, <4>3
    <3>2. end = mid \o <<BodyMsg(rest, left, m.fresh, TRUE, FALSE)>>
      BY <1>20, <2>2 DEF tail
    <3>3. Recodes(mid) /\ mid[Len(mid)].more
      BY <1>19 DEF Opened
    <3>4. Recodes(end) /\ Len(end) > 1 /\ end[Len(end)].more = FALSE /\ PartsOf(end) = PartsOf(mid) \o rest
      <4>1. PICK b : b = BodyMsg(rest, left, m.fresh, TRUE, FALSE)
        OBVIOUS
      <4>2. b \in Msg
        BY <1>3, <1>12, <1>13, <4>1, BodyIsMsg
      <4>3. b.kind = "body" /\ b.coded = TRUE /\ b.more = FALSE /\ b.parts = rest
        BY <4>1 DEF BodyMsg
      <4>4. LET a == mid \o <<b>>
            IN /\ Recodes(a) /\ Len(a) > 1 /\ a[Len(a)] = b
               /\ PartsOf(a) = PartsOf(mid) \o b.parts
        BY <3>3, <4>2, <4>3, RecodesGrows
      <4>5. end = mid \o <<b>>
        BY <3>2, <4>1
      <4> QED BY <4>3, <4>4, <4>5
    <3>5. PartsOf(end) = Chunks(Len(plan))
      BY <1>19, <3>1, <3>4 DEF Opened
    <3> QED BY <2>2, <3>4, <3>5 DEF Closed
  <2> QED BY <2>1, <2>2
<1>22. end = out \o (opening \o chunk \o tail) /\ opening \o chunk \o tail \in Seq(Msg)
  <2>1. (out \o opening) \o chunk = out \o (opening \o chunk)
    BY SMTT(40), <1>14, <1>16, ConcatAssociative
  <2>2. opening \o chunk \in Seq(Msg)
    BY <1>14, ConcatProperties
  <2>3. (out \o (opening \o chunk)) \o tail = out \o ((opening \o chunk) \o tail)
    <3>1. PICK y \in Seq(Msg) : y = opening \o chunk
      BY <2>2
    <3>2. (out \o y) \o tail = out \o (y \o tail)
      <4>1. out \in Seq(Msg) /\ y \in Seq(Msg) /\ tail \in Seq(Msg)
        BY <1>14, <1>16, <3>1
      <4> QED BY SMTT(40), <4>1, ConcatAssociative
    <3> QED BY <3>1, <3>2
  <2>4. (opening \o chunk) \o tail \in Seq(Msg)
    BY <1>14, <2>2, ConcatProperties
  <2> QED BY <1>15, <1>18, <1>20, <2>1, <2>3, <2>4
<1>23. PICK w : w = opening \o chunk \o tail
  OBVIOUS
<1>24. PICK s : s = [o EXCEPT !.made = TRUE, !.fresh = m.fresh, !.held = keep, !.heldLength = stays]
  OBVIOUS
<1>25. s \in OuterRec /\ s.made /\ ~s.skip /\ s.held = keep
  <2>1. o \in OuterRec /\ m.fresh \in BOOLEAN /\ keep \in Seq(Nat) /\ stays \in Int /\ ~o.skip
    BY <1>3, <1>12, <1>13
  <2>2. s \in OuterRec
    BY <1>24, <2>1 DEF OuterRec
  <2> QED BY <1>24, <2>1 DEF OuterRec
<1>26. p = [state |-> s, out |-> w]
  BY Zenon, <1>11, <1>23, <1>24
<1>27. p.state = s /\ p.out = w
  BY <1>26
<1>28. end = out \o w /\ w \in Seq(Msg)
  BY <1>22, <1>23
<1>29. WasRecoded(p, out, k)
  BY <1>21, <1>25, <1>27, <1>28 DEF WasRecoded
<1> QED BY Zenon, <1>29

(* Where a response is: held in the collector or the interceptor and then  *)
(* let go as one body, or on its way through piece by piece.               *)
Sent == IF emitted = 0 THEN 0 ELSE emitted - 1
InnerRec == [status : {0, 200, 404}, length : Int, chunks : Seq(1..Len(plan)), total : Nat]

ResponseTyped ==
  /\ PlanTyped /\ emitted \in Nat /\ emitted <= Len(plan) + 1
  /\ inner \in InnerRec /\ inner.total <= 2 * Sent
  /\ outer \in OuterRec /\ output \in Seq(Msg)

Held ==
  /\ emitted <= Len(plan) /\ output = <<>> /\ outer = Unused
  /\ inner.chunks = Chunks(Sent) /\ inner.length \in {NoLength, SumOf(plan)}
  /\ Collects(request) => inner.total = SumOf(SubSeq(plan, 1, Sent))

LetGo == emitted = Len(plan) + 1 /\ (Paired(plan, output) \/ Closed(plan, output))

StartHeld ==
  /\ emitted = 1 /\ output = <<>>
  /\ \E len \in {NoLength, SumOf(plan)} :
       outer = [skip |-> FALSE, made |-> FALSE, status |-> 200, length |-> len,
                held |-> <<>>, heldLength |-> 0, fresh |-> FALSE]

Recoding ==
  /\ emitted > 1 /\ ~outer.skip /\ outer.made
  /\ IF emitted <= Len(plan) THEN Opened(output, outer.held, emitted - 1)
     ELSE Closed(plan, output)

Passing ==
  \/ emitted = 0 /\ output = <<>> /\ outer = Unused
  \/ emitted > 0 /\ (Compresses(request) => outer.skip) /\ Passed(plan, output, emitted - 1)
  \/ Compresses(request) /\ (StartHeld \/ Recoding)

Holds == Collects(request) \/ Intercepts(request)
ResponseInv ==
  /\ ResponseTyped
  /\ Holds => Held \/ LetGo \/ (Collects(request) /\ OverCap)
  /\ ~Holds => Passing

LEMMA ResponseIsKept == ResponseInv => ResponseKept
<1> SUFFICES ASSUME ResponseInv, ~(Collects(request) /\ OverCap)
             PROVE WellFormed /\ (Complete => Faithful)
  BY DEF ResponseKept
<1>1. PICK N \in Nat \ {0} : N = Len(plan)
  BY Zenon DEF ResponseInv, ResponseTyped, PlanTyped
<1>2. PlanTyped /\ emitted \in Nat /\ emitted <= N + 1
  BY <1>1 DEF ResponseInv, ResponseTyped
<1>3. ASSUME output = <<>>, emitted <= N PROVE WellFormed /\ (Complete => Faithful)
  <2>1. Len(output) = 0
    BY <1>3
  <2>2. 1..0 = {}
    OBVIOUS
  <2>3. ~Complete
    BY <1>1, <1>2, <1>3 DEF Complete
  <2> QED BY <2>1, <2>2, <2>3 DEF WellFormed
<1>4. ASSUME ShapeKept(emitted - 1) PROVE WellFormed /\ (Complete => Faithful)
  <2>1. Complete => emitted - 1 = Len(plan)
    BY <1>1, <1>2 DEF Complete
  <2> QED BY <1>4, <2>1 DEF ShapeKept
<1>5. CASE Holds
  <2>1. Held \/ LetGo
    BY <1>5 DEF ResponseInv
  <2>2. CASE Held
    BY <1>1, <1>3, <2>2 DEF Held
  <2>3. CASE LetGo
    <3>1. CASE Paired(plan, output)
      BY <1>2, <1>4, <3>1, PairedIsKept
    <3>2. CASE Closed(plan, output)
      BY <1>4, <3>2, ClosedIsKept
    <3> QED BY <2>3, <3>1, <3>2 DEF LetGo
  <2> QED BY <2>1, <2>2, <2>3
<1>6. CASE ~Holds
  <2>1. Passing
    BY <1>6 DEF ResponseInv
  <2>2. CASE emitted = 0 /\ output = <<>>
    BY <1>1, <1>3, <2>2
  <2>3. CASE emitted > 0 /\ Passed(plan, output, emitted - 1)
    <3>1. PICK n \in Nat : n = emitted - 1
      BY <1>2, <2>3
    <3>2. n <= Len(plan) /\ Passed(plan, output, n)
      BY <1>1, <1>2, <2>3, <3>1
    <3>3. ShapeKept(n)
      BY <1>2, <3>2, PassedIsKept
    <3> QED BY <1>4, <3>1, <3>3
  <2>4. CASE StartHeld
    <3>1. output = <<>> /\ emitted <= N
      BY <2>4 DEF StartHeld
    <3> QED BY <1>3, <3>1
  <2>5. CASE Recoding
    <3>1. PICK n \in Nat : n = emitted - 1
      BY <1>2, <2>5 DEF Recoding
    <3>2. CASE emitted <= Len(plan)
      <4>1. n < Len(plan) /\ Opened(output, outer.held, n)
        BY <1>1, <1>2, <2>5, <3>1, <3>2 DEF Recoding
      <4>2. ShapeKept(n)
        BY <4>1, OpenedIsKept
      <4> QED BY <1>4, <3>1, <4>2
    <3>3. CASE ~(emitted <= Len(plan))
      <4>1. Closed(plan, output)
        BY <2>5, <3>3 DEF Recoding
      <4> QED BY <1>4, <4>1, ClosedIsKept
    <3> QED BY <3>2, <3>3
  <2> QED BY <2>1, <2>2, <2>3, <2>4, <2>5 DEF Passing
<1> QED BY <1>5, <1>6

LEMMA ResponseIsTyped == ResponseInv => ResponseTypeOK
<1> SUFFICES ASSUME ResponseInv PROVE ResponseTypeOK
  OBVIOUS
<1>1. PICK N \in Nat \ {0} : N = Len(plan)
  BY DEF ResponseInv, ResponseTyped, PlanTyped
<1>2. /\ emitted \in Nat /\ emitted <= N + 1 /\ request \in Requests /\ N <= MaxChunks
      /\ inner \in InnerRec /\ inner.total <= 2 * Sent /\ outer \in OuterRec /\ output \in Seq(Msg)
  BY <1>1 DEF ResponseInv, ResponseTyped, PlanTyped
<1>3. MaxChunks \in Nat
  BY ResponseAssumption
<1>4. inner.status \in {0, 200, 404} /\ inner.total \in Nat
  BY <1>2 DEF InnerRec
<1>5. Sent \in Nat /\ Sent <= N
  BY <1>2 DEF Sent
<1>6. inner.total \in 0..(2 * MaxChunks)
  <2>1. \A t, x, n, c \in Nat : t <= 2 * x /\ x <= n /\ n <= c => t \in 0..(2 * c)
    OBVIOUS
  <2> QED BY <1>2, <1>3, <1>4, <1>5, <2>1
<1>7. emitted \in 0..(MaxChunks + 1)
  BY <1>2, <1>3
<1>8. outer.skip \in BOOLEAN /\ outer.made \in BOOLEAN
  BY <1>2 DEF OuterRec
<1>9. \A i \in 1..Len(output) : output[i].kind \in {"start", "body"}
  <2>1. \A i \in 1..Len(output) : output[i] \in Msg
    BY <1>2, ElementOfSeq
  <2> QED BY <2>1 DEF Msg
<1> QED BY Zenon, <1>2, <1>4, <1>6, <1>7, <1>8, <1>9 DEF ResponseTypeOK

LEMMA ResponseStarts == ResponseInit => ResponseInv
<1> SUFFICES ASSUME ResponseInit PROVE ResponseInv
  OBVIOUS
<1>1. PICK n \in 1..MaxChunks : plan \in [1..n -> 0..2]
  BY DEF ResponseInit
<1>2. n \in Nat \ {0} /\ n <= MaxChunks
  BY ResponseAssumption
<1>3. Len(plan) = n /\ plan \in Seq(0..2)
  BY <1>1, <1>2
<1>4. /\ request \in Requests /\ emitted = 0 /\ inner = Idle /\ outer = Unused /\ output = <<>>
  BY DEF ResponseInit
<1>5. PlanTyped
  BY <1>1, <1>2, <1>3, <1>4 DEF PlanTyped
<1>6. NoLength \in Int /\ <<>> \in Seq(Nat) /\ <<>> \in Seq(Msg) /\ \A S : <<>> \in Seq(S)
  BY DEF NoLength
<1>7. inner \in InnerRec /\ inner.total = 0 /\ inner.chunks = <<>> /\ inner.length = NoLength
  BY <1>4, <1>6 DEF InnerRec, Idle
<1>8. outer \in OuterRec
  BY <1>4, <1>6 DEF OuterRec, Unused
<1>9. Sent = 0 /\ Chunks(0) = <<>>
  BY <1>4, ChunksGrow DEF Sent
<1>10. ResponseTyped
  BY <1>2, <1>3, <1>4, <1>5, <1>6, <1>7, <1>8, <1>9 DEF ResponseTyped
<1>11. SumOf(SubSeq(plan, 1, 0)) = 0
  <2>1. PICK f : Running(plan, n, f)
    BY <1>3, <1>5, PlanSums
  <2>2. 0 \in 0..n
    BY <1>2
  <2> QED BY <2>1, <2>2 DEF Running
<1>12. Held
  BY <1>2, <1>3, <1>4, <1>7, <1>9, <1>11 DEF Held
<1>13. Passing
  BY <1>4 DEF Passing
<1> QED BY <1>10, <1>12, <1>13 DEF ResponseInv

(* Two messages at once: a held body that is let go.                       *)
LEMMA TwoMessages == \A x, y \in Msg : <<x>> \o <<y>> = <<x, y>> /\ <<x>> \in Seq(Msg)
<1> TAKE x \in Msg, y \in Msg
<1>1. PICK a : a = <<x>> \o <<y>>
  OBVIOUS
<1>2. a \in Seq(Msg) /\ Len(a) = 2 /\ a[1] = x /\ a[2] = y
  BY <1>1
<1>3. PICK z : z = <<x, y>>
  OBVIOUS
<1>4. z \in Seq(Msg) /\ Len(z) = 2 /\ z[1] = x /\ z[2] = y
  BY <1>3
<1>5. \A i \in 1..2 : i = 1 \/ i = 2
  OBVIOUS
<1>6. \A i \in 1..Len(a) : a[i] = z[i]
  BY <1>2, <1>4, <1>5
<1>7. a = z
  BY <1>2, <1>4, <1>6, SeqEqual
<1>8. <<x>> \in Seq(Msg)
  OBVIOUS
<1> QED BY <1>1, <1>3, <1>7, <1>8

LEMMA LetGoTwo ==
  ASSUME PlanTyped, output = <<>>, outer = Unused,
         NEW st \in Int, NEW len \in Int, NEW body \in Nat, NEW fresh \in BOOLEAN,
         len \in {NoLength, body}, NEW hold \in BOOLEAN,
         Outward(<<StartMsg(st, len, FALSE),
                   BodyMsg(Chunks(Len(plan)), body, fresh, FALSE, FALSE)>>, hold)
  PROVE  /\ Paired(plan, output') \/ Closed(plan, output')
         /\ output' \in Seq(Msg) /\ outer' \in OuterRec
<1>1. PICK s : s = StartMsg(st, len, FALSE)
  OBVIOUS
<1>2. PICK N \in Nat \ {0} : N = Len(plan)
  BY DEF PlanTyped
<1>3. PICK c \in Seq(Nat) : c = Chunks(N)
  BY <1>2, ChunksGrow
<1>4. PICK b : b = BodyMsg(c, body, fresh, FALSE, FALSE)
  OBVIOUS
<1>5. s \in Msg /\ b \in Msg
  <2>1. body \in Int
    OBVIOUS
  <2> QED BY <1>1, <1>4, <2>1, StartIsMsg, BodyIsMsg
<1>6. s.kind = "start" /\ s.status = st /\ s.length = len
  BY <1>1 DEF StartMsg
<1>7. b.kind = "body" /\ b.more = FALSE /\ b.parts = c /\ b.length = body
  BY <1>4 DEF BodyMsg
<1>8. Outward(<<s, b>>, hold)
  BY <1>1, <1>2, <1>3, <1>4
<1>9. \A x : x = <<s, b>> => Paired(plan, x) /\ x \in Seq(Msg)
  <2>1. Paired(plan, <<s, b>>)
    BY <1>1, <1>2, <1>3, <1>4 DEF Paired
  <2>2. <<s, b>> \in Seq(Msg)
    BY <1>5
  <2> QED BY <2>1, <2>2
<1>10. /\ <<>> \o <<s, b>> = <<s, b>> /\ <<>> \o <<>> = <<>> /\ <<>> \o <<s>> = <<s>>
       /\ <<s>> \o <<b>> = <<s, b>>
  <2>1. <<>> \o <<>> = <<>>
    OBVIOUS
  <2>2. \A x, y \in Msg : <<>> \o <<x, y>> = <<x, y>>
    OBVIOUS
  <2>3. \A x \in Msg : <<>> \o <<x>> = <<x>>
    OBVIOUS
  <2> QED BY Zenon, <1>5, <2>1, <2>2, <2>3, TwoMessages
<1>11. NoLength \in Int /\ outer \in OuterRec /\ outer.skip = FALSE /\ outer.made = FALSE /\ outer.held = <<>>
  BY DEF NoLength, OuterRec, Unused
<1>12. CASE ~Compresses(request)
  <2>1. output' = output \o <<s, b>> /\ outer' = outer
    BY <1>8, <1>12, OutwardBy
  <2>2. output' = <<s, b>>
    BY <1>10, <2>1
  <2> QED BY <1>9, <1>11, <2>1, <2>2
<1>13. CASE Compresses(request)
  <2>10. PICK p, q : /\ p = Recoded(outer, s, request.type, hold)
                    /\ q = Recoded(p.state, b, request.type, hold)
                    /\ output' = output \o ((<<>> \o p.out) \o q.out) /\ outer' = q.state
    <3>1. PICK ms : ms = <<s, b>>
      OBVIOUS
    <3>2. Outward(ms, hold)
      BY <1>8, <3>1
    <3>3. Len(ms) = 2 /\ ms[1] = s /\ ms[2] = b
      BY <3>1
    <3>5. \E p, q : /\ p = Recoded(outer, ms[1], request.type, hold)
                   /\ q = Recoded(p.state, ms[2], request.type, hold)
                   /\ output' = output \o ((<<>> \o p.out) \o q.out) /\ outer' = q.state
      BY Zenon, <1>13, <3>2, <3>3, TreatsTwo
    <3> QED BY Zenon, <3>3, <3>5
  <2>1. p = Recoded(outer, s, request.type, hold)
    BY <2>10
  <2>2. q = Recoded(p.state, b, request.type, hold)
    BY <2>10
  <2>3. output' = output \o ((<<>> \o p.out) \o q.out) /\ outer' = q.state
    BY Zenon, <2>10
  <2>4. CASE request.type = "binary"
    <3>1. p.state = Skipped(outer) /\ p.out = <<s>>
      <4>1. s.kind = "start" /\ request.type = "binary"
        BY <1>6, <2>4
      <4> QED BY <2>1, <4>1, RecodedApart
    <3>2. PICK o : o = Skipped(outer)
      OBVIOUS
    <3>3. o \in OuterRec /\ o.skip
      BY <1>11, <3>2 DEF OuterRec, Skipped, StartKept
    <3>4. p.state = o /\ p.out = <<s>>
      BY <3>1, <3>2
    <3>6. q.state = o /\ q.out = <<b>>
      <4>1. q = Recoded(o, b, request.type, hold)
        BY Zenon, <2>2, <3>4
      <4>2. b.kind = "body" /\ o.skip
        BY <1>7, <3>3
      <4> QED BY <4>1, <4>2, RecodedSkips
    <3>7. output' = <<s, b>>
      BY Zenon, <1>10, <2>3, <3>4, <3>6
    <3> QED BY <1>9, <2>3, <3>3, <3>6, <3>7
  <2>5. CASE request.type # "binary"
    <3>1. p.state = StartKept(outer, s.status, s.length) /\ p.out = <<>>
      <4>1. s.kind = "start" /\ request.type = "text"
        BY <1>6, <2>5 DEF PlanTyped, Requests
      <4>2. Recoded(outer, s, request.type, hold).out = <<>>
        BY <4>1, RecodedStart
      <4>3. Recoded(outer, s, request.type, hold).state = StartKept(outer, s.status, s.length)
        BY <4>1, RecodedStart
      <4> QED BY Zenon, <2>1, <4>2, <4>3
    <3>2. PICK o : o = StartKept(outer, st, len)
      OBVIOUS
    <3>3. /\ o \in OuterRec /\ ~o.skip /\ ~o.made /\ o.held = <<>> /\ o.status = st /\ o.length = len
      BY <1>11, <3>2 DEF OuterRec, Skipped, StartKept
    <3>4. p.state = o /\ p.out = <<>>
      BY Zenon, <1>6, <3>1, <3>2
    <3>5. q = Recoded(o, b, request.type, hold)
      BY Zenon, <2>2, <3>4
    <3>6. CASE b.length < MinSize
      <4>1. q.state = Skipped(o) /\ q.out = <<StartMsg(o.status, o.length, FALSE), b>>
        <5>1. b.kind = "body" /\ o.skip = FALSE /\ o.made = FALSE /\ b.more = FALSE /\ b.length < MinSize
          BY <1>7, <3>3, <3>6
        <5>2. Recoded(o, b, request.type, hold).state = Skipped(o)
          BY <5>1, RecodedShort
        <5>3. Recoded(o, b, request.type, hold).out = <<StartMsg(o.status, o.length, FALSE), b>>
          BY <5>1, RecodedShort
        <5> QED BY Zenon, <3>5, <5>2, <5>3
      <4>2. PICK x : x = Skipped(o)
        OBVIOUS
      <4>3. x \in OuterRec
        BY <3>3, <4>2 DEF OuterRec, Skipped
      <4>4. StartMsg(o.status, o.length, FALSE) = s
        BY <1>1, <3>3
      <4>5. q.state = x /\ q.out = <<s, b>>
        BY Zenon, <4>1, <4>2, <4>4
      <4>6. output' = <<s, b>>
        BY Zenon, <1>10, <2>3, <3>4, <4>5
      <4> QED BY <1>9, <2>3, <4>3, <4>5, <4>6
    <3>7. CASE ~(b.length < MinSize)
      <4>1. Chunks(0) \o b.parts = Chunks(N)
        <5>1. Chunks(0) = <<>>
          <6>1. 0 \in Nat
            OBVIOUS
          <6> QED BY <6>1, ChunksGrow
        <5>2. <<>> \o c = c
          OBVIOUS
        <5> QED BY Zenon, <1>3, <1>7, <5>1, <5>2
      <4>2. N <= Len(plan) /\ (b.more <=> N < Len(plan)) /\ ~(N < Len(plan)) /\ N \in Nat
        BY <1>2, <1>7
      <4>4. PICK e, z : e = <<>> /\ z = 0
        OBVIOUS
      <4>3. Recodable(o, b, e, z, N)
        BY <1>5, <1>7, <3>3, <3>7, <4>1, <4>2, <4>4 DEF Recodable
      <4>11. WasRecoded(Recoded(o, b, request.type, hold), e, N)
        BY <4>3, RecodedBody
      <4>5. q.state \in OuterRec /\ q.out \in Seq(Msg) /\ Closed(plan, e \o q.out)
        BY <3>5, <4>2, <4>11 DEF WasRecoded
      <4>6. Closed(plan, <<>> \o q.out) /\ q.out \in Seq(Msg)
        BY <4>2, <4>4, <4>5
      <4>7. PICK w \in Seq(Msg) : w = q.out
        BY <4>5
      <4>8. <<>> \o w = w
        OBVIOUS
      <4>9. output' = w
        BY Zenon, <1>10, <2>3, <3>4, <4>7, <4>8
      <4>10. Closed(plan, w)
        BY <4>6, <4>7, <4>8
      <4> QED BY <2>3, <4>5, <4>9, <4>10
    <3> QED BY <3>6, <3>7
  <2> QED BY <2>4, <2>5
<1> QED BY <1>12, <1>13

(* The response takes a step: its start.                                   *)
LEMMA StartLeaves ==
  ASSUME PlanTyped, output = <<>>, outer = Unused, NEW len \in {NoLength, SumOf(plan)},
         NEW hold, Outward(<<StartMsg(200, len, FALSE)>>, hold)
  PROVE  /\ output' \in Seq(Msg) /\ outer' \in OuterRec
         /\ \/ /\ Compresses(request) => outer'.skip
               /\ Passed(plan, output', 0)
            \/ /\ Compresses(request) /\ output' = <<>>
               /\ outer' = [skip |-> FALSE, made |-> FALSE, status |-> 200, length |-> len,
                            held |-> <<>>, heldLength |-> 0, fresh |-> FALSE]
<1>1. PICK s : s = StartMsg(200, len, FALSE)
  OBVIOUS
<1>2. s.kind = "start" /\ s.status = 200 /\ s.length = len
  BY <1>1 DEF StartMsg
<1>3. len \in Int
  BY PlanSums DEF NoLength
<1>4. PICK ms : ms = <<s>>
  OBVIOUS
<1>5. Passed(plan, ms, 0) /\ ms \in Seq(Msg)
  <2>1. Passed(plan, ms, 0)
    BY <1>1, <1>4, PassedStarts
  <2> QED BY <2>1 DEF Passed
<1>6. Len(ms) = 1 /\ ms[1] = s /\ Outward(ms, hold)
  BY <1>1, <1>4
<1>7. <<>> \o ms = ms /\ <<>> \o <<>> = <<>> /\ <<>> \in Seq(Msg)
  <2>1. \A z \in Seq(Msg) : <<>> \o z = z
    OBVIOUS
  <2>2. <<>> \in Seq(Msg)
    OBVIOUS
  <2> QED BY Zenon, <1>5, <2>1, <2>2
<1>8. outer \in OuterRec
  BY DEF NoLength, OuterRec, Unused
<1>9. CASE ~Compresses(request)
  <2>1. output' = output \o ms /\ outer' = outer
    BY Zenon, <1>6, <1>9, OutwardBy
  <2>2. output' = ms
    BY Zenon, <1>7, <2>1
  <2> QED BY Zenon, <1>5, <1>8, <1>9, <2>1, <2>2
<1>10. CASE Compresses(request)
  <2>1. PICK p : /\ p = Recoded(outer, ms[1], request.type, hold)
                 /\ output' = output \o (<<>> \o p.out) /\ outer' = p.state
    BY Zenon, <1>6, <1>10, TreatsOne
  <2>2. p = Recoded(outer, s, request.type, hold)
    BY Zenon, <1>6, <2>1
  <2>3. CASE request.type = "binary"
    <3>1. p.state = Skipped(outer) /\ p.out = <<s>>
      <4>1. s.kind = "start" /\ request.type = "binary"
        BY <1>2, <2>3
      <4> QED BY <2>2, <4>1, RecodedApart
    <3>2. Skipped(outer) \in OuterRec /\ Skipped(outer).skip
      BY <1>8 DEF OuterRec, Skipped
    <3>3. output' = ms
      BY Zenon, <1>4, <1>7, <2>1, <3>1
    <3>4. outer' \in OuterRec /\ outer'.skip
      BY Zenon, <2>1, <3>1, <3>2
    <3> QED BY Zenon, <1>5, <3>3, <3>4
  <2>4. CASE request.type # "binary"
    <3>1. p.state = StartKept(outer, s.status, s.length) /\ p.out = <<>>
      <4>1. s.kind = "start" /\ request.type = "text"
        BY <1>2, <2>4 DEF PlanTyped, Requests
      <4> QED BY <2>2, <4>1, RecodedStart
    <3>2. PICK o : o = [skip |-> FALSE, made |-> FALSE, status |-> 200, length |-> len,
                        held |-> <<>>, heldLength |-> 0, fresh |-> FALSE]
      OBVIOUS
    <3>3. o \in OuterRec
      BY <1>3, <3>2 DEF OuterRec
    <3>4. StartKept(outer, 200, len) = o
      <4>1. PICK v : v = StartKept(outer, 200, len)
        OBVIOUS
      <4>6. PICK st \in Int, l \in Int : st = 200 /\ l = len
        BY <1>3
      <4>2. v = [outer EXCEPT !.status = st, !.length = l]
        BY Zenon, <4>1, <4>6 DEF StartKept
      <4>3. /\ outer.skip = FALSE /\ outer.made = FALSE /\ outer.held = <<>> /\ outer.heldLength = 0
            /\ outer.fresh = FALSE
        BY DEF Unused
      <4>4. v \in OuterRec
        BY <1>8, <4>2 DEF OuterRec
      <4>7. /\ v.skip = FALSE /\ v.made = FALSE /\ v.status = st /\ v.length = l
            /\ v.held = <<>> /\ v.heldLength = 0 /\ v.fresh = FALSE
        BY <1>8, <4>2, <4>3 DEF OuterRec
      <4>5. v = o
        BY <3>2, <4>4, <4>6, <4>7 DEF OuterRec
      <4> QED BY <4>1, <4>5
    <3>5. outer' = o
      BY Zenon, <1>2, <2>1, <3>1, <3>4
    <3>6. output' = <<>>
      BY Zenon, <1>7, <2>1, <3>1
    <3> QED BY Zenon, <1>7, <1>10, <3>2, <3>3, <3>5, <3>6
  <2> QED BY <2>3, <2>4
<1> QED BY <1>9, <1>10

LEMMA AppStartsKeeps == ResponseInv /\ AppStarts => ResponseInv'
<1> SUFFICES ASSUME ResponseInv, AppStarts PROVE ResponseInv'
  OBVIOUS
<1>1. PICK N \in Nat \ {0} : N = Len(plan)
  BY DEF ResponseInv, ResponseTyped, PlanTyped
<1>2. /\ PlanTyped /\ emitted = 0 /\ emitted' = 1 /\ request' = request /\ plan' = plan
      /\ inner \in InnerRec /\ inner.total <= 2 * Sent /\ outer \in OuterRec /\ output \in Seq(Msg)
  BY DEF ResponseInv, ResponseTyped, AppStarts
<1>3. Sent = 0 /\ Sent' = 0
  BY <1>2 DEF Sent
<1>4. PlanTyped' /\ emitted' \in Nat /\ emitted' <= Len(plan') + 1 /\ emitted' <= Len(plan')
  BY <1>1, <1>2 DEF PlanTyped
<1> DEFINE length == IF request.declared THEN SumOf(plan) ELSE NoLength
<1>6. PICK status \in IF Collects(request) THEN {200, 404} ELSE {200} :
        IF Collects(request) \/ Intercepts(request)
        THEN /\ inner' = [inner EXCEPT !.status = status, !.length = length]
             /\ UNCHANGED <<output, outer>>
        ELSE /\ Outward(<<StartMsg(status, length, FALSE)>>, FALSE)
             /\ UNCHANGED inner
  BY Zenon DEF AppStarts
<1>7. length \in {NoLength, SumOf(plan)} /\ length \in Int
  <2>1. SumOf(plan) \in Int /\ NoLength \in Int
    BY <1>2, PlanSums DEF NoLength
  <2> QED BY <2>1
<1> HIDE DEF length
<1>8. Holds' = Holds /\ OverCap' = OverCap /\ Collects(request)' = Collects(request)
  BY <1>2 DEF Holds, OverCap, Collects, Intercepts
<1>9. CASE Holds
  <2>1. inner' = [inner EXCEPT !.status = status, !.length = length] /\ output' = output /\ outer' = outer
    BY <1>6, <1>9 DEF Holds
  <2>2. /\ inner' \in InnerRec /\ inner'.total = inner.total /\ inner'.chunks = inner.chunks
        /\ inner'.length = length
    BY ZenonT(60), <1>2, <1>6, <1>7, <2>1 DEF InnerRec
  <2>3. InnerRec' = InnerRec
    BY <1>2 DEF InnerRec
  <2>4. ResponseTyped'
    BY <1>2, <1>3, <1>4, <2>1, <2>2, <2>3 DEF ResponseTyped
  <2>5. Held \/ (Collects(request) /\ OverCap)
    BY <1>2, <1>9 DEF ResponseInv, LetGo
  <2>6. ASSUME Held PROVE Held'
    BY <1>2, <1>3, <1>4, <1>7, <2>1, <2>2, <2>6 DEF Held
  <2> QED BY <1>8, <1>9, <2>4, <2>5, <2>6 DEF ResponseInv
<1>10. CASE ~Holds
  <2>1. status = 200 /\ Outward(<<StartMsg(status, length, FALSE)>>, FALSE) /\ inner' = inner
    BY <1>6, <1>10 DEF Holds
  <2>2. output = <<>> /\ outer = Unused
    BY <1>2, <1>10 DEF ResponseInv, Passing, StartHeld, Recoding
  <2>3. PICK h : h = FALSE
    OBVIOUS
  <2>4. Outward(<<StartMsg(200, length, FALSE)>>, h)
    BY <2>1, <2>3
  <2>5. /\ output' \in Seq(Msg) /\ outer' \in OuterRec
        /\ \/ /\ Compresses(request) => outer'.skip
              /\ Passed(plan, output', 0)
           \/ /\ Compresses(request) /\ output' = <<>>
              /\ outer' = [skip |-> FALSE, made |-> FALSE, status |-> 200, length |-> length,
                           held |-> <<>>, heldLength |-> 0, fresh |-> FALSE]
    BY ZenonT(60), <1>2, <1>7, <2>2, <2>4, StartLeaves
  <2>6. InnerRec' = InnerRec
    BY <1>2 DEF InnerRec
  <2>7. ResponseTyped'
    BY <1>2, <1>3, <1>4, <2>1, <2>5, <2>6 DEF ResponseTyped
  <2>8. Passing'
    <3>1. ASSUME Compresses(request) => outer'.skip, Passed(plan, output', 0) PROVE Passing'
      <4>1. emitted' > 0 /\ emitted' - 1 = 0
        BY <1>2
      <4>2. Compresses(request') => outer'.skip
        BY <1>2, <3>1
      <4>3. Passed(plan', output', emitted' - 1)
        BY <1>2, <3>1, <4>1
      <4> QED BY <4>1, <4>2, <4>3 DEF Passing
    <3>2. ASSUME Compresses(request), output' = <<>>,
                 outer' = [skip |-> FALSE, made |-> FALSE, status |-> 200, length |-> length,
                           held |-> <<>>, heldLength |-> 0, fresh |-> FALSE]
          PROVE Passing'
      <4>1. StartHeld'
        BY <1>2, <1>7, <3>2 DEF StartHeld
      <4>2. Compresses(request')
        BY <1>2, <3>2
      <4> QED BY <4>1, <4>2 DEF Passing
    <3> QED BY <2>5, <3>1, <3>2
  <2> QED BY <1>8, <1>10, <2>7, <2>8 DEF ResponseInv
<1> QED BY <1>9, <1>10

(* One body message of an answer that is passed on, or recoded.            *)
LEMMA PieceIsMsg ==
  ASSUME PlanTyped, NEW n \in 1..Len(plan)
  PROVE  \E b \in Msg : /\ b = BodyMsg(<<n>>, plan[n], FALSE, FALSE, n < Len(plan))
                        /\ b.kind = "body" /\ b.parts = <<n>> /\ b.length = plan[n]
                        /\ b.more <=> n < Len(plan)
<1>1. <<n>> \in Seq(Nat) /\ (n < Len(plan)) \in BOOLEAN
  BY DEF PlanTyped
<1>2. plan[n] \in Int
  BY PlanSums
<1>3. PICK ps \in Seq(Nat), l \in Int, m \in BOOLEAN : ps = <<n>> /\ l = plan[n] /\ m = (n < Len(plan))
  BY <1>1, <1>2
<1>4. PICK b : b = BodyMsg(ps, l, FALSE, FALSE, m)
  OBVIOUS
<1>5. b \in Msg
  BY <1>4, BodyIsMsg
<1>6. b.kind = "body" /\ b.parts = ps /\ b.length = l /\ b.more = m
  BY <1>4 DEF BodyMsg
<1>7. b = BodyMsg(<<n>>, plan[n], FALSE, FALSE, n < Len(plan))
  BY Zenon, <1>3, <1>4
<1>8. b.kind = "body" /\ b.parts = <<n>> /\ b.length = plan[n] /\ (b.more <=> n < Len(plan))
  BY Zenon, <1>3, <1>6
<1> QED BY Zenon, <1>5, <1>7, <1>8

(* How far an answer that is passed on, or recoded, has come.              *)
OnItsWay(out, o, k) ==
  \/ (Compresses(request) => o.skip) /\ Passed(plan, out, k)
  \/ /\ Compresses(request) /\ k = 0 /\ out = <<>>
     /\ \E len \in {NoLength, SumOf(plan)} :
          o = [skip |-> FALSE, made |-> FALSE, status |-> 200, length |-> len,
               held |-> <<>>, heldLength |-> 0, fresh |-> FALSE]
  \/ /\ Compresses(request) /\ ~o.skip /\ o.made
     /\ IF k < Len(plan) THEN Opened(out, o.held, k) ELSE Closed(plan, out)

LEMMA PieceLeaves ==
  ASSUME PlanTyped, NEW n \in 1..Len(plan), NEW k \in Nat, k + 1 = n, NEW hold \in BOOLEAN,
         Outward(<<BodyMsg(<<n>>, plan[n], FALSE, FALSE, n < Len(plan))>>, hold),
         outer \in OuterRec, output \in Seq(Msg), OnItsWay(output, outer, k)
  PROVE  /\ output' \in Seq(Msg) /\ outer' \in OuterRec
         /\ \/ (Compresses(request) => outer'.skip) /\ Passed(plan, output', n)
            \/ /\ Compresses(request) /\ ~outer'.skip /\ outer'.made
               /\ IF n < Len(plan) THEN Opened(output', outer'.held, n) ELSE Closed(plan, output')
<1>0. PICK b \in Msg : /\ b = BodyMsg(<<n>>, plan[n], FALSE, FALSE, n < Len(plan))
                       /\ b.kind = "body" /\ b.parts = <<n>> /\ b.length = plan[n]
                       /\ b.more <=> n < Len(plan)
  BY Zenon, PieceIsMsg
<1>1. /\ b \in Msg /\ b.kind = "body" /\ b.parts = <<n>> /\ b.length = plan[n]
      /\ b.more <=> n < Len(plan)
  BY <1>0
<1>2. PICK N \in Nat \ {0} : N = Len(plan)
  BY DEF PlanTyped
<1>3. k < Len(plan) /\ n <= N /\ n \in Nat /\ n <= Len(plan)
  BY <1>2
<1>4. PICK ms : ms = <<b>>
  OBVIOUS
<1>5. Len(ms) = 1 /\ ms[1] = b /\ Outward(ms, hold) /\ ms \in Seq(Msg) /\ <<>> \o ms = ms
  <2>1. \A z \in Seq(Msg) : <<>> \o z = z
    OBVIOUS
  <2>2. ms \in Seq(Msg)
    BY Zenon, <1>1, <1>4, TwoMessages
  <2>3. Len(ms) = 1 /\ ms[1] = b
    BY <1>4
  <2>4. Outward(ms, hold)
    BY Zenon, <1>0, <1>4
  <2> QED BY Zenon, <2>1, <2>2, <2>3, <2>4
<1>6. ASSUME NEW out, Passed(plan, out, k) PROVE Passed(plan, out \o ms, n) /\ out \o ms \in Seq(Msg)
  <2>1. Passed(plan, out \o <<BodyMsg(<<k + 1>>, plan[k + 1], FALSE, FALSE, k + 1 < Len(plan))>>, k + 1)
    BY <1>3, <1>6, PassedGrows
  <2>2. Passed(plan, out \o ms, n)
    BY Zenon, <1>0, <1>4, <2>1
  <2> QED BY <2>2 DEF Passed
<1>7. CASE ~Compresses(request)
  <2>1. output' = output \o ms /\ outer' = outer
    BY Zenon, <1>5, <1>7, OutwardBy
  <2>2. Passed(plan, output, k)
    BY <1>7 DEF OnItsWay
  <2> QED BY Zenon, <1>6, <1>7, <2>1, <2>2
<1>8. CASE Compresses(request)
  <2>1. PICK p : /\ p = Recoded(outer, ms[1], request.type, hold)
                 /\ output' = output \o (<<>> \o p.out) /\ outer' = p.state
    BY Zenon, <1>5, <1>8, TreatsOne
  <2>2. p = Recoded(outer, b, request.type, hold)
    BY Zenon, <1>5, <2>1
  <2>3. \A z \in Seq(Msg) : <<>> \o z = z
    OBVIOUS
  <2>4. Chunks(k) \o b.parts = Chunks(n)
    BY <1>1, ChunksGrow
  <2>5. ASSUME NEW out, NEW j, out = output, j = k, Recodable(outer, b, out, j, n)
        PROVE  /\ output' \in Seq(Msg) /\ outer' \in OuterRec /\ ~outer'.skip /\ outer'.made
               /\ IF n < Len(plan) THEN Opened(output', outer'.held, n) ELSE Closed(plan, output')
    <3>1. WasRecoded(p, out, n)
      <4>1. WasRecoded(Recoded(outer, b, request.type, hold), out, n)
        BY <2>5, RecodedBody
      <4> QED BY Zenon, <2>2, <4>1
    <3>2. p.out \in Seq(Msg) /\ p.state \in OuterRec /\ p.state.made /\ ~p.state.skip
      BY <3>1 DEF WasRecoded
    <3>3. output' = out \o p.out
      BY Zenon, <2>1, <2>3, <2>5, <3>2
    <3>4. out \o p.out \in Seq(Msg)
      BY <2>5, <3>2, ConcatProperties
    <3>5. IF n < Len(plan) THEN Opened(out \o p.out, p.state.held, n) ELSE Closed(plan, out \o p.out)
      BY <3>1 DEF WasRecoded
    <3>6. IF n < Len(plan) THEN Opened(output', outer'.held, n) ELSE Closed(plan, output')
      BY Zenon, <2>1, <3>3, <3>5
    <3> QED BY Zenon, <2>1, <3>2, <3>3, <3>4, <3>6
  <2>10. PICK o : o = outer
    OBVIOUS
  <2>6. CASE outer.skip /\ Passed(plan, output, k)
    <3>1. p.state = outer /\ p.out = <<b>>
      <4>1. b.kind = "body" /\ outer.skip
        BY <1>1, <2>6
      <4> QED BY <2>2, <4>1, RecodedSkips
    <3>2. output' = output \o ms /\ outer' = outer
      BY Zenon, <1>4, <1>5, <2>1, <3>1
    <3> QED BY Zenon, <1>6, <2>6, <3>2
  <2>7. CASE /\ k = 0 /\ output = <<>>
             /\ \E len \in {NoLength, SumOf(plan)} :
                  outer = [skip |-> FALSE, made |-> FALSE, status |-> 200, length |-> len,
                           held |-> <<>>, heldLength |-> 0, fresh |-> FALSE]
    <3>1. PICK len \in {NoLength, SumOf(plan)} :
            outer = [skip |-> FALSE, made |-> FALSE, status |-> 200, length |-> len,
                     held |-> <<>>, heldLength |-> 0, fresh |-> FALSE]
      BY <2>7
    <3>2. /\ outer.skip = FALSE /\ outer.made = FALSE /\ outer.status = 200 /\ outer.length = len
          /\ outer.held = <<>>
      BY <3>1
    <3>3. CASE ~b.more /\ b.length < MinSize
      <4>1. PICK s : s = StartMsg(200, len, FALSE)
        OBVIOUS
      <4>2. b.kind = "body" /\ outer.skip = FALSE /\ outer.made = FALSE /\ b.more = FALSE /\ b.length < MinSize
        <5>1. b.more = FALSE
          BY <1>1, <3>3 DEF Msg
        <5> QED BY <1>1, <3>2, <3>3, <5>1
      <4>3. /\ Recoded(outer, b, request.type, hold).state = Skipped(outer)
            /\ Recoded(outer, b, request.type, hold).out = <<StartMsg(outer.status, outer.length, FALSE), b>>
        <5>1. o.skip = FALSE /\ o.made = FALSE
          BY <2>10, <4>2
        <5>2. /\ Recoded(o, b, request.type, hold).state = Skipped(o)
              /\ Recoded(o, b, request.type, hold).out = <<StartMsg(o.status, o.length, FALSE), b>>
          BY <4>2, <5>1, RecodedShort
        <5> QED BY Zenon, <2>10, <5>2
      <4>4. p.state = Skipped(outer) /\ p.out = <<s, b>>
        BY Zenon, <2>2, <3>2, <4>1, <4>3
      <4>5. Passed(plan, <<s>>, k) /\ s \in Msg
        <5>1. Passed(plan, <<s>>, 0)
          BY <4>1, PassedStarts
        <5>2. PICK y : y = <<s>>
          OBVIOUS
        <5>3. y \in Seq(Msg) /\ Len(y) = 1 /\ y[1] = s
          BY <5>1, <5>2 DEF Passed
        <5>4. s \in Msg
          <6>1. 1 \in 1..Len(y)
            BY <5>3
          <6> QED BY <5>3, <6>1, ElementOfSeq
        <5> QED BY <2>7, <5>1, <5>4
      <4>6. <<s>> \o ms = <<s, b>>
        BY Zenon, <1>1, <1>4, <4>5, TwoMessages
      <4>7. Passed(plan, <<s>> \o ms, n) /\ <<s>> \o ms \in Seq(Msg)
        BY <1>6, <4>5
      <4>8. output' = <<s>> \o ms
        <5>1. <<s, b>> \in Seq(Msg)
          BY Zenon, <4>6, <4>7
        <5> QED BY Zenon, <2>1, <2>3, <2>7, <4>4, <4>6, <5>1
      <4>9. Skipped(outer) \in OuterRec /\ Skipped(outer).skip
        BY DEF Skipped, OuterRec
      <4>10. outer' \in OuterRec /\ outer'.skip
        BY Zenon, <2>1, <4>4, <4>9
      <4> QED BY Zenon, <4>7, <4>8, <4>10
    <3>4. CASE ~(~b.more /\ b.length < MinSize)
      <4>1. Recodable(outer, b, output, k, n)
        BY <1>1, <1>3, <2>4, <2>7, <3>2, <3>4 DEF Recodable
      <4> QED BY Zenon, <1>8, <2>5, <4>1
    <3> QED BY <3>3, <3>4
  <2>8. CASE ~outer.skip /\ outer.made /\ Opened(output, outer.held, k)
    <3>1. Recodable(outer, b, output, k, n)
      BY <1>1, <1>3, <2>4, <2>8 DEF Recodable
    <3> QED BY Zenon, <1>8, <2>5, <3>1
  <2>9. n - 1 = k /\ k < Len(plan)
    BY <1>3
  <2> QED BY <1>8, <2>6, <2>7, <2>8, <2>9 DEF OnItsWay
<1> QED BY <1>7, <1>8

(* The response takes a step: a chunk, passed on or recoded.               *)
LEMMA PassStep ==
  ASSUME ResponseInv, AppSends, ~Holds
  PROVE  ResponseInv'
<1>1. PICK N \in Nat \ {0} : N = Len(plan)
  BY DEF ResponseInv, ResponseTyped, PlanTyped
<1>2. /\ PlanTyped /\ emitted \in Nat /\ emitted > 0 /\ emitted <= N
      /\ emitted' = emitted + 1 /\ request' = request /\ plan' = plan
      /\ inner \in InnerRec /\ inner.total <= 2 * Sent /\ outer \in OuterRec /\ output \in Seq(Msg)
  BY <1>1 DEF ResponseInv, ResponseTyped, AppSends
<1>3. PICK hold \in BOOLEAN :
        /\ Outward(<<BodyMsg(<<emitted>>, plan[emitted], FALSE, FALSE, emitted < Len(plan))>>, hold)
        /\ UNCHANGED inner
  BY Zenon DEF AppSends, Holds
<1>4. PICK k \in Nat : k = emitted - 1
  BY <1>2
<1>5. PICK n \in 1..Len(plan) : n = emitted
  BY <1>1, <1>2
<1>6. k + 1 = n /\ k < Len(plan) /\ emitted' - 1 = n /\ (emitted' <= Len(plan) <=> n < Len(plan))
  BY <1>1, <1>2, <1>4, <1>5
<1>7. OnItsWay(output, outer, k)
  <2>1. Passing /\ emitted # 0
    BY <1>2 DEF ResponseInv
  <2>2. CASE (Compresses(request) => outer.skip) /\ Passed(plan, output, emitted - 1)
    BY <1>4, <2>2 DEF OnItsWay
  <2>3. CASE Compresses(request) /\ StartHeld
    <3>1. k = 0
      BY <1>4, <2>3 DEF StartHeld
    <3> QED BY <2>3, <3>1 DEF StartHeld, OnItsWay
  <2>4. CASE Compresses(request) /\ Recoding
    <3>1. emitted <= Len(plan)
      BY <1>1, <1>2
    <3>2. ~outer.skip /\ outer.made /\ Opened(output, outer.held, k)
      BY <1>4, <2>4, <3>1 DEF Recoding
    <3> QED BY <1>6, <2>4, <3>2 DEF OnItsWay
  <2> QED BY <2>1, <2>2, <2>3, <2>4 DEF Passing
<1>8. /\ output' \in Seq(Msg) /\ outer' \in OuterRec
      /\ \/ (Compresses(request) => outer'.skip) /\ Passed(plan, output', n)
         \/ /\ Compresses(request) /\ ~outer'.skip /\ outer'.made
            /\ IF n < Len(plan) THEN Opened(output', outer'.held, n) ELSE Closed(plan, output')
  <2>1. Outward(<<BodyMsg(<<n>>, plan[n], FALSE, FALSE, n < Len(plan))>>, hold)
    BY Zenon, <1>3, <1>5
  <2>2. PlanTyped /\ k + 1 = n /\ outer \in OuterRec /\ output \in Seq(Msg)
    BY <1>2, <1>6
  <2> QED BY <1>7, <2>1, <2>2, PieceLeaves
<1>9. ResponseTyped'
  <2>1. PlanTyped' /\ emitted' \in Nat /\ emitted' <= Len(plan') + 1
    BY <1>1, <1>2 DEF PlanTyped
  <2>2. inner' \in InnerRec' /\ inner'.total <= 2 * Sent'
    <3>1. inner' = inner /\ inner.total \in Nat
      BY <1>2, <1>3 DEF InnerRec
    <3>2. Sent = k /\ Sent' = n /\ k <= n
      BY <1>2, <1>4, <1>6 DEF Sent
    <3>3. inner.total <= 2 * n
      BY <1>2, <3>1, <3>2
    <3>4. InnerRec' = InnerRec
      BY <1>2 DEF InnerRec
    <3> QED BY <1>2, <3>1, <3>2, <3>3, <3>4
  <2> QED BY <1>8, <2>1, <2>2 DEF ResponseTyped
<1>10. Passing'
  <2>1. emitted' > 0 /\ emitted' > 1
    BY <1>2
  <2>2. ASSUME Compresses(request) => outer'.skip, Passed(plan, output', n) PROVE Passing'
    <3>1. Compresses(request') => outer'.skip
      BY <1>2, <2>2
    <3>2. Passed(plan', output', emitted' - 1)
      BY <1>2, <1>6, <2>2
    <3> QED BY <2>1, <3>1, <3>2 DEF Passing
  <2>3. ASSUME Compresses(request), ~outer'.skip, outer'.made,
               IF n < Len(plan) THEN Opened(output', outer'.held, n) ELSE Closed(plan, output')
        PROVE Passing'
    <3>1. Recoding'
      <4>1. IF emitted' <= Len(plan') THEN Opened(output', outer'.held, emitted' - 1)
            ELSE Closed(plan', output')
        BY <1>2, <1>6, <2>3
      <4> QED BY <2>1, <2>3, <4>1 DEF Recoding
    <3>2. Compresses(request')
      BY <1>2, <2>3
    <3> QED BY <3>1, <3>2 DEF Passing
  <2> QED BY <1>8, <2>2, <2>3
<1>11. ~Holds'
  BY <1>2 DEF Holds, Collects, Intercepts
<1> QED BY <1>9, <1>10, <1>11 DEF ResponseInv

(* The chunks that were held are the whole plan when the last one arrives. *)
LEMMA HeldIsAll ==
  ASSUME PlanTyped, NEW full, full = Chunks(Len(plan))
  PROVE  /\ full \in Seq(Nat)
         /\ SumOf([i \in 1..Len(full) |-> plan[full[i]]]) = SumOf(plan)
<1>1. PICK N \in Nat : N = Len(plan)
  BY DEF PlanTyped
<1>2. full \in Seq(Nat) /\ Len(full) = N
  BY <1>1, ChunksGrow
<1>3. \A i \in 1..N : full[i] = i
  BY <1>1 DEF Chunks
<1>4. plan = [i \in 1..N |-> plan[i]]
  BY <1>1 DEF PlanTyped
<1>5. [i \in 1..Len(full) |-> plan[full[i]]] = [i \in 1..N |-> plan[i]]
  BY <1>2, <1>3
<1>6. [i \in 1..Len(full) |-> plan[full[i]]] = plan
  BY Zenon, <1>4, <1>5
<1> QED BY Zenon, <1>2, <1>6

LEMMA InterceptStep ==
  ASSUME ResponseInv, AppSends, Intercepts(request)
  PROVE  ResponseInv'
<1>1. PICK N \in Nat \ {0} : N = Len(plan)
  BY DEF ResponseInv, ResponseTyped, PlanTyped
<1>2. /\ PlanTyped /\ emitted \in Nat /\ emitted > 0 /\ emitted <= N
      /\ emitted' = emitted + 1 /\ request' = request /\ plan' = plan
      /\ inner \in InnerRec /\ inner.total <= 2 * Sent /\ outer \in OuterRec /\ output \in Seq(Msg)
  BY <1>1 DEF ResponseInv, ResponseTyped, AppSends
<1>3. ~Collects(request) /\ Holds /\ Holds' /\ ~Collects(request')
  BY <1>2 DEF Collects, Intercepts, Holds
<1>4. Held
  BY <1>1, <1>2, <1>3 DEF ResponseInv, LetGo
<1>5. PICK hold \in BOOLEAN : Intercept(emitted, emitted < Len(plan), hold)
  BY Zenon, <1>3 DEF AppSends
<1>6. PICK k \in Nat : k = emitted - 1
  BY <1>2
<1>7. Sent = k /\ Sent' = emitted /\ k + 1 = emitted /\ k <= emitted
  BY <1>2, <1>6 DEF Sent
<1>8. PICK full : full = Append(inner.chunks, emitted)
  OBVIOUS
<1>9. full = Chunks(emitted) /\ full \in Seq(1..N)
  <2>1. full = Chunks(emitted)
    BY <1>4, <1>7, <1>8, ChunksGrow DEF Held
  <2>2. inner.chunks \in Seq(1..N) /\ emitted \in 1..N
    BY <1>1, <1>2 DEF InnerRec
  <2>3. full \in Seq(1..N)
    BY <1>8, <2>2, AppendProperties
  <2> QED BY <2>1, <2>3
<1>10. InnerRec' = InnerRec /\ PlanTyped' /\ emitted' \in Nat /\ emitted' <= Len(plan') + 1
  BY <1>1, <1>2 DEF PlanTyped, InnerRec
<1>11. inner.total \in Nat /\ inner.total <= 2 * Sent'
  <2>1. inner.total \in Nat
    BY <1>2 DEF InnerRec
  <2> QED BY <1>2, <1>7, <2>1
<1>12. CASE emitted < Len(plan)
  <2>1. inner' = [inner EXCEPT !.chunks = full] /\ output' = output /\ outer' = outer
    BY <1>5, <1>8, <1>12 DEF Intercept
  <2>2. /\ inner' \in InnerRec /\ inner'.total = inner.total /\ inner'.chunks = full
        /\ inner'.length = inner.length
    BY <1>1, <1>2, <1>9, <2>1 DEF InnerRec
  <2>3. ResponseTyped'
    BY <1>2, <1>10, <1>11, <2>1, <2>2 DEF ResponseTyped
  <2>4. Held'
    <3>1. emitted' <= Len(plan')
      BY <1>1, <1>2, <1>12
    <3>2. inner'.chunks = Chunks(Sent')
      BY <1>7, <1>9, <2>2
    <3> QED BY <1>2, <1>3, <1>4, <2>1, <2>2, <3>1, <3>2 DEF Held
  <2> QED BY <1>3, <2>3, <2>4 DEF ResponseInv
<1>13. CASE ~(emitted < Len(plan))
  <2>1. emitted = Len(plan) /\ full = Chunks(Len(plan)) /\ emitted' = Len(plan') + 1
    BY <1>1, <1>2, <1>9, <1>13
  <2>2. PICK length : length = SumOf([i \in 1..Len(full) |-> plan[full[i]]])
    OBVIOUS
  <2>3. length = SumOf(plan) /\ length \in Nat
    <3>1. length = SumOf(plan)
      BY <1>2, <2>1, <2>2, HeldIsAll
    <3> QED BY <1>2, <3>1, PlanSums
  <2>4. /\ Outward(IF request.panel THEN Faked(full)
                   ELSE <<StartMsg(inner.status, inner.length, FALSE),
                          BodyMsg(full, length, FALSE, FALSE, FALSE)>>, hold)
        /\ inner' = [inner EXCEPT !.chunks = <<>>]
    BY Zenon, <1>5, <1>8, <1>13, <2>2 DEF Intercept
  <2>5. \E st \in Int, len \in Int, body \in Nat, fresh \in BOOLEAN :
          /\ len \in {NoLength, body}
          /\ Outward(<<StartMsg(st, len, FALSE),
                       BodyMsg(Chunks(Len(plan)), body, fresh, FALSE, FALSE)>>, hold)
    <3>1. CASE request.panel
      <4>1. Outward(<<StartMsg(404, NoLength, FALSE), BodyMsg(full, NewLength, TRUE, FALSE, FALSE)>>, hold)
        BY <2>4, <3>1 DEF Faked
      <4>2. PICK b : b = BodyMsg(full, NewLength, TRUE, FALSE, FALSE)
        OBVIOUS
      <4>3. PICK fr \in BOOLEAN : fr = b.fresh
        BY <4>2 DEF BodyMsg
      <4>4. b = BodyMsg(full, NewLength, fr, FALSE, FALSE)
        BY <4>2, <4>3 DEF BodyMsg
      <4>5. PICK st \in Int : st = 404
        OBVIOUS
      <4>6. Outward(<<StartMsg(st, NoLength, FALSE), BodyMsg(Chunks(Len(plan)), NewLength, fr, FALSE, FALSE)>>, hold)
        BY Zenon, <2>1, <4>1, <4>2, <4>4, <4>5
      <4>7. NoLength \in Int /\ NewLength \in Nat /\ NoLength \in {NoLength, NewLength}
        BY ResponseAssumption DEF NoLength
      <4> QED BY <4>6, <4>7
    <3>2. CASE ~request.panel
      <4>1. Outward(<<StartMsg(inner.status, inner.length, FALSE), BodyMsg(full, length, FALSE, FALSE, FALSE)>>, hold)
        BY <2>4, <3>2
      <4>2. PICK b : b = BodyMsg(full, length, FALSE, FALSE, FALSE)
        OBVIOUS
      <4>3. PICK fr \in BOOLEAN : fr = b.fresh
        BY <4>2 DEF BodyMsg
      <4>4. b = BodyMsg(full, length, fr, FALSE, FALSE)
        BY <4>2, <4>3 DEF BodyMsg
      <4>5. inner.status \in Int /\ inner.length \in Int
        BY <1>2 DEF InnerRec
      <4>6. Outward(<<StartMsg(inner.status, inner.length, FALSE), BodyMsg(Chunks(Len(plan)), length, fr, FALSE, FALSE)>>, hold)
        BY Zenon, <2>1, <4>1, <4>2, <4>4
      <4>7. inner.length \in {NoLength, length}
        BY <1>4, <2>3 DEF Held
      <4> QED BY <2>3, <4>5, <4>6, <4>7
    <3> QED BY <3>1, <3>2
  <2>6. PICK st \in Int, len \in Int, body \in Nat, fresh \in BOOLEAN :
          /\ len \in {NoLength, body}
          /\ Outward(<<StartMsg(st, len, FALSE),
                       BodyMsg(Chunks(Len(plan)), body, fresh, FALSE, FALSE)>>, hold)
    BY <2>5
  <2>7. /\ Paired(plan, output') \/ Closed(plan, output')
        /\ output' \in Seq(Msg) /\ outer' \in OuterRec
    <3>1. output = <<>> /\ outer = Unused
      BY <1>4 DEF Held
    <3> QED BY <1>2, <2>6, <3>1, LetGoTwo
  <2>8. inner' \in InnerRec /\ inner'.total = inner.total
    <3>3. \A S : <<>> \in Seq(S)
      OBVIOUS
    <3>1. PICK e \in Seq(1..Len(plan)) : e = <<>>
      BY Zenon, <3>3
    <3>2. inner' = [inner EXCEPT !.chunks = e]
      BY Zenon, <2>4, <3>1
    <3> QED BY <1>2, <3>2 DEF InnerRec
  <2>9. ResponseTyped'
    BY <1>2, <1>10, <1>11, <2>7, <2>8 DEF ResponseTyped
  <2>10. LetGo'
    BY <1>2, <2>1, <2>7 DEF LetGo
  <2> QED BY <1>3, <2>9, <2>10 DEF ResponseInv
<1> QED BY <1>12, <1>13

(* What the collector lets go is made of messages.                         *)
LEMMA EmittedAreMsgs ==
  ASSUME PlanTyped, NEW st \in Int, NEW len \in Int, NEW chunks \in Seq(1..Len(plan))
  PROVE  EmitRaw(st, len, chunks) \in Seq(Msg)
<1> DEFINE raw == [i \in 1..Len(chunks) |-> BodyMsg(<<chunks[i]>>, plan[chunks[i]], FALSE, FALSE, TRUE)]
           start == IF st # 0 THEN <<StartMsg(st, len, FALSE)>> ELSE <<>>
<1>1. \A i \in 1..Len(chunks) : BodyMsg(<<chunks[i]>>, plan[chunks[i]], FALSE, FALSE, TRUE) \in Msg
  <2> SUFFICES ASSUME NEW i \in 1..Len(chunks)
               PROVE  BodyMsg(<<chunks[i]>>, plan[chunks[i]], FALSE, FALSE, TRUE) \in Msg
    OBVIOUS
  <2>1. PICK c \in 1..Len(plan) : c = chunks[i]
    BY ElementOfSeq
  <2>2. plan[c] \in Int /\ c \in Nat
    BY <2>1, PlanSums DEF PlanTyped
  <2>3. PICK ps \in Seq(Nat), l \in Int : ps = <<c>> /\ l = plan[c]
    <3>1. \A x \in Nat : <<x>> \in Seq(Nat)
      OBVIOUS
    <3> QED BY Zenon, <2>2, <3>1
  <2>4. BodyMsg(ps, l, FALSE, FALSE, TRUE) \in Msg
    BY BodyIsMsg
  <2> QED BY Zenon, <2>1, <2>3, <2>4
<1>2. Len(chunks) \in Nat
  BY LenProperties
<1>3. raw \in Seq(Msg)
  <2>1. PICK n \in Nat : n = Len(chunks)
    BY <1>2
  <2>2. raw \in [1..n -> Msg]
    BY <1>1, <2>1
  <2>3. \A x \in [1..n -> Msg] : x \in Seq(Msg)
    OBVIOUS
  <2> QED BY Zenon, <2>2, <2>3
<1>4. start \in Seq(Msg)
  <2>1. StartMsg(st, len, FALSE) \in Msg
    BY StartIsMsg
  <2>2. <<>> \in Seq(Msg)
    OBVIOUS
  <2> QED BY Zenon, <2>1, <2>2, TwoMessages
<1>5. EmitRaw(st, len, chunks) = start \o raw
  BY Zenon DEF EmitRaw
<1> HIDE DEF start, raw
<1> QED BY <1>3, <1>4, <1>5, ConcatProperties

LEMMA JoinedIsSum ==
  ASSUME PlanTyped, NEW chunks \in Seq(1..Len(plan))
  PROVE  SumOf([i \in 1..Len(chunks) |-> plan[chunks[i]]]) \in Nat
<1>1. PICK n \in Nat : n = Len(chunks)
  BY LenProperties
<1>2. PICK s : s = [i \in 1..Len(chunks) |-> plan[chunks[i]]]
  OBVIOUS
<1>3. s \in [1..n -> Nat]
  <2>1. \A i \in 1..n : plan[chunks[i]] \in Nat
    <3> SUFFICES ASSUME NEW i \in 1..n PROVE plan[chunks[i]] \in Nat
      OBVIOUS
    <3>1. PICK c \in 1..Len(plan) : c = chunks[i]
      BY <1>1, ElementOfSeq
    <3> QED BY <3>1, PlanSums
  <2> QED BY <1>1, <1>2, <2>1
<1>4. PICK f : Running(s, n, f)
  BY Zenon, <1>3, SumsRun
<1>5. SumOf(s) \in Nat
  BY <1>4 DEF Running
<1> QED BY <1>2, <1>5

(* Sums of the beginnings of the plan.                                     *)
LEMMA HeldGrows ==
  ASSUME PlanTyped, NEW n \in 1..Len(plan)
  PROVE  /\ SumOf(SubSeq(plan, 1, n)) = SumOf(SubSeq(plan, 1, n - 1)) + plan[n]
         /\ SumOf(SubSeq(plan, 1, n)) \in Nat
         /\ n < Len(plan) => SumOf(SubSeq(plan, 1, n)) <= SumOf(SubSeq(plan, 1, Len(plan) - 1))
<1>1. PICK N \in Nat : N = Len(plan)
  BY DEF PlanTyped
<1>2. PICK f : Running(plan, N, f)
  BY <1>1, PlanSums
<1>3. n \in 1..N /\ n \in 0..N /\ n - 1 \in 0..N /\ N - 1 \in 0..N
  BY <1>1
<1>4. /\ f[n] = f[n - 1] + plan[n] /\ \A i \in 0..N : SumOf(SubSeq(plan, 1, i)) = f[i]
      /\ \A i, j \in 0..N : i <= j => f[i] <= f[j] /\ f[n] \in Nat
  BY <1>2, <1>3 DEF Running
<1>5. n < N => n <= N - 1
  BY <1>3
<1>6. /\ SumOf(SubSeq(plan, 1, n)) = f[n] /\ SumOf(SubSeq(plan, 1, n - 1)) = f[n - 1]
      /\ SumOf(SubSeq(plan, 1, N - 1)) = f[N - 1]
  BY <1>3, <1>4
<1>7. f[n] \in Nat /\ (n < N => f[n] <= f[N - 1])
  BY <1>3, <1>4, <1>5
<1> QED BY Zenon, <1>1, <1>4, <1>6, <1>7

LEMMA FinishedIs ==
  ASSUME PlanTyped, inner \in InnerRec, NEW chunks \in Seq(1..Len(plan)), NEW fresh \in BOOLEAN
  PROVE  \E st \in Int, len \in Int, body \in Nat :
           /\ Finished(chunks, fresh, NewLength) =
                <<StartMsg(st, len, FALSE), BodyMsg(chunks, body, fresh, FALSE, FALSE)>>
           /\ ~fresh => body = SumOf([i \in 1..Len(chunks) |-> plan[chunks[i]]])
           /\ len = IF request.type = "text" /\ inner.status = 200 THEN body ELSE inner.length
           /\ Finished(chunks, fresh, NewLength) \in Seq(Msg)
<1>1. PICK body : body = IF fresh THEN NewLength
                         ELSE SumOf([i \in 1..Len(chunks) |-> plan[chunks[i]]])
  OBVIOUS
<1>2. body \in Nat
  BY <1>1, JoinedIsSum, ResponseAssumption
<1>3. inner.status \in Int /\ inner.length \in Int
  BY DEF InnerRec
<1>4. PICK len : len = IF request.type = "text" /\ inner.status = 200 THEN body ELSE inner.length
  OBVIOUS
<1>5. len \in Int
  BY <1>2, <1>3, <1>4
<1>6. Finished(chunks, fresh, NewLength) =
        <<StartMsg(inner.status, len, FALSE), BodyMsg(chunks, body, fresh, FALSE, FALSE)>>
  BY Zenon, <1>1, <1>4 DEF Finished
<1>7. chunks \in Seq(Nat)
  <2>1. PICK n \in Nat : n = Len(plan)
    BY DEF PlanTyped
  <2>2. \A c \in Seq(1..n) : c \in Seq(Nat)
    OBVIOUS
  <2> QED BY <2>1, <2>2
<1>8. StartMsg(inner.status, len, FALSE) \in Msg
  BY <1>3, <1>5, StartIsMsg
<1>9. BodyMsg(chunks, body, fresh, FALSE, FALSE) \in Msg
  <2>1. body \in Int
    BY <1>2
  <2> QED BY <1>7, <2>1, BodyIsMsg
<1>10. Finished(chunks, fresh, NewLength) \in Seq(Msg)
  <2>1. \A x, y \in Msg : <<x, y>> \in Seq(Msg)
    OBVIOUS
  <2> QED BY Zenon, <1>6, <1>8, <1>9, <2>1
<1>11. ~fresh => body = SumOf([i \in 1..Len(chunks) |-> plan[chunks[i]]])
  BY Zenon, <1>1
<1> QED BY Zenon, <1>2, <1>3, <1>4, <1>5, <1>6, <1>10, <1>11

LEMMA CollectStep ==
  ASSUME ResponseInv, AppSends, Collects(request)
  PROVE  ResponseInv'
<1>1. PICK N \in Nat \ {0} : N = Len(plan)
  BY DEF ResponseInv, ResponseTyped, PlanTyped
<1>2. /\ PlanTyped /\ emitted \in Nat /\ emitted > 0 /\ emitted <= N
      /\ emitted' = emitted + 1 /\ request' = request /\ plan' = plan
      /\ inner \in InnerRec /\ inner.total <= 2 * Sent /\ outer \in OuterRec /\ output \in Seq(Msg)
  BY <1>1 DEF ResponseInv, ResponseTyped, AppSends
<1>3. Holds' /\ Collects(request') /\ OverCap' = OverCap
  BY <1>2 DEF Collects, Holds, OverCap
<1>4. Held \/ OverCap
  BY <1>1, <1>2 DEF ResponseInv, LetGo, Holds
<1>5. Collect(emitted, emitted < Len(plan)) /\ outer' = outer
  BY Zenon DEF AppSends
<1>6. PICK k \in Nat : k = emitted - 1
  BY <1>2
<1>7. Sent = k /\ Sent' = emitted /\ k + 1 = emitted /\ k <= emitted
  BY <1>2, <1>6 DEF Sent
<1>8. PICK full : full = Append(inner.chunks, emitted)
  OBVIOUS
<1>9. full \in Seq(1..Len(plan)) /\ inner.chunks \in Seq(1..Len(plan)) /\ emitted \in 1..Len(plan)
  <2>2. inner.chunks \in Seq(1..Len(plan)) /\ emitted \in 1..Len(plan)
    BY <1>1, <1>2 DEF InnerRec
  <2>3. full \in Seq(1..Len(plan))
    BY <1>8, <2>2, AppendProperties
  <2> QED BY <2>2, <2>3
<1>10. InnerRec' = InnerRec /\ PlanTyped' /\ emitted' \in Nat /\ emitted' <= Len(plan') + 1
  BY <1>1, <1>2 DEF PlanTyped, InnerRec
<1>11. PICK step \in Nat : step = plan[emitted] /\ step <= 2
  BY <1>2, <1>9, PlanSums
<1>12. PICK total \in Nat : total = inner.total + step
  BY <1>2 DEF InnerRec
<1>13. total <= 2 * Sent' /\ 0 <= 2 * Sent'
  <2>1. PICK t \in Nat : t = inner.total
    BY <1>2 DEF InnerRec
  <2>2. t <= 2 * k
    BY <1>2, <1>7, <2>1
  <2>3. total = t + step
    BY <1>12, <2>1
  <2>4. total <= 2 * emitted /\ 0 <= 2 * emitted
    BY <1>2, <1>7, <1>11, <2>2, <2>3
  <2> QED BY <1>7, <2>4
<1>14. inner.status \in Int /\ inner.length \in Int
  BY <1>2 DEF InnerRec
<1>15. \A S : <<>> \in Seq(S)
  OBVIOUS
<1>16. PICK e \in Seq(1..Len(plan)) : e = <<>>
  BY Zenon, <1>15
<1>17. Held => /\ full = Chunks(emitted) /\ total = SumOf(SubSeq(plan, 1, emitted))
               /\ output = <<>> /\ outer = Unused /\ inner.length \in {NoLength, SumOf(plan)}
  <2> SUFFICES ASSUME Held PROVE /\ full = Chunks(emitted) /\ total = SumOf(SubSeq(plan, 1, emitted))
                                 /\ output = <<>> /\ outer = Unused
                                 /\ inner.length \in {NoLength, SumOf(plan)}
    OBVIOUS
  <2>1. /\ inner.chunks = Chunks(k) /\ inner.total = SumOf(SubSeq(plan, 1, k))
        /\ output = <<>> /\ outer = Unused /\ inner.length \in {NoLength, SumOf(plan)}
    BY <1>7 DEF Held
  <2>2. full = Chunks(emitted)
    BY <1>7, <1>8, <2>1, ChunksGrow
  <2>3. SumOf(SubSeq(plan, 1, emitted)) = SumOf(SubSeq(plan, 1, emitted - 1)) + plan[emitted]
    BY <1>2, <1>9, HeldGrows
  <2>4. total = SumOf(SubSeq(plan, 1, emitted))
    BY <1>6, <1>11, <1>12, <2>1, <2>3
  <2> QED BY <2>1, <2>2, <2>4
<1>18. CASE emitted < Len(plan)
  <2>1. IF total > BufferCap
        THEN /\ output' = output \o EmitRaw(inner.status, inner.length, full)
             /\ inner' = [inner EXCEPT !.status = 0, !.chunks = e, !.total = 0]
        ELSE /\ inner' = [inner EXCEPT !.chunks = full, !.total = total]
             /\ output' = output
    BY Zenon, <1>5, <1>8, <1>11, <1>12, <1>16, <1>18 DEF Collect
  <2>2. CASE total > BufferCap
    <3>1. /\ output' = output \o EmitRaw(inner.status, inner.length, full)
          /\ inner' = [inner EXCEPT !.status = 0, !.chunks = e, !.total = 0]
      BY Zenon, <2>1, <2>2
    <3>2. output' \in Seq(Msg)
      <4>1. EmitRaw(inner.status, inner.length, full) \in Seq(Msg)
        BY <1>2, <1>9, <1>14, EmittedAreMsgs
      <4> QED BY <1>2, <3>1, <4>1, ConcatProperties
    <3>3. inner' \in InnerRec /\ inner'.total = 0
      BY <1>2, <3>1 DEF InnerRec
    <3>4. ResponseTyped'
      BY <1>2, <1>5, <1>10, <1>13, <3>2, <3>3 DEF ResponseTyped
    <3>5. OverCap
      <4>1. ASSUME Held PROVE OverCap
        <5>1. total <= SumOf(SubSeq(plan, 1, Len(plan) - 1))
          BY <1>2, <1>9, <1>17, <1>18, <4>1, HeldGrows
        <5>2. SumOf(SubSeq(plan, 1, Len(plan) - 1)) \in Nat
          <6>1. PICK f : Running(plan, N, f)
            BY <1>1, <1>2, PlanSums
          <6>2. N - 1 \in 0..N
            OBVIOUS
          <6>3. SumOf(SubSeq(plan, 1, N - 1)) = f[N - 1] /\ f[N - 1] \in Nat
            BY <6>1, <6>2 DEF Running
          <6> QED BY <1>1, <6>3
        <5>3. BufferCap \in Nat
          BY ResponseAssumption
        <5>4. SumOf(SubSeq(plan, 1, Len(plan) - 1)) > BufferCap
          BY <2>2, <5>1, <5>2, <5>3
        <5> QED BY <5>4 DEF OverCap
      <4> QED BY <1>4, <4>1
    <3> QED BY <1>3, <3>4, <3>5 DEF ResponseInv
  <2>3. CASE ~(total > BufferCap)
    <3>1. inner' = [inner EXCEPT !.chunks = full, !.total = total] /\ output' = output
      BY Zenon, <2>1, <2>3
    <3>2. /\ inner' \in InnerRec /\ inner'.total = total /\ inner'.chunks = full
          /\ inner'.length = inner.length
      BY <1>2, <1>9, <3>1 DEF InnerRec
    <3>3. ResponseTyped'
      BY <1>2, <1>5, <1>10, <1>13, <3>1, <3>2 DEF ResponseTyped
    <3>4. ASSUME Held PROVE Held'
      <4>1. emitted' <= Len(plan')
        BY <1>1, <1>2, <1>18
      <4>2. inner'.chunks = Chunks(Sent') /\ inner'.total = SumOf(SubSeq(plan', 1, Sent'))
        BY <1>2, <1>7, <1>17, <3>2, <3>4
      <4>3. output' = <<>> /\ outer' = Unused /\ inner'.length \in {NoLength, SumOf(plan')}
        BY <1>2, <1>5, <1>17, <3>1, <3>2, <3>4
      <4> QED BY <4>1, <4>2, <4>3 DEF Held
    <3> QED BY <1>3, <1>4, <3>3, <3>4 DEF ResponseInv
  <2> QED BY <2>2, <2>3
<1>19. CASE ~(emitted < Len(plan))
  <2>1. emitted = Len(plan) /\ emitted' = Len(plan') + 1
    BY <1>1, <1>2, <1>19
  <2>2. PICK fresh \in IF request.type = "text" /\ inner.status = 200
                      THEN {FALSE, request.engines} ELSE {FALSE} :
          /\ output' = output \o Finished(full, fresh, NewLength)
          /\ inner' = [inner EXCEPT !.chunks = e, !.total = 0]
    BY Zenon, <1>5, <1>8, <1>16, <1>19 DEF Collect
  <2>3. fresh \in BOOLEAN /\ (fresh => request.type = "text" /\ inner.status = 200)
    BY <1>2, <2>2 DEF PlanTyped, Requests
  <2>4. PICK st \in Int, len \in Int, body \in Nat :
          /\ Finished(full, fresh, NewLength) =
               <<StartMsg(st, len, FALSE), BodyMsg(full, body, fresh, FALSE, FALSE)>>
          /\ ~fresh => body = SumOf([i \in 1..Len(full) |-> plan[full[i]]])
          /\ len = IF request.type = "text" /\ inner.status = 200 THEN body ELSE inner.length
          /\ Finished(full, fresh, NewLength) \in Seq(Msg)
    BY <1>2, <1>9, <2>3, FinishedIs
  <2>5. output' \in Seq(Msg)
    BY <1>2, <2>2, <2>4, ConcatProperties
  <2>6. inner' \in InnerRec /\ inner'.total = 0
    BY <1>2, <2>2 DEF InnerRec
  <2>7. ResponseTyped'
    BY <1>2, <1>5, <1>10, <1>13, <2>5, <2>6 DEF ResponseTyped
  <2>8. ASSUME Held PROVE LetGo'
    <3>1. full = Chunks(Len(plan)) /\ output = <<>> /\ inner.length \in {NoLength, SumOf(plan)}
      BY <1>17, <2>1, <2>8
    <3>2. SumOf([i \in 1..Len(full) |-> plan[full[i]]]) = SumOf(plan)
      BY <1>2, <3>1, HeldIsAll
    <3>3. len \in {NoLength, body}
      BY <2>3, <2>4, <3>1, <3>2
    <3>4. output' = Finished(full, fresh, NewLength)
      <4>1. \A z \in Seq(Msg) : <<>> \o z = z
        OBVIOUS
      <4> QED BY Zenon, <2>2, <2>4, <3>1, <4>1
    <3>5. Paired(plan, output')
      BY Zenon, <2>3, <2>4, <3>1, <3>3, <3>4 DEF Paired
    <3> QED BY <1>2, <2>1, <3>5 DEF LetGo
  <2> QED BY <1>3, <1>4, <2>7, <2>8 DEF ResponseInv
<1> QED BY Zenon, <1>18, <1>19

LEMMA AppSendsKeeps == ResponseInv /\ AppSends => ResponseInv'
  BY PassStep, InterceptStep, CollectStep DEF Holds

ResponseRests ==
  UNCHANGED <<request, plan, emitted, inner, outer, output>>

LEMMA RestKeeps == ResponseInv /\ ResponseRests => ResponseInv'
<1> SUFFICES ASSUME ResponseInv, ResponseRests PROVE ResponseInv'
  OBVIOUS
<1>1. /\ request' = request /\ plan' = plan /\ emitted' = emitted /\ inner' = inner
      /\ outer' = outer /\ output' = output
  BY DEF ResponseRests
<1>2. ResponseTyped'
  BY <1>1 DEF ResponseInv, ResponseTyped, PlanTyped, InnerRec, Sent
<1>3. Held' = Held /\ LetGo' = LetGo /\ Holds' = Holds /\ OverCap' = OverCap
  BY <1>1 DEF Held, LetGo, Sent, Holds, OverCap, Collects, Intercepts
<1>4. StartHeld' = StartHeld /\ Recoding' = Recoding
  BY <1>1 DEF StartHeld, Recoding
<1>5. Passing' = Passing
  BY <1>1, <1>4 DEF Passing
<1> QED BY <1>1, <1>2, <1>3, <1>5 DEF ResponseInv
=============================================================================
