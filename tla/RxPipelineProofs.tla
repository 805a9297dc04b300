-------------------------- MODULE RxPipelineProofs --------------------------
(***************************************************************************)
(* The receive pipeline of the Java engine, for any sizes of the ring, the *)
(* frames and the noise and any numbers of datagrams, and its mixer.       *)
(*                                                                         *)
(* 1. Where write() and the callback put and find samples in the ring: the *)
(*    arithmetic of the markers (Region, Written).                         *)
(* 2. The invariant: PlayTask knows the end of what is buffered, and the   *)
(*    datagrams come in the order of their numbers, whatever happens; and, *)
(*    as long as PlayTask wrote only what there was room for, the ring     *)
(*    holds nothing, or a frame at least, and no more than its size.       *)
(* 3. What each step does to the samples between the list and the track    *)
(*    (WaitingSteps) up to the first overrun, and from that: none is lost  *)
(*    between the threads, and the pipeline implements LossyStream.        *)
(* 4. The mixer, for any sources, frames and lengths: what a fold over a   *)
(*    set adds up, the sums of the sources that the loop has passed        *)
(*    (Mixing), and the attenuated and clipped mix of all of them.         *)
(***************************************************************************)
EXTENDS RxPipeline, Demultiplex, SequenceTheorems, FiniteSetTheorems, TLAPS

StreamProofs == INSTANCE LossyStreamProofs
                  WITH PacketItems <- FrameSize, MaxSkip <- MaxArrivals * FrameSize,
                       last <- FrameSize * Max({0} \cup listed),
                       pending <- Buffered \o mPlayBuffer \o Joined(mPacketList),
                       played <- track

\* The n samples of the ring b from the marker s on.
Region(b, s, n) == [k \in 1 .. n |-> b[(s + k - 1) % BufferSize]]

\* The ring b with the samples p written to it from the marker e on.
Written(b, e, p) ==
  [i \in 0 .. BufferSize - 1 |->
     IF (i - (e % BufferSize)) % BufferSize < Len(p)
       THEN p[((i - (e % BufferSize)) % BufferSize) + 1] ELSE b[i]]

Held == pt \in {"measure", "flush", "reread", "write", "thrown"}

\* What PlayTask knows of the player.
TaskInv ==
  /\ pt \in {"first", "start", "test", "drain", "measure", "flush", "reread", "write",
             "quit", "stop", "clear", "done", "thrown"}
  /\ mIsPlaying \in BOOLEAN
  /\ pt \in {"clear", "done"} => ~mIsPlaying
  /\ pt \in {"first", "start", "test", "drain", "measure", "flush", "write"} =>
       writeHead = mEndMarker
  /\ pt \in {"first", "start", "reread", "done"} => mStartMarker = mEndMarker /\ rest = 0

\* Where a marker points to.
Place(marker) == marker % BufferSize

\* The ring holds nothing, a frame at least, or what is left of a region that wraps, and
\* nothing in it was written over.
RingInv ==
  /\ mBuffer \in [0 .. BufferSize - 1 -> Nat] /\ track \in Seq(Nat)
  /\ mStartMarker \in Nat /\ mEndMarker \in Nat /\ rest \in Nat
  /\ mStartMarker <= mEndMarker /\ mEndMarker <= mStartMarker + BufferSize
  /\ rest = 0 => mStartMarker = mEndMarker \/ FrameSize <= mEndMarker - mStartMarker
  /\ rest > 0 => Place(mStartMarker) = 0 /\ rest = mEndMarker - mStartMarker

Datagrams == [id : Nat \ {0}, ours : BOOLEAN]

\* Datagrams come and are listed in the order of their numbers.
PacketInv ==
  /\ arrivals \in 0 .. MaxArrivals
  /\ sock \in Seq(Datagrams)
  /\ \A j \in 1 .. Len(sock) : sock[j].id <= arrivals /\ \A id \in listed : id < sock[j].id
  /\ \A j, k \in 1 .. Len(sock) : j < k => sock[j].id < sock[k].id
  /\ mPacketList \in Seq(Nat \ {0}) /\ listed \subseteq 1 .. arrivals
  /\ \E top \in {0} \cup listed : \A id \in listed : id <= top
  /\ mPlayBuffer \in Seq(Nat)
  /\ IF Held THEN FrameSize <= Len(mPlayBuffer) ELSE mPlayBuffer = <<>>

RxInv == TaskInv /\ RingInv /\ PacketInv

\* What holds throughout.
Throughout == TaskInv /\ PacketInv /\ (~overrun => RingInv)

-----------------------------------------------------------------------------
\* Remainders, for the places of the ring and of a packet's samples.
LEMMA Remainder ==
  ASSUME NEW a \in Int, NEW m \in Nat \ {0}
  PROVE  a % m \in 0 .. m - 1 /\ \E q \in Int : a = m * q + (a % m)
<1>1. a = m * (a \div m) + (a % m) /\ a \div m \in Int
  OBVIOUS
<1>2. a % m \in 0 .. m - 1
  OBVIOUS
<1> QED
  BY <1>1, <1>2

LEMMA SmallMultiple ==
  ASSUME NEW m \in Nat \ {0}, NEW x \in Int, -m < m * x, m * x < m
  PROVE  x = 0
<1>1. CASE x >= 1
  <2>1. m * x >= m * 1
    BY <1>1, Z3
  <2> QED
    BY <2>1, <1>1
<1>2. CASE x <= -1
  <2>1. m * x <= m * (-1)
    BY <1>2, Z3
  <2> QED
    BY <2>1, <1>2
<1> QED
  BY <1>1, <1>2

LEMMA RemainderIs ==
  ASSUME NEW m \in Nat \ {0}, NEW a \in Int, NEW q \in Int, NEW r \in 0 .. m - 1,
         a = m * q + r
  PROVE  a % m = r
<1>1. PICK s \in 0 .. m - 1 : s = a % m
  BY Remainder
<1>2. PICK p \in Int : a = m * p + s
  BY <1>1, Remainder
<1>3. p - q \in Int /\ m * (p - q) = r - s
  BY <1>2
<1>4. p - q = 0
  BY <1>3, SmallMultiple
<1> QED
  BY <1>1, <1>3, <1>4

\* The quotient and the remainder are the only ones.
LEMMA QuotientIs ==
  ASSUME NEW m \in Nat \ {0}, NEW q \in Int, NEW r \in 0 .. m - 1
  PROVE  (m * q + r) \div m = q /\ (m * q + r) % m = r
<1>1. PICK a \in Int : a = m * q + r
  OBVIOUS
<1>2. a % m = r
  BY <1>1, RemainderIs
<1>3. PICK p \in Int : p = a \div m
  OBVIOUS
<1>4. a = m * p + r
  <2>1. a = m * (a \div m) + (a % m)
    OBVIOUS
  <2> QED
    BY <1>2, <1>3, <2>1
<1>5. p - q \in Int /\ m * (p - q) = 0
  BY <1>1, <1>4
<1>6. p - q = 0
  BY <1>5, SmallMultiple
<1> QED
  BY <1>1, <1>2, <1>3, <1>6

\* Sample k of n parts of F samples.
LEMMA PartPlace ==
  ASSUME NEW F \in Nat \ {0}, NEW n \in Nat, NEW k \in 1 .. n * F
  PROVE  ((k - 1) \div F) + 1 \in 1 .. n /\ ((k - 1) % F) + 1 \in 1 .. F
<1>1. PICK a \in Nat : a = k - 1 /\ a < n * F
  OBVIOUS
<1>2. F \in Nat \ {0} /\ a \in Int
  OBVIOUS
<1>3. PICK r \in 0 .. F - 1 : r = a % F
  BY <1>2, Remainder
<1>4. PICK q \in Int : q = a \div F
  BY <1>2
<1>5. a = F * q + r
  <2>1. a = F * (a \div F) + (a % F)
    BY <1>2
  <2> QED
    BY <1>3, <1>4, <2>1
<1>6. 0 <= q
  <2> SUFFICES ASSUME q <= -1
               PROVE  FALSE
    OBVIOUS
  <2>1. F * q <= F * (-1)
    BY <1>2, Z3
  <2> QED
    BY <1>2, <1>5, <2>1
<1>7. q < n
  <2> SUFFICES ASSUME q >= n
               PROVE  FALSE
    OBVIOUS
  <2>1. F * q >= n * F
    BY <1>2, Z3
  <2> QED
    BY <1>1, <1>2, <1>5, <2>1
<1>8. q + 1 \in 1 .. n /\ r + 1 \in 1 .. F
  BY <1>2, <1>6, <1>7
<1> QED
  BY <1>1, <1>3, <1>4, <1>8, Zenon

\* How far the place of x is after that of e, which it is d after or m - d before.
LEMMA PlaceAfter ==
  ASSUME NEW m \in Nat \ {0}, NEW x \in Int, NEW e \in Int, NEW d \in 0 .. m - 1,
         x = e + d \/ x = e + d - m
  PROVE  ((x % m) - (e % m)) % m = d
<1>1. PICK r \in 0 .. m - 1, t \in 0 .. m - 1 : r = x % m /\ t = e % m
  BY Remainder
<1>2. PICK a \in Int : x = m * a + r
  BY <1>1, Remainder
<1>3. PICK b \in Int : e = m * b + t
  BY <1>1, Remainder
<1>4. PICK q \in Int : r - t = m * q + d
  <2>1. PICK u \in Int, v \in Int : u = m * a /\ v = m * b
    OBVIOUS
  <2>2. PICK y \in Int, z \in Int : y = b - a /\ z = b - a - 1
    OBVIOUS
  <2>3. m * y = v - u /\ m * z = v - u - m
    BY <2>1, <2>2
  <2>4. x = u + r /\ e = v + t
    BY <1>2, <1>3, <2>1
  <2>5. r - t = m * y + d \/ r - t = m * z + d
    BY <2>3, <2>4
  <2> QED
    BY <2>5
<1>5. PICK c \in Int : c = r - t
  OBVIOUS
<1>6. c % m = d
  BY <1>4, <1>5, RemainderIs
<1> QED
  BY <1>1, <1>5, <1>6, Zenon

-----------------------------------------------------------------------------
\* The ring.

\* Sequences of samples.
LEMMA Associative ==
  ASSUME NEW s \in Seq(Nat), NEW t \in Seq(Nat), NEW u \in Seq(Nat)
  PROVE  (s \o t) \o u = s \o (t \o u)
OBVIOUS

LEMMA FrontAndRest ==
  ASSUME NEW v \in Seq(Nat), NEW n \in 0 .. Len(v)
  PROVE  /\ SubSeq(v, 1, n) \in Seq(Nat) /\ Len(SubSeq(v, 1, n)) = n
         /\ \A k \in 1 .. n : SubSeq(v, 1, n)[k] = v[k]
         /\ SubSeq(v, n + 1, Len(v)) \in Seq(Nat)
         /\ Len(SubSeq(v, n + 1, Len(v))) = Len(v) - n
         /\ \A k \in 1 .. Len(v) - n : SubSeq(v, n + 1, Len(v))[k] = v[n + k]
OBVIOUS

LEMMA ConcatIs ==
  ASSUME NEW v \in Seq(Nat), NEW p \in Seq(Nat), NEW u \in Seq(Nat),
         Len(u) = Len(v) + Len(p),
         \A k \in 1 .. Len(v) : u[k] = v[k],
         \A k \in 1 .. Len(p) : u[Len(v) + k] = p[k]
  PROVE  u = v \o p
<1>1. /\ v \o p \in Seq(Nat) /\ Len(v \o p) = Len(v) + Len(p)
      /\ \A k \in 1 .. Len(v) : (v \o p)[k] = v[k]
      /\ \A k \in 1 .. Len(p) : (v \o p)[Len(v) + k] = p[k]
  OBVIOUS
<1>2. ASSUME NEW k \in 1 .. Len(u)
      PROVE  u[k] = (v \o p)[k]
  <2>1. CASE k \in 1 .. Len(v)
    BY <1>1, <2>1
  <2>2. CASE k > Len(v)
    <3>1. PICK j \in 1 .. Len(p) : k = Len(v) + j
      <4>1. k - Len(v) \in 1 .. Len(p) /\ k = Len(v) + (k - Len(v))
        BY <2>2
      <4> QED
        BY <4>1
    <3> QED
      BY <1>1, <3>1
  <2> QED
    BY <2>1, <2>2
<1> QED
  BY <1>1, <1>2, SeqEqual

\* What mTrack.write() is given is the first part of a region.
LEMMA RegionInOnePart ==
  ASSUME NEW b, NEW s \in Nat, NEW f \in 0 .. BufferSize - 1, f = s % BufferSize,
         NEW n \in Nat, f + n <= BufferSize
  PROVE  /\ [k \in 1 .. n |-> b[f + k - 1]] = Region(b, s, n)
         /\ (s + (BufferSize - f)) % BufferSize = 0
<1>1. BufferSize \in Nat \ {0} /\ s \in Int
  BY PlayerAssumption
<1>2. PICK q \in Int : s = BufferSize * q + f
  BY <1>1, Remainder, Zenon
<1>3. ASSUME NEW k \in 1 .. n
      PROVE  (s + k - 1) % BufferSize = f + k - 1
  <2>1. PICK a \in Int, r \in 0 .. BufferSize - 1 : a = s + k - 1 /\ r = f + k - 1
    BY <1>1
  <2>2. a = BufferSize * q + r
    <3>1. PICK x \in Int : x = BufferSize * q
      BY <1>1
    <3>2. s = x + f
      BY <1>2, <3>1, Zenon
    <3>3. a = x + r
      BY <1>1, <2>1, <3>2
    <3> QED
      BY <3>1, <3>3, Zenon
  <2>3. a % BufferSize = r
    BY <1>1, <2>2, RemainderIs
  <2> QED
    BY <2>1, <2>3, Zenon
<1>4. (s + (BufferSize - f)) % BufferSize = 0
  <2>1. PICK a \in Int, t \in Int : a = s + (BufferSize - f) /\ t = q + 1
    BY <1>1
  <2>2. a = BufferSize * t + 0 /\ 0 \in 0 .. BufferSize - 1
    BY <1>1, <1>2, <2>1
  <2>3. a % BufferSize = 0
    BY <1>1, <2>2, RemainderIs
  <2> QED
    BY <2>1, <2>3, Zenon
<1> QED
  BY <1>3, <1>4, Zenon DEF Region

\* Where write() puts the samples, and what it leaves in place.
LEMMA WrittenPlaces ==
  ASSUME NEW b \in [0 .. BufferSize - 1 -> Nat], NEW e \in Nat, NEW p \in Seq(Nat),
         Len(p) <= BufferSize
  PROVE  /\ Written(b, e, p) \in [0 .. BufferSize - 1 -> Nat]
         /\ \A k \in 1 .. Len(p) : Written(b, e, p)[(e + k - 1) % BufferSize] = p[k]
         /\ \A x \in Int : e + Len(p) - BufferSize <= x /\ x < e =>
              Written(b, e, p)[x % BufferSize] = b[x % BufferSize]
<1> DEFINE M == BufferSize
           place(i) == (i - (e % M)) % M
           c == Written(b, e, p)
<1>1. M \in Nat \ {0} /\ e \in Int /\ Len(p) \in Nat /\ Len(p) <= M
  BY PlayerAssumption
<1>2. c = [i \in 0 .. M - 1 |-> IF place(i) < Len(p) THEN p[place(i) + 1] ELSE b[i]]
  BY Zenon DEF Written
<1>3. b \in [0 .. M - 1 -> Nat]
  OBVIOUS
<1> HIDE DEF M
<1>4. ASSUME NEW i \in 0 .. M - 1
      PROVE  place(i) \in Nat
  <2>1. PICK f \in 0 .. M - 1 : f = e % M
    BY <1>1, Remainder
  <2>2. PICK j \in Int : j = i - f
    OBVIOUS
  <2>3. PICK d \in 0 .. M - 1 : d = j % M
    BY <1>1, Remainder
  <2>4. d = place(i)
    BY <2>1, <2>2, <2>3, Zenon
  <2> HIDE DEF place
  <2> QED
    BY <1>1, <2>3, <2>4
<1>5. ASSUME NEW x \in Int, NEW d \in 0 .. M - 1, x = e + d \/ x = e + d - M
      PROVE  x % M \in 0 .. M - 1 /\ place(x % M) = d
  <2>1. x % M \in 0 .. M - 1
    BY <1>1, Remainder, Zenon
  <2>2. ((x % M) - (e % M)) % M = d
    BY <1>1, <1>5, PlaceAfter
  <2> QED
    BY <2>1, <2>2, Zenon
<1> HIDE DEF place, c
<1>6. c \in [0 .. M - 1 -> Nat]
  <2>1. ASSUME NEW i \in 0 .. M - 1
        PROVE  (IF place(i) < Len(p) THEN p[place(i) + 1] ELSE b[i]) \in Nat
    <3>1. PICK d \in Nat : d = place(i)
      BY <1>4
    <3>2. d < Len(p) => p[d + 1] \in Nat
      OBVIOUS
    <3> QED
      BY <1>3, <3>1, <3>2
  <2> QED
    BY <1>2, <2>1
<1>7. ASSUME NEW k \in 1 .. Len(p)
      PROVE  c[(e + k - 1) % M] = p[k]
  <2>1. PICK x \in Int, d \in 0 .. M - 1 : x = e + d /\ x = e + k - 1 /\ d + 1 = k /\ d < Len(p)
    <3>1. e + k - 1 \in Int /\ k - 1 \in 0 .. M - 1
      BY <1>1
    <3> QED
      BY <1>1, <3>1
  <2>2. PICK i \in 0 .. M - 1 : i = x % M /\ place(i) = d
    BY <1>5, <2>1
  <2>3. c[i] = p[k]
    BY <1>2, <2>1, <2>2
  <2> QED
    BY <2>1, <2>2, <2>3, Zenon
<1>8. ASSUME NEW x \in Int, e + Len(p) - M <= x, x < e
      PROVE  c[x % M] = b[x % M]
  <2>1. PICK d \in 0 .. M - 1 : x = e + d - M /\ Len(p) <= d
    <3>1. x - e + M \in 0 .. M - 1 /\ x = e + (x - e + M) - M /\ Len(p) <= x - e + M
      BY <1>1, <1>8
    <3> QED
      BY <3>1
  <2>2. PICK i \in 0 .. M - 1 : i = x % M /\ place(i) = d
    BY <1>5, <2>1
  <2>3. c[i] = b[i]
    BY <1>1, <1>2, <2>1, <2>2
  <2> QED
    BY <2>2, <2>3, Zenon
<1> QED
  BY <1>6, <1>7, <1>8 DEF c, M

\* What is left of a region when its first samples have gone out.
LEMMA RegionParts ==
  ASSUME NEW b \in [0 .. BufferSize - 1 -> Nat], NEW s \in Nat, NEW n \in Nat,
         NEW m \in 0 .. n
  PROVE  /\ Region(b, s, n) \in Seq(Nat) /\ Len(Region(b, s, n)) = n
         /\ Region(b, s, m) = SubSeq(Region(b, s, n), 1, m)
         /\ Region(b, s + m, n - m) = SubSeq(Region(b, s, n), m + 1, n)
<1> DEFINE spot(k) == (s + k - 1) % BufferSize
           v == Region(b, s, n)
<1>1. ASSUME NEW k \in Int
      PROVE  b[spot(k)] \in Nat
  <2>1. PICK x \in Int : x = s + k - 1
    OBVIOUS
  <2>2. PICK j \in 0 .. BufferSize - 1 : j = x % BufferSize
    BY Remainder, PlayerAssumption
  <2>3. b[j] \in Nat
    OBVIOUS
  <2> QED
    BY <2>1, <2>2, <2>3, Zenon
<1>2. v = [k \in 1 .. n |-> b[spot(k)]] /\ Region(b, s, m) = [k \in 1 .. m |-> b[spot(k)]]
  BY Zenon DEF Region
<1>3. Region(b, s + m, n - m) = [k \in 1 .. n - m |-> b[spot(m + k)]]
  <2>1. \A k \in 1 .. n - m : (s + m) + k - 1 = s + (m + k) - 1
    OBVIOUS
  <2> QED
    BY <2>1, Zenon DEF Region
<1> HIDE DEF spot, v
<1>4. v \in Seq(Nat) /\ Len(v) = n /\ \A k \in 1 .. n : v[k] = b[spot(k)]
  BY <1>1, <1>2
<1>5. SubSeq(v, 1, m) = [k \in 1 .. m |-> b[spot(k)]]
  BY <1>4
<1>6. SubSeq(v, m + 1, n) = [k \in 1 .. n - m |-> b[spot(m + k)]]
  <2>1. SubSeq(v, m + 1, n) = [k \in 1 .. n - m |-> v[m + k]]
    BY <1>4
  <2>2. \A k \in 1 .. n - m : m + k \in 1 .. n
    OBVIOUS
  <2>3. \A k \in 1 .. n - m : v[m + k] = b[spot(m + k)]
    BY <1>4, <2>2, Zenon
  <2> QED
    BY <2>1, <2>3, Zenon
<1> QED
  BY <1>2, <1>3, <1>4, <1>5, <1>6 DEF v

\* What write() appends to what is buffered.
LEMMA RegionGrows ==
  ASSUME NEW b \in [0 .. BufferSize - 1 -> Nat], NEW s \in Nat, NEW n \in Nat,
         NEW p \in Seq(Nat), n + Len(p) <= BufferSize
  PROVE  Region(Written(b, s + n, p), s, n + Len(p)) = Region(b, s, n) \o p
<1> DEFINE c == Written(b, s + n, p)
           v == Region(b, s, n)
           u == Region(c, s, n + Len(p))
<1>1. /\ s + n \in Nat /\ Len(p) \in Nat /\ Len(p) <= BufferSize
      /\ BufferSize \in Nat /\ n \in 0 .. n /\ n + Len(p) \in 0 .. n + Len(p)
      /\ n + Len(p) \in Nat
  BY PlayerAssumption
<1>2. c \in [0 .. BufferSize - 1 -> Nat]
  BY <1>1, WrittenPlaces
<1> HIDE DEF c
<1>3. v \in Seq(Nat) /\ Len(v) = n /\ u \in Seq(Nat) /\ Len(u) = n + Len(p)
  <2>1. v \in Seq(Nat) /\ Len(v) = n
    BY <1>1, RegionParts, Zenon
  <2>2. u \in Seq(Nat) /\ Len(u) = n + Len(p)
    BY <1>1, <1>2, RegionParts, Zenon
  <2> QED
    BY <2>1, <2>2
<1>4. ASSUME NEW k \in 1 .. n
      PROVE  u[k] = v[k]
  <2>1. PICK x \in Int : x = s + k - 1 /\ (s + n) + Len(p) - BufferSize <= x /\ x < s + n
    BY <1>1
  <2>2. c[x % BufferSize] = b[x % BufferSize]
    BY <1>1, <2>1, WrittenPlaces DEF c
  <2>3. k \in 1 .. n + Len(p)
    BY <1>1
  <2> QED
    BY <2>1, <2>2, <2>3, Zenon DEF Region
<1>5. ASSUME NEW k \in 1 .. Len(p)
      PROVE  u[n + k] = p[k]
  <2>1. c[((s + n) + k - 1) % BufferSize] = p[k]
    BY <1>1, WrittenPlaces DEF c
  <2>2. s + (n + k) - 1 = (s + n) + k - 1 /\ n + k \in 1 .. n + Len(p)
    BY <1>1
  <2> QED
    BY <2>1, <2>2, Zenon DEF Region
<1> HIDE DEF u, v
<1>6. u = v \o p
  BY <1>1, <1>3, <1>4, <1>5, ConcatIs
<1> QED
  BY <1>6 DEF u, v, c

-----------------------------------------------------------------------------
\* The samples of packets.

LEMMA SamplesType ==
  ASSUME NEW id \in Nat \ {0}
  PROVE  Samples(id) \in Seq(Nat) /\ Len(Samples(id)) = FrameSize
<1>1. PICK b \in Nat : b = (id - 1) * FrameSize
  BY PlayerAssumption
<1>2. Samples(id) = [k \in 1 .. FrameSize |-> b + k]
  BY <1>1, Zenon DEF Samples
<1>3. FrameSize \in Nat
  BY PlayerAssumption
<1> QED
  BY <1>2, <1>3

LEMMA JoinedType ==
  ASSUME NEW p \in Seq(Nat \ {0})
  PROVE  Joined(p) \in Seq(Nat) /\ Len(Joined(p)) = Len(p) * FrameSize
<1> DEFINE g(k) == Samples(p[((k - 1) \div FrameSize) + 1])[((k - 1) % FrameSize) + 1]
<1>1. ASSUME NEW k \in 1 .. Len(p) * FrameSize
      PROVE  g(k) \in Nat
  <2>1. PICK i \in 1 .. Len(p), j \in 1 .. FrameSize :
          i = ((k - 1) \div FrameSize) + 1 /\ j = ((k - 1) % FrameSize) + 1
    <3>1. FrameSize \in Nat \ {0} /\ Len(p) \in Nat
      BY PlayerAssumption
    <3> QED
      BY <3>1, PartPlace
  <2>2. p[i] \in Nat \ {0}
    OBVIOUS
  <2>3. Samples(p[i]) \in Seq(Nat) /\ Len(Samples(p[i])) = FrameSize
    BY <2>2, SamplesType, Zenon
  <2>4. Samples(p[i])[j] \in Nat
    BY <2>3
  <2> QED
    BY <2>1, <2>4, Zenon
<1>2. Joined(p) = [k \in 1 .. Len(p) * FrameSize |-> g(k)]
  BY Zenon DEF Joined
<1> HIDE DEF g
<1>3. PICK n \in Nat : n = Len(p) * FrameSize
  BY PlayerAssumption
<1> QED
  BY <1>1, <1>2, <1>3

LEMMA JoinedNone == Joined(<<>>) = <<>>
<1>1. Len(<<>>) * FrameSize = 0
  BY PlayerAssumption
<1> QED
  BY <1>1 DEF Joined

LEMMA JoinedGrows ==
  ASSUME NEW p \in Seq(Nat \ {0}), NEW id \in Nat \ {0}
  PROVE  Joined(Append(p, id)) = Joined(p) \o Samples(id)
<1> DEFINE F == FrameSize
           n == Len(p)
           q == Append(p, id)
           v == Joined(p)
           u == Joined(q)
<1>1. /\ q \in Seq(Nat \ {0}) /\ Len(q) = n + 1 /\ q[n + 1] = id /\ n \in Nat
      /\ \A i \in 1 .. n : q[i] = p[i]
  OBVIOUS
<1>2. F \in Nat \ {0} /\ n * F \in Nat /\ (n + 1) * F = n * F + F
  BY <1>1, PlayerAssumption
<1> HIDE DEF q
<1>3. /\ v \in Seq(Nat) /\ Len(v) = n * F /\ u \in Seq(Nat) /\ Len(u) = n * F + F
      /\ Samples(id) \in Seq(Nat) /\ Len(Samples(id)) = F
  BY <1>1, <1>2, JoinedType, SamplesType
<1>4. ASSUME NEW k \in 1 .. n * F
      PROVE  u[k] = v[k]
  <2>1. PICK i \in 1 .. n, j \in 1 .. F :
          i = ((k - 1) \div F) + 1 /\ j = ((k - 1) % F) + 1
    BY <1>1, <1>2, PartPlace
  <2>2. k \in 1 .. (n + 1) * F
    BY <1>2
  <2>3. u[k] = Samples(q[i])[j]
    BY <1>1, <2>1, <2>2, Zenon DEF Joined
  <2>4. v[k] = Samples(p[i])[j]
    BY <2>1, Zenon DEF Joined
  <2> QED
    BY <1>1, <2>3, <2>4, Zenon
<1>5. ASSUME NEW j \in 1 .. F
      PROVE  u[n * F + j] = Samples(id)[j]
  <2>1. PICK k \in 1 .. (n + 1) * F : k = n * F + j
    BY <1>2
  <2>2. k - 1 = F * n + (j - 1) /\ n \in Int /\ j - 1 \in 0 .. F - 1
    BY <1>1, <1>2, <2>1
  <2>3. (F * n + (j - 1)) \div F = n /\ (F * n + (j - 1)) % F = j - 1
    BY <1>2, <2>2, QuotientIs
  <2>4. n + 1 = ((k - 1) \div F) + 1 /\ j = ((k - 1) % F) + 1
    <3>1. (k - 1) \div F = n /\ (k - 1) % F = j - 1
      BY <2>2, <2>3, Zenon
    <3>2. j = (j - 1) + 1
      OBVIOUS
    <3> QED
      BY <3>1, <3>2, Zenon
  <2>5. u[k] = Samples(q[n + 1])[j]
    BY <1>1, <2>1, <2>4, Zenon DEF Joined
  <2> QED
    BY <1>1, <2>1, <2>5, Zenon
<1> HIDE DEF u, v, n, F
<1>6. /\ Len(u) = Len(v) + Len(Samples(id))
      /\ \A k \in 1 .. Len(v) : u[k] = v[k]
      /\ \A j \in 1 .. Len(Samples(id)) : u[Len(v) + j] = Samples(id)[j]
  BY <1>3, <1>4, <1>5, Zenon
<1>7. u = v \o Samples(id)
  BY <1>3, <1>6, ConcatIs
<1> QED
  BY <1>7 DEF u, v, q

-----------------------------------------------------------------------------
LEMMA HighMark ==
  /\ bufferHighMark \in Nat /\ BufferSize \in Nat \ {0} /\ FrameSize \in Nat \ {0}
BY PlayerAssumption DEF bufferHighMark

LEMMA RxInit == Init => RxInv
<1> SUFFICES ASSUME Init
             PROVE  RxInv
  OBVIOUS
<1>1. TaskInv
  BY DEF Init, PlayerInit, TaskInv
<1>2. RingInv
  BY HighMark DEF Init, PlayerInit, RingInv, NoSample
<1>3. PacketInv
  BY ArrivalsAssumption DEF Init, PacketInv, Held
<1> QED
  BY <1>1, <1>2, <1>3 DEF RxInv

\* What the callback moves to the track is the first part of what is buffered.
MovedOut(n) ==
  /\ n \in 1 .. Len(Buffered)
  /\ track' = track \o SubSeq(Buffered, 1, n)
  /\ Buffered' = SubSeq(Buffered, n + 1, Len(Buffered))

LEMMA BufferedIs ==
  ASSUME RingInv
  PROVE  /\ Buffered = Region(mBuffer, mStartMarker, mEndMarker - mStartMarker)
         /\ Buffered \in Seq(Nat) /\ Len(Buffered) = mEndMarker - mStartMarker
<1>1. Buffered = Region(mBuffer, mStartMarker, mEndMarker - mStartMarker)
  BY DEF Buffered, getBufferedDataSize, Region
<1>2. PICK n \in Nat : n = mEndMarker - mStartMarker /\ n \in 0 .. n
  BY DEF RingInv
<1>3. Region(mBuffer, mStartMarker, n) \in Seq(Nat) /\ Len(Region(mBuffer, mStartMarker, n)) = n
  <2>1. mBuffer \in [0 .. BufferSize - 1 -> Nat] /\ mStartMarker \in Nat
    BY DEF RingInv
  <2> QED
    BY <1>2, <2>1, RegionParts, Zenon
<1> QED
  BY <1>1, <1>2, <1>3, Zenon

LEMMA WriteOutMoves ==
  ASSUME RingInv, NEW f \in 0 .. BufferSize - 1, f = Place(mStartMarker),
         NEW n \in 1 .. mEndMarker - mStartMarker, f + n <= BufferSize,
         WriteOut(n), UNCHANGED <<mBuffer, mEndMarker>>
  PROVE  /\ MovedOut(n) /\ mStartMarker' = mStartMarker + n /\ track' \in Seq(Nat)
         /\ Place(mStartMarker + (BufferSize - f)) = 0
<1>1. PICK b \in [0 .. BufferSize - 1 -> Nat], s \in Nat, e \in Nat, m \in Nat :
        b = mBuffer /\ s = mStartMarker /\ e = mEndMarker /\ m = e - s
        /\ n \in 0 .. m /\ n \in Nat
  BY DEF RingInv
<1>2. /\ mStartMarker' = s + n /\ mBuffer' = b /\ mEndMarker' = e
      /\ track' = track \o [k \in 1 .. n |-> b[f + k - 1]]
  BY <1>1, Zenon DEF WriteOut, Place
<1>3. [k \in 1 .. n |-> b[f + k - 1]] = Region(b, s, n) /\ Place(s + (BufferSize - f)) = 0
  <2>1. n \in Nat /\ f = s % BufferSize
    BY <1>1, Zenon DEF Place
  <2> QED
    BY <2>1, RegionInOnePart, Zenon DEF Place
<1>4. /\ Region(b, s, m) \in Seq(Nat) /\ Len(Region(b, s, m)) = m
      /\ Region(b, s, n) = SubSeq(Region(b, s, m), 1, n)
      /\ Region(b, s + n, m - n) = SubSeq(Region(b, s, m), n + 1, m)
  <2>1. \A k \in 0 .. m :
          /\ Region(b, s, m) \in Seq(Nat) /\ Len(Region(b, s, m)) = m
          /\ Region(b, s, k) = SubSeq(Region(b, s, m), 1, k)
          /\ Region(b, s + k, m - k) = SubSeq(Region(b, s, m), k + 1, m)
    BY RegionParts
  <2>2. n \in 0 .. m
    BY <1>1
  <2> QED
    BY <2>1, <2>2
<1>5. Buffered = Region(b, s, m)
  BY <1>1, Zenon DEF Buffered, getBufferedDataSize, Region
<1>6. Buffered' = Region(b, s + n, m - n)
  <2>1. e - (s + n) = m - n
    BY <1>1
  <2>2. Buffered' = Region(b, s + n, e - (s + n))
    BY <1>2, Zenon DEF Buffered, getBufferedDataSize, Region
  <2> QED
    BY <2>1, <2>2, Zenon
<1>7. n \in 1 .. Len(Buffered)
  BY <1>1, <1>4, <1>5
<1>8. MovedOut(n)
  BY <1>2, <1>3, <1>4, <1>5, <1>6, <1>7, Zenon DEF MovedOut
<1>9. track' \in Seq(Nat)
  <2>1. track \in Seq(Nat) /\ SubSeq(Region(b, s, m), 1, n) \in Seq(Nat)
    <3>1. n \in 0 .. Len(Region(b, s, m))
      BY <1>1, <1>4
    <3>2. SubSeq(Region(b, s, m), 1, n) \in Seq(Nat)
      BY <1>4, <3>1, FrontAndRest, Zenon
    <3> QED
      BY <3>2 DEF RingInv
  <2>2. track' = track \o SubSeq(Region(b, s, m), 1, n)
    BY <1>2, <1>3, <1>4, Zenon
  <2> QED
    BY <2>1, <2>2
<1> QED
  BY <1>1, <1>2, <1>3, <1>8, <1>9, Zenon

\* The callback: nothing that is buffered is left out.
LEMMA CallbackMoves ==
  ASSUME RingInv, Callback
  PROVE  RingInv' /\ (UNCHANGED <<Buffered, track>> \/ \E n \in Nat : MovedOut(n))
<1>1. CASE UNCHANGED <<mBuffer, mEndMarker, mStartMarker, rest, track>>
  BY <1>1 DEF RingInv, Buffered, getBufferedDataSize
<1>2. PICK f \in 0 .. BufferSize - 1 : f = Place(mStartMarker)
  <2>1. mStartMarker \in Int /\ BufferSize \in Nat \ {0}
    BY PlayerAssumption DEF RingInv
  <2> QED
    BY <2>1, Remainder DEF Place
<1>3. PICK n \in Nat : n = mEndMarker - mStartMarker /\ n <= BufferSize
  BY HighMark DEF RingInv
<1>4. ASSUME rest = 0, n > 0, UNCHANGED <<mBuffer, mEndMarker>>, f + n <= BufferSize,
             WriteOut(n), rest' = 0
      PROVE  RingInv' /\ MovedOut(n)
  <2>1. MovedOut(n) /\ mStartMarker' = mStartMarker + n /\ track' \in Seq(Nat)
    BY <1>2, <1>3, <1>4, WriteOutMoves
  <2>2. mStartMarker' = mEndMarker
    BY <1>3, <2>1 DEF RingInv
  <2> QED
    BY <1>4, <2>1, <2>2, HighMark DEF RingInv
<1>5. ASSUME rest = 0, n > 0, UNCHANGED <<mBuffer, mEndMarker>>, f + n > BufferSize,
             WriteOut(BufferSize - f), rest' = n - (BufferSize - f)
      PROVE  RingInv' /\ MovedOut(BufferSize - f)
  <2>1. PICK k \in 1 .. n : k = BufferSize - f /\ f + k <= BufferSize /\ k < n
    BY <1>2, <1>3, <1>5, HighMark
  <2>2. /\ MovedOut(k) /\ mStartMarker' = mStartMarker + k /\ track' \in Seq(Nat)
        /\ Place(mStartMarker') = 0
    BY <1>2, <1>3, <1>5, <2>1, WriteOutMoves, Zenon
  <2> QED
    BY <1>3, <1>5, <2>1, <2>2, HighMark DEF RingInv
<1>6. ASSUME rest > 0, UNCHANGED <<mBuffer, mEndMarker>>, WriteOut(rest), rest' = 0
      PROVE  RingInv' /\ MovedOut(rest)
  <2>1. rest = n /\ f = 0
    BY <1>2, <1>3, <1>6 DEF RingInv
  <2>2. MovedOut(n) /\ mStartMarker' = mStartMarker + n /\ track' \in Seq(Nat)
    BY <1>2, <1>3, <1>6, <2>1, WriteOutMoves
  <2>3. mStartMarker' = mEndMarker
    BY <1>3, <2>2 DEF RingInv
  <2> QED
    BY <1>6, <2>1, <2>2, <2>3, HighMark DEF RingInv
<1>7. CASE WriteRest
  <2>1. rest <= BufferSize
    BY <1>3, <1>7 DEF WriteRest, RingInv
  <2>2. rest > 0 /\ UNCHANGED <<mBuffer, mEndMarker>> /\ WriteOut(rest) /\ rest' = 0
    BY <1>7, <2>1 DEF WriteRest
  <2>3. RingInv' /\ MovedOut(rest)
    BY <1>6, <2>2, Zenon
  <2>4. rest \in Nat
    BY <1>3 DEF RingInv
  <2> QED
    BY <2>3, <2>4, Zenon
<1>8. CASE Notify
  <2>1. CASE UNCHANGED <<mStartMarker, rest, track>>
    BY <1>1, <1>8, <2>1 DEF Notify
  <2>2. CASE writeToTrack
    <3>1. UNCHANGED <<mBuffer, mEndMarker>> /\ rest = 0
      BY <1>8 DEF Notify, MonitorFree
    <3>2. CASE mStartMarker = mEndMarker
      BY <2>1, <2>2, <3>2 DEF writeToTrack, FeedNoise
    <3>3. CASE mStartMarker # mEndMarker
      <4>1. n > 0 /\ (IF FrameSize < getBufferedDataSize THEN getBufferedDataSize ELSE FrameSize) = n
        BY <1>3, <3>1, <3>3, PlayerAssumption, HighMark DEF RingInv, getBufferedDataSize
      <4>2. IF f + n <= BufferSize
              THEN WriteOut(n) /\ UNCHANGED rest
              ELSE WriteOut(BufferSize - f) /\ rest' = n - (BufferSize - f)
        BY <1>2, <2>2, <3>3, <4>1, Zenon DEF writeToTrack, Place
      <4>3. BufferSize - f \in Nat /\ f \in Int /\ BufferSize \in Int
        BY <1>2, PlayerAssumption
      <4>4. CASE f + n <= BufferSize
        BY <1>3, <1>4, <3>1, <4>1, <4>2, <4>4
      <4>5. CASE f + n > BufferSize
        BY <1>3, <1>5, <3>1, <4>1, <4>2, <4>3, <4>5
      <4> QED
        BY <1>3, <4>3, <4>4, <4>5
    <3> QED
      BY <3>2, <3>3
  <2> QED
    BY <1>8, <2>1, <2>2 DEF Notify
<1> QED
  BY <1>7, <1>8 DEF Callback

\* Samples that fit in the ring go over nothing of themselves.
LEMMA WritesOnce ==
  ASSUME NEW p \in Seq(Nat), Len(p) <= BufferSize, write(p), DOMAIN mBuffer = 0 .. BufferSize - 1,
         mEndMarker \in Nat
  PROVE  mBuffer' = Written(mBuffer, mEndMarker, p)
<1> DEFINE place(i) == (i - (mEndMarker % BufferSize)) % BufferSize
<1>1. ASSUME NEW i \in 0 .. BufferSize - 1
      PROVE  ~(place(i) + BufferSize < Len(p))
  <2>1. BufferSize \in Nat \ {0} /\ mEndMarker \in Int /\ Len(p) \in Nat
    BY PlayerAssumption
  <2>2. PICK f \in 0 .. BufferSize - 1 : f = mEndMarker % BufferSize
    BY <2>1, Remainder, Zenon
  <2>3. PICK j \in Int : j = i - f
    OBVIOUS
  <2>4. PICK d \in 0 .. BufferSize - 1 : d = j % BufferSize
    BY <2>1, Remainder, Zenon
  <2>5. d = place(i)
    BY <2>2, <2>3, <2>4, Zenon
  <2> HIDE DEF place
  <2> QED
    BY <2>1, <2>4, <2>5
<1>2. mBuffer' = [i \in 0 .. BufferSize - 1 |->
                   IF place(i) + BufferSize < Len(p) THEN p[place(i) + BufferSize + 1]
                   ELSE IF place(i) < Len(p) THEN p[place(i) + 1] ELSE mBuffer[i]]
  BY Zenon DEF write
<1>3. Written(mBuffer, mEndMarker, p)
        = [i \in 0 .. BufferSize - 1 |->
             IF place(i) < Len(p) THEN p[place(i) + 1] ELSE mBuffer[i]]
  BY Zenon DEF Written
<1> HIDE DEF place
<1> QED
  BY <1>1, <1>2, <1>3, Zenon

\* With room for it, PlayTask writes behind what is buffered, and over none of it.
LEMMA WriteAppends ==
  ASSUME RingInv, PacketInv, pt = "write", write(mPlayBuffer), ~Overruns(mPlayBuffer)
  PROVE  /\ mBuffer' \in [0 .. BufferSize - 1 -> Nat]
         /\ mEndMarker' = mEndMarker + Len(mPlayBuffer)
         /\ mEndMarker' <= mStartMarker + BufferSize
         /\ FrameSize <= Len(mPlayBuffer)
         /\ Buffered' = Buffered \o mPlayBuffer
<1>1. PICK b \in [0 .. BufferSize - 1 -> Nat], s \in Nat, e \in Nat, n \in Nat :
        b = mBuffer /\ s = mStartMarker /\ e = mEndMarker /\ n = e - s /\ e = s + n
  BY DEF RingInv
<1>2. PICK p \in Seq(Nat) : p = mPlayBuffer /\ FrameSize <= Len(p)
  BY DEF PacketInv, Held
<1>3. n + Len(p) <= BufferSize /\ Len(p) <= BufferSize /\ Len(p) \in Nat
  <2>1. n + Len(p) <= BufferSize
    BY <1>1, <1>2, HighMark DEF Overruns, getBufferedDataSize
  <2> QED
    BY <1>1, <1>2, <2>1, HighMark
<1>4. /\ mBuffer' = Written(b, e, p)
      /\ mEndMarker' = e + Len(p) /\ mStartMarker' = s
  <2>1. DOMAIN mBuffer = 0 .. BufferSize - 1
    BY DEF RingInv
  <2>2. write(p) /\ mEndMarker \in Nat
    BY <1>1, <1>2
  <2>3. mBuffer' = Written(mBuffer, mEndMarker, p)
    BY <1>3, <2>1, <2>2, WritesOnce, Zenon
  <2>4. mEndMarker' = mEndMarker + Len(p) /\ mStartMarker' = mStartMarker
    BY <2>2, Zenon DEF write
  <2> QED
    BY <1>1, <2>3, <2>4, Zenon
<1>5. Written(b, e, p) \in [0 .. BufferSize - 1 -> Nat]
  BY <1>3, WrittenPlaces
<1>6. Region(Written(b, e, p), s, n + Len(p)) = Region(b, s, n) \o p
  <2>1. Region(Written(b, s + n, p), s, n + Len(p)) = Region(b, s, n) \o p
    BY <1>3, RegionGrows
  <2> QED
    BY <1>1, <2>1, Zenon
<1>7. Buffered = Region(b, s, n)
  BY <1>1, Zenon DEF Buffered, getBufferedDataSize, Region
<1>8. Buffered' = Region(Written(b, e, p), s, n + Len(p))
  <2>1. (e + Len(p)) - s = n + Len(p)
    BY <1>1, <1>3
  <2>2. Buffered' = Region(Written(b, e, p), s, (e + Len(p)) - s)
    BY <1>4, Zenon DEF Buffered, getBufferedDataSize, Region
  <2> QED
    BY <2>1, <2>2, Zenon
<1>9. e + Len(p) <= s + BufferSize
  BY <1>1, <1>3, HighMark
<1> QED
  BY <1>1, <1>2, <1>4, <1>5, <1>6, <1>7, <1>8, <1>9, Zenon

-----------------------------------------------------------------------------
\* The invariant, part by part.

\* An overrun is not forgotten.
LEMMA OverrunStays ==
  ASSUME [Next]_vars, ~overrun'
  PROVE  ~overrun
<1>1. CASE WritePlayer
  BY <1>1, Zenon DEF WritePlayer
<1>2. CASE ~WritePlayer
  <2>1. UNCHANGED overrun
    BY <1>2
    DEF Next, Play, Receiver, ReceiverTest, ReceiverReceive, FirstReceive, FirstReceiveFails,
        StartReceiver, PlayTest, demultiplexRTP, Measure, FlushPlayer, RereadHead, StopReceiver,
        StopPlayer, ClearPlayer, StopRx, Arrive, Player, vars, history
  <2> QED
    BY <2>1
<1> QED
  BY <1>1, <1>2

LEMMA TaskStep ==
  ASSUME TaskInv, [Next]_vars
  PROVE  TaskInv'
<1> USE DEF TaskInv
<1>1. CASE Receiver
  BY <1>1 DEF Receiver, ReceiverTest, ReceiverReceive, playerVars, ring, threadVars
<1>2. CASE FirstReceive \/ FirstReceiveFails \/ StartReceiver \/ PlayTest
  BY <1>2 DEF FirstReceive, FirstReceiveFails, StartReceiver, PlayTest, playerVars, ring, stop
<1>3. CASE demultiplexRTP \/ Measure
  BY <1>3 DEF demultiplexRTP, Measure, playerVars, ring
<1>4. CASE FlushPlayer \/ ClearPlayer
  BY <1>4 DEF FlushPlayer, ClearPlayer, flush, MonitorFree
<1>5. CASE RereadHead
  BY <1>5 DEF RereadHead, playerVars, ring
<1>6. CASE WritePlayer
  <2>1. CASE Throws(mPlayBuffer)
    BY <1>6, <2>1 DEF WritePlayer, playerVars
  <2>2. CASE ~Throws(mPlayBuffer)
    BY <1>6, <2>2 DEF WritePlayer, write
  <2> QED
    BY <2>1, <2>2
<1>7. CASE StopReceiver \/ StopPlayer
  BY <1>7 DEF StopReceiver, StopPlayer, stop, playerVars, ring
<1>8. CASE Player
  <2>1. UNCHANGED <<pt, writeHead, mEndMarker, mIsPlaying>>
    BY <1>8
    DEF Player, FeedInitialNoise, Callback, Notify, WriteRest, PlaySample, threadVars, ring
  <2>2. ASSUME mStartMarker = mEndMarker, rest = 0
        PROVE  UNCHANGED <<mStartMarker, rest>>
    BY <1>8, <2>2
    DEF Player, FeedInitialNoise, Callback, Notify, WriteRest, PlaySample, writeToTrack,
        FeedNoise, ring
  <2> QED
    BY <2>1, <2>2
<1>9. CASE StopRx \/ \E ours \in BOOLEAN : Arrive(ours)
  <2>1. UNCHANGED <<playerVars, threadVars>>
    BY <1>9 DEF StopRx, Arrive
  <2> QED
    BY <2>1 DEF playerVars, ring, threadVars
<1>10. CASE UNCHANGED vars
  BY <1>10 DEF vars, playerVars, ring, threadVars
<1> QED
  BY <1>1, <1>2, <1>3, <1>4, <1>5, <1>6, <1>7, <1>8, <1>9, <1>10 DEF Next, Play

\* The actions that leave the player alone, but for what it has to play.
LEMMA RingKept ==
  ASSUME RingInv, UNCHANGED <<ring, rest, track>>
  PROVE  RingInv'
BY DEF RingInv, ring

LEMMA RingStep ==
  ASSUME RxInv, [Next]_vars, ~overrun'
  PROVE  RingInv'
<1> USE DEF RxInv
<1>1. CASE ReceiverTest \/ ReceiverReceive \/ StopRx \/ (\E ours \in BOOLEAN : Arrive(ours))
             \/ UNCHANGED vars
  BY <1>1, RingKept
  DEF ReceiverTest, ReceiverReceive, StopRx, Arrive, vars, playerVars
<1>2. CASE FirstReceive \/ FirstReceiveFails \/ StartReceiver \/ PlayTest \/ demultiplexRTP
             \/ StopReceiver
  BY <1>2, RingKept DEF FirstReceive, FirstReceiveFails, StartReceiver, PlayTest,
                        demultiplexRTP, StopReceiver, playerVars, stop
<1>3. CASE Measure \/ RereadHead \/ StopPlayer
  BY <1>3, RingKept DEF Measure, RereadHead, StopPlayer, playerVars, stop
<1>5. CASE FlushPlayer \/ ClearPlayer
  BY <1>5, HighMark DEF FlushPlayer, ClearPlayer, flush, MonitorFree, RingInv
<1>6. CASE WritePlayer
  <2>1. CASE Throws(mPlayBuffer)
    BY <1>6, <2>1, RingKept DEF WritePlayer, playerVars
  <2>2. CASE ~Throws(mPlayBuffer)
    <3>1. RingInv /\ PacketInv /\ pt = "write" /\ write(mPlayBuffer) /\ rest = 0
      BY <1>6, <2>2 DEF WritePlayer, MonitorFree
    <3>2. ~Overruns(mPlayBuffer)
      BY <1>6, Zenon DEF WritePlayer
    <3>3. /\ mBuffer' \in [0 .. BufferSize - 1 -> Nat]
          /\ mEndMarker' = mEndMarker + Len(mPlayBuffer)
          /\ mEndMarker' <= mStartMarker + BufferSize /\ FrameSize <= Len(mPlayBuffer)
      BY <3>1, <3>2, WriteAppends, Zenon
    <3>4. Len(mPlayBuffer) \in Nat
      BY <3>1 DEF PacketInv
    <3>5. UNCHANGED <<mStartMarker, rest, track>>
      BY <3>1 DEF write
    <3> QED
      BY <3>1, <3>3, <3>4, <3>5, HighMark DEF RingInv
  <2> QED
    BY <2>1, <2>2
<1>7. CASE Player
  <2>1. CASE FeedInitialNoise \/ PlaySample
    BY <2>1, RingKept DEF FeedInitialNoise, PlaySample
  <2>2. CASE Callback
    BY <2>2, CallbackMoves
  <2> QED
    BY <1>7, <2>1, <2>2 DEF Player
<1> QED
  BY <1>1, <1>2, <1>3, <1>5, <1>6, <1>7 DEF Next, Play, Receiver

LEMMA DatagramNumbers == \A p \in Datagrams : p.id \in Nat \ {0}
BY DEF Datagrams

\* A datagram is received, and is listed with a number that is greater than all before.
LEMMA ReceivePackets ==
  ASSUME PacketInv, Receive, UNCHANGED <<arrivals, mPlayBuffer>>, Held' = Held
  PROVE  PacketInv'
<1>1. /\ sock \in Seq(Datagrams) /\ sock # <<>> /\ sock' = Tail(sock)
      /\ Head(sock) = sock[1] /\ sock[1] \in Datagrams /\ Len(sock) \in Nat
      /\ 1 \in 1 .. Len(sock)
  BY DEF PacketInv, Receive
<1>2. /\ sock' \in Seq(Datagrams) /\ Len(sock') = Len(sock) - 1
      /\ \A j \in 1 .. Len(sock') : sock'[j] = sock[j + 1] /\ j + 1 \in 1 .. Len(sock) /\ 1 < j + 1
  BY <1>1
<1>3. PICK id \in Nat \ {0} : id = Head(sock).id /\ id = sock[1].id /\ id <= arrivals
  <2>1. sock[1].id \in Nat \ {0} /\ sock[1].id <= arrivals
    BY <1>1, DatagramNumbers DEF PacketInv
  <2> QED
    BY <1>1, <2>1
<1>4. /\ mPacketList' \in Seq(Nat \ {0}) /\ Len(mPacketList') <= Len(mPacketList) + 1
      /\ Len(mPacketList') \in Nat /\ Len(mPacketList) \in Nat
      /\ \/ listed' = listed
         \/ listed' = listed \cup {id}
  <2>1. mPacketList \in Seq(Nat \ {0})
    BY DEF PacketInv
  <2>2. \/ mPacketList' = Append(mPacketList, id) /\ listed' = listed \cup {id}
        \/ mPacketList' = mPacketList /\ listed' = listed
    BY <1>3, Zenon DEF Receive
  <2>3. Len(mPacketList) \in Nat
    BY <2>1
  <2>4. /\ Append(mPacketList, id) \in Seq(Nat \ {0})
        /\ Len(Append(mPacketList, id)) = Len(mPacketList) + 1
    BY <1>3, <2>1
  <2>5. CASE mPacketList' = Append(mPacketList, id) /\ listed' = listed \cup {id}
    <3>1. mPacketList' \in Seq(Nat \ {0}) /\ Len(mPacketList') = Len(mPacketList) + 1
      BY <2>4, <2>5, Zenon
    <3>2. Len(mPacketList') <= Len(mPacketList) + 1 /\ Len(mPacketList') \in Nat
      BY <2>3, <3>1
    <3> QED
      BY <2>3, <2>5, <3>1, <3>2, Zenon
  <2>6. CASE mPacketList' = mPacketList /\ listed' = listed
    <3>1. Len(mPacketList') = Len(mPacketList)
      BY <2>6, Zenon
    <3>2. Len(mPacketList') <= Len(mPacketList) + 1 /\ Len(mPacketList') \in Nat
      BY <2>3, <3>1
    <3>3. mPacketList' \in Seq(Nat \ {0})
      BY <2>1, <2>6, Zenon
    <3> QED
      BY <2>3, <2>6, <3>2, <3>3, Zenon
  <2> QED
    BY <2>2, <2>5, <2>6, Zenon
<1>5. \A i \in listed : i \in Nat /\ i < id
  BY <1>1, <1>3 DEF PacketInv
<1>6. ASSUME NEW j \in 1 .. Len(sock')
      PROVE  sock'[j].id <= arrivals /\ \A i \in listed' : i < sock'[j].id
  <2>1. sock'[j] = sock[j + 1] /\ j + 1 \in 1 .. Len(sock) /\ 1 < j + 1
    BY <1>2
  <2>2. sock[j + 1].id <= arrivals /\ \A i \in listed : i < sock[j + 1].id
    BY <2>1 DEF PacketInv
  <2>3. id < sock[j + 1].id
    BY <1>1, <1>3, <2>1 DEF PacketInv
  <2> QED
    BY <1>4, <2>1, <2>2, <2>3
<1>7. \A j, k \in 1 .. Len(sock') : j < k => sock'[j].id < sock'[k].id
  <2> SUFFICES ASSUME NEW j \in 1 .. Len(sock'), NEW k \in 1 .. Len(sock'), j < k
               PROVE  sock'[j].id < sock'[k].id
    OBVIOUS
  <2>1. /\ sock'[j] = sock[j + 1] /\ sock'[k] = sock[k + 1] /\ j + 1 < k + 1
        /\ j + 1 \in 1 .. Len(sock) /\ k + 1 \in 1 .. Len(sock)
    BY <1>2
  <2> QED
    BY <2>1 DEF PacketInv
<1>8. listed' \subseteq 1 .. arrivals /\ \E top \in {0} \cup listed' : \A i \in listed' : i <= top
  <2>1. CASE listed' = listed
    BY <2>1 DEF PacketInv
  <2>2. CASE listed' = listed \cup {id}
    <3>1. \A i \in listed' : i <= id
      BY <1>3, <1>5, <2>2
    <3>2. listed \subseteq 1 .. arrivals /\ arrivals \in Nat
      BY DEF PacketInv
    <3>3. id \in 1 .. arrivals
      BY <1>3, <3>2
    <3>4. listed' \subseteq 1 .. arrivals /\ id \in {0} \cup listed'
      BY <2>2, <3>2, <3>3, Zenon
    <3> QED
      BY <3>1, <3>4, Zenon
  <2> QED
    BY <1>4, <2>1, <2>2
<1> HIDE DEF Held
<1> QED
  BY <1>2, <1>4, <1>6, <1>7, <1>8 DEF PacketInv

LEMMA ArrivePackets ==
  ASSUME PacketInv, NEW ours \in BOOLEAN, Arrive(ours)
  PROVE  PacketInv'
<1>1. PICK p \in Datagrams : p = [id |-> arrivals + 1, ours |-> ours] /\ p.id = arrivals + 1
  <2>1. arrivals + 1 \in Nat \ {0}
    BY DEF PacketInv
  <2>2. PICK q : q = [id |-> arrivals + 1, ours |-> ours]
    OBVIOUS
  <2>3. q \in Datagrams
    BY <2>1, <2>2, Zenon DEF Datagrams
  <2>4. q.id = arrivals + 1
    BY <2>2
  <2> QED
    BY <2>2, <2>3, <2>4, Zenon
<1>2. /\ sock \in Seq(Datagrams) /\ sock' = Append(sock, p) /\ Len(sock) \in Nat
      /\ arrivals \in Nat /\ arrivals' = arrivals + 1 /\ arrivals' \in 0 .. MaxArrivals
      /\ UNCHANGED <<listed, mPacketList, mPlayBuffer, pt>>
  <2>1. sock \in Seq(Datagrams) /\ arrivals \in Nat /\ MaxArrivals \in Nat
    BY ArrivalsAssumption DEF PacketInv
  <2>2. /\ sock' = Append(sock, p) /\ arrivals' = arrivals + 1 /\ arrivals < MaxArrivals
        /\ UNCHANGED <<listed, mPacketList, mPlayBuffer, pt>>
    BY <1>1, Zenon DEF Arrive, threadVars
  <2> QED
    BY <2>1, <2>2
<1>3. /\ sock' \in Seq(Datagrams) /\ Len(sock') = Len(sock) + 1 /\ sock'[Len(sock) + 1] = p
      /\ \A j \in 1 .. Len(sock) : sock'[j] = sock[j]
      /\ \A j \in 1 .. Len(sock') : j \in 1 .. Len(sock) \/ j = Len(sock) + 1
  BY <1>2
<1>4. ASSUME NEW j \in 1 .. Len(sock)
      PROVE  /\ sock[j].id \in Nat /\ sock[j].id <= arrivals
             /\ \A id \in listed : id < sock[j].id
  <2>1. sock[j] \in Datagrams
    BY <1>2
  <2>2. sock[j].id \in Nat
    BY <2>1, DatagramNumbers
  <2> QED
    BY <2>2 DEF PacketInv
<1>5. \A id \in listed : id \in Nat /\ id <= arrivals
  BY <1>2 DEF PacketInv
<1>6. ASSUME NEW j \in 1 .. Len(sock')
      PROVE  sock'[j].id <= arrivals' /\ \A id \in listed' : id < sock'[j].id
  <2>1. CASE j \in 1 .. Len(sock)
    BY <1>2, <1>3, <1>4, <2>1
  <2>2. CASE j = Len(sock) + 1
    BY <1>1, <1>2, <1>3, <1>5, <2>2
  <2> QED
    BY <1>3, <2>1, <2>2
<1>7. \A j, k \in 1 .. Len(sock') : j < k => sock'[j].id < sock'[k].id
  <2> SUFFICES ASSUME NEW j \in 1 .. Len(sock'), NEW k \in 1 .. Len(sock'), j < k
               PROVE  sock'[j].id < sock'[k].id
    OBVIOUS
  <2>1. j \in 1 .. Len(sock) /\ sock'[j] = sock[j]
    BY <1>2, <1>3
  <2>2. CASE k \in 1 .. Len(sock)
    BY <1>3, <2>1, <2>2 DEF PacketInv
  <2>3. CASE k = Len(sock) + 1
    BY <1>1, <1>2, <1>3, <1>4, <2>1, <2>3
  <2> QED
    BY <1>3, <2>2, <2>3
<1>8. /\ listed' \subseteq 1 .. arrivals'
      /\ \E top \in {0} \cup listed' : \A id \in listed' : id <= top
  BY <1>2 DEF PacketInv
<1>10. mPacketList' \in Seq(Nat \ {0}) /\ mPlayBuffer' \in Seq(Nat)
  BY <1>2 DEF PacketInv
<1>11. IF Held' THEN FrameSize <= Len(mPlayBuffer') ELSE mPlayBuffer' = <<>>
  <2>1. Held' = Held /\ mPlayBuffer' = mPlayBuffer
    BY <1>2 DEF Held
  <2> QED
    BY <2>1, Zenon DEF PacketInv
<1> QED
  BY <1>2, <1>3, <1>6, <1>7, <1>8, <1>10, <1>11 DEF PacketInv

\* Nothing is received.
LEMMA PacketsKept ==
  ASSUME PacketInv, UNCHANGED <<netVars, mPacketList, mPlayBuffer>>, Held' = Held
  PROVE  PacketInv'
<1>1. /\ sock' = sock /\ arrivals' = arrivals /\ listed' = listed
      /\ mPacketList' = mPacketList /\ mPlayBuffer' = mPlayBuffer
  BY DEF netVars
<1> HIDE DEF Held
<1> QED
  BY <1>1 DEF PacketInv

\* PlayTask takes all of the list, or writes what it took.
LEMMA TakenPackets ==
  ASSUME PacketInv, UNCHANGED netVars,
         \/ demultiplexRTP
         \/ WritePlayer
  PROVE  PacketInv'
<1>1. UNCHANGED <<sock, arrivals, listed>> /\ mPacketList \in Seq(Nat \ {0})
  BY DEF netVars, PacketInv
<1>2. PICK n \in Nat : n = Len(mPacketList) /\ (mPacketList # <<>> => 1 <= n)
  <2>1. Len(mPacketList) \in Nat /\ (mPacketList # <<>> => 1 <= Len(mPacketList))
    BY <1>1
  <2> QED
    BY <2>1
<1>3. FrameSize \in Nat \ {0}
  BY PlayerAssumption
<1>4. 1 <= n => FrameSize <= n * FrameSize
  <2> SUFFICES ASSUME 1 <= n
               PROVE  FrameSize <= n * FrameSize
    OBVIOUS
  <2>1. PICK c \in Nat : n = c + 1
    BY <1>2
  <2>2. n * FrameSize = c * FrameSize + FrameSize /\ c * FrameSize \in Nat
    BY <1>3, <2>1
  <2> QED
    BY <1>3, <2>2
<1>5. Joined(mPacketList) \in Seq(Nat) /\ Len(Joined(mPacketList)) = n * FrameSize
  BY <1>1, <1>2, JoinedType
<1>6. /\ mPlayBuffer' \in Seq(Nat)
      /\ IF Held' THEN FrameSize <= Len(mPlayBuffer') ELSE mPlayBuffer' = <<>>
  <2>1. CASE demultiplexRTP
    <3>1. CASE mPacketList = <<>>
      BY <2>1, <3>1 DEF demultiplexRTP, PacketInv, Held
    <3>2. CASE mPacketList # <<>>
      <4>1. mPlayBuffer' = Joined(mPacketList) /\ Held'
        BY <2>1, <3>2 DEF demultiplexRTP, Held
      <4> QED
        BY <1>2, <1>4, <1>5, <3>2, <4>1
    <3> QED
      BY <3>1, <3>2
  <2>2. CASE WritePlayer
    <3>1. CASE Throws(mPlayBuffer)
      BY <2>2, <3>1 DEF WritePlayer, PacketInv, Held
    <3>2. CASE ~Throws(mPlayBuffer)
      BY <2>2, <3>2 DEF WritePlayer, Held
    <3> QED
      BY <3>1, <3>2
  <2> QED
    BY <2>1, <2>2
<1>7. mPacketList' \in Seq(Nat \ {0})
  <2>1. mPacketList' = mPacketList \/ mPacketList' = <<>>
    BY Zenon DEF demultiplexRTP, WritePlayer, receiverVars
  <2>2. mPacketList \in Seq(Nat \ {0})
    BY Zenon DEF PacketInv
  <2>3. <<>> \in Seq(Nat \ {0})
    OBVIOUS
  <2>4. CASE mPacketList' = mPacketList
    BY <2>2, <2>4, Zenon
  <2>5. CASE mPacketList' = <<>>
    BY <2>3, <2>5, Zenon
  <2> QED
    BY <2>1, <2>4, <2>5, Zenon
<1> QED
  BY <1>1, <1>6, <1>7 DEF PacketInv

LEMMA PacketStep ==
  ASSUME PacketInv, [Next]_vars
  PROVE  PacketInv'
<1>1. CASE ReceiverReceive
  BY <1>1, ReceivePackets DEF ReceiverReceive, threadVars, Held
<1>2. CASE FirstReceive
  BY <1>2, ReceivePackets DEF FirstReceive, Held
<1>3. CASE \E ours \in BOOLEAN : Arrive(ours)
  BY <1>3, ArrivePackets
<1>4. CASE demultiplexRTP
  BY <1>4, TakenPackets DEF demultiplexRTP
<1>5. CASE WritePlayer
  BY <1>5, TakenPackets DEF WritePlayer, receiverVars
<1>6. CASE ReceiverTest \/ StopRx \/ Player \/ UNCHANGED vars
  BY <1>6, PacketsKept DEF ReceiverTest, StopRx, Player, threadVars, receiverVars, vars, Held
<1>7. CASE FirstReceiveFails \/ StartReceiver \/ PlayTest \/ StopReceiver \/ StopPlayer
  BY <1>7, PacketsKept
  DEF FirstReceiveFails, StartReceiver, PlayTest, StopReceiver, StopPlayer, receiverVars, Held
<1>8. CASE Measure \/ FlushPlayer \/ RereadHead \/ ClearPlayer
  BY <1>8, PacketsKept DEF Measure, FlushPlayer, RereadHead, ClearPlayer, receiverVars, Held
<1> QED
  BY <1>1, <1>2, <1>3, <1>4, <1>5, <1>6, <1>7, <1>8 DEF Next, Play, Receiver

LEMMA RxInvariant == Spec => []Throughout
<1>1. Init => Throughout
  BY RxInit DEF RxInv, Throughout
<1>2. Throughout /\ [Next]_vars => Throughout'
  BY OverrunStays, TaskStep, RingStep, PacketStep DEF RxInv, Throughout
<1> QED
  BY <1>1, <1>2, PTL DEF Spec

-----------------------------------------------------------------------------
\* What is listed and not yet in the track, oldest first.
Waiting == Buffered \o mPlayBuffer \o Joined(mPacketList)

\* What a step does to the samples: nothing; a packet is listed; the callback plays some;
\* the player is flushed.
Same == Waiting' = Waiting /\ UNCHANGED <<track, listed, flushed>>

Listed(id) ==
  /\ id \in 1 .. MaxArrivals /\ \A i \in listed : i < id
  /\ Waiting' = Waiting \o Samples(id) /\ listed' = listed \cup {id}
  /\ UNCHANGED <<track, flushed>>

PlayedOut(n) ==
  /\ n \in 1 .. Len(Waiting)
  /\ track' = track \o SubSeq(Waiting, 1, n)
  /\ Waiting' = SubSeq(Waiting, n + 1, Len(Waiting))
  /\ UNCHANGED <<listed, flushed>>

FlushedOut(n) ==
  /\ n \in 1 .. Len(Waiting)
  /\ Waiting' = SubSeq(Waiting, n + 1, Len(Waiting))
  /\ flushed' = flushed \cup ToSet(SubSeq(Waiting, 1, n)) \/ ~mIsPlaying'
  /\ UNCHANGED <<track, listed>>

\* A front of the first sequence is one of the whole.
LEMMA FrontOf ==
  ASSUME NEW v \in Seq(Nat), NEW w \in Seq(Nat), NEW n \in 0 .. Len(v)
  PROVE  /\ SubSeq(v \o w, 1, n) = SubSeq(v, 1, n)
         /\ SubSeq(v \o w, n + 1, Len(v \o w)) = SubSeq(v, n + 1, Len(v)) \o w
<1> DEFINE u == v \o w
           a == SubSeq(v, 1, n)
           b == SubSeq(v, n + 1, Len(v))
<1>1. /\ u \in Seq(Nat) /\ Len(u) = Len(v) + Len(w)
      /\ \A k \in 1 .. Len(v) : u[k] = v[k]
      /\ \A k \in 1 .. Len(w) : u[Len(v) + k] = w[k]
      /\ Len(v) \in Nat /\ Len(w) \in Nat /\ n \in Nat /\ n \in 0 .. Len(u)
  OBVIOUS
<1>2. /\ a \in Seq(Nat) /\ Len(a) = n /\ \A k \in 1 .. n : a[k] = v[k]
      /\ b \in Seq(Nat) /\ Len(b) = Len(v) - n
      /\ \A k \in 1 .. Len(v) - n : b[k] = v[n + k]
  BY FrontAndRest
<1> HIDE DEF u, a, b
<1>3. SubSeq(u, 1, n) = a
  <2> DEFINE t == SubSeq(u, 1, n)
  <2>1. t \in Seq(Nat) /\ Len(t) = n /\ \A k \in 1 .. n : t[k] = u[k]
    BY <1>1, FrontAndRest
  <2> HIDE DEF t
  <2>2. \A k \in 1 .. n : t[k] = a[k]
    <3>1. \A k \in 1 .. n : k \in 1 .. Len(v)
      BY <1>1
    <3> QED
      BY <1>1, <1>2, <2>1, <3>1, Zenon
  <2> QED
    BY <1>2, <2>1, <2>2, SeqEqual DEF t
<1>4. SubSeq(u, n + 1, Len(u)) = b \o w
  <2> DEFINE t == SubSeq(u, n + 1, Len(u))
  <2>1. /\ t \in Seq(Nat) /\ Len(t) = Len(u) - n
        /\ \A k \in 1 .. Len(u) - n : t[k] = u[n + k]
    BY <1>1, FrontAndRest
  <2> HIDE DEF t
  <2>2. Len(t) = Len(b) + Len(w)
    BY <1>1, <1>2, <2>1
  <2>3. \A k \in 1 .. Len(b) : t[k] = b[k]
    <3>1. \A k \in 1 .. Len(b) : /\ k \in 1 .. Len(u) - n /\ n + k \in 1 .. Len(v)
                                 /\ k \in 1 .. Len(v) - n
      BY <1>1, <1>2
    <3> QED
      BY <1>1, <1>2, <2>1, <3>1, Zenon
  <2>4. \A k \in 1 .. Len(w) : t[Len(b) + k] = w[k]
    <3> SUFFICES ASSUME NEW k \in 1 .. Len(w)
                 PROVE  t[Len(b) + k] = w[k]
      OBVIOUS
    <3>1. PICK x \in Nat, y \in Nat : x = Len(v) /\ y = Len(w)
      BY <1>1
    <3>2. Len(b) = x - n /\ Len(u) = x + y /\ k \in 1 .. y /\ n \in 0 .. x
      BY <1>1, <1>2, <3>1, Zenon
    <3>3. Len(b) + k \in 1 .. Len(u) - n /\ n + (Len(b) + k) = Len(v) + k
      BY <3>1, <3>2
    <3> QED
      BY <1>1, <2>1, <3>3, Zenon
  <2> QED
    BY <1>2, <2>1, <2>2, <2>3, <2>4, ConcatIs DEF t
<1> QED
  BY <1>3, <1>4 DEF u, a, b

LEMMA WaitingType ==
  ASSUME RxInv
  PROVE  /\ Buffered \in Seq(Nat) /\ mPlayBuffer \in Seq(Nat)
         /\ mPacketList \in Seq(Nat \ {0}) /\ Joined(mPacketList) \in Seq(Nat)
         /\ Waiting \in Seq(Nat) /\ Len(Buffered) \in Nat /\ Len(Waiting) \in Nat
         /\ Len(Buffered) <= Len(Waiting)
         /\ Waiting = Buffered \o (mPlayBuffer \o Joined(mPacketList))
<1>1. Buffered \in Seq(Nat)
  BY BufferedIs DEF RxInv
<1>2. mPlayBuffer \in Seq(Nat) /\ mPacketList \in Seq(Nat \ {0})
  BY DEF RxInv, PacketInv
<1>3. Joined(mPacketList) \in Seq(Nat)
  BY <1>2, JoinedType
<1>4. mPlayBuffer \o Joined(mPacketList) \in Seq(Nat)
  BY <1>2, <1>3
<1>5. Waiting = Buffered \o (mPlayBuffer \o Joined(mPacketList))
  BY <1>1, <1>2, <1>3, Associative, Zenon DEF Waiting
<1> HIDE DEF Waiting
<1>6. /\ Waiting \in Seq(Nat)
      /\ Len(Waiting) = Len(Buffered) + Len(mPlayBuffer \o Joined(mPacketList))
  BY <1>1, <1>4, <1>5
<1>7. Len(Buffered) <= Len(Waiting) /\ Len(Buffered) \in Nat /\ Len(Waiting) \in Nat
  BY <1>1, <1>4, <1>6
<1> QED
  BY <1>1, <1>2, <1>3, <1>5, <1>6, <1>7

\* The steps that move no sample.
LEMMA NothingMoves ==
  ASSUME UNCHANGED <<ring, mPlayBuffer, mPacketList, track, listed, flushed>>
  PROVE  Same
BY DEF Same, Waiting, Buffered, getBufferedDataSize, ring

LEMMA ReceiveLists ==
  ASSUME RxInv, Receive, UNCHANGED <<ring, mPlayBuffer, track, flushed>>
  PROVE  Same \/ \E id \in Nat : Listed(id)
<1>1. sock \in Seq(Datagrams) /\ sock # <<>>
  BY DEF RxInv, PacketInv, Receive
<1>2. PICK id : id = Head(sock).id
  OBVIOUS
<1>3. id \in Nat \ {0} /\ id \in 1 .. MaxArrivals /\ \A i \in listed : i < id
  <2>1. Head(sock) = sock[1] /\ sock[1] \in Datagrams /\ 1 \in 1 .. Len(sock)
    BY <1>1
  <2>2. id \in Nat \ {0} /\ id <= arrivals /\ \A i \in listed : i < id
    <3>1. id \in Nat \ {0}
      BY <1>2, <2>1, DatagramNumbers
    <3>2. sock[1].id <= arrivals /\ \A i \in listed : i < sock[1].id
      BY <2>1 DEF RxInv, PacketInv
    <3> QED
      BY <1>2, <2>1, <3>1, <3>2
  <2>3. arrivals \in 0 .. MaxArrivals /\ MaxArrivals \in Nat
    BY ArrivalsAssumption DEF RxInv, PacketInv
  <2> QED
    BY <2>2, <2>3
<1>4. Buffered' = Buffered /\ mPlayBuffer' = mPlayBuffer
  BY DEF Buffered, getBufferedDataSize, ring
<1>5. CASE mPacketList' = mPacketList /\ listed' = listed
  BY <1>5, NothingMoves
<1>6. CASE mPacketList' = Append(mPacketList, id) /\ listed' = listed \cup {id}
  <2>1. Joined(mPacketList') = Joined(mPacketList) \o Samples(id)
    BY <1>3, <1>6, WaitingType, JoinedGrows
  <2>2. Waiting' = Waiting \o Samples(id)
    <3> DEFINE v == Buffered \o mPlayBuffer
               w == Joined(mPacketList)
    <3>1. v \in Seq(Nat) /\ w \in Seq(Nat) /\ Samples(id) \in Seq(Nat)
      BY <1>3, WaitingType, SamplesType
    <3>2. Waiting' = v \o (w \o Samples(id))
      BY <1>4, <2>1, Zenon DEF Waiting
    <3> HIDE DEF v, w
    <3>3. Waiting' = (v \o w) \o Samples(id)
      BY <3>1, <3>2, Associative
    <3> QED
      BY <3>3 DEF v, w, Waiting
  <2> QED
    BY <1>3, <1>6, <2>2 DEF Listed
<1> QED
  BY <1>2, <1>5, <1>6, Zenon DEF Receive

LEMMA demultiplexMoves ==
  ASSUME RxInv, demultiplexRTP
  PROVE  Same
<1>1. mPlayBuffer = <<>> /\ UNCHANGED <<ring, track, listed, flushed>>
  BY DEF demultiplexRTP, RxInv, PacketInv, Held, playerVars, netVars, history
<1>2. Buffered' = Buffered
  BY <1>1 DEF Buffered, getBufferedDataSize, ring
<1>3. Waiting' = Waiting
  <2>1. CASE mPacketList = <<>>
    BY <1>2, <2>1 DEF demultiplexRTP, Waiting
  <2>2. CASE mPacketList # <<>>
    <3> DEFINE w == Joined(mPacketList)
    <3>1. mPlayBuffer' = w /\ mPacketList' = <<>>
      BY <2>2, Zenon DEF demultiplexRTP
    <3>2. Joined(mPacketList') = <<>>
      BY <3>1, JoinedNone, Zenon
    <3>3. Waiting' = (Buffered \o w) \o <<>>
      BY <1>2, <3>1, <3>2, Zenon DEF Waiting
    <3>4. Waiting = (Buffered \o <<>>) \o w
      BY <1>1, Zenon DEF Waiting
    <3>5. Buffered \in Seq(Nat) /\ w \in Seq(Nat)
      BY WaitingType
    <3> HIDE DEF w
    <3> QED
      BY <3>3, <3>4, <3>5
  <2> QED
    BY <2>1, <2>2
<1> QED
  BY <1>1, <1>3 DEF Same

LEMMA WriteMoves ==
  ASSUME RxInv, WritePlayer, ~overrun', ~Throws(mPlayBuffer)
  PROVE  Same
<1>1. RingInv /\ PacketInv /\ pt = "write" /\ write(mPlayBuffer) /\ ~Overruns(mPlayBuffer)
  <2>1. ~Overruns(mPlayBuffer)
    BY Zenon DEF WritePlayer
  <2> QED
    BY <2>1 DEF WritePlayer, RxInv
<1>2. Buffered' = Buffered \o mPlayBuffer
  BY <1>1, WriteAppends, Zenon
<1>3. UNCHANGED <<track, listed, flushed, mPacketList>> /\ mPlayBuffer' = <<>>
  BY DEF WritePlayer, write, receiverVars, netVars
<1>4. Waiting' = ((Buffered \o mPlayBuffer) \o <<>>) \o Joined(mPacketList)
  BY <1>2, <1>3, Zenon DEF Waiting
<1>5. (Buffered \o mPlayBuffer) \o <<>> = Buffered \o mPlayBuffer
  BY WaitingType
<1> QED
  BY <1>3, <1>4, <1>5, Zenon DEF Same, Waiting

LEMMA CallbackPlays ==
  ASSUME RxInv, Callback, UNCHANGED <<threadVars, mRunning, receiverVars, history>>
  PROVE  Same \/ \E n \in Nat : PlayedOut(n)
<1>1. UNCHANGED <<mPlayBuffer, mPacketList, listed, flushed>>
  BY DEF threadVars, receiverVars, netVars, history
<1>2. UNCHANGED <<Buffered, track>> \/ \E n \in Nat : MovedOut(n)
  BY CallbackMoves DEF RxInv
<1>3. CASE UNCHANGED <<Buffered, track>>
  BY <1>1, <1>3 DEF Same, Waiting
<1>4. ASSUME NEW n \in Nat, MovedOut(n)
      PROVE  PlayedOut(n)
  <2> DEFINE w == mPlayBuffer \o Joined(mPacketList)
  <2>1. Buffered \in Seq(Nat) /\ w \in Seq(Nat) /\ n \in 0 .. Len(Buffered) /\ Len(Buffered) \in Nat
        /\ n \in 1 .. Len(Waiting)
    BY <1>4, WaitingType DEF MovedOut
  <2>2. /\ track' = track \o SubSeq(Buffered, 1, n)
        /\ Buffered' = SubSeq(Buffered, n + 1, Len(Buffered))
    BY <1>4 DEF MovedOut
  <2>3. SubSeq(Buffered, n + 1, Len(Buffered)) \in Seq(Nat)
    BY <2>1
  <2>4. Waiting = Buffered \o w
    BY WaitingType
  <2>5. Waiting' = SubSeq(Buffered, n + 1, Len(Buffered)) \o w
    <3>1. mPlayBuffer \in Seq(Nat) /\ Joined(mPacketList) \in Seq(Nat)
      BY WaitingType
    <3>2. Waiting' = (SubSeq(Buffered, n + 1, Len(Buffered)) \o mPlayBuffer) \o Joined(mPacketList)
      BY <1>1, <2>2, Zenon DEF Waiting
    <3> QED
      BY <2>3, <3>1, <3>2, Associative, Zenon
  <2> HIDE DEF w
  <2>6. /\ SubSeq(Waiting, 1, n) = SubSeq(Buffered, 1, n)
        /\ SubSeq(Waiting, n + 1, Len(Waiting)) = SubSeq(Buffered, n + 1, Len(Buffered)) \o w
    BY <2>1, <2>4, FrontOf
  <2> QED
    BY <1>1, <2>1, <2>2, <2>5, <2>6, Zenon DEF PlayedOut
<1> QED
  BY <1>2, <1>3, <1>4

LEMMA FlushDrops ==
  ASSUME RxInv, RxInv', FlushPlayer \/ ClearPlayer
  PROVE  Same \/ \E n \in Nat : FlushedOut(n)
<1> DEFINE w == mPlayBuffer \o Joined(mPacketList)
           n == Len(Buffered)
<1>1. UNCHANGED <<mPlayBuffer, mPacketList, track, listed, mStartMarker, mBuffer>>
      /\ mEndMarker' = mStartMarker
  BY DEF FlushPlayer, ClearPlayer, flush, receiverVars, netVars
<1>2. flushed' = flushed \cup ToSet(Buffered) \/ (flushed' = flushed /\ ~mIsPlaying')
  BY DEF FlushPlayer, ClearPlayer, RxInv, TaskInv, history
<1>3. Buffered' = <<>>
  <2>1. mStartMarker \in Nat
    BY DEF RxInv, RingInv
  <2>2. getBufferedDataSize' = 0
    BY <1>1, <2>1 DEF getBufferedDataSize
  <2> QED
    BY <2>2 DEF Buffered
<1>4. /\ Buffered \in Seq(Nat) /\ w \in Seq(Nat) /\ n \in Nat /\ n \in 0 .. Len(Buffered)
      /\ Waiting = Buffered \o w /\ (n = 0 \/ n \in 1 .. Len(Waiting))
  <2>1. mPlayBuffer \in Seq(Nat) /\ Joined(mPacketList) \in Seq(Nat)
    BY WaitingType
  <2>2. w \in Seq(Nat)
    BY <2>1
  <2>3. /\ Len(Buffered) \in Nat /\ Len(Waiting) \in Nat /\ Len(Buffered) <= Len(Waiting)
        /\ Buffered \in Seq(Nat) /\ Waiting = Buffered \o w
    BY WaitingType, Zenon
  <2>4. n \in Nat /\ n \in 0 .. Len(Buffered) /\ (n = 0 \/ n \in 1 .. Len(Waiting))
    BY <2>3
  <2> QED
    BY <2>2, <2>3, <2>4
<1>5. Waiting' = w
  <2>1. mPlayBuffer \in Seq(Nat) /\ Joined(mPacketList) \in Seq(Nat)
    BY WaitingType
  <2>2. Waiting' = (<<>> \o mPlayBuffer) \o Joined(mPacketList)
    BY <1>1, <1>3, Zenon DEF Waiting
  <2> QED
    BY <2>1, <2>2
<1> HIDE DEF w
<1>6. SubSeq(Buffered, 1, n) = Buffered /\ SubSeq(Buffered, n + 1, Len(Buffered)) = <<>>
      /\ <<>> \o w = w
  BY <1>4
<1>7. /\ SubSeq(Waiting, 1, n) = Buffered
      /\ SubSeq(Waiting, n + 1, Len(Waiting)) = w
  BY <1>4, <1>6, FrontOf
<1>8. CASE n = 0
  <2>1. Buffered = <<>> /\ Waiting = w
    BY <1>4, <1>6, <1>8
  <2>2. ToSet(<<>>) = {}
    BY DEF ToSet
  <2>3. flushed' = flushed
    BY <1>2, <2>1, <2>2
  <2> QED
    BY <1>1, <1>5, <2>1, <2>3 DEF Same
<1>9. CASE n \in 1 .. Len(Waiting)
  BY <1>1, <1>2, <1>4, <1>5, <1>7, <1>9, Zenon DEF FlushedOut
<1> QED
  BY <1>4, <1>8, <1>9

LEMMA WaitingSteps ==
  ASSUME RxInv, RxInv', [Next]_vars, ~overrun'
  PROVE  \/ Same
         \/ \E id \in Nat : Listed(id)
         \/ \E n \in Nat : PlayedOut(n) \/ FlushedOut(n)
<1>1. CASE ReceiverReceive \/ FirstReceive
  BY <1>1, ReceiveLists DEF ReceiverReceive, FirstReceive, playerVars, threadVars, history
<1>2. CASE demultiplexRTP \/ (WritePlayer /\ ~Throws(mPlayBuffer))
  BY <1>2, demultiplexMoves, WriteMoves
<1>3. CASE Player /\ Callback
  BY <1>3, CallbackPlays DEF Player
<1>4. CASE FlushPlayer \/ ClearPlayer
  BY <1>4, FlushDrops
<1>5. CASE Player /\ (FeedInitialNoise \/ PlaySample)
  BY <1>5, NothingMoves
  DEF Player, FeedInitialNoise, PlaySample, threadVars, receiverVars, netVars, history
<1>6. CASE ReceiverTest \/ StopRx \/ (\E ours \in BOOLEAN : Arrive(ours)) \/ UNCHANGED vars
  BY <1>6, NothingMoves
  DEF ReceiverTest, StopRx, Arrive, vars, playerVars, threadVars, receiverVars, netVars, history
<1>7. CASE FirstReceiveFails \/ StartReceiver \/ PlayTest \/ StopReceiver \/ StopPlayer
  BY <1>7, NothingMoves
  DEF FirstReceiveFails, StartReceiver, PlayTest, StopReceiver, StopPlayer, stop,
      playerVars, receiverVars, netVars, history
<1>8. CASE Measure \/ RereadHead
  BY <1>8, NothingMoves DEF Measure, RereadHead, playerVars, receiverVars, netVars, history
<1>9. CASE WritePlayer /\ Throws(mPlayBuffer)
  BY <1>9, NothingMoves DEF WritePlayer, playerVars, receiverVars, netVars
<1> QED
  BY <1>1, <1>2, <1>3, <1>4, <1>5, <1>6, <1>7, <1>8, <1>9 DEF Next, Play, Receiver, Player

-----------------------------------------------------------------------------
LEMMA WaitingAtFirst == Init => Waiting = <<>> /\ track = <<>> /\ listed = {} /\ flushed = {}
<1> SUFFICES ASSUME Init
             PROVE  Waiting = <<>> /\ track = <<>> /\ listed = {} /\ flushed = {}
  OBVIOUS
<1>1. /\ mStartMarker = 0 /\ mEndMarker = 0 /\ track = <<>>
      /\ mPlayBuffer = <<>> /\ mPacketList = <<>> /\ listed = {} /\ flushed = {}
  BY DEF Init, PlayerInit
<1>2. Buffered = <<>>
  <2>1. getBufferedDataSize = 0
    BY <1>1 DEF getBufferedDataSize
  <2> QED
    BY <2>1 DEF Buffered
<1>3. Joined(mPacketList) = <<>>
  BY <1>1, JoinedNone, Zenon
<1> QED
  BY <1>1, <1>2, <1>3 DEF Waiting

-----------------------------------------------------------------------------
\* When it compares its write head with the playback head, PlayTask holds the end of what
\* is buffered, although the callback moves the heads without its knowledge and the ring
\* may have been written over.
THEOREM WriteHeadIsTheEnd == Spec => []WriteHeadTracksEnd
<1>1. Throughout => WriteHeadTracksEnd
  BY DEF Throughout, TaskInv, WriteHeadTracksEnd
<1> QED
  BY <1>1, RxInvariant, PTL

\* After the end of run() the track gets nothing but noise, also from the notification
\* that still comes: the last flush left nothing, and no rest of a wrapped region.
THEOREM ReleasedTrackIsQuiet == Spec => QuietWhenDone
<1>1. TaskInv /\ [Next]_vars => [pt = "done" => track' = track]_vars
  <2> SUFFICES ASSUME TaskInv, Next, pt = "done"
               PROVE  track' = track
    OBVIOUS
  <2>1. mStartMarker = mEndMarker /\ rest = 0
    BY DEF TaskInv
  <2>2. CASE Player
    BY <2>1, <2>2
    DEF Player, FeedInitialNoise, Callback, Notify, WriteRest, PlaySample, writeToTrack, FeedNoise
  <2>3. CASE Receiver \/ StopRx \/ \E ours \in BOOLEAN : Arrive(ours)
    BY <2>3 DEF Receiver, ReceiverTest, ReceiverReceive, StopRx, Arrive, playerVars
  <2>4. CASE Play \/ FirstReceiveFails
    BY <2>4 DEF Play, FirstReceiveFails, FirstReceive, StartReceiver, PlayTest, demultiplexRTP,
                Measure, FlushPlayer, RereadHead, WritePlayer, StopReceiver, StopPlayer, ClearPlayer
  <2> QED
    BY <2>2, <2>3, <2>4 DEF Next
<1> QED
  BY <1>1, RxInvariant, PTL DEF Spec, QuietWhenDone, Throughout

-----------------------------------------------------------------------------
\* Where the samples of the listed packets are.

LEMMA SetOfConcat ==
  ASSUME NEW v \in Seq(Nat), NEW w \in Seq(Nat)
  PROVE  ToSet(v \o w) = ToSet(v) \cup ToSet(w)
<1>1. /\ v \o w \in Seq(Nat) /\ Len(v \o w) = Len(v) + Len(w)
      /\ \A k \in 1 .. Len(v) : (v \o w)[k] = v[k]
      /\ \A k \in 1 .. Len(w) : (v \o w)[Len(v) + k] = w[k]
      /\ Len(v) \in Nat /\ Len(w) \in Nat
  OBVIOUS
<1> DEFINE u == v \o w
<1>2. DOMAIN u = 1 .. Len(u) /\ DOMAIN v = 1 .. Len(v) /\ DOMAIN w = 1 .. Len(w)
  OBVIOUS
<1> HIDE DEF u
<1>3. ASSUME NEW k \in DOMAIN u
      PROVE  u[k] \in ToSet(v) \cup ToSet(w)
  <2>1. CASE k \in 1 .. Len(v)
    BY <1>1, <1>2, <2>1, Zenon DEF ToSet, u
  <2>2. CASE k > Len(v)
    <3>1. PICK j \in 1 .. Len(w) : k = Len(v) + j
      <4>1. k \in 1 .. Len(v) + Len(w)
        BY <1>1, <1>2 DEF u
      <4>2. k - Len(v) \in 1 .. Len(w) /\ k = Len(v) + (k - Len(v))
        BY <1>1, <2>2, <4>1
      <4> QED
        BY <4>2
    <3> QED
      BY <1>1, <1>2, <3>1, Zenon DEF ToSet, u
  <2> QED
    BY <1>1, <1>2, <2>1, <2>2 DEF u
<1>4. ASSUME NEW k \in DOMAIN v
      PROVE  v[k] \in ToSet(u)
  <2>1. k \in 1 .. Len(u)
    BY <1>1, <1>2 DEF u
  <2> QED
    BY <1>1, <1>2, <2>1, Zenon DEF ToSet, u
<1>5. ASSUME NEW k \in DOMAIN w
      PROVE  w[k] \in ToSet(u)
  <2>1. Len(v) + k \in 1 .. Len(u)
    BY <1>1, <1>2 DEF u
  <2> QED
    BY <1>1, <1>2, <2>1, Zenon DEF ToSet, u
<1>6. ToSet(u) = ToSet(v) \cup ToSet(w)
  BY <1>3, <1>4, <1>5 DEF ToSet
<1> QED
  BY <1>6 DEF u

\* The samples of a sequence are those of its front and those of the rest.
LEMMA SetOfParts ==
  ASSUME NEW v \in Seq(Nat), NEW n \in 1 .. Len(v)
  PROVE  /\ ToSet(v) = ToSet(SubSeq(v, 1, n)) \cup ToSet(SubSeq(v, n + 1, Len(v)))
         /\ SubSeq(v, 1, n) \in Seq(Nat)
<1>1. n \in 0 .. Len(v)
  OBVIOUS
<1> DEFINE a == SubSeq(v, 1, n)
           b == SubSeq(v, n + 1, Len(v))
<1>2. /\ a \in Seq(Nat) /\ Len(a) = n /\ \A k \in 1 .. n : a[k] = v[k]
      /\ b \in Seq(Nat) /\ Len(b) = Len(v) - n
      /\ \A k \in 1 .. Len(v) - n : b[k] = v[n + k]
  BY <1>1, FrontAndRest
<1> HIDE DEF a, b
<1>3. v = a \o b
  <2>1. Len(v) = Len(a) + Len(b)
    BY <1>2
  <2>2. (\A k \in 1 .. Len(a) : v[k] = a[k]) /\ \A k \in 1 .. Len(b) : v[Len(a) + k] = b[k]
    BY <1>2, Zenon
  <2> QED
    BY <1>2, <2>1, <2>2, ConcatIs
<1>4. ToSet(v) = ToSet(a) \cup ToSet(b)
  BY <1>2, <1>3, SetOfConcat
<1> QED
  BY <1>2, <1>4 DEF a, b

LEMMA UnionOfOneMore ==
  ASSUME NEW A, NEW x
  PROVE  UNION (A \cup {x}) = (UNION A) \cup x
OBVIOUS

\* NothingLost, with what waits in one.
AllAccounted ==
  mIsPlaying /\ ~overrun =>
    ToSet(track) \cup ToSet(Waiting) \cup flushed
      = UNION {ToSet(Samples(id)) : id \in listed}

\* A player that was stopped is not started again.
LEMMA StopsForGood ==
  ASSUME [Next]_vars, mIsPlaying'
  PROVE  mIsPlaying
BY DEF Next, Play, Receiver, ReceiverTest, ReceiverReceive, FirstReceive, FirstReceiveFails,
       StartReceiver, PlayTest, demultiplexRTP, Measure, FlushPlayer, RereadHead, WritePlayer,
       StopReceiver, StopPlayer, ClearPlayer, StopRx, Arrive, Player, FeedInitialNoise, Callback,
       Notify, WriteRest, PlaySample, write, flush, stop, vars, playerVars

LEMMA AccountStep ==
  ASSUME Throughout, Throughout', AllAccounted, [Next]_vars
  PROVE  AllAccounted'
<1> SUFFICES ASSUME mIsPlaying', ~overrun'
             PROVE  (ToSet(track) \cup ToSet(Waiting) \cup flushed
                     = UNION {ToSet(Samples(id)) : id \in listed})'
  BY DEF AllAccounted
<1> RxInv /\ RxInv' /\ ~overrun
  BY OverrunStays DEF Throughout, RxInv
<1>1. ToSet(track) \cup ToSet(Waiting) \cup flushed
      = UNION {ToSet(Samples(id)) : id \in listed}
  BY StopsForGood DEF AllAccounted
<1>2. Waiting \in Seq(Nat) /\ track \in Seq(Nat)
  BY WaitingType DEF RxInv, RingInv
<1>3. CASE Same
  BY <1>1, <1>3, Zenon DEF Same
<1>4. ASSUME NEW id \in Nat, Listed(id)
      PROVE  (ToSet(track) \cup ToSet(Waiting) \cup flushed
              = UNION {ToSet(Samples(i)) : i \in listed})'
  <2>1. Samples(id) \in Seq(Nat)
    BY <1>4, SamplesType DEF Listed
  <2>2. ToSet(Waiting') = ToSet(Waiting) \cup ToSet(Samples(id))
    BY <1>2, <1>4, <2>1, SetOfConcat, Zenon DEF Listed
  <2>3. UNION {ToSet(Samples(i)) : i \in listed \cup {id}}
        = (UNION {ToSet(Samples(i)) : i \in listed}) \cup ToSet(Samples(id))
    <3>1. {ToSet(Samples(i)) : i \in listed \cup {id}}
          = {ToSet(Samples(i)) : i \in listed} \cup {ToSet(Samples(id))}
      BY Zenon
    <3> QED
      BY <3>1, UnionOfOneMore, Zenon
  <2>4. track' = track /\ flushed' = flushed /\ listed' = listed \cup {id}
    BY <1>4 DEF Listed
  <2> QED
    BY <1>1, <2>2, <2>3, <2>4
<1>5. ASSUME NEW n \in Nat, PlayedOut(n)
      PROVE  (ToSet(track) \cup ToSet(Waiting) \cup flushed
              = UNION {ToSet(Samples(id)) : id \in listed})'
  <2> DEFINE a == SubSeq(Waiting, 1, n)
             b == SubSeq(Waiting, n + 1, Len(Waiting))
  <2>1. track' = track \o a /\ Waiting' = b /\ UNCHANGED <<listed, flushed>>
        /\ n \in 1 .. Len(Waiting)
    BY <1>5 DEF PlayedOut
  <2>2. ToSet(Waiting) = ToSet(a) \cup ToSet(b) /\ a \in Seq(Nat)
    BY <1>2, <2>1, SetOfParts
  <2> HIDE DEF a, b
  <2>3. ToSet(track') = ToSet(track) \cup ToSet(a)
    BY <1>2, <2>1, <2>2, SetOfConcat
  <2> QED
    BY <1>1, <2>1, <2>2, <2>3
<1>6. ASSUME NEW n \in Nat, FlushedOut(n)
      PROVE  (ToSet(track) \cup ToSet(Waiting) \cup flushed
              = UNION {ToSet(Samples(id)) : id \in listed})'
  <2> DEFINE a == SubSeq(Waiting, 1, n)
             b == SubSeq(Waiting, n + 1, Len(Waiting))
  <2>1. /\ Waiting' = b /\ flushed' = flushed \cup ToSet(a) /\ UNCHANGED <<track, listed>>
        /\ n \in 1 .. Len(Waiting)
    BY <1>6 DEF FlushedOut
  <2>2. ToSet(Waiting) = ToSet(a) \cup ToSet(b)
    BY <1>2, <2>1, SetOfParts
  <2> HIDE DEF a, b
  <2> QED
    BY <1>1, <2>1, <2>2
<1> QED
  BY <1>3, <1>4, <1>5, <1>6, WaitingSteps

\* While the player plays, RtpReceiver, PlayTask and the callback lose no sample of a
\* listed packet between them: what is neither in the track nor waiting for it was dropped
\* by the high-water mark, and nothing else ever was in the track.  This holds until PlayTask
\* writes more than the ring has room for, which nothing in the code prevents.
THEOREM NothingLostBetween == Spec => []NothingLost
<1>1. Init => AllAccounted
  BY WaitingAtFirst DEF AllAccounted, ToSet
<1>2. Throughout /\ Throughout' /\ AllAccounted /\ [Next]_vars => AllAccounted'
  BY AccountStep
<1>3. Throughout /\ AllAccounted => NothingLost
  <2> SUFFICES ASSUME RxInv
               PROVE  ToSet(Waiting) = ToSet(Buffered) \cup ToSet(mPlayBuffer)
                                       \cup ToSet(Joined(mPacketList))
    BY DEF AllAccounted, NothingLost, Throughout, RxInv
  <2> DEFINE v == Buffered \o mPlayBuffer
  <2>1. Buffered \in Seq(Nat) /\ mPlayBuffer \in Seq(Nat) /\ Joined(mPacketList) \in Seq(Nat)
        /\ v \in Seq(Nat)
    BY WaitingType
  <2>2. ToSet(v) = ToSet(Buffered) \cup ToSet(mPlayBuffer)
    BY <2>1, SetOfConcat
  <2>3. Waiting = v \o Joined(mPacketList)
    BY DEF Waiting
  <2> HIDE DEF v
  <2>4. ToSet(v \o Joined(mPacketList)) = ToSet(v) \cup ToSet(Joined(mPacketList))
    BY <2>1, SetOfConcat
  <2> QED
    BY <2>2, <2>3, <2>4, Zenon
<1> QED
  BY <1>1, <1>2, <1>3, RxInvariant, PTL DEF Spec

-----------------------------------------------------------------------------
\* The stream.

LEMMA MaxIs ==
  ASSUME NEW top \in Nat, NEW S \in SUBSET Nat, top \in S, \A x \in S : x <= top
  PROVE  Max(S) = top
<1>1. \A x \in S : (\A y \in S : x >= y) => x = top
  OBVIOUS
<1>2. \A y \in S : top >= y
  OBVIOUS
<1> QED
  BY <1>1, <1>2, Zenon DEF Max

LEMMA NewestListed ==
  ASSUME RxInv
  PROVE  Max({0} \cup listed) \in {0} \cup listed /\ Max({0} \cup listed) \in Nat
<1>1. {0} \cup listed \in SUBSET Nat /\ \A id \in listed : 0 <= id
  BY DEF RxInv, PacketInv
<1>2. PICK top \in {0} \cup listed : \A id \in listed : id <= top
  BY DEF RxInv, PacketInv
<1>3. \A x \in {0} \cup listed : x <= top
  BY <1>1, <1>2
<1>4. Max({0} \cup listed) = top
  BY <1>1, <1>2, <1>3, MaxIs
<1> QED
  BY <1>1, <1>2, <1>4

\* A packet that is listed is taken in whole, after those that passed by unseen.
LEMMA ListedIsTaken ==
  ASSUME RxInv, NEW id \in Nat, Listed(id)
  PROVE  \E skip \in 0 .. MaxArrivals * FrameSize : Stream!TakeIn(skip, FrameSize)
<1>1. PICK top \in Nat : top = Max({0} \cup listed) /\ top \in {0} \cup listed
  BY NewestListed
<1>2. id \in 1 .. MaxArrivals /\ (\A i \in listed : i < id) /\ listed' = listed \cup {id}
      /\ listed \subseteq Nat /\ MaxArrivals \in Nat /\ FrameSize \in Nat \ {0}
  BY ArrivalsAssumption, PlayerAssumption DEF Listed, RxInv, PacketInv
<1>3. top < id
  BY <1>1, <1>2
<1>4. Max({0} \cup listed') = id
  <2>1. \A x \in {0} \cup listed' : x <= id
    BY <1>2
  <2>2. {0} \cup listed' \in SUBSET Nat /\ id \in {0} \cup listed'
    BY <1>2
  <2> QED
    BY <2>1, <2>2, MaxIs
<1>5. PICK gap \in Nat, over \in Nat : id - 1 = top + gap /\ MaxArrivals = gap + over
  <2>1. (id - 1) - top \in Nat /\ MaxArrivals - ((id - 1) - top) \in Nat
    BY <1>2, <1>3
  <2>2. id - 1 = top + ((id - 1) - top)
        /\ MaxArrivals = ((id - 1) - top) + (MaxArrivals - ((id - 1) - top))
    BY <1>2
  <2> QED
    BY <2>1, <2>2
<1>6. PICK skip \in Nat, t \in Nat, x \in Nat :
        /\ skip = gap * FrameSize /\ t = FrameSize * top /\ x = (id - 1) * FrameSize
        /\ x = t + skip /\ FrameSize * id = x + FrameSize
        /\ skip \in 0 .. MaxArrivals * FrameSize
  <2>1. PICK skip \in Nat, t \in Nat, y \in Nat :
          skip = gap * FrameSize /\ t = FrameSize * top /\ y = over * FrameSize
    BY <1>2
  <2>2. (id - 1) * FrameSize = t + skip
    <3>1. (id - 1) * FrameSize = (top + gap) * FrameSize
      BY <1>5
    <3> QED
      BY <1>2, <2>1, <3>1
  <2>3. FrameSize * id = (id - 1) * FrameSize + FrameSize
    BY <1>2
  <2>4. MaxArrivals * FrameSize = skip + y
    BY <1>2, <1>5, <2>1
  <2> QED
    BY <2>1, <2>2, <2>3, <2>4
<1>7. Samples(id) = [k \in 1 .. FrameSize |-> t + skip + k]
  BY <1>6, Zenon DEF Samples
<1>8. /\ (Buffered \o mPlayBuffer \o Joined(mPacketList))'
         = (Buffered \o mPlayBuffer \o Joined(mPacketList))
           \o [k \in 1 .. FrameSize |-> FrameSize * Max({0} \cup listed) + skip + k]
      /\ track' = track
  BY <1>1, <1>6, <1>7, Zenon DEF Listed, Waiting
<1>9. (FrameSize * Max({0} \cup listed))' = FrameSize * Max({0} \cup listed) + skip + FrameSize
  <2>1. FrameSize * id = t + skip + FrameSize
    BY <1>6
  <2> QED
    BY <1>1, <1>4, <1>6, <2>1, Zenon
<1>10. Stream!TakeIn(skip, FrameSize)
  BY <1>8, <1>9, Zenon DEF Stream!TakeIn
<1> QED
  BY <1>6, <1>10

LEMMA StreamStep ==
  ASSUME RxInv, RxInv', [Next]_vars, ~overrun'
  PROVE  [Stream!StreamNext]_(Stream!streamVars)
<1> DEFINE W == Buffered \o mPlayBuffer \o Joined(mPacketList)
<1>1. CASE Same
  BY <1>1 DEF Same, Waiting, Stream!streamVars
<1>2. ASSUME NEW id \in Nat, Listed(id)
      PROVE  Stream!StreamNext
  BY <1>2, ListedIsTaken, Zenon DEF Stream!StreamNext
<1>3. ASSUME NEW n \in Nat, PlayedOut(n)
      PROVE  Stream!StreamNext
  <2>1. n \in 1 .. Len(W) /\ Stream!Play(n)
    BY <1>3, Zenon DEF PlayedOut, Waiting, Stream!Play
  <2> QED
    BY <2>1, Zenon DEF Stream!StreamNext
<1>4. ASSUME NEW n \in Nat, FlushedOut(n)
      PROVE  Stream!StreamNext
  <2>1. Waiting \in Seq(Nat) /\ n \in 1 .. Len(Waiting)
    BY <1>4, WaitingType DEF FlushedOut
  <2>2. 1 \in 1 .. Len(Waiting) /\ n \in 1 .. Len(Waiting)
        /\ SubSeq(Waiting, 1, 1 - 1) = <<>>
        /\ SubSeq(Waiting, n + 1, Len(Waiting)) \in Seq(Nat)
    BY <2>1
  <2>3. SubSeq(Waiting, 1, 1 - 1) \o SubSeq(Waiting, n + 1, Len(Waiting))
        = SubSeq(Waiting, n + 1, Len(Waiting))
    BY <2>2
  <2>4. Stream!Lose(1, n)
    BY <1>4, <2>3, Zenon DEF FlushedOut, Waiting, Stream!Lose
  <2> QED
    BY <2>2, <2>4, Zenon DEF Stream!StreamNext, Waiting
<1> QED
  BY <1>1, <1>2, <1>3, <1>4, WaitingSteps

\* The receiver starts where the stream does.
LEMMA StreamAtFirst ==
  ASSUME Init
  PROVE  Stream!StreamInit
<1>1. Waiting = <<>> /\ track = <<>> /\ listed = {}
  BY WaitingAtFirst
<1>2. {0} \cup listed = {0} /\ {0} \in SUBSET Nat /\ 0 \in {0} /\ \A x \in {0} : x <= 0
  BY <1>1
<1>3. Max({0} \cup listed) = 0
  BY <1>2, MaxIs
<1>4. FrameSize * Max({0} \cup listed) = 0
  BY <1>3, PlayerAssumption
<1> QED
  BY <1>1, <1>4, Zenon DEF Waiting, Stream!StreamInit

\* As long as the ring has not been written over, a step is a step of the stream.
LEMMA StreamMoves ==
  ASSUME Throughout, Throughout', [Next]_vars, ~overrun'
  PROVE  [Stream!StreamNext]_(Stream!streamVars)
<1>1. RxInv /\ RxInv'
  BY OverrunStays DEF Throughout, RxInv
<1> QED
  BY <1>1, StreamStep

\* Until PlayTask writes more than the ring has room for, the Java receiver implements the
\* stream that loses but neither repeats nor reorders: no sample is played twice or late.
THEOREM PipelineImplementsStream == Spec => ImplementsStream
<1>1. Init => Stream!StreamInit
  BY StreamAtFirst
<1>2. Throughout /\ Throughout' /\ [Next]_vars
        => [~overrun' => [Stream!StreamNext]_(Stream!streamVars)]_vars
  BY StreamMoves
<1> QED
  BY <1>1, <1>2, RxInvariant, PTL DEF Spec, ImplementsStream

\* And so, until then, the samples in the track are in the order in which they arrived.
LEMMA PipelineInOrder == Spec => [](~overrun => StreamProofs!InOrder)
<1>1. Stream!StreamInit => StreamProofs!StreamInv
  BY StreamProofs!StreamInvAtFirst DEF Stream!StreamInit, StreamProofs!StreamInit
<1>2. StreamProofs!StreamInv /\ [Stream!StreamNext]_(Stream!streamVars)
        => StreamProofs!StreamInv'
  <2>1. [Stream!StreamNext]_(Stream!streamVars)
          => [StreamProofs!StreamNext]_(StreamProofs!streamVars)
    BY DEF Stream!StreamNext, StreamProofs!StreamNext, Stream!streamVars,
           StreamProofs!streamVars, Stream!TakeIn, StreamProofs!TakeIn, Stream!Play,
           StreamProofs!Play, Stream!Lose, StreamProofs!Lose
  <2>2. FrameSize \in Nat /\ MaxArrivals * FrameSize \in Nat
    BY ArrivalsAssumption, PlayerAssumption
  <2> QED
    BY <2>1, <2>2, StreamProofs!StreamInvStep
<1>3. StreamProofs!StreamInv => StreamProofs!InOrder
  BY StreamProofs!StreamInvOrders
<1>4. [Next]_vars /\ ~overrun' => ~overrun
  BY OverrunStays
<1>5. (~overrun => StreamProofs!StreamInv) /\ Throughout /\ Throughout' /\ [Next]_vars
        => (~overrun => StreamProofs!StreamInv)'
  <2> SUFFICES ASSUME ~overrun => StreamProofs!StreamInv, Throughout, Throughout',
                      [Next]_vars, ~overrun'
               PROVE  StreamProofs!StreamInv'
    OBVIOUS
  <2>1. StreamProofs!StreamInv
    BY <1>4
  <2>2. [Stream!StreamNext]_(Stream!streamVars)
    BY StreamMoves
  <2> QED
    BY <1>2, <2>1, <2>2, Zenon
<1>6. Init => StreamProofs!StreamInv
  BY <1>1, StreamAtFirst, Zenon
<1> QED
  BY <1>3, <1>5, <1>6, RxInvariant, PTL DEF Spec
-----------------------------------------------------------------------------
\* The mixer: what a fold over the sources adds up.

\* The source that a fold over the set s takes first.
First(s) == CHOOSE x \in s : TRUE

\* One turn of a fold that adds up f, and that g holds the sums for the subsets of S.
Turn(f, g, s) == IF s = {} THEN 0 ELSE f[First(s)] + g[s \ {First(s)}]
SumsUp(f, g, S) == g \in [SUBSET S -> Int] /\ \A s \in SUBSET S : g[s] = Turn(f, g, s)

LEMMA MinimalIn ==
  ASSUME NEW S, IsFiniteSet(S), NEW D, D \subseteq SUBSET S, D # {}
  PROVE  \E T \in D : \A U \in D : <<U, T>> \notin StrictSubsetOrdering(S)
<1> DEFINE R == StrictSubsetOrdering(S)
           P == SUBSET S
<1>1. IsWellFoundedOn(R, P)
  BY FS_StrictSubsetOrderingWellFounded, FS_FiniteSubsetsOfFinite
<1>2. D \subseteq P
  OBVIOUS
<1> HIDE DEF R, P
<1>3. \E T \in D : \A U \in D : <<U, T>> \notin R
  BY <1>1, <1>2, WFMin
<1> QED
  BY <1>3 DEF R

\* Induction over the subsets of a finite set.
LEMMA SubsetInduction ==
  ASSUME NEW S, IsFiniteSet(S), NEW C,
         \A T \in SUBSET S : (\A U \in SUBSET T : U # T => U \in C) => T \in C
  PROVE  \A T \in SUBSET S : T \in C
<1> DEFINE D == (SUBSET S) \ C
<1> SUFFICES ASSUME D # {}
             PROVE  FALSE
  OBVIOUS
<1>1. D \subseteq SUBSET S
  OBVIOUS
<1>2. PICK T \in D : \A U \in D : <<U, T>> \notin StrictSubsetOrdering(S)
  <2> HIDE DEF D
  <2> QED
    BY <1>1, MinimalIn, Zenon
<1>3. ASSUME NEW U \in SUBSET T, U # T
      PROVE  U \in C
  <2>1. <<U, T>> \in StrictSubsetOrdering(S)
    BY <1>3 DEF StrictSubsetOrdering
  <2> QED
    BY <1>2, <1>3, <2>1
<1> QED
  BY <1>2, <1>3

LEMMA FirstIsIn ==
  ASSUME NEW s, s # {}
  PROVE  First(s) \in s
BY DEF First

\* The sums for the subsets are the only ones.
LEMMA SumsAreUnique ==
  ASSUME NEW S, IsFiniteSet(S), NEW f, NEW g, NEW h, SumsUp(f, g, S), SumsUp(f, h, S)
  PROVE  \A s \in SUBSET S : g[s] = h[s]
<1> DEFINE C == {s \in SUBSET S : g[s] = h[s]}
<1>1. ASSUME NEW T \in SUBSET S, \A U \in SUBSET T : U # T => U \in C
      PROVE  T \in C
  <2>1. g[T] = Turn(f, g, T) /\ h[T] = Turn(f, h, T)
    BY DEF SumsUp
  <2>2. CASE T = {}
    BY <2>1, <2>2 DEF Turn
  <2>3. CASE T # {}
    <3>1. First(T) \in T
      BY <2>3, FirstIsIn
    <3>2. T \ {First(T)} \in C
      BY <1>1, <3>1
    <3> QED
      BY <2>1, <2>3, <3>2 DEF Turn
  <2> QED
    BY <2>2, <2>3
<1> HIDE DEF C
<1>2. \A T \in SUBSET S : T \in C
  BY <1>1, SubsetInduction
<1> QED
  BY <1>2 DEF C

LEMMA SumsOfPart ==
  ASSUME NEW S, NEW T \in SUBSET S, NEW f, NEW g, SumsUp(f, g, S)
  PROVE  SumsUp(f, [s \in SUBSET T |-> g[s]], T)
<1> DEFINE h == [s \in SUBSET T |-> g[s]]
<1>1. h \in [SUBSET T -> Int]
  BY DEF SumsUp
<1>2. ASSUME NEW s \in SUBSET T
      PROVE  h[s] = Turn(f, h, s)
  <2>1. h[s] = g[s] /\ g[s] = Turn(f, g, s)
    BY DEF SumsUp
  <2>2. s \ {First(s)} \in SUBSET T
    OBVIOUS
  <2>3. h[s \ {First(s)}] = g[s \ {First(s)}]
    BY <2>2
  <2> QED
    BY <2>1, <2>3 DEF Turn
<1> QED
  BY <1>1, <1>2 DEF SumsUp

\* They exist: the sums for the smaller sets, and one turn more.
LEMMA SumsExist ==
  ASSUME NEW S, IsFiniteSet(S), NEW f \in [S -> Int]
  PROVE  \E g : SumsUp(f, g, S)
<1> DEFINE C == {T \in SUBSET S : \E g : SumsUp(f, g, T)}
<1>1. ASSUME NEW T \in SUBSET S, \A U \in SUBSET T : U # T => U \in C
      PROVE  T \in C
  <2> DEFINE of(U) == CHOOSE g : SumsUp(f, g, U)
             below == [U \in SUBSET T |-> IF U = T THEN 0 ELSE of(U)[U]]
             g == [U \in SUBSET T |-> IF U = T THEN Turn(f, below, T) ELSE below[U]]
  <2>1. ASSUME NEW U \in SUBSET T, U # T
        PROVE  SumsUp(f, of(U), U) /\ IsFiniteSet(U)
    <3>1. \E h : SumsUp(f, h, U)
      BY <1>1, <2>1
    <3>2. IsFiniteSet(U)
      BY FS_Subset
    <3> QED
      BY <3>1, <3>2
  <2> HIDE DEF of
  <2>2. below \in [SUBSET T -> Int]
    <3>1. ASSUME NEW U \in SUBSET T, U # T
          PROVE  of(U)[U] \in Int
      BY <2>1, <3>1 DEF SumsUp
    <3> QED
      BY <3>1
  <2>3. ASSUME NEW U \in SUBSET T, U # T
        PROVE  below[U] = Turn(f, below, U)
    <3>1. below[U] = of(U)[U] /\ of(U)[U] = Turn(f, of(U), U)
      BY <2>1, <2>3 DEF SumsUp
    <3>2. CASE U = {}
      BY <3>1, <3>2 DEF Turn
    <3>3. CASE U # {}
      <4> DEFINE V == U \ {First(U)}
      <4>1. First(U) \in U
        BY <3>3, FirstIsIn
      <4>2. V \in SUBSET U /\ V \in SUBSET T /\ V # T
        BY <2>3, <4>1
      <4>3. SumsUp(f, [s \in SUBSET V |-> of(U)[s]], V)
        <5>1. \A V0, g0 : V0 \in SUBSET U /\ SumsUp(f, g0, U)
                => SumsUp(f, [s \in SUBSET V0 |-> g0[s]], V0)
          BY SumsOfPart
        <5>2. V \in SUBSET U /\ SumsUp(f, of(U), U)
          BY <2>1, <2>3, <4>2
        <5> HIDE DEF V
        <5> QED
          BY <5>1, <5>2, Zenon
      <4>4. SumsUp(f, of(V), V) /\ IsFiniteSet(V)
        BY <2>1, <4>2
      <4>5. [s \in SUBSET V |-> of(U)[s]][V] = of(V)[V]
        BY <4>3, <4>4, SumsAreUnique
      <4>6. of(U)[V] = below[V]
        BY <4>2, <4>5
      <4> QED
        BY <3>1, <3>3, <4>6 DEF Turn
    <3> QED
      BY <3>2, <3>3
  <2> HIDE DEF below
  <2>4. Turn(f, below, T) \in Int
    <3>1. CASE T = {}
      BY <3>1 DEF Turn
    <3>2. CASE T # {}
      BY <2>2, <3>2, FirstIsIn DEF Turn
    <3> QED
      BY <3>1, <3>2
  <2>5. g \in [SUBSET T -> Int]
    BY <2>2, <2>4
  <2>6. ASSUME NEW U \in SUBSET T
        PROVE  g[U] = Turn(f, g, U)
    <3>1. CASE U = {}
      <4>1. g[U] = Turn(f, below, U)
        BY <2>3
      <4> QED
        BY <3>1, <4>1 DEF Turn
    <3>2. CASE U # {}
      <4> DEFINE V == U \ {First(U)}
      <4>1. V \in SUBSET T /\ V # T
        BY <3>2, FirstIsIn
      <4>2. g[V] = below[V]
        BY <4>1
      <4>3. g[U] = Turn(f, below, U)
        BY <2>3
      <4> HIDE DEF g
      <4> QED
        BY <3>2, <4>2, <4>3 DEF Turn
    <3> QED
      BY <3>1, <3>2
  <2> HIDE DEF g
  <2>7. SumsUp(f, g, T)
    BY <2>5, <2>6 DEF SumsUp
  <2> QED
    BY <2>7
<1> HIDE DEF C
<1>2. S \in C
  BY <1>1, SubsetInduction
<1> QED
  BY <1>2 DEF C

\* What the fold computes.
LEMMA FoldSumsUp ==
  ASSUME NEW S, IsFiniteSet(S), NEW f \in [S -> Int]
  PROVE  \E g : SumsUp(f, g, S) /\ Total(f) = g[S]
<1> DEFINE body(g) == [s \in SUBSET S |-> IF s = {} THEN 0 ELSE f[First(s)] + g[s \ {First(s)}]]
           g == CHOOSE g : g = body(g)
<1>1. DOMAIN f = S
  OBVIOUS
<1>2. Total(f) = g[S]
  BY <1>1, Zenon DEF Total, FoldFunction, FoldFunctionOnSet, MapThenFoldSet, First
<1>3. PICK h : SumsUp(f, h, S)
  BY SumsExist
<1>4. h = body(h)
  BY <1>3 DEF SumsUp, Turn
<1>5. g = body(g)
  BY <1>4, Zenon
<1>6. ASSUME NEW s \in SUBSET S
      PROVE  g[s] = Turn(f, g, s)
  BY <1>5 DEF Turn
<1> HIDE DEF g
<1>7. \A s \in SUBSET S : g[s] = h[s]
  <2> DEFINE C == {s \in SUBSET S : g[s] = h[s]}
  <2>1. ASSUME NEW T \in SUBSET S, \A U \in SUBSET T : U # T => U \in C
        PROVE  T \in C
    <3>1. g[T] = Turn(f, g, T) /\ h[T] = Turn(f, h, T)
      BY <1>3, <1>6 DEF SumsUp
    <3>2. CASE T = {}
      BY <3>1, <3>2 DEF Turn
    <3>3. CASE T # {}
      <4>1. First(T) \in T
        BY <3>3, FirstIsIn
      <4>2. T \ {First(T)} \in C
        BY <2>1, <4>1
      <4> QED
        BY <3>1, <3>3, <4>2 DEF Turn
    <3> QED
      BY <3>2, <3>3
  <2> HIDE DEF C
  <2>2. \A T \in SUBSET S : T \in C
    BY <2>1, SubsetInduction
  <2> QED
    BY <2>2 DEF C
<1> QED
  BY <1>2, <1>3, <1>7

\* Sums of integers are integers; a source that brings v adds v.
LEMMA SumOfNothing ==
  ASSUME NEW S, IsFiniteSet(S)
  PROVE  Total([s \in S |-> 0]) = 0
<1>1. PICK f : f = [s \in S |-> 0] /\ f \in [S -> Int]
  <2>1. [s \in S |-> 0] \in [S -> Int]
    OBVIOUS
  <2> QED
    BY <2>1
<1>2. PICK g : SumsUp(f, g, S) /\ Total(f) = g[S]
  BY <1>1, FoldSumsUp
<1> DEFINE C == {s \in SUBSET S : g[s] = 0}
<1>3. ASSUME NEW T \in SUBSET S, \A U \in SUBSET T : U # T => U \in C
      PROVE  T \in C
  <2>1. g[T] = Turn(f, g, T)
    BY <1>2 DEF SumsUp
  <2>2. CASE T = {}
    BY <2>1, <2>2 DEF Turn
  <2>3. CASE T # {}
    <3>1. First(T) \in T
      BY <2>3, FirstIsIn
    <3>2. T \ {First(T)} \in C /\ f[First(T)] = 0
      BY <1>1, <1>3, <3>1
    <3> QED
      BY <2>1, <2>3, <3>2 DEF Turn
  <2> QED
    BY <2>2, <2>3
<1> HIDE DEF C
<1>4. S \in C
  BY <1>3, SubsetInduction
<1> QED
  BY <1>1, <1>2, <1>4, Zenon DEF C

LEMMA SumIsInt ==
  ASSUME NEW S, IsFiniteSet(S), NEW f \in [S -> Int]
  PROVE  Total(f) \in Int
<1>1. PICK g : SumsUp(f, g, S) /\ Total(f) = g[S]
  BY FoldSumsUp
<1>2. g[S] \in Int
  BY <1>1 DEF SumsUp
<1> QED
  BY <1>1, <1>2, Zenon

LEMMA SumGrows ==
  ASSUME NEW S, IsFiniteSet(S), NEW f \in [S -> Int], NEW a \in S, f[a] = 0, NEW v \in Int
  PROVE  Total([f EXCEPT ![a] = v]) = Total(f) + v
<1>1. PICK e \in [S -> Int] : e = [f EXCEPT ![a] = v]
  OBVIOUS
<1>2. PICK g : SumsUp(f, g, S) /\ Total(f) = g[S]
  BY FoldSumsUp
<1>3. PICK h : SumsUp(e, h, S) /\ Total(e) = h[S]
  BY FoldSumsUp
<1> DEFINE C == {s \in SUBSET S : h[s] = g[s] + IF a \in s THEN v ELSE 0}
<1>4. ASSUME NEW T \in SUBSET S, \A U \in SUBSET T : U # T => U \in C
      PROVE  T \in C
  <2>1. g[T] = Turn(f, g, T) /\ h[T] = Turn(e, h, T)
    BY <1>2, <1>3 DEF SumsUp
  <2>2. CASE T = {}
    BY <2>1, <2>2 DEF Turn
  <2>3. CASE T # {}
    <3>1. PICK x : x = First(T)
      OBVIOUS
    <3>2. x \in T
      BY <2>3, <3>1, FirstIsIn
    <3>3. PICK U \in SUBSET S : U = T \ {x}
      OBVIOUS
    <3>4. h[U] = g[U] + IF a \in U THEN v ELSE 0
      BY <1>4, <3>2, <3>3
    <3>5. g[T] = f[x] + g[U] /\ h[T] = e[x] + h[U]
      BY <2>1, <2>3, <3>1, <3>3, Zenon DEF Turn
    <3>6. g[U] \in Int /\ f[x] \in Int
      BY <1>2, <3>2 DEF SumsUp
    <3>7. CASE x = a
      <4>1. e[x] = v /\ f[x] = 0 /\ a \notin U /\ a \in T
        BY <1>1, <3>2, <3>3, <3>7
      <4> QED
        BY <3>4, <3>5, <3>6, <4>1
    <3>8. CASE x # a
      <4>1. e[x] = f[x] /\ (a \in U <=> a \in T)
        BY <1>1, <3>2, <3>3, <3>8
      <4> QED
        BY <3>4, <3>5, <3>6, <4>1
    <3> QED
      BY <3>7, <3>8
  <2> QED
    BY <2>2, <2>3
<1> HIDE DEF C
<1>5. S \in C
  BY <1>4, SubsetInduction
<1>6. h[S] = g[S] + v
  BY <1>5 DEF C
<1> QED
  BY <1>1, <1>2, <1>3, <1>6, Zenon

\* The division by 5 is towards zero, and what fits a sample is cast to itself.
LEMMA CastKeeps ==
  ASSUME NEW n \in Int, -Full <= n, n < Full
  PROVE  Cast(n) = n
<1>1. Full \in Nat \ {0}
  BY MixerAssumption
<1>2. PICK m \in Nat \ {0} : m = 2 * Full
  BY <1>1
<1>3. PICK r \in 0 .. m - 1 : r = n + Full
  BY <1>1, <1>2
<1>4. r % m = r
  <2>1. r = m * 0 + r
    BY <1>2
  <2> QED
    BY <2>1, RemainderIs
<1>5. Cast(n) = r - Full
  BY <1>2, <1>3, <1>4, Zenon DEF Cast
<1> QED
  BY <1>1, <1>3, <1>5

LEMMA FourFifths ==
  ASSUME NEW sum \in Int
  PROVE  /\ Attenuated(sum) \in Int
         /\ IF sum >= 0 THEN 4 * sum - 5 * Attenuated(sum) \in 0 .. 4
                        ELSE 5 * Attenuated(sum) - 4 * sum \in 0 .. 4
<1>1. \A a \in Int : a \div 5 \in Int /\ a - 5 * (a \div 5) \in 0 .. 4
  OBVIOUS
<1>2. PICK a \in Int : a = 4 * sum
  OBVIOUS
<1>3. CASE a >= 0
  <2>1. Attenuated(sum) = a \div 5
    BY <1>2, <1>3 DEF Attenuated
  <2>2. PICK b \in Int : b = a \div 5 /\ a - 5 * b \in 0 .. 4
    BY <1>1
  <2>3. sum >= 0 /\ 4 * sum - 5 * b \in 0 .. 4
    BY <1>2, <1>3, <2>2
  <2> QED
    BY <2>1, <2>2, <2>3
<1>4. CASE a < 0
  <2>1. Attenuated(sum) = -((-a) \div 5) /\ -a \in Int
    BY <1>2, <1>4 DEF Attenuated
  <2>2. PICK b \in Int : b = (-a) \div 5 /\ (-a) - 5 * b \in 0 .. 4
    BY <1>1, <2>1
  <2>3. PICK n \in Int : n = -b
    OBVIOUS
  <2>4. ~(sum >= 0) /\ 5 * n - 4 * sum \in 0 .. 4
    BY <1>2, <1>4, <2>2, <2>3
  <2>5. Attenuated(sum) = n
    BY <2>1, <2>2, <2>3
  <2> QED
    BY <2>4, <2>5
<1> QED
  BY <1>2, <1>3, <1>4

LEMMA ClippedIs ==
  ASSUME NEW sum \in Int
  PROVE  \/ 4 * sum >= 5 * Full
         \/ 4 * sum < -5 * Full /\ Clipped(sum) = -Full
         \/ 5 * Clipped(sum) - 4 * sum \in -4 .. 4
<1>1. Full \in Nat \ {0}
  BY MixerAssumption
<1>2. CASE 4 * sum < -5 * Full
  <2>1. Clipped(sum) = Cast(-Full)
    BY <1>1, <1>2 DEF Clipped
  <2>2. Cast(-Full) = -Full
    BY <1>1, CastKeeps
  <2> QED
    BY <1>2, <2>1, <2>2
<1>3. CASE -5 * Full <= 4 * sum /\ 4 * sum < 5 * Full
  <2>1. PICK n \in Int :
          /\ n = Attenuated(sum)
          /\ IF sum >= 0 THEN 4 * sum - 5 * n \in 0 .. 4 ELSE 5 * n - 4 * sum \in 0 .. 4
    BY FourFifths
  <2>2. Clipped(sum) = Cast(n)
    <3>1. ~(4 * sum > 5 * Full) /\ ~(4 * sum < -5 * Full)
      BY <1>1, <1>3
    <3> QED
      BY <2>1, <3>1, Zenon DEF Clipped
  <2>3. -Full <= n /\ n < Full
    BY <1>1, <1>3, <2>1
  <2> QED
    BY <2>1, <2>2, <2>3, CastKeeps
<1> QED
  BY <1>1, <1>2, <1>3

-----------------------------------------------------------------------------
\* The samples of the sources, and the sums of those that have been added.

LEMMA LevelsAreInts == Levels \subseteq Int
<1>1. Volumes \subseteq Int
  BY MixerAssumption
<1>2. ASSUME NEW n \in Levels
      PROVE  n \in Int
  <2>1. CASE n \in Volumes
    BY <1>1, <2>1
  <2>2. CASE n \in {-1 - v : v \in Volumes}
    <3>1. PICK v \in Volumes : n = -1 - v
      BY <2>2
    <3>2. v \in Int
      BY <1>1
    <3> QED
      BY <3>1, <3>2
  <2> QED
    BY <2>1, <2>2 DEF Levels
<1> QED
  BY <1>2

Listing == mList \in [Sources -> Seq(Frames)]

LEMMA DataIs ==
  ASSUME Listing, NEW ssrc \in Sources
  PROVE  /\ getArrayValue(ssrc) \in Seq(Int)
         /\ Len(getArrayValue(ssrc)) = Len(mList[ssrc]) * mBufferSize
<1> DEFINE p == mList[ssrc]
           g(k) == p[((k - 1) \div mBufferSize) + 1][((k - 1) % mBufferSize) + 1]
<1>1. p \in Seq(Frames) /\ mBufferSize \in Nat \ {0}
  BY MixerAssumption DEF Listing
<1>2. getArrayValue(ssrc) = [k \in 1 .. Len(p) * mBufferSize |-> g(k)]
  BY Zenon DEF getArrayValue
<1> HIDE DEF p
<1>3. ASSUME NEW k \in 1 .. Len(p) * mBufferSize
      PROVE  g(k) \in Int
  <2>1. Len(p) \in Nat
    BY <1>1
  <2>2. PICK i \in 1 .. Len(p), j \in 1 .. mBufferSize :
          i = ((k - 1) \div mBufferSize) + 1 /\ j = ((k - 1) % mBufferSize) + 1
    BY <1>1, <2>1, PartPlace
  <2>3. p[i] \in [1 .. mBufferSize -> Levels]
    BY <1>1 DEF Frames
  <2>4. p[i][j] \in Int
    BY <2>3, LevelsAreInts
  <2> QED
    BY <2>2, <2>4, Zenon
<1> HIDE DEF g
<1>4. PICK n \in Nat : n = Len(p) * mBufferSize
  BY <1>1
<1>5. getArrayValue(ssrc) \in Seq(Int) /\ Len(getArrayValue(ssrc)) = n
  BY <1>2, <1>3, <1>4
<1> QED
  BY <1>4, <1>5 DEF p

LEMMA PartIs ==
  ASSUME Listing, NEW ssrc \in Sources, NEW k \in Nat \ {0}
  PROVE  /\ Part(ssrc, k) \in Int
         /\ Len(getArrayValue(ssrc)) < k => Part(ssrc, k) = 0
<1>1. PICK data \in Seq(Int) : data = getArrayValue(ssrc)
  BY DataIs
<1>2. Part(ssrc, k) = IF k \in DOMAIN data THEN data[k] ELSE 0
  BY <1>1, Zenon DEF Part
<1> QED
  BY <1>1, <1>2

\* What the sources outside the set later have together at sample k.
Added(later, k) ==
  Total([ssrc \in Sources |-> IF ssrc \in later THEN 0 ELSE Part(ssrc, k)])

LEMMA AddedIs ==
  ASSUME Listing, NEW later \in SUBSET Sources, NEW k \in Nat \ {0}
  PROVE  /\ Added(later, k) \in Int
         /\ (\A ssrc \in Sources \ later : Part(ssrc, k) = 0) => Added(later, k) = 0
         /\ \A ssrc \in later : Added(later \ {ssrc}, k) = Added(later, k) + Part(ssrc, k)
<1> DEFINE parts(s) == [ssrc \in Sources |-> IF ssrc \in s THEN 0 ELSE Part(ssrc, k)]
<1>1. \A ssrc \in Sources : Part(ssrc, k) \in Int
  BY PartIs
<1>2. parts(later) \in [Sources -> Int] /\ IsFiniteSet(Sources)
  BY <1>1, MixerAssumption
<1>3. Added(later, k) = Total(parts(later))
  BY Zenon DEF Added
<1>4. Added(later, k) \in Int
  <2> HIDE DEF parts
  <2> QED
    BY <1>2, <1>3, SumIsInt
<1>5. ASSUME \A ssrc \in Sources \ later : Part(ssrc, k) = 0
      PROVE  Added(later, k) = 0
  <2>1. parts(later) = [ssrc \in Sources |-> 0]
    BY <1>5
  <2> HIDE DEF parts
  <2> QED
    BY <1>2, <1>3, <2>1, SumOfNothing, Zenon
<1>6. ASSUME NEW ssrc \in later
      PROVE  Added(later \ {ssrc}, k) = Added(later, k) + Part(ssrc, k)
  <2>1. parts(later \ {ssrc}) = [parts(later) EXCEPT ![ssrc] = Part(ssrc, k)]
    OBVIOUS
  <2>2. parts(later)[ssrc] = 0 /\ ssrc \in Sources
    OBVIOUS
  <2>3. Added(later \ {ssrc}, k) = Total(parts(later \ {ssrc}))
    BY Zenon DEF Added
  <2>4. Part(ssrc, k) \in Int
    BY <1>1, <2>2
  <2> HIDE DEF parts
  <2>5. Total([parts(later) EXCEPT ![ssrc] = Part(ssrc, k)])
          = Total(parts(later)) + Part(ssrc, k)
    BY <1>2, <2>2, <2>4, SumGrows, Zenon
  <2> QED
    BY <1>3, <2>1, <2>3, <2>5, Zenon
<1> QED
  BY <1>4, <1>5, <1>6

LEMMA AddedAll == \A k : Added({}, k) = Sum(k)
<1>1. \A k : [ssrc \in Sources |-> IF ssrc \in {} THEN 0 ELSE Part(ssrc, k)]
               = [ssrc \in Sources |-> Part(ssrc, k)]
  OBVIOUS
<1> QED
  BY <1>1, Zenon DEF Added, Sum

\* The loop over the sources: the buffer is as long as the longest source that it
\* has passed, or has its one sample, and holds the sums of those sources.
Mixing ==
  /\ left \subseteq Sources
  /\ mFloatBuffer \in Seq(Int) /\ Len(mFloatBuffer) >= 1
  /\ \A ssrc \in Sources \ left : Len(getArrayValue(ssrc)) <= Len(mFloatBuffer)
  /\ \/ Len(mFloatBuffer) = 1
     \/ \E ssrc \in Sources \ left : Len(getArrayValue(ssrc)) = Len(mFloatBuffer)
  /\ \A k \in 1 .. Len(mFloatBuffer) : mFloatBuffer[k] = Added(left, k)

MixInv ==
  /\ Listing
  /\ stage \in {"push", "mix", "clip", "done"}
  /\ stage = "push" => mMixedBuffer = <<>>
  /\ stage \in {"mix", "clip"} => Mixing /\ \E ssrc \in Sources : mList[ssrc] # <<>>
  /\ stage = "clip" => left = {}
  /\ MixesEverySource

LEMMA LongestIs ==
  ASSUME Listing, NEW n \in Int,
         \E ssrc \in Sources : Len(getArrayValue(ssrc)) = n,
         \A ssrc \in Sources : Len(getArrayValue(ssrc)) <= n
  PROVE  Longest = n
<1> DEFINE lengths == {Len(getArrayValue(ssrc)) : ssrc \in Sources}
<1>1. n \in lengths /\ \A m \in lengths : m <= n
  OBVIOUS
<1>2. Longest = CHOOSE l \in lengths : \A m \in lengths : m <= l
  BY Zenon DEF Longest
<1>3. Longest \in lengths /\ \A m \in lengths : m <= Longest
  <2> HIDE DEF lengths
  <2> QED
    BY <1>1, <1>2
<1>4. PICK ssrc \in Sources : Longest = Len(getArrayValue(ssrc))
  BY <1>3
<1>5. n <= Longest /\ Longest <= n
  BY <1>1, <1>3
<1>6. Longest \in Int
  <2>1. PICK data \in Seq(Int) : data = getArrayValue(ssrc)
    BY DataIs
  <2> QED
    BY <1>4, <2>1
<1> HIDE DEF lengths
<1> QED
  BY <1>5, <1>6

\* The frames stay what they are while they are mixed.
LEMMA MixingLater ==
  ASSUME mList' = mList, NEW b, b = mFloatBuffer', left' \subseteq Sources,
         b \in Seq(Int), Len(b) >= 1,
         \A ssrc \in Sources \ left' : Len(getArrayValue(ssrc)) <= Len(b),
         Len(b) = 1 \/ \E ssrc \in Sources \ left' : Len(getArrayValue(ssrc)) = Len(b),
         \A k \in 1 .. Len(b) : b[k] = Added(left', k)
  PROVE  Mixing'
<1>1. \A ssrc \in Sources : getArrayValue(ssrc)' = getArrayValue(ssrc)
  BY Zenon DEF getArrayValue
<1>2. \A ssrc \in Sources, k \in 1 .. Len(b) : Part(ssrc, k)' = Part(ssrc, k)
  BY <1>1, Zenon DEF Part
<1>3. \A k \in 1 .. Len(b) : Added(left, k)' = Added(left', k)
  <2>1. ASSUME NEW k \in 1 .. Len(b)
        PROVE  [ssrc \in Sources |-> IF ssrc \in left' THEN 0 ELSE Part(ssrc, k)']
                 = [ssrc \in Sources |-> IF ssrc \in left' THEN 0 ELSE Part(ssrc, k)]
    BY <1>2
  <2> QED
    BY <2>1, Zenon DEF Added
<1> QED
  BY <1>1, <1>3, Zenon DEF Mixing

LEMMA SameFrames ==
  ASSUME mList' = mList
  PROVE  Longest' = Longest /\ \A k : Sum(k)' = Sum(k)
<1>1. \A s \in Sources : getArrayValue(s)' = getArrayValue(s)
  BY Zenon DEF getArrayValue
<1>2. \A s \in Sources : \A k : Part(s, k)' = Part(s, k)
  BY <1>1, Zenon DEF Part
<1>3. Longest' = Longest
  <2>1. {Len(getArrayValue(s))' : s \in Sources} = {Len(getArrayValue(s)) : s \in Sources}
    BY <1>1
  <2> QED
    BY <2>1, Zenon DEF Longest
<1>4. ASSUME NEW k
      PROVE  Sum(k)' = Sum(k)
  <2>1. [s \in Sources |-> Part(s, k)'] = [s \in Sources |-> Part(s, k)]
    BY <1>2
  <2> QED
    BY <2>1, Zenon DEF Sum
<1> QED
  BY <1>3, <1>4

LEMMA MixFirst == MixerInit => MixInv
<1> SUFFICES ASSUME MixerInit
             PROVE  MixInv
  OBVIOUS
<1>1. Listing
  BY DEF MixerInit, Listing
<1> QED
  BY <1>1 DEF MixerInit, MixInv, MixesEverySource

\* push() adds a frame.
LEMMA PushKeeps ==
  ASSUME MixInv, NEW ssrc \in Sources, NEW frame \in Frames, push(ssrc, frame)
  PROVE  MixInv'
<1>1. Listing'
  <2>1. Append(mList[ssrc], frame) \in Seq(Frames)
    BY DEF MixInv, Listing
  <2> QED
    BY <2>1 DEF MixInv, Listing, push
<1>2. stage' = "push" /\ mMixedBuffer' = <<>>
  BY DEF MixInv, push
<1> QED
  BY <1>1, <1>2 DEF MixInv, MixesEverySource

\* getMixedData() begins: the sources without a frame bring nothing.
LEMMA MixKeeps ==
  ASSUME MixInv, Mix
  PROVE  MixInv'
<1>1. Listing /\ mList' = mList /\ mMixedBuffer' = mMixedBuffer /\ mMixedBuffer = <<>>
  BY DEF MixInv, Mix
<1>2. Listing'
  BY <1>1 DEF Listing
<1>3. ASSUME NEW ssrc \in Sources, mList[ssrc] = <<>>
      PROVE  Len(getArrayValue(ssrc)) = 0
  <2>1. Len(mList[ssrc]) * mBufferSize = 0
    BY <1>3, MixerAssumption
  <2> QED
    BY <1>1, <2>1, DataIs
<1>4. CASE left' = {}
  <2>1. \A ssrc \in Sources : mList[ssrc] = <<>>
    BY <1>4 DEF Mix
  <2>2. \A ssrc \in Sources : Len(getArrayValue(ssrc)) = 0
    BY <1>3, <2>1
  <2>3. Longest = 0
    BY <1>1, <2>2, LongestIs, MixerAssumption
  <2>4. Longest' = 0
    BY <1>1, <2>3, SameFrames, Zenon
  <2>5. MixesEverySource'
    BY <1>1, <2>4 DEF MixesEverySource
  <2>6. stage' = "done"
    BY <1>4 DEF Mix
  <2> QED
    BY <1>2, <2>5, <2>6 DEF MixInv
<1>5. CASE left' # {}
  <2>1. stage' = "mix" /\ left' = {ssrc \in Sources : mList[ssrc] # <<>>}
    BY <1>5 DEF Mix
  <2>2. PICK b \in Seq(Int) : b = mFloatBuffer' /\ Len(b) = 1 /\ b[1] = 0
    <3>1. mFloatBuffer' = [k \in 1 .. 1 |-> 0]
      BY Zenon DEF Mix, Zeros
    <3>2. PICK n \in Nat : n = 1
      OBVIOUS
    <3>3. [k \in 1 .. n |-> 0] \in Seq(Int) /\ Len([k \in 1 .. n |-> 0]) = n
      OBVIOUS
    <3>4. [k \in 1 .. n |-> 0][1] = 0
      BY <3>2
    <3> QED
      BY <3>1, <3>2, <3>3, <3>4, Zenon
  <2>3. \A ssrc \in Sources \ left' : Len(getArrayValue(ssrc)) = 0 /\ Part(ssrc, 1) = 0
    <3>1. \A ssrc \in Sources \ left' : Len(getArrayValue(ssrc)) = 0
      BY <1>3, <2>1
    <3> QED
      BY <1>1, <3>1, PartIs
  <2>4. Added(left', 1) = 0
    <3>1. left' \in SUBSET Sources
      BY <2>1
    <3> QED
      BY <1>1, <2>3, <3>1, AddedIs
  <2>5. Mixing'
    <3>1. /\ \A ssrc \in Sources \ left' : Len(getArrayValue(ssrc)) <= Len(b)
          /\ \A k \in 1 .. Len(b) : b[k] = Added(left', k)
      BY <2>2, <2>3, <2>4
    <3>2. left' \subseteq Sources
      BY <2>1
    <3> QED
      BY <1>1, <2>2, <3>1, <3>2, MixingLater
  <2>6. \E ssrc \in Sources : mList'[ssrc] # <<>>
    BY <1>1, <1>5, <2>1
  <2> QED
    BY <1>2, <2>1, <2>5, <2>6 DEF MixInv, MixesEverySource
<1> QED
  BY <1>4, <1>5

\* One more source is added.
LEMMA AddSourceKeeps ==
  ASSUME MixInv, NEW ssrc \in Sources, AddSource(ssrc)
  PROVE  MixInv'
<1>1. /\ Listing /\ Mixing /\ \E s \in Sources : mList[s] # <<>>
      /\ mList' = mList /\ left' = left \ {ssrc} /\ ssrc \in left /\ left \subseteq Sources
      /\ stage' \in {"mix", "clip"} /\ (stage' = "clip" => left' = {})
  BY DEF MixInv, AddSource, Mixing
<1>2. PICK b \in Seq(Int), n \in Nat : b = mFloatBuffer /\ n = Len(b) /\ n >= 1
  BY <1>1 DEF Mixing
<1>3. PICK data \in Seq(Int), d \in Nat : data = getArrayValue(ssrc) /\ d = Len(data)
  BY <1>1, DataIs
<1>4. PICK m \in Nat : m = Longer(n, d)
  BY DEF Longer
<1>5. n <= m /\ d <= m /\ (m = n \/ m = d) /\ m >= 1
  BY <1>2, <1>4 DEF Longer
<1> DEFINE grown == [k \in 1 .. m |-> IF k \in 1 .. n THEN b[k] ELSE 0]
           c == [k \in 1 .. m |-> grown[k] + IF k \in 1 .. d THEN data[k] ELSE 0]
<1>6. mFloatBuffer' = c
  <2>1. DOMAIN b = 1 .. n /\ DOMAIN data = 1 .. d
    BY <1>2, <1>3
  <2>2. resizeArray(b, m) = grown
    BY <2>1, Zenon DEF resizeArray
  <2>3. DOMAIN grown = 1 .. m
    OBVIOUS
  <2>4. mFloatBuffer' = [k \in DOMAIN resizeArray(b, m) |->
                          resizeArray(b, m)[k] + IF k \in DOMAIN data THEN data[k] ELSE 0]
    BY <1>2, <1>3, <1>4, Zenon DEF AddSource
  <2> HIDE DEF grown
  <2> QED
    BY <2>1, <2>2, <2>3, <2>4, Zenon
<1>7. ASSUME NEW k \in 1 .. m
      PROVE  grown[k] = Added(left, k) /\ grown[k] \in Int
  <2>1. CASE k \in 1 .. n
    <3>1. grown[k] = b[k] /\ b[k] \in Int
      BY <1>2, <2>1
    <3>2. b[k] = Added(left, k)
      BY <1>1, <1>2, <2>1 DEF Mixing
    <3> QED
      BY <3>1, <3>2
  <2>2. CASE k \notin 1 .. n
    <3>1. grown[k] = 0 /\ k \in Nat \ {0} /\ n < k
      BY <1>2, <2>2
    <3>2. ASSUME NEW s \in Sources \ left
          PROVE  Part(s, k) = 0
      <4>1. PICK e \in Nat : e = Len(getArrayValue(s))
        BY <1>1, DataIs
      <4>2. e <= n
        BY <1>1, <1>2, <4>1 DEF Mixing
      <4>3. e < k
        BY <3>1, <4>2
      <4> QED
        BY <1>1, <3>1, <4>1, <4>3, PartIs
    <3>3. Added(left, k) = 0
      BY <1>1, <3>1, <3>2, AddedIs
    <3> QED
      BY <3>1, <3>3
  <2> QED
    BY <2>1, <2>2
<1>8. ASSUME NEW k \in 1 .. m
      PROVE  c[k] = Added(left', k) /\ c[k] \in Int
  <2>1. PICK p \in Int : p = Part(ssrc, k) /\ p = IF k \in 1 .. d THEN data[k] ELSE 0
    <3>1. DOMAIN data = 1 .. d
      BY <1>3
    <3>2. Part(ssrc, k) = IF k \in 1 .. d THEN data[k] ELSE 0
      BY <1>3, <3>1, Zenon DEF Part
    <3>3. (IF k \in 1 .. d THEN data[k] ELSE 0) \in Int
      BY <1>3
    <3> QED
      BY <3>2, <3>3
  <2>2. c[k] = grown[k] + p
    <3> HIDE DEF grown
    <3> QED
      BY <2>1
  <2>3. Added(left \ {ssrc}, k) = Added(left, k) + p
    <3>1. left \in SUBSET Sources /\ ssrc \in left /\ k \in Nat \ {0} /\ Listing
      BY <1>1
    <3> HIDE DEF grown, c
    <3>2. Added(left \ {ssrc}, k) = Added(left, k) + Part(ssrc, k)
      BY <3>1, AddedIs, Zenon
    <3> QED
      BY <2>1, <3>2, Zenon
  <2> HIDE DEF grown, c
  <2> QED
    BY <1>1, <1>7, <2>1, <2>2, <2>3
<1> HIDE DEF grown
<1>9. c \in Seq(Int) /\ Len(c) = m
  <2>1. \A k \in 1 .. m : c[k] \in Int
    BY <1>8
  <2>2. \A e \in [1 .. m -> Int] : e \in Seq(Int) /\ Len(e) = m
    OBVIOUS
  <2>3. c = [k \in 1 .. m |-> c[k]]
    BY Zenon
  <2> HIDE DEF c
  <2>4. c \in [1 .. m -> Int]
    BY <2>1, <2>3
  <2> QED
    BY <2>2, <2>4
<1> HIDE DEF c
<1>10. Mixing'
  <2>1. ASSUME NEW s \in Sources \ left'
        PROVE  Len(getArrayValue(s)) <= Len(c)
    <3>1. s = ssrc \/ s \in Sources \ left
      BY <1>1
    <3>2. CASE s = ssrc
      BY <1>3, <1>5, <1>9, <3>2
    <3>3. CASE s \in Sources \ left
      <4>1. PICK e \in Nat : e = Len(getArrayValue(s))
        BY <1>1, DataIs
      <4>2. e <= n
        BY <1>1, <1>2, <3>3, <4>1 DEF Mixing
      <4> QED
        BY <1>5, <1>9, <4>1, <4>2
    <3> QED
      BY <3>1, <3>2, <3>3
  <2>2. Len(c) = 1 \/ \E s \in Sources \ left' : Len(getArrayValue(s)) = Len(c)
    <3>1. CASE m = d
      <4>1. ssrc \in Sources \ left'
        BY <1>1
      <4> QED
        BY <1>3, <1>9, <3>1, <4>1
    <3>2. CASE m = n
      <4>1. n = 1 \/ \E s \in Sources \ left : Len(getArrayValue(s)) = n
        BY <1>1, <1>2 DEF Mixing
      <4> QED
        BY <1>1, <1>9, <3>2, <4>1
    <3> QED
      BY <1>5, <3>1, <3>2
  <2>3. left' \subseteq Sources /\ mList' = mList /\ Len(c) >= 1
    BY <1>1, <1>5, <1>9
  <2>4. \A k \in 1 .. Len(c) : c[k] = Added(left', k)
    BY <1>8, <1>9
  <2> QED
    BY <1>6, <1>9, <2>1, <2>2, <2>3, <2>4, MixingLater
<1> QED
  BY <1>1, <1>10 DEF MixInv, Listing, MixesEverySource

\* The last source has been added: attenuation and clipping.
LEMMA ClipKeeps ==
  ASSUME MixInv, Clip
  PROVE  MixInv'
<1>1. /\ Listing /\ Mixing /\ left = {} /\ mList' = mList /\ stage' = "done"
      /\ \E s \in Sources : mList[s] # <<>>
  BY DEF MixInv, Clip
<1>2. PICK b \in Seq(Int), n \in Nat : b = mFloatBuffer /\ n = Len(b) /\ n >= 1
  BY <1>1 DEF Mixing
<1>3. ASSUME NEW s \in Sources
      PROVE  Len(getArrayValue(s)) <= n
  BY <1>1, <1>2 DEF Mixing
<1>4. \E s \in Sources : Len(getArrayValue(s)) = n
  <2>1. PICK s \in Sources : mList[s] # <<>>
    BY <1>1
  <2>2. PICK e \in Nat \ {0} : e = Len(mList[s])
    <3>1. mList[s] \in Seq(Frames)
      BY <1>1 DEF Listing
    <3> QED
      BY <2>1, <3>1
  <2>3. e * mBufferSize >= 1 /\ e * mBufferSize \in Nat
    BY MixerAssumption
  <2>4. PICK d \in Nat : d = Len(getArrayValue(s)) /\ d >= 1 /\ d <= n
    BY <1>1, <1>3, <2>2, <2>3, DataIs
  <2>5. CASE n = 1
    <3>1. d = n
      BY <2>4, <2>5
    <3> QED
      BY <2>4, <3>1
  <2>6. CASE n # 1
    BY <1>1, <1>2, <2>6 DEF Mixing
  <2> QED
    BY <2>5, <2>6
<1>5. Longest = n
  BY <1>1, <1>3, <1>4, LongestIs
<1>6. ASSUME NEW k \in 1 .. n
      PROVE  b[k] = Sum(k) /\ b[k] \in Int
  BY <1>1, <1>2, AddedAll DEF Mixing
<1>7. PICK c : c = mMixedBuffer' /\ c = [k \in 1 .. n |-> Clipped(b[k])]
  <2>1. DOMAIN b = 1 .. n
    BY <1>2
  <2> QED
    BY <1>2, <2>1, Zenon DEF Clip
<1>8. Len(c) = n
  BY <1>7
<1>9. ASSUME NEW k \in 1 .. n
      PROVE  \/ 4 * Sum(k) >= 5 * Full
             \/ 4 * Sum(k) < -5 * Full /\ c[k] = -Full
             \/ 5 * c[k] - 4 * Sum(k) \in -4 .. 4
  <2>1. PICK x \in Int : x = b[k] /\ x = Sum(k)
    BY <1>6
  <2>2. c[k] = Clipped(x)
    BY <1>7, <2>1
  <2> QED
    BY <2>1, <2>2, ClippedIs
<1>10. Longest' = n /\ \A k : Sum(k)' = Sum(k)
  BY <1>1, <1>5, SameFrames
<1>11. MixesEverySource'
  BY <1>7, <1>8, <1>9, <1>10, Zenon DEF MixesEverySource
<1>12. Listing'
  BY <1>1 DEF Listing
<1> QED
  BY <1>1, <1>11, <1>12 DEF MixInv

\* Every step.
LEMMA MixerStep == MixInv /\ [MixerNext]_mixerVars => MixInv'
<1> SUFFICES ASSUME MixInv, [MixerNext]_mixerVars
             PROVE  MixInv'
  OBVIOUS
<1>1. CASE UNCHANGED mixerVars
  <2>1. /\ mList' = mList /\ stage' = stage /\ left' = left /\ mFloatBuffer' = mFloatBuffer
        /\ mMixedBuffer' = mMixedBuffer
    BY <1>1 DEF mixerVars
  <2>2. Longest' = Longest /\ \A k : Sum(k)' = Sum(k)
    BY <2>1, SameFrames
  <2>3. MixesEverySource'
    BY <2>1, <2>2, Zenon DEF MixInv, MixesEverySource
  <2>4. stage \in {"mix", "clip"} => Mixing'
    <3> SUFFICES ASSUME Mixing
                 PROVE  Mixing'
      BY DEF MixInv
    <3>1. PICK b : b = mFloatBuffer
      OBVIOUS
    <3>2. b = mFloatBuffer' /\ left' \subseteq Sources
      BY <2>1, <3>1 DEF Mixing
    <3> QED
      BY <2>1, <3>1, <3>2, MixingLater, Zenon DEF Mixing
  <2> QED
    BY <2>1, <2>3, <2>4 DEF MixInv, Listing
<1>2. ASSUME NEW ssrc \in Sources, NEW frame \in Frames, push(ssrc, frame)
      PROVE  MixInv'
  BY <1>2, PushKeeps
<1>3. CASE Mix
  BY <1>3, MixKeeps
<1>4. ASSUME NEW ssrc \in Sources, AddSource(ssrc)
      PROVE  MixInv'
  BY <1>4, AddSourceKeeps
<1>5. CASE Clip
  BY <1>5, ClipKeeps
<1> QED
  BY <1>1, <1>2, <1>3, <1>4, <1>5 DEF MixerNext

\* Whatever the order of the sources, the mix holds every sample of every source
\* once and in its place.
THEOREM EverySourceIsMixed == MixerSpec => []MixesEverySource
<1>1. MixInv => MixesEverySource
  BY DEF MixInv
<1> QED
  BY <1>1, MixFirst, MixerStep, PTL DEF MixerSpec
=============================================================================
