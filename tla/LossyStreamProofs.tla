-------------------------- MODULE LossyStreamProofs --------------------------
(***************************************************************************)
(* What NativeReceiver and RxPipeline gain by implementing LossyStream: in *)
(* each of its behaviours items are played in the order of arrival, and    *)
(* none twice, whatever is lost.                                           *)
(***************************************************************************)
EXTENDS LossyStream, TLAPS

Increasing(s) == \A i, j \in 1 .. Len(s) : i < j => s[i] < s[j]

Below(s, t) == \A i \in 1 .. Len(s), j \in 1 .. Len(t) : s[i] < t[j]

UpTo(s, n) == \A i \in 1 .. Len(s) : s[i] <= n

\* InOrder in its parts, and that no number comes again.
StreamInv ==
  /\ last \in Nat /\ pending \in Seq(Nat) /\ played \in Seq(Nat)
  /\ Increasing(pending) /\ Increasing(played)
  /\ Below(played, pending)
  /\ UpTo(pending, last) /\ UpTo(played, last)

-----------------------------------------------------------------------------
\* What order a concatenation and a part of a sequence inherit.
LEMMA ConcatElements ==
  ASSUME NEW s \in Seq(Nat), NEW t \in Seq(Nat)
  PROVE  /\ s \o t \in Seq(Nat) /\ Len(s \o t) = Len(s) + Len(t)
         /\ \A i \in 1 .. Len(s) : (s \o t)[i] = s[i]
         /\ \A i \in 1 .. Len(t) : (s \o t)[Len(s) + i] = t[i]
         /\ \A i \in 1 .. Len(s \o t) :
              i \in 1 .. Len(s) \/ (i - Len(s) \in 1 .. Len(t)
                                    /\ (s \o t)[i] = t[i - Len(s)])
  OBVIOUS

LEMMA ConcatIncreasing ==
  ASSUME NEW s \in Seq(Nat), NEW t \in Seq(Nat),
         Increasing(s), Increasing(t), Below(s, t)
  PROVE  Increasing(s \o t)
<1> DEFINE u == s \o t
<1> SUFFICES ASSUME NEW i \in 1 .. Len(u), NEW j \in 1 .. Len(u), i < j
             PROVE  u[i] < u[j]
  BY DEF Increasing
<1>1. CASE j <= Len(s)
  BY <1>1 DEF Increasing
<1>2. CASE i <= Len(s) /\ j > Len(s)
  <2>1. u[i] = s[i] /\ u[j] = t[j - Len(s)] /\ j - Len(s) \in 1 .. Len(t) /\ i \in 1 .. Len(s)
    BY <1>2
  <2> QED
    BY <2>1 DEF Below
<1>3. CASE i > Len(s)
  <2>1. /\ u[i] = t[i - Len(s)] /\ u[j] = t[j - Len(s)]
        /\ i - Len(s) \in 1 .. Len(t) /\ j - Len(s) \in 1 .. Len(t)
        /\ i - Len(s) < j - Len(s)
    BY <1>3
  <2> QED
    BY <2>1 DEF Increasing
<1> QED
  BY <1>1, <1>2, <1>3

LEMMA ConcatBounds ==
  ASSUME NEW s \in Seq(Nat), NEW t \in Seq(Nat), NEW u \in Seq(Nat), NEW n \in Nat
  PROVE  /\ UpTo(s, n) /\ UpTo(t, n) => UpTo(s \o t, n)
         /\ Below(s, u) /\ Below(t, u) => Below(s \o t, u)
         /\ Below(u, s) /\ Below(u, t) => Below(u, s \o t)
<1>1. /\ Len(s \o t) = Len(s) + Len(t)
      /\ \A i \in 1 .. Len(s \o t) :
           \/ i \in 1 .. Len(s) /\ (s \o t)[i] = s[i]
           \/ i - Len(s) \in 1 .. Len(t) /\ (s \o t)[i] = t[i - Len(s)]
  BY ConcatElements
<1>2. UpTo(s, n) /\ UpTo(t, n) => UpTo(s \o t, n)
  BY <1>1 DEF UpTo
<1>3. Below(s, u) /\ Below(t, u) => Below(s \o t, u)
  BY <1>1 DEF Below
<1>4. Below(u, s) /\ Below(u, t) => Below(u, s \o t)
  BY <1>1 DEF Below
<1> QED
  BY <1>2, <1>3, <1>4

LEMMA PartElements ==
  ASSUME NEW s \in Seq(Nat), NEW a \in 1 .. Len(s) + 1, NEW b \in a - 1 .. Len(s)
  PROVE  /\ SubSeq(s, a, b) \in Seq(Nat)
         /\ Len(SubSeq(s, a, b)) = b - a + 1
         /\ \A i \in 1 .. b - a + 1 :
              SubSeq(s, a, b)[i] = s[a + i - 1] /\ a + i - 1 \in a .. b
  OBVIOUS

LEMMA PartInherits ==
  ASSUME NEW s \in Seq(Nat), NEW a \in 1 .. Len(s) + 1, NEW b \in a - 1 .. Len(s),
         NEW u \in Seq(Nat), NEW n \in Nat
  PROVE  /\ Increasing(s) => Increasing(SubSeq(s, a, b))
         /\ UpTo(s, n) => UpTo(SubSeq(s, a, b), n)
         /\ Below(u, s) => Below(u, SubSeq(s, a, b))
<1> DEFINE p == SubSeq(s, a, b)
<1>1. /\ Len(p) = b - a + 1
      /\ \A i \in 1 .. Len(p) : p[i] = s[a + i - 1] /\ a + i - 1 \in 1 .. Len(s)
  BY PartElements
<1> HIDE DEF p
<1>2. Increasing(s) => Increasing(p)
  <2> SUFFICES ASSUME Increasing(s),
                      NEW i \in 1 .. Len(p), NEW j \in 1 .. Len(p), i < j
               PROVE  p[i] < p[j]
    BY DEF Increasing
  <2>1. a + i - 1 \in 1 .. Len(s) /\ a + j - 1 \in 1 .. Len(s) /\ a + i - 1 < a + j - 1
    BY <1>1
  <2> QED
    BY <1>1, <2>1 DEF Increasing
<1>3. UpTo(s, n) => UpTo(p, n)
  BY <1>1 DEF UpTo
<1>4. Below(u, s) => Below(u, p)
  BY <1>1 DEF Below
<1> QED
  BY <1>2, <1>3, <1>4 DEF p

\* Two parts of an increasing sequence that follow each other.
LEMMA PartsBelow ==
  ASSUME NEW s \in Seq(Nat), Increasing(s),
         NEW a \in 1 .. Len(s) + 1, NEW b \in a - 1 .. Len(s),
         NEW c \in b + 1 .. Len(s) + 1, NEW d \in c - 1 .. Len(s)
  PROVE  Below(SubSeq(s, a, b), SubSeq(s, c, d))
<1> DEFINE p == SubSeq(s, a, b)
           q == SubSeq(s, c, d)
<1>1. \A i \in 1 .. Len(p) : p[i] = s[a + i - 1] /\ a + i - 1 \in 1 .. b
  BY PartElements
<1>2. c \in 1 .. Len(s) + 1
  OBVIOUS
<1>3. \A i \in 1 .. Len(q) : q[i] = s[c + i - 1] /\ c + i - 1 \in b + 1 .. Len(s)
  BY <1>2, PartElements
<1> HIDE DEF p, q
<1>4. SUFFICES ASSUME NEW i \in 1 .. Len(p), NEW j \in 1 .. Len(q)
               PROVE  p[i] < q[j]
  BY DEF Below, p, q
<1>5. /\ a + i - 1 \in 1 .. Len(s) /\ c + j - 1 \in 1 .. Len(s)
      /\ a + i - 1 < c + j - 1
  BY <1>1, <1>3
<1> QED
  BY <1>1, <1>3, <1>5 DEF Increasing

-----------------------------------------------------------------------------
\* Items that pass by and items that are taken in: numbers that were not there yet.
LEMMA TakeInKeeps ==
  ASSUME StreamInv, NEW skip \in Nat, NEW count \in Nat, TakeIn(skip, count)
  PROVE  StreamInv'
<1> DEFINE items == [k \in 1 .. count |-> last + skip + k]
<1>1. /\ items \in Seq(Nat) /\ Len(items) = count
      /\ \A k \in 1 .. count : items[k] = last + skip + k
  BY DEF StreamInv
<1>2. /\ last \in Nat /\ last' \in Nat /\ last' = last + skip + count
      /\ played' = played /\ pending' = pending \o items
  BY DEF StreamInv, TakeIn
<1> HIDE DEF items
<1>3. Increasing(items) /\ UpTo(items, last')
  BY <1>1, <1>2 DEF Increasing, UpTo
<1>4. \A s \in Seq(Nat) : UpTo(s, last) => UpTo(s, last') /\ Below(s, items)
  <2> SUFFICES ASSUME NEW s \in Seq(Nat), UpTo(s, last)
               PROVE  UpTo(s, last') /\ Below(s, items)
    OBVIOUS
  <2>1. \A i \in 1 .. Len(s) : s[i] \in Nat /\ s[i] <= last
    BY DEF UpTo
  <2>2. UpTo(s, last')
    BY <1>2, <2>1 DEF UpTo
  <2>3. \A k \in 1 .. Len(items) : items[k] \in Nat /\ last < items[k]
    BY <1>1, <1>2
  <2>4. Below(s, items)
    BY <1>2, <2>1, <2>3 DEF Below
  <2> QED
    BY <2>2, <2>4
<1>5. pending' \in Seq(Nat) /\ Increasing(pending')
  BY <1>1, <1>2, <1>3, <1>4, ConcatIncreasing, ConcatElements DEF StreamInv
<1>6. UpTo(pending', last') /\ Below(played, pending')
  BY <1>1, <1>2, <1>3, <1>4, ConcatBounds DEF StreamInv
<1> QED
  BY <1>2, <1>4, <1>5, <1>6 DEF StreamInv, Increasing, UpTo, Below

\* What is played comes after what was, and before what is left.
LEMMA PlayKeeps ==
  ASSUME StreamInv, NEW count \in 1 .. Len(pending), Play(count)
  PROVE  StreamInv'
<1> DEFINE head == SubSeq(pending, 1, count)
           rest == SubSeq(pending, count + 1, Len(pending))
<1>1. /\ pending \in Seq(Nat) /\ played \in Seq(Nat) /\ last \in Nat
      /\ pending' = rest /\ played' = played \o head /\ last' = last
  BY DEF StreamInv, Play
<1>2. /\ 1 \in 1 .. Len(pending) + 1 /\ count \in 1 - 1 .. Len(pending)
      /\ count + 1 \in 1 .. Len(pending) + 1 /\ count + 1 \in count + 1 .. Len(pending) + 1
      /\ Len(pending) \in (count + 1) - 1 .. Len(pending)
  BY <1>1
<1>3. head \in Seq(Nat) /\ rest \in Seq(Nat)
  BY <1>1, <1>2, PartElements
<1>4. /\ Increasing(head) /\ UpTo(head, last) /\ Below(played, head)
      /\ Increasing(rest) /\ UpTo(rest, last) /\ Below(played, rest)
  BY <1>1, <1>2, PartInherits DEF StreamInv
<1>5. Below(head, rest)
  BY <1>1, <1>2, PartsBelow DEF StreamInv
<1> HIDE DEF head, rest
<1>6. played' \in Seq(Nat) /\ Increasing(played')
  BY <1>1, <1>3, <1>4, ConcatElements, ConcatIncreasing DEF StreamInv
<1>7. UpTo(played', last) /\ Below(played', rest)
  BY <1>1, <1>3, <1>4, <1>5, ConcatBounds DEF StreamInv
<1> QED
  BY <1>1, <1>3, <1>4, <1>6, <1>7 DEF StreamInv, Increasing, UpTo, Below

\* What is left after a loss keeps its order.
LEMMA LoseKeeps ==
  ASSUME StreamInv, NEW first \in 1 .. Len(pending), NEW end \in first .. Len(pending),
         Lose(first, end)
  PROVE  StreamInv'
<1> DEFINE before == SubSeq(pending, 1, first - 1)
           after == SubSeq(pending, end + 1, Len(pending))
<1>1. /\ pending \in Seq(Nat) /\ played \in Seq(Nat) /\ last \in Nat
      /\ pending' = before \o after /\ played' = played /\ last' = last
  BY DEF StreamInv, Lose
<1>2. /\ 1 \in 1 .. Len(pending) + 1 /\ first - 1 \in 1 - 1 .. Len(pending)
      /\ end + 1 \in 1 .. Len(pending) + 1 /\ end + 1 \in (first - 1) + 1 .. Len(pending) + 1
      /\ Len(pending) \in (end + 1) - 1 .. Len(pending)
  BY <1>1
<1>3. before \in Seq(Nat) /\ after \in Seq(Nat)
  BY <1>1, <1>2, PartElements
<1>4. /\ Increasing(before) /\ UpTo(before, last) /\ Below(played, before)
      /\ Increasing(after) /\ UpTo(after, last) /\ Below(played, after)
  BY <1>1, <1>2, PartInherits DEF StreamInv
<1>5. Below(before, after)
  BY <1>1, <1>2, PartsBelow DEF StreamInv
<1> HIDE DEF before, after
<1>6. pending' \in Seq(Nat) /\ Increasing(pending')
  BY <1>1, <1>3, <1>4, <1>5, ConcatElements, ConcatIncreasing
<1>7. UpTo(pending', last) /\ Below(played, pending')
  BY <1>1, <1>3, <1>4, ConcatBounds
<1> QED
  BY <1>1, <1>6, <1>7 DEF StreamInv, Increasing, UpTo, Below

\* The invariant: at first, in each step, and that it orders the stream.
LEMMA StreamInvAtFirst == StreamInit => StreamInv
BY DEF StreamInit, StreamInv, Increasing, UpTo, Below

LEMMA StreamInvStep ==
  ASSUME PacketItems \in Nat, MaxSkip \in Nat, StreamInv, [StreamNext]_streamVars
  PROVE  StreamInv'
<1>1. ASSUME NEW skip \in 0 .. MaxSkip, NEW count \in {0, PacketItems},
             TakeIn(skip, count)
      PROVE  StreamInv'
  BY <1>1, TakeInKeeps
<1>2. ASSUME NEW count \in 1 .. Len(pending), Play(count)
      PROVE  StreamInv'
  BY <1>2, PlayKeeps
<1>3. ASSUME NEW first \in 1 .. Len(pending), NEW end \in first .. Len(pending),
             Lose(first, end)
      PROVE  StreamInv'
  BY <1>3, LoseKeeps
<1>4. CASE UNCHANGED streamVars
  BY <1>4 DEF streamVars, StreamInv, Increasing, UpTo, Below
<1> QED
  BY <1>1, <1>2, <1>3, <1>4 DEF StreamNext

LEMMA StreamInvOrders ==
  ASSUME StreamInv
  PROVE  InOrder
<1>1. played \o pending \in Seq(Nat) /\ Increasing(played \o pending)
  BY ConcatElements, ConcatIncreasing DEF StreamInv
<1> QED
  BY <1>1 DEF InOrder, Increasing

\* In a stream of packets of any size that loses anything, what was played and what
\* will be is in the order of arrival and nothing comes twice: what both receive paths
\* promise by implementing it.
THEOREM StreamInOrder ==
  ASSUME PacketItems \in Nat, MaxSkip \in Nat
  PROVE  StreamSpec => []InOrder
<1>1. StreamInv /\ [StreamNext]_streamVars => StreamInv'
  BY StreamInvStep
<1>2. StreamInv => InOrder
  BY StreamInvOrders
<1> QED
  BY <1>1, <1>2, StreamInvAtFirst, PTL DEF StreamSpec
=============================================================================
