-------------------------------- MODULE G711 --------------------------------
(***************************************************************************)
(* The two implementations of G.711: UlawCodec and AlawCodec of the native *)
(* engine (cpp/G711Codec.cpp), and G711UCodec and G711ACodec of the Java   *)
(* engine (media/), whose tables are given here by what their loops put    *)
(* into them; and the gain that both engines give the microphone before.   *)
(* A sample is a 16-bit integer and a code an unsigned byte.  The module   *)
(* RtpSender sends every sample, one after the other.                      *)
(***************************************************************************)
EXTENDS Integers, Bitwise

VARIABLE sample

MinSample == -32768
MaxSample == 32767

FirstSample == sample = MinSample

NextSample == sample' = IF sample = MaxSample THEN MinSample ELSE sample + 1

Magnitude(x) == IF x < 0 THEN -x ELSE x
Negative(x) == IF x < 0 THEN 1 ELSE 0
Least(x, y) == IF x < y THEN x ELSE y

-----------------------------------------------------------------------------
\* The native codecs.

\* gExponents: the number of bits of a magnitude above the eighth.
gExponents == [k \in 0 .. 127 |-> CHOOSE e \in 0 .. 7 :
                 k < 2^e /\ (e > 0 => k >= 2^(e - 1))]

\* Sign, exponent and mantissa of a magnitude.  The lowest segment drops so many
\* bits, the others their exponent and three.
Compressed(sign, magnitude, lowest) ==
  LET exponent == gExponents[magnitude \div 256]
      dropped == IF exponent = 0 THEN lowest ELSE exponent + 3
  IN  128 * sign + 16 * exponent + ((magnitude \div 2^dropped) % 16)

UlawEncode(x) ==
  255 - Compressed(Negative(x), Least(Magnitude(x) + 132, 32767), 3)

UlawDecode(code) ==
  LET ulaw == 255 - code
      s == ((ulaw % 16) * 8 + 132) * 2^((ulaw \div 16) % 8) - 132
  IN  IF ulaw >= 128 THEN -s ELSE s

\* The codes with every other bit inverted: code ^ 0x55 and code ^ 0xD5.
Even == [code \in 0 .. 255 |-> code ^^ 85]
EvenAndSign == [code \in 0 .. 255 |-> code ^^ 213]

\* Mutant: the lowest segment drops three bits as well.
Uniform_AlawEncode(x) ==
  EvenAndSign[Compressed(Negative(x), Least(Magnitude(x), 32767), 3)]

AlawEncode(x) ==
  EvenAndSign[Compressed(Negative(x), Least(Magnitude(x), 32767), 4)]

AlawDecode(code) ==
  LET alaw == Even[code]
      exponent == (alaw \div 16) % 8
      s == IF exponent = 0 THEN (alaw % 16) * 16 + 8
                           ELSE ((alaw % 16) * 8 + 132) * 2^exponent
  IN  IF alaw >= 128 THEN s ELSE -s

-----------------------------------------------------------------------------
\* The Java codecs.  b16 >> 4 is a floor division; a table is indexed by the
\* bits of the result, and its upper half mirrors the lower.
Index(x, size) == (x \div 16) % size

\* The entry m of the lower half belongs to the segment q of the u-law, where
\* 2^q entries share a code.
table13to8 ==
  LET segment(m) == CHOOSE q \in 0 .. 7 : 16 * 2^q <= m + 16 /\ m + 16 < 32 * 2^q
      entry(m) == LET q == segment(m)
                  IN  127 - ((m + 16 - 16 * 2^q) \div 2^q + 16 * q)
  IN  [k \in 0 .. 8191 |-> IF k < 4096 THEN entry(k) ELSE entry(8191 - k) + 128]

G711UEncode(x) == table13to8[Index(x, 8192)]

G711UDecode(code) ==
  LET m == 127 - (code % 128)
      v == (((m % 16) + 16) * 2^(m \div 16) - 16) * 8
  IN  IF code >= 128 THEN -v ELSE v

\* Of the A-law's segments the two lowest have entries of their own.
table12to8 ==
  LET segment(m) == CHOOSE q \in 1 .. 7 : 16 * 2^(q - 1) <= m /\ m < 16 * 2^q
      entry(m) == IF m < 16 THEN Even[m]
                  ELSE LET p == 2^(segment(m) - 1)
                       IN  Even[(m - 16 * p) \div p + 16 * segment(m)]
  IN  [k \in 0 .. 4095 |-> IF k < 2048 THEN entry(k) ELSE entry(4095 - k) + 128]

G711AEncode(x) == table12to8[Index(x, 4096)]

G711ADecode(code) ==
  LET m == Even[code % 128]
      q == m \div 16
      v == IF q = 0 THEN m * 16 ELSE ((m % 16) + 16) * 2^(q + 3)
  IN  IF code >= 128 THEN -v ELSE v

-----------------------------------------------------------------------------
\* adjustMicGain of both engines.

\* A cast to 16 bits.
Short(x) == ((x + 32768) % 65536) - 32768

\* Mutant: the bound is rounded up.
Coarse_adjustMicGain(x, factor) ==
  LET bound == 32768 \div factor + 1
  IN  CASE x > bound -> 32767
        [] x < -bound -> -32767
        [] OTHER -> Short(factor * x)

adjustMicGain(x, factor) ==
  LET bound == 32768 \div factor
  IN  CASE x > bound -> 32767
        [] x < -bound -> -32767
        [] OTHER -> Short(factor * x)

-----------------------------------------------------------------------------
\* Both ways of a codec.
Ulaw(x) == UlawDecode(UlawEncode(x))
Alaw(x) == AlawDecode(AlawEncode(x))
G711U(x) == G711UDecode(G711UEncode(x))
G711A(x) == G711ADecode(G711AEncode(x))

\* y is x but for a quantisation of so many halves of a step, a sixteenth of a
\* loud sample and 16 for a quiet one.
Near(y, x, halves) == 32 * Magnitude(y - x) <= halves * (Magnitude(x) + 256)

\* What should be heard of a sample that is amplified.
Clipped(x) == IF x < 0 THEN -Least(-x, 32767) ELSE Least(x, 32767)

\* The one sample that adjustMicGain neither clips nor fits: it changes its sign.
Flips(factor) == sample = 32768 \div factor

\* Coding and decoding gives every sample back, the ends of the range, whose
\* negation and bias do not fit in 16 bits, among them, and so it does when the
\* microphone is amplified before, by 8 in the native engine and by 16 in Java: the
\* native codecs, which decode to the middle of a step, up to half a step, the Java
\* ones, which decode to the low end, up to a step.  Java's u-law halves the volume:
\* encode() indexes its table of 13-bit samples with b16 >> 4.
Faithful ==
  /\ \A factor \in {1, 8} : ~Flips(factor) =>
       LET spoken == adjustMicGain(sample, factor)
           heard == Clipped(factor * sample)
       IN  Near(Ulaw(spoken), heard, 1) /\ Near(Alaw(spoken), heard, 1)
  /\ \A factor \in {1, 16} : ~Flips(factor) =>
       LET spoken == adjustMicGain(sample, factor)
           heard == Clipped(factor * sample)
       IN  Near(G711A(spoken), heard, 2) /\ Near(2 * G711U(spoken), heard, 2)

\* A louder sample is never decoded to a softer one: the segments join.
Monotone ==
  sample < MaxSample =>
    /\ Ulaw(sample) <= Ulaw(sample + 1) /\ Alaw(sample) <= Alaw(sample + 1)
    /\ G711U(sample) <= G711U(sample + 1) /\ G711A(sample) <= G711A(sample + 1)
=============================================================================
