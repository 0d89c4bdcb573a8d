--------------------------- MODULE NormalizeProofs ---------------------------
(***************************************************************************)
(* What becomes of a payment's data, for every width of integers that ends *)
(* like that of an int64 and for every request.                            *)
(***************************************************************************)
EXTENDS Normalize, TLAPS

(***************************************************************************)
(* Arithmetic that wraps around.                                           *)
(***************************************************************************)

\* A multiple of d that is smaller than d in size is 0.
LEMMA SmallMultiple ==
    ASSUME NEW d \in Nat \ {0}, NEW k \in Int, -d < k * d, k * d < d
    PROVE  k = 0
<1>1. ASSUME k >= 1 PROVE FALSE
  BY <1>1
<1>2. ASSUME k <= -1 PROVE FALSE
  BY <1>2
<1> QED
  BY <1>1, <1>2

\* Wrap returns an integer of the width that differs from its argument by a
\* multiple of 2 * Half.
LEMMA WrapDiffers ==
    ASSUME NEW n \in Int
    PROVE  /\ Wrap(n) \in Ints
           /\ \E k \in Int : n = Wrap(n) + k * (2 * Half)
<1> DEFINE d == 2 * Half
           q == (n + Half) \div d
           m == (n + Half) % d
<1>1. d \in Nat \ {0} /\ Half \in Nat
  BY NormalizeAssumption
<1>2. n + Half \in Int
  BY <1>1
<1> HIDE DEF d
<1>3. q \in Int /\ m \in 0 .. d - 1 /\ n + Half = d * q + m
  BY <1>1, <1>2
<1>4. Wrap(n) = m - Half
  BY DEF Wrap, d
<1>5. Wrap(n) \in Ints
  BY <1>1, <1>3, <1>4 DEF Ints, MinInt, MaxInt, d
<1>6. d * q = q * d
  BY <1>1, <1>3
<1>7. n = Wrap(n) + q * d
  BY <1>1, <1>3, <1>4, <1>6
<1> QED
  BY <1>3, <1>5, <1>7 DEF d

\* There is only one such integer.
LEMMA WrapUnique ==
    ASSUME NEW n \in Int, NEW x \in Ints, NEW k \in Int, n = x + k * (2 * Half)
    PROVE  Wrap(n) = x
<1> DEFINE d == 2 * Half
<1>1. d \in Nat \ {0} /\ Half \in Nat /\ x \in Int
  BY NormalizeAssumption DEF Ints, MinInt, MaxInt
<1>2. Wrap(n) \in Ints
  BY WrapDiffers
<1>3. PICK j \in Int : n = Wrap(n) + j * d
  BY WrapDiffers
<1>4. -d < x - Wrap(n) /\ x - Wrap(n) < d
  BY <1>1, <1>2 DEF Ints, MinInt, MaxInt
<1>5. Wrap(n) \in Int
  BY <1>1, <1>2 DEF Ints, MinInt, MaxInt
<1> HIDE DEF d
<1>6. (j - k) * d = j * d - k * d
  BY <1>1
<1>7. (j - k) * d = x - Wrap(n)
  BY <1>1, <1>3, <1>5, <1>6 DEF d
<1>8. j - k = 0
  BY <1>1, <1>4, <1>7, SmallMultiple
<1> QED
  BY <1>1, <1>3, <1>5, <1>8 DEF d

\* An integer of the width is left alone.
LEMMA WrapInts ==
    ASSUME NEW x \in Ints
    PROVE  Wrap(x) = x
<1>1. x \in Int /\ Half \in Nat
  BY NormalizeAssumption DEF Ints, MinInt, MaxInt
<1>2. x = x + 0 * (2 * Half) /\ 0 \in Int
  BY <1>1
<1> QED
  BY <1>1, <1>2, WrapUnique

\* Negating after wrapping is as good as negating alone.
LEMMA WrapNegation ==
    ASSUME NEW n \in Int
    PROVE  Wrap(-Wrap(n)) = Wrap(-n)
<1> DEFINE d == 2 * Half
<1>1. d \in Nat \ {0}
  BY NormalizeAssumption
<1>2. PICK k \in Int : n = Wrap(n) + k * d
  BY WrapDiffers
<1>3. Wrap(n) \in Int
  BY WrapDiffers, NormalizeAssumption DEF Ints, MinInt, MaxInt
<1>4. -Wrap(n) \in Int /\ -n \in Int
  BY <1>3
<1>5. PICK j \in Int : -Wrap(n) = Wrap(-Wrap(n)) + j * d
  BY <1>4, WrapDiffers
<1>6. Wrap(-Wrap(n)) \in Ints
  BY <1>4, WrapDiffers
<1>7. Wrap(-Wrap(n)) \in Int
  BY <1>6, NormalizeAssumption DEF Ints, MinInt, MaxInt
<1> HIDE DEF d
<1>8. (j - k) * d = j * d - k * d /\ j - k \in Int
  BY <1>1
<1>9. -n = Wrap(-Wrap(n)) + (j - k) * d
  BY <1>1, <1>2, <1>3, <1>5, <1>7, <1>8
<1> QED
  BY <1>4, <1>6, <1>8, <1>9, WrapUnique DEF d

-----------------------------------------------------------------------------
(***************************************************************************)
(* parseAmount and formatAmount.                                           *)
(***************************************************************************)

\* The smallest integer is its own negation.
LEMMA WrapHalf == Wrap(Half) = -Half
<1>1. Half \in Int /\ -Half \in Ints /\ 1 \in Int /\ Half = -Half + 1 * (2 * Half)
  BY NormalizeAssumption DEF Ints, MinInt, MaxInt
<1> QED
  BY <1>1, WrapUnique

\* A text of two parts is no empty text.
LEMMA TwoParts ==
    ASSUME NEW b \in BOOLEAN, NEW x, NEW y
    PROVE  /\ Text(b, <<x, y>>).negative = b
           /\ Text(b, <<x, y>>).parts = <<x, y>>
           /\ Len(Text(b, <<x, y>>).parts) = 2
           /\ Text(b, <<x, y>>) # EmptyText
<1>1. Len(<<x, y>>) = 2 /\ Len(<<EmptyPart>>) = 1
  OBVIOUS
<1>2. <<x, y>> # <<EmptyPart>>
  BY <1>1
<1> QED
  BY <1>1, <1>2 DEF Text, EmptyText

\* What parseAmount makes of a number in two parts, the second of which takes
\* two characters.
LEMMA ReadsTwoParts ==
    ASSUME NEW b \in BOOLEAN, NEW x, NEW y,
           IsPart(x), x.sign # "x", x.len > 0, Value(x) \in Ints,
           IsPart(y), y.sign # "x", y.len > 0, Value(y) \in Ints,
           Length(y) = 2
    PROVE  LET t == Text(b, <<x, y>>)
               v == Wrap(Value(x) * 100 + Value(y))
           IN  Readable(t) /\ Total(t) = IF b THEN Wrap(-v) ELSE v
<1> DEFINE t == Text(b, <<x, y>>)
<1>1. /\ t.negative = b /\ t.parts[1] = x /\ t.parts[2] = y
      /\ Len(t.parts) = 2 /\ t # EmptyText
  BY TwoParts
<1> HIDE DEF t
<1>2. MajorPart(t) = x
  <2>1. EmptyPart.len = 0
    BY DEF EmptyPart, Part
  <2>2. x # EmptyPart
    BY <2>1
  <2> QED
    BY <1>1, <2>2 DEF MajorPart
<1>3. MinorPart(t) = y
  <2>1. Pad(y) = Part(y.sign, y.val * 1, y.len + 0)
    BY DEF Pad, TenTo
  <2>a. y.val \in Nat /\ y.len \in 0 .. 3
    BY Zenon DEF IsPart, Many
  <2>2. y.val * 1 = y.val /\ y.len + 0 = y.len
    BY <2>a
  <2>3. y = Part(y.sign, y.val, y.len)
    BY DEF IsPart
  <2> QED
    BY <1>1, <2>1, <2>2, <2>3 DEF MinorPart
<1>4. Readable(t)
  BY <1>1, <1>2, <1>3 DEF Readable, Parses
<1>5. Total(t) = IF b THEN Wrap(-Wrap(Value(x) * 100 + Value(y)))
                      ELSE Wrap(Value(x) * 100 + Value(y))
  BY <1>1, <1>2, <1>3 DEF Total
<1> QED
  BY <1>4, <1>5 DEF t

\* Division and remainder of Go, by 100.
LEMMA Division ==
    ASSUME NEW v \in Ints
    PROVE  /\ Quo(v, 100) \in Ints /\ Rem(v, 100) \in -99 .. 99
           /\ Quo(v, 100) * 100 + Rem(v, 100) = v
           /\ v >= 0 => Quo(v, 100) >= 0 /\ Rem(v, 100) >= 0
           /\ v = -Half => Rem(v, 100) > -10 /\ Rem(v, 100) <= 0
<1>1. Half \in Nat /\ v \in Int /\ Half % 100 < 10 /\ Half >= 100
  BY NormalizeAssumption DEF Ints, MinInt, MaxInt
<1>2. CASE v >= 0
  BY <1>1, <1>2 DEF Quo, Rem, Ints, MinInt, MaxInt
<1>3. CASE v < 0
  BY <1>1, <1>3 DEF Quo, Rem, Ints, MinInt, MaxInt
<1> QED
  BY <1>1, <1>2, <1>3

\* What %d writes.
LEMMA Written ==
    ASSUME NEW n \in Int, NEW width \in {1, 2}
    PROVE  /\ IsPart(Decimal(n, width))
           /\ Decimal(n, width).sign # "x" /\ Decimal(n, width).len > 0
           /\ Value(Decimal(n, width)) = n
           /\ width = 2 /\ n > -10 /\ n < 100 => Length(Decimal(n, width)) = 2
<1> DEFINE abs == IF n < 0 THEN -n ELSE n
           sign == IF n < 0 THEN "-" ELSE ""
           signLen == IF n < 0 THEN 1 ELSE 0
           digits == IF abs < 10 THEN 1 ELSE IF abs < 100 THEN 2 ELSE Many
           len == IF digits + signLen < width THEN width - signLen ELSE digits
<1>1. Decimal(n, width) = Part(sign, abs, len)
  BY DEF Decimal
<1>2. /\ Part(sign, abs, len).sign = sign
      /\ Part(sign, abs, len).val = abs
      /\ Part(sign, abs, len).len = len
  BY DEF Part
<1>3. abs \in Nat /\ len \in 0 .. 3 /\ (len < 3 => abs < TenTo(len))
  BY DEF Many, TenTo
<1>a. len > 0
  BY DEF Many
<1>4. sign \in {"", "-", "+", "x"} /\ sign # "x"
  OBVIOUS
<1>5. width = 2 /\ n > -10 /\ n < 100 => len + signLen = 2
  BY DEF Many
<1>7. Value(Decimal(n, width)) = n
  <2>1. Value(Part(sign, abs, len)) = IF sign = "-" THEN -abs ELSE abs
    BY <1>2 DEF Value
  <2>2. (IF sign = "-" THEN -abs ELSE abs) = n
    OBVIOUS
  <2> QED
    BY <1>1, <2>1, <2>2
<1>6. IsPart(Decimal(n, width))
  <2> HIDE DEF sign, abs, len
  <2> QED
    BY <1>1, <1>2, <1>3, <1>4, Zenon DEF IsPart, Many
<1>8. Length(Decimal(n, width)) = len + signLen
  BY <1>1, <1>2 DEF Length
<1> HIDE DEF sign, abs, len, signLen
<1>9. Decimal(n, width).sign # "x" /\ Decimal(n, width).len > 0
  BY <1>1, <1>2, <1>4, <1>a, Zenon
<1> QED
  BY <1>5, <1>6, <1>7, <1>8, <1>9

\* parseAmount returns the number that formatAmount has written, also at the
\* ends of the integers.
THEOREM ReadsWhatIsWritten ==
    ASSUME NEW n \in Ints
    PROVE  Readable(formatAmount(n)) /\ Total(formatAmount(n)) = n
<1> DEFINE v == IF n < 0 THEN Wrap(-n) ELSE n
           x == Decimal(Quo(v, 100), 1)
           y == Decimal(Rem(v, 100), 2)
<1>0. n \in Int /\ Half \in Nat /\ Half >= 100
  BY NormalizeAssumption DEF Ints, MinInt, MaxInt
<1>1. /\ v \in Ints /\ (v >= 0 \/ v = -Half)
      /\ (IF n < 0 THEN Wrap(-v) ELSE v) = n
  <2>1. CASE n >= 0
    BY <1>0, <2>1
  <2>2. CASE n < 0 /\ n # -Half
    <3>1. -n \in Ints
      BY <1>0, <2>2 DEF Ints, MinInt, MaxInt
    <3>2. Wrap(-n) = -n /\ Wrap(n) = n
      BY <3>1, WrapInts
    <3>3. v = -n /\ -v = n
      BY <1>0, <2>2, <3>2
    <3> HIDE DEF v
    <3> QED
      BY <1>0, <2>2, <3>1, <3>2, <3>3
  <2>3. CASE n = -Half
    <3>1. n < 0 /\ -n = Half
      BY <1>0, <2>3
    <3>2. v = -Half
      BY <3>1, WrapHalf
    <3>3. -v = Half
      BY <1>0, <3>2
    <3> HIDE DEF v
    <3> QED
      BY <2>3, <3>1, <3>2, <3>3, WrapHalf
  <2> QED
    BY <1>0, <2>1, <2>2, <2>3
<1>2. formatAmount(n) = Text(n < 0, <<x, y>>)
  BY DEF formatAmount
<1> HIDE DEF v
<1>3. /\ Quo(v, 100) \in Ints /\ Rem(v, 100) \in -99 .. 99
      /\ Quo(v, 100) * 100 + Rem(v, 100) = v
      /\ Rem(v, 100) > -10 /\ Rem(v, 100) < 100
  BY <1>0, <1>1, Division
<1>4. Quo(v, 100) \in Int /\ Rem(v, 100) \in Int /\ Rem(v, 100) \in Ints
  BY <1>0, <1>3 DEF Ints, MinInt, MaxInt
<1>5. /\ IsPart(x) /\ x.sign # "x" /\ x.len > 0 /\ Value(x) = Quo(v, 100)
  BY <1>4, Written
<1>6. /\ IsPart(y) /\ y.sign # "x" /\ y.len > 0 /\ Value(y) = Rem(v, 100)
      /\ Length(y) = 2
  BY <1>3, <1>4, Written
<1>7. Wrap(v) = v
  BY <1>1, WrapInts
<1> HIDE DEF x, y
<1>8. ASSUME NEW b \in BOOLEAN
      PROVE  /\ Readable(Text(b, <<x, y>>))
             /\ Total(Text(b, <<x, y>>)) = IF b THEN Wrap(-v) ELSE v
  <2>1. Value(x) \in Ints /\ Value(y) \in Ints
    BY <1>3, <1>4, <1>5, <1>6
  <2>2. Wrap(Value(x) * 100 + Value(y)) = v
    BY <1>3, <1>5, <1>6, <1>7
  <2> QED
    BY <1>5, <1>6, <2>1, <2>2, ReadsTwoParts
<1>9. CASE n < 0
  <2>1. formatAmount(n) = Text(TRUE, <<x, y>>)
    BY <1>2, <1>9
  <2> QED
    BY <1>1, <1>8, <1>9, <2>1
<1>10. CASE ~(n < 0)
  <2>0. (n < 0) = FALSE
    BY <1>10
  <2>1. formatAmount(n) = Text(FALSE, <<x, y>>)
    BY <1>2, <2>0, Zenon
  <2> QED
    BY <1>1, <1>8, <1>10, <2>1
<1> QED
  BY <1>9, <1>10

\* What parseAmount returns is an integer of the width.
LEMMA TotalInts ==
    ASSUME NEW t, Readable(t)
    PROVE  Total(t) \in Ints
<1> DEFINE n == Value(MajorPart(t)) * 100 + Value(MinorPart(t))
<1>1. Value(MajorPart(t)) \in Ints /\ Value(MinorPart(t)) \in Ints
  BY DEF Readable, Parses
<1>2. n \in Int
  BY <1>1, NormalizeAssumption DEF Ints, MinInt, MaxInt
<1>3. Total(t) = IF t.negative THEN Wrap(-Wrap(n)) ELSE Wrap(n)
  BY DEF Total
<1> HIDE DEF n
<1>4. Wrap(n) \in Ints
  BY <1>2, WrapDiffers
<1>5. -Wrap(n) \in Int
  BY <1>4, NormalizeAssumption DEF Ints, MinInt, MaxInt
<1>6. Wrap(-Wrap(n)) \in Ints
  BY <1>5, WrapDiffers
<1> QED
  BY <1>3, <1>4, <1>6

\* Zeros fill a part of at most two digits up to hundredths.
LEMMA Hundredths ==
    ASSUME NEW v \in Nat, NEW l \in 0 .. 2, v < TenTo(l)
    PROVE  v * TenTo(2 - l) \in 0 .. 99
<1>1. CASE l = 0
  BY <1>1 DEF TenTo
<1>2. CASE l = 1
  BY <1>2 DEF TenTo
<1>3. CASE l = 2
  BY <1>3 DEF TenTo
<1> QED
  BY <1>1, <1>2, <1>3

LEMMA PadsToTwo ==
    ASSUME NEW v \in Nat, NEW l \in 0 .. 2, v < TenTo(l)
    PROVE  LET cents == v * TenTo(2 - l)
               padded == Pad(Part("", v, l))
           IN  Length(padded) = 2 /\ Parses(padded) /\ Value(padded) = cents
<1> DEFINE p == Part("", v, l)
           cents == v * TenTo(2 - l)
           k == IF Length(p) < 2 THEN 2 - Length(p) ELSE 0
<1>1. p.sign = "" /\ p.val = v /\ p.len = l
  BY DEF Part
<1>2. Pad(p) = Part(p.sign, p.val * TenTo(k), p.len + k)
  BY DEF Pad
<1> HIDE DEF p
<1>3. Length(p) = l
  <2>1. l + 0 = l
    OBVIOUS
  <2> QED
    BY <1>1, <2>1, Zenon DEF Length
<1>4. k = 2 - l /\ l + k = 2
  BY <1>3
<1> HIDE DEF k
<1>5. Pad(p) = Part("", cents, 2)
  BY <1>1, <1>2, <1>4
<1>6. cents \in Ints
  <2>1. cents \in 0 .. 99
    BY Hundredths
  <2> HIDE DEF cents
  <2> QED
    BY <2>1, NormalizeAssumption DEF Ints, MinInt, MaxInt
<1> HIDE DEF cents
<1> DEFINE c == Part("", cents, 2)
<1>7. c.sign = "" /\ c.val = cents /\ c.len = 2
  BY DEF Part
<1> HIDE DEF c
<1>8. Length(c) = 2 /\ Value(c) = cents /\ Parses(c)
  <2>1. 2 + 0 = 2 /\ 2 > 0 /\ "" # "-" /\ "" # "x"
    OBVIOUS
  <2>2. Length(c) = 2 /\ Value(c) = cents
    BY <1>7, <2>1, Zenon DEF Length, Value
  <2> QED
    BY <1>6, <1>7, <2>1, <2>2, Zenon DEF Parses
<1> QED
  BY <1>5, <1>8 DEF c, p, cents

\* The minor part of a well-formed text: two digits, the hundredths.
LEMMA ReadsMinor ==
    ASSUME NEW t, IsText(t), WellFormed(t)
    PROVE  LET cents == IF Len(t.parts) = 1 THEN 0
                        ELSE t.parts[2].val * TenTo(2 - t.parts[2].len)
           IN  /\ cents \in 0 .. 99
               /\ Length(MinorPart(t)) = 2 /\ Parses(MinorPart(t))
               /\ Value(MinorPart(t)) = cents
<1> DEFINE cents == IF Len(t.parts) = 1 THEN 0
                    ELSE t.parts[2].val * TenTo(2 - t.parts[2].len)
<1>1. Len(t.parts) = 1 \/ Len(t.parts) = 2
  <2>1. \A n \in Nat \ {0} : n <= 2 => n = 1 \/ n = 2
    OBVIOUS
  <2> QED
    BY <2>1, Zenon DEF IsText, WellFormed
<1>2. 1 # 2
  OBVIOUS
<1>3. CASE Len(t.parts) = 1
  <2>1. MinorPart(t) = Pad(Part("", 0, 0))
    BY <1>2, <1>3, Zenon DEF MinorPart, EmptyPart
  <2>2. 0 \in Nat /\ 0 \in 0 .. 2 /\ 0 < TenTo(0) /\ 0 * TenTo(2 - 0) = 0 /\ 0 \in 0 .. 99
    BY DEF TenTo
  <2>3. /\ Length(Pad(Part("", 0, 0))) = 2 /\ Parses(Pad(Part("", 0, 0)))
        /\ Value(Pad(Part("", 0, 0))) = 0
    BY <2>2, PadsToTwo
  <2> QED
    BY <1>3, <2>1, <2>2, <2>3, Zenon
<1>4. CASE Len(t.parts) = 2
  <2> DEFINE q == t.parts[2]
  <2>1. 2 \in 1 .. 2
    OBVIOUS
  <2>2. IsPart(q) /\ q.sign = "" /\ q.len <= 2
    BY <1>4, <2>1, Zenon DEF IsText, WellFormed
  <2>3. /\ q = Part("", q.val, q.len) /\ q.val \in Nat /\ q.len \in 0 .. 3
        /\ q.len < 3 => q.val < TenTo(q.len)
    BY <2>2, Zenon DEF IsPart, Many
  <2>4. MinorPart(t) = Pad(q) /\ cents = q.val * TenTo(2 - q.len)
    BY <1>2, <1>4, Zenon DEF MinorPart
  <2>5. \A l \in 0 .. 3 : l <= 2 => l \in 0 .. 2 /\ l < 3
    OBVIOUS
  <2>6. q.len \in 0 .. 2 /\ q.val < TenTo(q.len)
    BY <2>2, <2>3, <2>5, Zenon
  <2> HIDE DEF q
  <2>7. q.val * TenTo(2 - q.len) \in 0 .. 99
    BY <2>3, <2>6, Hundredths, Zenon
  <2>8. LET padded == Pad(Part("", q.val, q.len))
        IN  /\ Length(padded) = 2 /\ Parses(padded)
            /\ Value(padded) = q.val * TenTo(2 - q.len)
    BY <2>3, <2>6, PadsToTwo, Zenon
  <2> HIDE DEF cents
  <2>9. /\ cents \in 0 .. 99
        /\ Length(MinorPart(t)) = 2 /\ Parses(MinorPart(t))
        /\ Value(MinorPart(t)) = cents
    BY <2>3, <2>4, <2>7, <2>8, Zenon
  <2> QED
    BY <2>9, Zenon DEF cents
<1> QED
  BY <1>1, <1>3, <1>4, Zenon

\* parseAmount reads a well-formed text as the number it stands for, modulo
\* the width, and refuses it only for being empty or too large.
THEOREM ReadsTexts ==
    ASSUME NEW t, IsText(t), WellFormed(t)
    PROVE  /\ Readable(t) <=> t # EmptyText /\ t.parts[1].val <= MaxInt
           /\ Readable(t) => Total(t) = Wrap(Denotes(t))
<1> DEFINE cents == IF Len(t.parts) = 1 THEN 0
                    ELSE t.parts[2].val * TenTo(2 - t.parts[2].len)
           a == t.parts[1]
<1>1. /\ cents \in 0 .. 99
      /\ Length(MinorPart(t)) = 2 /\ Parses(MinorPart(t))
      /\ Value(MinorPart(t)) = cents
  BY ReadsMinor
<1>2. IsPart(a) /\ a.sign = "" /\ Len(t.parts) <= 2
  <2>1. /\ DOMAIN t.parts = 1 .. Len(t.parts) /\ Len(t.parts) \in Nat \ {0}
        /\ \A i \in DOMAIN t.parts : IsPart(t.parts[i])
    BY Zenon DEF IsText
  <2>2. 1 \in DOMAIN t.parts
    BY <2>1
  <2> QED
    BY <2>1, <2>2, Zenon DEF WellFormed
<1>3. /\ a = Part(a.sign, a.val, a.len) /\ a.val \in Nat /\ a.len \in 0 .. 3
      /\ a.len < 3 => a.val < TenTo(a.len)
  BY <1>2, Zenon DEF IsPart, Many
<1>4. t.negative \in BOOLEAN
  BY Zenon DEF IsText
<1>5. a # EmptyPart => a.len > 0
  <2> SUFFICES ASSUME a.len = 0 PROVE a = EmptyPart
    BY <1>3
  <2>1. a.val = 0
    <3>1. a.val < 1
      BY <1>3 DEF TenTo
    <3> QED
      BY <1>3, <3>1
  <2> QED
    BY <1>2, <1>3, <2>1, Zenon DEF EmptyPart
<1>6. EmptyPart.val = 0
  BY DEF EmptyPart, Part
<1>7. /\ MajorPart(t).sign = "" /\ MajorPart(t).val = a.val
      /\ MajorPart(t).len > 0
  <2>1. CASE a = EmptyPart
    BY <1>6, <2>1 DEF MajorPart, Part
  <2>2. CASE a # EmptyPart
    BY <1>2, <1>5, <2>2 DEF MajorPart
  <2> QED
    BY <2>1, <2>2
<1> HIDE DEF a, cents
<1>8. Value(MajorPart(t)) = a.val
  BY <1>7 DEF Value
<1>9. a.val \in Ints <=> a.val <= MaxInt
  BY <1>3, NormalizeAssumption DEF Ints, MinInt, MaxInt
<1>10. Parses(MajorPart(t)) <=> a.val <= MaxInt
  BY <1>7, <1>8, <1>9 DEF Parses
<1>11. Readable(t) <=> t # EmptyText /\ a.val <= MaxInt
  <2>1. 2 <= 2
    OBVIOUS
  <2> QED
    BY <1>1, <1>2, <1>10, <2>1, Zenon DEF Readable
<1> DEFINE n == a.val * 100 + cents
<1>12. n \in Int
  BY <1>1, <1>3
<1>13. Total(t) = IF t.negative THEN Wrap(-Wrap(n)) ELSE Wrap(n)
  BY <1>1, <1>8 DEF Total
<1>14. Denotes(t) = IF t.negative THEN -n ELSE n
  BY DEF Denotes, a, cents
<1>15. Wrap(-Wrap(n)) = Wrap(-n)
  BY <1>12, WrapNegation
<1> HIDE DEF n
<1>16. Total(t) = Wrap(Denotes(t))
  BY <1>4, <1>13, <1>14, <1>15
<1> QED
  BY <1>11, <1>16 DEF a

-----------------------------------------------------------------------------
(***************************************************************************)
(* The way of a payment.  The invariant keeps what each phase has checked. *)
(***************************************************************************)
Reads(r) == r.source \in Registered /\ Readable(Raw(r).amount)

\* A transaction is what the normalizer makes of the request.
Tracked ==
    /\ validator \in {"none", "default", "account"}
    /\ req \in Requests
    /\ phase \in {"received", "normalized", "validated", "booked", "posted",
                  "unreadable", "invalid", "unsaved", "dead"}
    /\ ~Normalized => txn = Nothing
    /\ phase = "unreadable" => ~Reads(req)
    /\ Normalized => Reads(req) /\ txn = Transaction(req.source, Raw(req))

\* It has passed its validator, fits the columns, and is refused by the
\* consumer for a reason.
Checked ==
    /\ phase \in {"validated", "booked", "posted", "unsaved", "dead"} =>
          /\ validator = "default" => DefaultValidator(txn)
          /\ validator = "account" => ~Blank(txn.account_id)
    /\ phase \in {"booked", "posted", "dead"} => Storable(txn)
    /\ phase = "dead" => Malformed(txn) \/ txn.minor <= 0

IInv == Tracked /\ Checked

\* The request as it comes in.
LEMMA InitIInv == Init => IInv
BY DEF Init, IInv, Tracked, Checked, Normalized

\* Every step keeps the invariant.
LEMMA StepIInv == IInv /\ [Next]_vars => IInv'
<1> SUFFICES ASSUME IInv, [Next]_vars PROVE IInv'
  OBVIOUS
<1>1. CASE Normalize
  <2>1. CASE Reads(req)
    <3>1. /\ txn' = Transaction(req.source, Raw(req))
          /\ phase' = "normalized" /\ UNCHANGED <<validator, req>>
      BY <1>1, <2>1 DEF Normalize, Reads
    <3> QED
      BY <2>1, <3>1 DEF IInv, Tracked, Checked, Normalized
  <2>2. CASE ~Reads(req)
    <3>1. phase' = "unreadable" /\ UNCHANGED <<validator, req, txn>>
          /\ phase = "received"
      BY <1>1, <2>2 DEF Normalize, Reads
    <3> QED
      BY <2>2, <3>1 DEF IInv, Tracked, Checked, Normalized
  <2> QED
    BY <2>1, <2>2
<1>2. CASE Validate
  <2>1. /\ phase = "normalized" /\ phase' \in {"validated", "invalid"}
        /\ UNCHANGED <<validator, req, txn>>
    BY <1>2 DEF Validate
  <2>2. phase' = "validated" =>
            /\ validator = "default" => DefaultValidator(txn)
            /\ validator = "account" => ~Blank(txn.account_id)
    BY <1>2 DEF Validate, AccountValidator
  <2> QED
    BY <2>1, <2>2 DEF IInv, Tracked, Checked, Normalized
<1>3. CASE Save
  <2>1. /\ phase = "validated" /\ UNCHANGED <<validator, req, txn>>
        /\ (phase' = "booked" /\ Storable(txn)) \/ phase' = "unsaved"
    BY <1>3 DEF Save
  <2> QED
    BY <2>1 DEF IInv, Tracked, Checked, Normalized
<1>4. CASE Handle
  <2>1. /\ phase = "booked" /\ UNCHANGED <<validator, req, txn>>
        /\ \/ phase' = "dead" /\ (Malformed(txn) \/ txn.minor <= 0)
           \/ phase' = "posted"
    BY <1>4 DEF Handle
  <2> QED
    BY <2>1 DEF IInv, Tracked, Checked, Normalized
<1>5. CASE UNCHANGED vars
  BY <1>5 DEF vars, IInv, Tracked, Checked, Normalized
<1> QED
  BY <1>1, <1>2, <1>3, <1>4, <1>5 DEF Next

\* The invariant holds throughout.
THEOREM Invariance == Spec => []IInv
<1> QED
  BY InitIInv, StepIInv, PTL DEF Spec

\* The amount the normalizer reads: the metadata's, or the one the server has
\* written.
LEMMA RawAmount ==
    ASSUME NEW r
    PROVE  Raw(r).amount =
               IF "amount" \in DOMAIN r.meta THEN r.meta.amount
               ELSE IF r.minor = Absent THEN EmptyText
               ELSE formatAmount(r.minor)
BY DEF Raw, RawKeys

\* The invariant gives the shapes.
LEMMA Typed == IInv => TypeOK
<1> SUFFICES ASSUME IInv PROVE TypeOK
  OBVIOUS
<1>1. DOMAIN req = RequestKeys
  BY NormalizeAssumption DEF IInv, Tracked
<1>2. ASSUME ~Normalized PROVE DOMAIN txn = DOMAIN Nothing /\ txn.minor \in Ints
  <2>1. txn = Nothing
    BY <1>2 DEF IInv, Tracked
  <2>2. Nothing.minor = 0
    BY DEF Nothing
  <2>3. 0 \in Ints
    BY NormalizeAssumption DEF Ints, MinInt, MaxInt
  <2> QED
    BY <2>1, <2>2, <2>3
<1>3. ASSUME Normalized PROVE DOMAIN txn = DOMAIN Nothing /\ txn.minor \in Ints
  <2>1. /\ txn = Transaction(req.source, Raw(req))
        /\ Readable(Raw(req).amount)
    BY <1>3 DEF IInv, Tracked, Reads
  <2>2. txn.minor = Total(Raw(req).amount)
    BY <2>1 DEF Transaction
  <2>3. DOMAIN txn = DOMAIN Nothing
    BY <2>1 DEF Transaction, Nothing
  <2> QED
    BY <2>1, <2>2, <2>3, TotalInts
<1> QED
  BY <1>1, <1>2, <1>3 DEF TypeOK, IInv, Tracked

\* TypeOK: whatever text the metadata brings, the amount is an int64.
THEOREM TypeCorrect == Spec => []TypeOK
<1> QED
  BY Typed, Invariance, PTL

\* SubmitPayment's detour through text loses nothing, for every int64.
THEOREM NothingRounded == Spec => []RoundTrip
<1>1. ASSUME IInv PROVE RoundTrip
  <2> SUFFICES ASSUME phase # "received", req.source \in Registered,
                      req.minor # Absent, "amount" \notin DOMAIN req.meta
               PROVE  Normalized /\ txn.minor = req.minor
    BY DEF RoundTrip
  <2>1. Raw(req).amount = formatAmount(req.minor)
    BY RawAmount
  <2>2. req.minor \in Ints
    BY <1>1, NormalizeAssumption DEF IInv, Tracked
  <2>3. Readable(Raw(req).amount) /\ Total(Raw(req).amount) = req.minor
    BY <2>1, <2>2, ReadsWhatIsWritten
  <2>4. Normalized
    BY <1>1, <2>3 DEF IInv, Tracked, Reads, Normalized
  <2>5. txn.minor = Total(Raw(req).amount)
    BY <1>1, <2>4 DEF IInv, Tracked, Transaction
  <2> QED
    BY <2>3, <2>4, <2>5
<1> QED
  BY <1>1, Invariance, PTL

\* parseAmount is exact on every well-formed text, modulo 2^64.
THEOREM TextsExact == Spec => []TextExact
<1>1. ASSUME IInv PROVE TextExact
  <2> DEFINE t == req.meta.amount
  <2> SUFFICES ASSUME phase # "received", req.source \in Registered,
                      "amount" \in DOMAIN req.meta, WellFormed(t)
               PROVE  /\ Normalized <=> t # EmptyText /\ t.parts[1].val <= MaxInt
                      /\ Normalized => txn.minor = Wrap(Denotes(t))
    BY Zenon DEF TextExact
  <2>1. Raw(req).amount = t
    BY RawAmount
  <2>2. IsText(t)
    BY <1>1, NormalizeAssumption DEF IInv, Tracked
  <2>3. Normalized <=> Readable(t)
    BY <1>1, <2>1 DEF IInv, Tracked, Reads, Normalized
  <2>4. Normalized => txn.minor = Total(t)
    BY <1>1, <2>1 DEF IInv, Tracked, Transaction
  <2> HIDE DEF t
  <2>5. /\ Readable(t) <=> t # EmptyText /\ t.parts[1].val <= MaxInt
        /\ Readable(t) => Total(t) = Wrap(Denotes(t))
    BY <2>2, ReadsTexts
  <2> QED
    BY <2>3, <2>4, <2>5
<1> QED
  BY <1>1, Invariance, PTL

\* An event that handle or Post refuses for good has passed no validator that
\* looks at the field it is refused for.
THEOREM RefusedForCause == Spec => []DeadHasCause
<1>1. ASSUME IInv PROVE DeadHasCause
  <2> SUFFICES ASSUME phase = "dead" PROVE DeadHasCause
    BY DEF DeadHasCause
  <2>1. /\ validator = "default" => DefaultValidator(txn)
        /\ validator = "account" => ~Blank(txn.account_id)
        /\ Storable(txn) /\ (Malformed(txn) \/ txn.minor <= 0)
        /\ validator \in {"none", "default", "account"}
    BY <1>1 DEF IInv, Tracked, Checked
  <2>2. txn.account_id = "" \/ txn.currency = "" \/ txn.minor <= 0
    BY <2>1 DEF Storable, Malformed
  <2>3. validator = "account" => txn.account_id # ""
    BY <2>1 DEF Blank
  <2>4. txn.minor \in Int
    BY <1>1, Typed, NormalizeAssumption DEF TypeOK, Ints, MinInt, MaxInt
  <2>5. validator = "default" => txn.currency # "" /\ ~(txn.minor <= 0)
    <3>1. \A n \in Int : n > 0 => ~(n <= 0)
      OBVIOUS
    <3> QED
      BY <2>1, <2>4, <3>1, Zenon DEF DefaultValidator, Blank
  <2> QED
    BY <2>1, <2>2, <2>3, <2>5 DEF DeadHasCause
<1> QED
  BY <1>1, Invariance, PTL
=============================================================================
