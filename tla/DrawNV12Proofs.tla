--------------------------- MODULE DrawNV12Proofs ---------------------------
(***************************************************************************)
(* Theorems about DrawNV12, for pictures, boxes and glyphs of any size.    *)
(*                                                                         *)
(* Everything drawRect hands to drawLine is even.  On even arguments a     *)
(* line writes a rectangle of pixels and the pairs of exactly its blocks   *)
(* (LineLuma, LineChroma, BlocksFill), and the fitted lengths keep the     *)
(* rectangle in the picture (FitFits) and are the largest that do          *)
(* (FitIsLargest).                                                         *)
(***************************************************************************)
EXTENDS DrawNV12, TLAPS, FiniteSetTheorems

\* The chroma pairs of a rectangle of a x b blocks.
Pairs(p, q, a, b) == {<<2 * i, j>> : i \in p..p + a - 1, j \in q..q + b - 1}

\* Truncating to even numbers never leaves zero behind it.
LEMMA HalfFacts ==
  ASSUME NEW n \in Int
  PROVE  /\ Half(n) \in Int
         /\ Even(n) \in Int
         /\ n >= 0 => Half(n) >= 0 /\ Even(n) <= n
         /\ n <= -2 => Even(n) < 0
  BY DEF Half, Even

LEMMA HalfOfEven ==
  ASSUME NEW k \in Int
  PROVE  Half(2 * k) = k
  BY DEF Half

\* A box whose fitted length is not negative ends within the picture.
LEMMA FitFits ==
  ASSUME NEW from \in Int, NEW length \in Int, NEW t \in Nat, NEW size \in Nat,
         Fit(from, length, t, size) >= 0
  PROVE  Even(from) + Fit(from, length, t, size) + t <= size
<1>1. Even(from) \in Int /\ Even(length) \in Int
  BY HalfFacts
<1>2. CASE Even(from) + Even(length) + t >= size
  <2>1. PICK room \in Int : /\ room = size - Even(from) - t - 1
                            /\ Fit(from, length, t, size) = Even(room)
    BY <1>1, <1>2 DEF Fit
  <2>2. room >= -1 /\ (room >= 0 => Even(room) <= room)
    BY <2>1, HalfFacts
  <2>3. Even(room) \in Int /\ (room = -1 => Even(room) = 0)
    BY DEF Even, Half
  <2> QED
    BY <1>1, <2>1, <2>2, <2>3
<1>3. CASE ~(Even(from) + Even(length) + t >= size)
  BY <1>1, <1>3 DEF Fit
<1> QED
  BY <1>2, <1>3

\* What the four sets of drawLine, a rectangle and its pairs hold.
LEMMA HorizontalLumaMembers ==
  ASSUME NEW x, NEW y, NEW length, NEW thick, NEW s
  PROVE  s \in HorizontalLuma(x, y, length, thick) <=>
           \E i \in 0..Half(length) - 1, j \in 0..thick - 1, k \in 0..1 :
               s = <<x + 2 * i + k, y + j>>
  BY DEF HorizontalLuma

LEMMA VerticalLumaMembers ==
  ASSUME NEW x, NEW y, NEW length, NEW thick, NEW s
  PROVE  s \in VerticalLuma(x, y, length, thick) <=>
           \E i \in 0..length - 1, j \in 0..thick - 1 : s = <<x + j, y + i>>
  BY DEF VerticalLuma

LEMMA HorizontalChromaMembers ==
  ASSUME NEW x, NEW y, NEW length, NEW thick, NEW s
  PROVE  s \in HorizontalChroma(x, y, length, thick) <=>
           \E i \in 0..Half(length) - 1, j \in 0..Half(thick) - 1 :
               s = <<x + 2 * i, Half(y) + j>>
  BY DEF HorizontalChroma

LEMMA VerticalChromaMembers ==
  ASSUME NEW x, NEW y, NEW length, NEW thick, NEW s
  PROVE  s \in VerticalChroma(x, y, length, thick) <=>
           \E i \in 0..Half(length) - 1, j \in 0..Half(thick) - 1 :
               s = <<x + 2 * j, Half(y) + i>>
  BY DEF VerticalChroma

LEMMA RectangleMembers ==
  ASSUME NEW x, NEW y, NEW w, NEW h, NEW s
  PROVE  s \in Rectangle(x, y, w, h) <=>
           \E p \in x..x + w - 1, q \in y..y + h - 1 : s = <<p, q>>
  BY DEF Rectangle

LEMMA PairsMembers ==
  ASSUME NEW p, NEW q, NEW a, NEW b, NEW s
  PROVE  s \in Pairs(p, q, a, b) <=>
           \E i \in p..p + a - 1, j \in q..q + b - 1 : s = <<2 * i, j>>
  BY DEF Pairs

\* The pixels of a line, which horizontally come in pairs.
LEMMA LineLuma ==
  ASSUME NEW x \in Int, NEW y \in Int, NEW length \in Int, NEW t \in Int
  PROVE  /\ length = Even(length)
              => HorizontalLuma(x, y, length, t) = Rectangle(x, y, length, t)
         /\ VerticalLuma(x, y, length, t) = Rectangle(x, y, t, length)
<1>1. ASSUME length = Even(length),
             NEW i \in 0..Half(length) - 1, NEW j \in 0..t - 1, NEW k \in 0..1
      PROVE  <<x + 2 * i + k, y + j>> \in Rectangle(x, y, length, t)
  <2>1. Half(length) \in Int /\ length = 2 * Half(length)
    BY <1>1, HalfFacts DEF Even
  <2>2. x + 2 * i + k \in x..x + length - 1 /\ y + j \in y..y + t - 1
    BY <2>1
  <2> QED
    BY ONLY <2>2, RectangleMembers
<1>2. ASSUME length = Even(length),
             NEW p \in x..x + length - 1, NEW q \in y..y + t - 1
      PROVE  <<p, q>> \in HorizontalLuma(x, y, length, t)
  <2>1. PICK i \in Int, k \in 0..1 : p - x = 2 * i + k
    <3> DEFINE i == (p - x) \div 2
    <3>1. i \in Int /\ (p - x = 2 * i + 0 \/ p - x = 2 * i + 1)
      OBVIOUS
    <3> HIDE DEF i
    <3> QED
      BY <3>1
  <2>2. Half(length) \in Int /\ length = 2 * Half(length)
    BY <1>2, HalfFacts DEF Even
  <2>3. i \in 0..Half(length) - 1 /\ q - y \in 0..t - 1
    BY <2>1, <2>2
  <2>4. <<p, q>> = <<x + 2 * i + k, y + (q - y)>>
    BY <2>1
  <2> QED
    BY ONLY <2>1, <2>3, <2>4, HorizontalLumaMembers
<1>3. ASSUME NEW i \in 0..length - 1, NEW j \in 0..t - 1
      PROVE  <<x + j, y + i>> \in Rectangle(x, y, t, length)
  <2>1. x + j \in x..x + t - 1 /\ y + i \in y..y + length - 1
    OBVIOUS
  <2> QED
    BY ONLY <2>1, RectangleMembers
<1>4. ASSUME NEW p \in x..x + t - 1, NEW q \in y..y + length - 1
      PROVE  <<p, q>> \in VerticalLuma(x, y, length, t)
  <2>1. p - x \in 0..t - 1 /\ q - y \in 0..length - 1
        /\ <<p, q>> = <<x + (p - x), y + (q - y)>>
    OBVIOUS
  <2> QED
    BY ONLY <2>1, VerticalLumaMembers
<1>5. ASSUME length = Even(length)
      PROVE  HorizontalLuma(x, y, length, t) = Rectangle(x, y, length, t)
  <2>1. ASSUME NEW s \in HorizontalLuma(x, y, length, t)
        PROVE  s \in Rectangle(x, y, length, t)
    <3>1. PICK i \in 0..Half(length) - 1, j \in 0..t - 1, k \in 0..1 :
                 s = <<x + 2 * i + k, y + j>>
      BY ONLY <2>1 DEF HorizontalLuma
    <3> QED
      BY ONLY <1>1, <1>5, <3>1, Zenon
  <2>2. \A s \in Rectangle(x, y, length, t) : s \in HorizontalLuma(x, y, length, t)
    BY ONLY <1>5, <1>2, RectangleMembers
  <2> QED
    BY ONLY <2>1, <2>2, Zenon
<1>6. ASSUME NEW s \in VerticalLuma(x, y, length, t)
      PROVE  s \in Rectangle(x, y, t, length)
  <2>1. PICK i \in 0..length - 1, j \in 0..t - 1 : s = <<x + j, y + i>>
    BY ONLY <1>6 DEF VerticalLuma
  <2> QED
    BY ONLY <1>3, <2>1, Zenon
<1>7. \A s \in Rectangle(x, y, t, length) : s \in VerticalLuma(x, y, length, t)
  BY ONLY <1>4, RectangleMembers
<1> QED
  BY ONLY <1>5, <1>6, <1>7, Zenon

\* The chroma pairs of a line in an even column.
LEMMA LineChroma ==
  ASSUME NEW x \in Int, NEW y \in Int, NEW length \in Int, NEW thick \in Int, x = Even(x)
  PROVE  /\ HorizontalChroma(x, y, length, thick)
              = Pairs(Half(x), Half(y), Half(length), Half(thick))
         /\ VerticalChroma(x, y, length, thick)
              = Pairs(Half(x), Half(y), Half(thick), Half(length))
<1>1. /\ Half(x) \in Int /\ Half(y) \in Int /\ Half(length) \in Int /\ Half(thick) \in Int
      /\ x = 2 * Half(x)
  BY HalfFacts DEF Even
<1>2. ASSUME NEW d \in Int, NEW e \in Int, NEW i \in 0..d - 1, NEW j \in 0..e - 1
      PROVE  <<x + 2 * i, Half(y) + j>> \in Pairs(Half(x), Half(y), d, e)
  <2>1. /\ Half(x) + i \in Half(x)..Half(x) + d - 1
        /\ Half(y) + j \in Half(y)..Half(y) + e - 1
        /\ x + 2 * i = 2 * (Half(x) + i)
    BY <1>1
  <2>2. <<x + 2 * i, Half(y) + j>> = <<2 * (Half(x) + i), Half(y) + j>>
    BY <2>1
  <2> QED
    BY ONLY <2>1, <2>2, PairsMembers, Zenon
<1>3. ASSUME NEW d \in Int, NEW e \in Int,
             NEW i \in Half(x)..Half(x) + d - 1, NEW j \in Half(y)..Half(y) + e - 1
      PROVE  /\ i - Half(x) \in 0..d - 1 /\ j - Half(y) \in 0..e - 1
             /\ <<2 * i, j>> = <<x + 2 * (i - Half(x)), Half(y) + (j - Half(y))>>
  BY <1>1
<1>4. ASSUME NEW s \in HorizontalChroma(x, y, length, thick)
      PROVE  s \in Pairs(Half(x), Half(y), Half(length), Half(thick))
  BY ONLY <1>1, <1>2, <1>4, HorizontalChromaMembers
<1>5. ASSUME NEW s \in VerticalChroma(x, y, length, thick)
      PROVE  s \in Pairs(Half(x), Half(y), Half(thick), Half(length))
  BY ONLY <1>1, <1>2, <1>5, VerticalChromaMembers
<1>6. ASSUME NEW s \in Pairs(Half(x), Half(y), Half(length), Half(thick))
      PROVE  s \in HorizontalChroma(x, y, length, thick)
  <2>1. PICK i \in Half(x)..Half(x) + Half(length) - 1, j \in Half(y)..Half(y) + Half(thick) - 1 :
               s = <<2 * i, j>>
    BY ONLY <1>6, PairsMembers
  <2>2. /\ i - Half(x) \in 0..Half(length) - 1 /\ j - Half(y) \in 0..Half(thick) - 1
        /\ s = <<x + 2 * (i - Half(x)), Half(y) + (j - Half(y))>>
    BY ONLY <1>1, <1>3, <2>1, Zenon
  <2> QED
    BY ONLY <2>2, HorizontalChromaMembers, Zenon
<1>7. ASSUME NEW s \in Pairs(Half(x), Half(y), Half(thick), Half(length))
      PROVE  s \in VerticalChroma(x, y, length, thick)
  <2>1. PICK i \in Half(x)..Half(x) + Half(thick) - 1, j \in Half(y)..Half(y) + Half(length) - 1 :
               s = <<2 * i, j>>
    BY ONLY <1>7 DEF Pairs
  <2>2. /\ i - Half(x) \in 0..Half(thick) - 1 /\ j - Half(y) \in 0..Half(length) - 1
        /\ s = <<x + 2 * (i - Half(x)), Half(y) + (j - Half(y))>>
    BY ONLY <1>1, <1>3, <2>1, Zenon
  <2> QED
    BY ONLY <2>2, VerticalChromaMembers, Zenon
<1> QED
  BY ONLY <1>4, <1>5, <1>6, <1>7, Zenon

\* The pairs of a rectangle of blocks are written with its pixels.
LEMMA BlocksFill ==
  ASSUME NEW p \in Int, NEW q \in Int, NEW a \in Int, NEW b \in Int
  PROVE  UNION {Block(s) : s \in Pairs(p, q, a, b)} = Rectangle(2 * p, 2 * q, 2 * a, 2 * b)
<1>1. ASSUME NEW i \in p..p + a - 1, NEW j \in q..q + b - 1, NEW z \in Block(<<2 * i, j>>)
      PROVE  z \in Rectangle(2 * p, 2 * q, 2 * a, 2 * b)
  <2>1. PICK u \in {2 * i, 2 * i + 1}, w \in {2 * j, 2 * j + 1} : z = <<u, w>>
    BY <1>1 DEF Block
  <2>2. u \in 2 * p..2 * p + 2 * a - 1 /\ w \in 2 * q..2 * q + 2 * b - 1
    BY <2>1
  <2> QED
    BY ONLY <2>1, <2>2, RectangleMembers
<1>2. ASSUME NEW u \in 2 * p..2 * p + 2 * a - 1, NEW w \in 2 * q..2 * q + 2 * b - 1
      PROVE  \E s \in Pairs(p, q, a, b) : <<u, w>> \in Block(s)
  <2> DEFINE i == u \div 2
             j == w \div 2
  <2>1. i \in p..p + a - 1 /\ j \in q..q + b - 1
    OBVIOUS
  <2>2. u \in {2 * i, 2 * i + 1} /\ w \in {2 * j, 2 * j + 1}
    OBVIOUS
  <2> HIDE DEF i, j
  <2>3. <<u, w>> \in Block(<<2 * i, j>>)
    BY <2>2 DEF Block
  <2>4. <<2 * i, j>> \in Pairs(p, q, a, b)
    BY ONLY <2>1, PairsMembers
  <2> QED
    BY ONLY <2>3, <2>4, Zenon
<1>3. ASSUME NEW s \in Pairs(p, q, a, b), NEW z \in Block(s)
      PROVE  z \in Rectangle(2 * p, 2 * q, 2 * a, 2 * b)
  <2>1. PICK i \in p..p + a - 1, j \in q..q + b - 1 : s = <<2 * i, j>>
    BY ONLY <1>3, PairsMembers
  <2> QED
    BY ONLY <1>1, <1>3, <2>1, Zenon
<1>4. ASSUME NEW z \in Rectangle(2 * p, 2 * q, 2 * a, 2 * b)
      PROVE  \E s \in Pairs(p, q, a, b) : z \in Block(s)
  <2>1. PICK u \in 2 * p..2 * p + 2 * a - 1, w \in 2 * q..2 * q + 2 * b - 1 : z = <<u, w>>
    BY ONLY <1>4, RectangleMembers
  <2> QED
    BY ONLY <1>2, <2>1, Zenon
<1> QED
  BY ONLY <1>3, <1>4, Zenon

Evens == {n \in Int : n = Even(n)}

LEMMA EvensFacts ==
  /\ \A n \in Int : Even(n) \in Evens
  /\ \A n \in Evens : n \in Int /\ Half(n) \in Int /\ n = 2 * Half(n)
  /\ \A m, n \in Evens : m + n \in Evens /\ m - n \in Evens
<1>1. \A n \in Int : Half(n) \in Int /\ Even(n) \in Int
  BY HalfFacts
<1>2. ASSUME NEW k \in Int
      PROVE  2 * k \in Evens
  <2>1. 2 * k \in Int /\ Half(2 * k) = k
    BY HalfOfEven
  <2> QED
    BY <2>1 DEF Even, Evens
<1>3. \A n \in Int : Even(n) \in Evens
  BY <1>1, <1>2 DEF Even
<1>4. \A n \in Evens : n \in Int /\ Half(n) \in Int /\ n = 2 * Half(n)
  BY <1>1 DEF Even, Evens
<1>5. ASSUME NEW m \in Evens, NEW n \in Evens
      PROVE  m + n \in Evens /\ m - n \in Evens
  <2>1. /\ Half(m) + Half(n) \in Int /\ m + n = 2 * (Half(m) + Half(n))
        /\ Half(m) - Half(n) \in Int /\ m - n = 2 * (Half(m) - Half(n))
    BY <1>4
  <2> QED
    BY <1>2, <2>1
<1> QED
  BY <1>3, <1>4, <1>5

\* Where a rectangle of pixels and the pairs of its blocks lie.
LEMMA RectangleFits ==
  ASSUME NEW p \in Int, NEW q \in Int, NEW a \in Int, NEW b \in Int, p >= 0, q >= 0,
         2 * p + 2 * a <= Width, 2 * q + 2 * b <= Height
  PROVE  /\ Rectangle(2 * p, 2 * q, 2 * a, 2 * b) \subseteq LumaPlane
         /\ Pairs(p, q, a, b) \subseteq ChromaPlane
<1>1. Width \in Nat /\ Height \in Nat
  BY PictureAssumption
<1>2. ASSUME NEW u \in 2 * p..2 * p + 2 * a - 1, NEW w \in 2 * q..2 * q + 2 * b - 1
      PROVE  u \in 0..Width - 1 /\ w \in 0..Height - 1
  BY <1>1
<1>3. ASSUME NEW i \in p..p + a - 1, NEW j \in q..q + b - 1
      PROVE  2 * i \in 0..Width - 2 /\ j \in 0..Half(Height) - 1
  <2>1. q + b <= Half(Height)
    BY <1>1 DEF Half
  <2>2. Half(Height) \in Int
    BY <1>1, HalfFacts
  <2> QED
    BY <1>1, <2>1, <2>2
<1> QED
  BY <1>2, <1>3 DEF Rectangle, Pairs, LumaPlane, ChromaPlane

\* Samples that lie in the picture and agree with the pairs written with them.
Drawn(lumas, chromas) ==
    /\ lumas \subseteq LumaPlane
    /\ chromas \subseteq ChromaPlane
    /\ lumas = UNION {Block(s) : s \in chromas}

\* Drawing two things, or one for each member of a set, draws them all.
LEMMA DrawnUnion ==
  ASSUME NEW L1, NEW L2, NEW C1, NEW C2, Drawn(L1, C1), Drawn(L2, C2)
  PROVE  Drawn(L1 \cup L2, C1 \cup C2)
<1>1. ASSUME NEW z
      PROVE  z \in L1 \cup L2 <=> \E s \in C1 \cup C2 : z \in Block(s)
  <2>1. /\ z \in L1 <=> \E s \in C1 : z \in Block(s)
        /\ z \in L2 <=> \E s \in C2 : z \in Block(s)
    BY Zenon DEF Drawn
  <2> QED
    BY ONLY <2>1, Zenon
<1>2. L1 \cup L2 = UNION {Block(s) : s \in C1 \cup C2}
  BY ONLY <1>1, Zenon
<1> QED
  BY <1>2, Zenon DEF Drawn

LEMMA DrawnFamily ==
  ASSUME NEW S, NEW thick, \A r \in S : Drawn(RectLuma(r, thick), RectChroma(r, thick))
  PROVE  Drawn(UNION {RectLuma(r, thick) : r \in S}, UNION {RectChroma(r, thick) : r \in S})
<1> DEFINE L == UNION {RectLuma(r, thick) : r \in S}
           C == UNION {RectChroma(r, thick) : r \in S}
<1>1. ASSUME NEW r \in S
      PROVE  /\ RectLuma(r, thick) \subseteq LumaPlane
             /\ RectChroma(r, thick) \subseteq ChromaPlane
             /\ \A z : z \in RectLuma(r, thick)
                        <=> \E s \in RectChroma(r, thick) : z \in Block(s)
  <2>1. Drawn(RectLuma(r, thick), RectChroma(r, thick))
    OBVIOUS
  <2> HIDE DEF L, C
  <2> QED
    BY ONLY <2>1, Zenon DEF Drawn
<1>2. L \subseteq LumaPlane /\ C \subseteq ChromaPlane
  BY <1>1, Zenon
<1>3. ASSUME NEW z
      PROVE  z \in L <=> \E s \in C : z \in Block(s)
  BY <1>1, Zenon
<1>4. L = UNION {Block(s) : s \in C}
  BY ONLY <1>3, Zenon
<1> QED
  BY <1>2, <1>4, Zenon DEF Drawn

\* A line on even arguments that has room in the picture.
LEMMA LineWrites ==
  ASSUME NEW x \in Evens, NEW y \in Evens, NEW length \in Evens, NEW t \in Evens,
         x >= 0, y >= 0
  PROVE  /\ (x + length <= Width /\ y + t <= Height) =>
              Drawn(HorizontalLuma(x, y, length, t), HorizontalChroma(x, y, length, t))
         /\ (x + t <= Width /\ y + length <= Height) =>
              Drawn(VerticalLuma(x, y, length, t), VerticalChroma(x, y, length, t))
<1> DEFINE p == Half(x)
           q == Half(y)
           l == Half(length)
           c == Half(t)
<1>1. /\ p \in Int /\ q \in Int /\ l \in Int /\ c \in Int
      /\ x = 2 * p /\ y = 2 * q /\ length = 2 * l /\ t = 2 * c
  BY EvensFacts
<1>2. p >= 0 /\ q >= 0
  BY <1>1
<1>3. /\ HorizontalLuma(x, y, length, t) = Rectangle(x, y, length, t)
      /\ VerticalLuma(x, y, length, t) = Rectangle(x, y, t, length)
  BY LineLuma DEF Evens
<1>4. /\ HorizontalChroma(x, y, length, t) = Pairs(p, q, l, c)
      /\ VerticalChroma(x, y, length, t) = Pairs(p, q, c, l)
  BY LineChroma DEF Evens
<1> HIDE DEF p, q, l, c
<1>5. /\ Rectangle(x, y, length, t) = Rectangle(2 * p, 2 * q, 2 * l, 2 * c)
      /\ Rectangle(x, y, t, length) = Rectangle(2 * p, 2 * q, 2 * c, 2 * l)
  BY <1>1
<1>6. /\ UNION {Block(s) : s \in Pairs(p, q, l, c)} = Rectangle(2 * p, 2 * q, 2 * l, 2 * c)
      /\ UNION {Block(s) : s \in Pairs(p, q, c, l)} = Rectangle(2 * p, 2 * q, 2 * c, 2 * l)
  BY <1>1, BlocksFill
<1>7. (x + length <= Width /\ y + t <= Height) =>
        /\ Rectangle(2 * p, 2 * q, 2 * l, 2 * c) \subseteq LumaPlane
        /\ Pairs(p, q, l, c) \subseteq ChromaPlane
  BY <1>1, <1>2, RectangleFits
<1>8. (x + t <= Width /\ y + length <= Height) =>
        /\ Rectangle(2 * p, 2 * q, 2 * c, 2 * l) \subseteq LumaPlane
        /\ Pairs(p, q, c, l) \subseteq ChromaPlane
  BY <1>1, <1>2, RectangleFits
<1> QED
  BY ONLY <1>3, <1>4, <1>5, <1>6, <1>7, <1>8, Zenon DEF Drawn

\* What drawRect writes, whatever the box.
LEMMA RectWrites ==
  ASSUME NEW r \in Rects, NEW thick \in Nat
  PROVE  Drawn(RectLuma(r, thick), RectChroma(r, thick))
<1> DEFINE t == Thick(thick)
           f == Fitted(r, t)
<1>1. t \in Evens /\ t \in Nat
  <2>1. thick + 1 \in Int /\ thick + 1 >= 0
    OBVIOUS
  <2>2. Half(thick + 1) \in Int /\ Half(thick + 1) >= 0
    BY <2>1, HalfFacts
  <2>3. t = 2 * Half(thick + 1)
    BY DEF Thick, Even
  <2>4. t \in Evens
    BY <2>1, EvensFacts DEF Thick
  <2> QED
    BY <2>2, <2>3, <2>4
<1>2. /\ f.x \in Evens /\ f.y \in Evens /\ f.w \in Evens /\ f.h \in Evens
      /\ f.x = Even(r.x) /\ f.w = Fit(r.x, r.w, t, Width)
      /\ f.y = Even(r.y) /\ f.h = Fit(r.y, r.h, t, Height)
  <2>1. r.x \in Int /\ r.y \in Int /\ r.w \in Int /\ r.h \in Int
    BY DEF Rects
  <2>2. ASSUME NEW from \in Int, NEW length \in Int, NEW size \in Nat
        PROVE  Fit(from, length, t, size) \in Evens
    <3>1. size - Even(from) - t - 1 \in Int
      BY <1>1, HalfFacts
    <3> QED
      BY <3>1, EvensFacts DEF Fit
  <2> QED
    BY <2>1, <2>2, EvensFacts, PictureAssumption DEF Fitted
<1>3. CASE ~Visible(f)
  BY <1>3 DEF RectLuma, RectChroma, Drawn
<1>4. CASE Visible(f)
  <2>1. f.x + f.w + t <= Width /\ f.y + f.h + t <= Height
    <3>1. /\ r.x \in Int /\ r.y \in Int /\ r.w \in Int /\ r.h \in Int
          /\ Width \in Nat /\ Height \in Nat
      BY PictureAssumption DEF Rects
    <3>2. f.w >= 0 /\ f.h >= 0
      BY ONLY <1>4 DEF Visible
    <3> HIDE DEF t, f
    <3>3. Fit(r.x, r.w, t, Width) >= 0 /\ Fit(r.y, r.h, t, Height) >= 0
      BY ONLY <1>2, <3>2
    <3>4. /\ Even(r.x) + Fit(r.x, r.w, t, Width) + t <= Width
          /\ Even(r.y) + Fit(r.y, r.h, t, Height) + t <= Height
      BY ONLY <1>1, <3>1, <3>3, FitFits
    <3> QED
      BY ONLY <1>2, <3>4
  <2>2. RectLuma(r, thick) = Luma(f, t) /\ RectChroma(r, thick) = Chroma(f, t)
    BY <1>4 DEF RectLuma, RectChroma
  <2>3. /\ f.x \in Int /\ f.y \in Int /\ f.w \in Int /\ f.h \in Int
        /\ f.x >= 0 /\ f.y >= 0 /\ f.w >= 0 /\ f.h >= 0
    BY <1>2, <1>4, EvensFacts DEF Visible
  <2> HIDE DEF t, f
  <2>4. /\ f.y + f.h \in Evens /\ f.y + t \in Evens /\ f.x + f.w \in Evens
        /\ f.h - t \in Evens /\ f.h + t \in Evens
    BY <1>1, <1>2, EvensFacts
  <2>5. /\ f.x + f.w <= Width /\ f.y + t <= Height /\ f.y + f.h + t <= Height
        /\ f.x + t <= Width /\ f.y + t + (f.h - t) <= Height
        /\ f.x + f.w + t <= Width /\ f.y + (f.h + t) <= Height
        /\ f.y + f.h >= 0 /\ f.y + t >= 0 /\ f.x + f.w >= 0
    <3>1. ASSUME NEW a \in Int, NEW b \in Int, NEW size \in Nat,
                 a >= 0, b >= 0, a + b + t <= size
          PROVE  /\ a + b <= size /\ a + t <= size /\ a + t + (b - t) <= size
                 /\ a + (b + t) <= size /\ a + b >= 0 /\ a + t >= 0
      BY ONLY <1>1, <3>1
    <3>2. Width \in Nat /\ Height \in Nat
      BY PictureAssumption
    <3> QED
      BY ONLY <2>1, <2>3, <3>1, <3>2, Zenon
  <2>6. Drawn(HorizontalLuma(f.x, f.y, f.w, t), HorizontalChroma(f.x, f.y, f.w, t))
    BY ONLY <1>1, <1>2, <2>3, <2>5, LineWrites
  <2>7. Drawn(HorizontalLuma(f.x, f.y + f.h, f.w, t), HorizontalChroma(f.x, f.y + f.h, f.w, t))
    BY ONLY <1>1, <1>2, <2>3, <2>4, <2>5, LineWrites
  <2>8. Drawn(VerticalLuma(f.x, f.y + t, f.h - t, t), VerticalChroma(f.x, f.y + t, f.h - t, t))
    BY ONLY <1>1, <1>2, <2>3, <2>4, <2>5, LineWrites
  <2>9. Drawn(VerticalLuma(f.x + f.w, f.y, f.h + t, t), VerticalChroma(f.x + f.w, f.y, f.h + t, t))
    BY ONLY <1>1, <1>2, <2>3, <2>4, <2>5, LineWrites
  <2>10. Drawn(Luma(f, t), Chroma(f, t))
    BY ONLY <2>6, <2>7, <2>8, <2>9, DrawnUnion, Zenon DEF Luma, Chroma
  <2> QED
    BY ONLY <2>2, <2>10, Zenon
<1> QED
  BY <1>3, <1>4

\* The dots of a label are rectangles like any other.
LEMMA DotsAreRects ==
  ASSUME NEW x \in Int, NEW y \in Int, NEW label \in Seq(Characters)
  PROVE  DotRects(x, y, label) \subseteq Rects
<1>1. ASSUME NEW i \in 1..Len(label), NEW d \in CharDots
      PROVE  [x |-> x + Indent(label, i) + d[1], y |-> y + d[2], w |-> 0, h |-> 0] \in Rects
  <2>1. Cardinality(Spaces(label, i)) \in Nat
    <3>1. Len(label) \in Nat
      BY DEF Characters
    <3>2. IsFiniteSet(1..i - 1)
      BY <3>1, FS_Interval
    <3> QED
      BY <3>2, FS_Subset, FS_CardinalityType DEF Spaces
  <2>2. d[1] \in Nat /\ d[2] \in Nat
    BY PictureAssumption
  <2>3. Len(label) \in Nat
    BY DEF Characters
  <2>4. Indent(label, i) \in Int
    BY <2>1, <2>3, PictureAssumption DEF Indent
  <2> QED
    BY <2>2, <2>4 DEF Rects
<1> QED
  BY <1>1 DEF DotRects

\* The invariant of the theorems: what was written last is Drawn.
IInv == TypeOK /\ ChromaFollowsLuma

LEMMA IInvIsDrawn ==
  IInv <=> /\ bbox_thickness \in Thicknesses /\ text_thickness \in Thicknesses
           /\ results \in Seq([bbox : Rects, label : Seq(Characters)])
           /\ phase \in {"rect", "string"}
           /\ Drawn(luma, chroma)
  BY Zenon DEF IInv, TypeOK, ChromaFollowsLuma, Drawn

\* What a step finds in the next result and in the configuration.
LEMMA ResultType ==
  ASSUME IInv, results # <<>>
  PROVE  /\ Result.bbox \in Rects /\ Result.label \in Seq(Characters)
         /\ Tail(results) \in Seq([bbox : Rects, label : Seq(Characters)])
         /\ bbox_thickness \in Nat
         /\ text_thickness \in Nat /\ text_thickness \div 2 \in Nat
<1> DEFINE Results == [bbox : Rects, label : Seq(Characters)]
<1>1. results \in Seq(Results)
  BY IInvIsDrawn
<1>2. Head(results) \in Results /\ Tail(results) \in Seq(Results)
  <2> HIDE DEF Results
  <2> QED
    BY <1>1
<1>3. Result.bbox \in Rects /\ Result.label \in Seq(Characters)
  BY <1>2 DEF Result
<1>4. bbox_thickness \in Nat /\ text_thickness \in Nat
  BY IInvIsDrawn, PictureAssumption
<1>5. text_thickness \div 2 \in Nat
  BY <1>4
<1> QED
  BY <1>2, <1>3, <1>4, <1>5

LEMMA InitIInv == Init => IInv
<1> SUFFICES ASSUME Init PROVE IInv
  OBVIOUS
<1>1. Drawn({}, {})
  BY DEF Drawn
<1>2. results \in Seq([bbox : Rects, label : Seq(Characters)])
  BY PictureAssumption DEF Init
<1> QED
  BY <1>1, <1>2, IInvIsDrawn DEF Init

LEMMA NextIInv == IInv /\ [Next]_vars => IInv'
<1> SUFFICES ASSUME IInv, [Next]_vars PROVE IInv'
  OBVIOUS
<1> USE IInvIsDrawn
<1>1. CASE DrawBox
  <2>1. Result.bbox \in Rects /\ bbox_thickness \in Nat
    BY <1>1, ResultType DEF DrawBox
  <2>2. Drawn(luma, chroma)'
    BY <1>1, <2>1, RectWrites DEF DrawBox
  <2> QED
    BY <1>1, <2>2 DEF DrawBox, IInv, TypeOK, ChromaFollowsLuma, Drawn
<1>2. CASE DrawString
  <2>1. /\ Result.bbox \in Rects /\ Result.label \in Seq(Characters)
        /\ text_thickness \div 2 \in Nat
    BY <1>2, ResultType DEF DrawString
  <2>2. LabelRects \subseteq Rects
    <3>1. Result.bbox.x \in Int /\ Result.bbox.y - CharHeight \in Int
      BY <2>1, PictureAssumption DEF Rects
    <3> QED
      BY <2>1, <3>1, DotsAreRects DEF LabelRects
  <2>3. \A r \in LabelRects : Drawn(RectLuma(r, text_thickness \div 2),
                                    RectChroma(r, text_thickness \div 2))
    BY <2>1, <2>2, RectWrites
  <2>4. Drawn(luma, chroma)'
    BY <1>2, <2>3, DrawnFamily DEF DrawString, Drawn
  <2>5. results' \in Seq([bbox : Rects, label : Seq(Characters)])
    BY <1>2, ResultType DEF DrawString
  <2> QED
    BY <1>2, <2>4, <2>5 DEF DrawString, IInv, TypeOK, ChromaFollowsLuma, Drawn
<1>3. CASE UNCHANGED vars
  BY <1>3 DEF vars, IInv, TypeOK, ChromaFollowsLuma
<1> QED
  BY <1>1, <1>2, <1>3 DEF Next

LEMMA IInvCorrect == Spec => []IInv
  BY InitIInv, NextIInv, PTL DEF Spec

\* Whatever a detector reports and whatever a label says, drawing them writes
\* only samples of the frame: drawRect's clipping keeps every line inside.
THEOREM StaysInPicture == Spec => []TypeOK
  BY IInvCorrect, PTL DEF IInv

\* A pixel changes its brightness exactly if its block changes its colour.
THEOREM ColourFollows == Spec => []ChromaFollowsLuma
  BY IInvCorrect, PTL DEF IInv
-----------------------------------------------------------------------------
(* The shape of a box *)

\* The length a box is drawn with is the largest that has room, if one has.
LEMMA FitIsLargest ==
  ASSUME NEW from \in Int, NEW length \in Int, NEW t \in Nat, NEW size \in Nat,
         Extents(from, length, t, size) # {}
  PROVE  /\ Fit(from, length, t, size) = Largest(Extents(from, length, t, size))
         /\ Fit(from, length, t, size) \in Evens
         /\ Fit(from, length, t, size) >= 0
<1> DEFINE room == size - Even(from) - t - 1
           extents == Extents(from, length, t, size)
           fit == Fit(from, length, t, size)
<1>1. Even(from) \in Int /\ Even(length) \in Evens /\ Even(length) \in Int /\ room \in Int
  BY HalfFacts, EvensFacts
<1>2. \A n \in extents : n \in Nat /\ n = Even(n) /\ n <= Even(length) /\ n <= room
  BY <1>1 DEF Extents
<1>3. room >= 0 /\ Even(length) >= 0
  BY <1>1, <1>2
<1>4. \A n \in Evens : 0 <= n /\ n <= Even(length) /\ n <= room => n \in extents
  BY <1>1 DEF Extents, Evens
<1>5. /\ Even(room) \in Evens /\ Even(room) \in Int
      /\ 0 <= Even(room) /\ Even(room) <= room
      /\ \A n \in extents : n <= Even(room)
  <2>1. Even(room) \in Evens /\ Even(room) \in Int
    BY <1>1, HalfFacts, EvensFacts
  <2>2. 0 <= Even(room) /\ Even(room) <= room
    BY <1>1, <1>3 DEF Even, Half
  <2>3. ASSUME NEW n \in extents PROVE n <= Even(room)
    <3>1. n \in Nat /\ n = Even(n) /\ n <= room
      BY <1>2
    <3>2. n \div 2 <= room \div 2
      BY <1>1, <3>1
    <3>3. n = 2 * (n \div 2) /\ Even(room) = 2 * (room \div 2)
      BY <1>1, <1>3, <3>1 DEF Even, Half
    <3> QED
      BY <1>1, <3>1, <3>2, <3>3
  <2> QED
    BY <2>1, <2>2, <2>3
<1>6. fit = IF Even(length) <= room THEN Even(length) ELSE Even(room)
  BY <1>1 DEF Fit
<1> HIDE DEF room, extents, fit
<1>7. /\ fit \in extents /\ \A n \in extents : n <= fit
      /\ fit \in Evens /\ fit >= 0 /\ fit \in Int
  BY <1>1, <1>2, <1>3, <1>4, <1>5, <1>6
<1>8. \A n \in extents : (\A m \in extents : m <= n) => n = fit
  BY <1>2, <1>7
<1>9. Largest(extents) = fit
  BY <1>7, <1>8 DEF Largest
<1> QED
  BY <1>7, <1>9 DEF extents, fit

\* Four lines, the right one longer by the thickness, close to a frame.
LEMMA LinesOutline ==
  ASSUME NEW f \in [x : Evens, y : Evens, w : Evens, h : Evens], NEW t \in Evens,
         f.w >= 0, f.h >= 0, t >= 0
  PROVE  Luma(f, t) = Outline(f, t)
<1>1. /\ f.x \in Int /\ f.y \in Int /\ f.w \in Nat /\ f.h \in Nat /\ t \in Nat
      /\ f.w = Even(f.w)
      /\ f.y + f.h \in Int /\ f.y + t \in Int /\ f.x + f.w \in Int
      /\ f.h - t \in Int /\ f.h + t \in Int
  BY DEF Evens
<1>2. /\ HorizontalLuma(f.x, f.y, f.w, t) = Rectangle(f.x, f.y, f.w, t)
      /\ HorizontalLuma(f.x, f.y + f.h, f.w, t) = Rectangle(f.x, f.y + f.h, f.w, t)
      /\ VerticalLuma(f.x, f.y + t, f.h - t, t) = Rectangle(f.x, f.y + t, t, f.h - t)
      /\ VerticalLuma(f.x + f.w, f.y, f.h + t, t) = Rectangle(f.x + f.w, f.y, t, f.h + t)
  BY ONLY <1>1, LineLuma
<1>3. ASSUME NEW p \in Int, NEW q \in Int
      PROVE  <<p, q>> \in Luma(f, t) <=> <<p, q>> \in Outline(f, t)
  BY <1>1, <1>2 DEF Luma, Outline, Rectangle
<1>4. \A s \in Luma(f, t) \cup Outline(f, t) : \E p \in Int, q \in Int : s = <<p, q>>
  BY <1>1, <1>2 DEF Luma, Outline, Rectangle
<1> QED
  BY <1>3, <1>4

\* What drawRect writes of a box that begins in the picture and has room in it.
LEMMA RectOutlines ==
  ASSUME NEW r \in Rects, NEW thick \in Nat,
         Even(r.x) >= 0, Even(r.y) >= 0,
         Extents(r.x, r.w, Thick(thick), Width) # {},
         Extents(r.y, r.h, Thick(thick), Height) # {}
  PROVE  RectLuma(r, thick) =
           Outline([x |-> Even(r.x), y |-> Even(r.y),
                    w |-> Largest(Extents(r.x, r.w, Thick(thick), Width)),
                    h |-> Largest(Extents(r.y, r.h, Thick(thick), Height))],
                   Thick(thick))
<1> DEFINE t == Thick(thick)
           x == Even(r.x)
           y == Even(r.y)
           w == Fit(r.x, r.w, t, Width)
           h == Fit(r.y, r.h, t, Height)
           f == [x |-> x, y |-> y, w |-> w, h |-> h]
<1>1. r.x \in Int /\ r.y \in Int /\ r.w \in Int /\ r.h \in Int
  BY DEF Rects
<1>2. t \in Evens /\ t \in Nat
  <2>1. thick + 1 \in Int /\ thick + 1 >= 0
    OBVIOUS
  <2>2. Half(thick + 1) \in Int /\ Half(thick + 1) >= 0
    BY <2>1, HalfFacts
  <2>3. t = 2 * Half(thick + 1)
    BY DEF Thick, Even
  <2> QED
    BY <2>1, <2>2, <2>3, EvensFacts DEF Thick
<1>3. /\ w = Largest(Extents(r.x, r.w, t, Width)) /\ w \in Evens /\ w >= 0
      /\ h = Largest(Extents(r.y, r.h, t, Height)) /\ h \in Evens /\ h >= 0
  <2> HIDE DEF t
  <2>1. Extents(r.x, r.w, t, Width) # {} /\ Extents(r.y, r.h, t, Height) # {}
    BY DEF t
  <2> QED
    BY <1>1, <1>2, <2>1, FitIsLargest, PictureAssumption
<1>4. x \in Evens /\ y \in Evens /\ x >= 0 /\ y >= 0
  BY <1>1, EvensFacts
<1>5. RectLuma(r, thick) = Luma(f, t)
  <2>1. Fitted(r, t) = f
    BY DEF Fitted
  <2>2. Visible(f)
    BY <1>3, <1>4 DEF Visible
  <2> QED
    BY <2>1, <2>2 DEF RectLuma
<1> HIDE DEF t, x, y, w, h
<1>6. Luma(f, t) = Outline(f, t)
  BY <1>2, <1>3, <1>4, LinesOutline
<1> QED
  BY <1>3, <1>5, <1>6 DEF t, x, y

\* Between the two calls for a result, what was written last is its box.
BoxIsDrawn ==
    results # <<>> /\ phase = "string" => luma = RectLuma(Result.bbox, bbox_thickness)

\* Of any box a detector reports, of any thickness and in any picture, what is
\* drawn is a closed frame that begins where the box does and is as large as the
\* box, or as has room.
THEOREM BoxOutlined == Spec => []BoxIsOutlined
<1>1. Init => BoxIsDrawn
  BY DEF Init, BoxIsDrawn
<1>2. BoxIsDrawn /\ [Next]_vars => BoxIsDrawn'
  BY DEF BoxIsDrawn, Next, DrawBox, DrawString, vars, Result
<1>3. IInv /\ BoxIsDrawn => BoxIsOutlined
  <2> SUFFICES ASSUME IInv, BoxIsDrawn, results # <<>>, phase = "string"
               PROVE  BoxIsOutlined
    BY DEF BoxIsOutlined
  <2>1. Result.bbox \in Rects /\ bbox_thickness \in Nat
    BY ResultType
  <2>2. luma = RectLuma(Result.bbox, bbox_thickness)
    BY DEF BoxIsDrawn
  <2> QED
    BY <2>1, <2>2, RectOutlines DEF BoxIsOutlined
<1> QED
  BY <1>1, <1>2, <1>3, IInvCorrect, PTL DEF Spec
=============================================================================
