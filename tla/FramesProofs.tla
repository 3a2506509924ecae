----------------------------- MODULE FramesProofs -----------------------------
(***************************************************************************)
(* The safety of averaging, for every window, slice, ring of regions and   *)
(* number of images: FramesIInv of Frames.tla is inductive.  What a pass   *)
(* over a slice and the split at the delay compute, which are recursive    *)
(* functions, and the sum over a set of images are shown by induction over *)
(* sets of numbers.                                                        *)
(***************************************************************************)
EXTENDS Frames, SequenceTheorems, FiniteSetTheorems, WellFoundedInduction, TLAPS

-------------------------------------------------------------------------------
(* Induction.                                                              *)

\* A set of natural numbers that is not empty has a least element.
LEMMA LeastOf ==
  ASSUME NEW S \in SUBSET Nat, S # {}
  PROVE  \E i \in S : \A j \in S : i <= j
<1>. DEFINE R == {ss \in Nat \X Nat : ss[1] < ss[2]}
<1>1. IsWellFoundedOn(R, Nat)
  BY NatLessThanWellFounded, Zenon DEF OpToRel
<1>2. PICK i \in S : \A j \in S : ~ (<<j, i>> \in R)
  <2>. HIDE DEF R
  <2>. QED
    BY <1>1, WFMin
<1>3. ASSUME NEW j \in S, j < i PROVE <<j, i>> \in R
  <2>1. <<j, i>> \in Nat \X Nat /\ <<j, i>>[1] < <<j, i>>[2]
    BY <1>3
  <2>. QED
    BY <2>1, Zenon
<1>. HIDE DEF R
<1>4. ASSUME NEW j \in S PROVE i <= j
  <2>1. ~ (j < i)
    BY <1>2, <1>3
  <2>2. j \in Nat /\ i \in Nat
    OBVIOUS
  <2>. QED
    BY <2>1, <2>2
<1>. QED
  BY <1>4

\* What holds of 0 and, if of a number, of the next one, holds of all.
LEMMA FromZero ==
  ASSUME NEW S, 0 \in S, \A n \in Nat : n \in S => n + 1 \in S
  PROVE  Nat \subseteq S
<1> SUFFICES ASSUME Nat \ S # {} PROVE FALSE
  OBVIOUS
<1>1. PICK i \in Nat \ S : \A j \in Nat \ S : i <= j
  BY LeastOf
<1>2. i # 0 /\ i - 1 \in Nat /\ i - 1 + 1 = i
  OBVIOUS
<1>3. i - 1 \in S
  BY <1>1, <1>2
<1>. QED
  BY <1>2, <1>3

-------------------------------------------------------------------------------
(* A pass of the filter.                                                   *)

LEMMA PassOverIs ==
  ASSUME NEW n \in Nat
  PROVE  \E f : /\ f[0] = Pass
                /\ \A i \in 1 .. n : f[i] = AddImage(f[i - 1], filter_in[i])
                /\ PassOver(n) = f[n]
<1> DEFINE Over(m, f) ==
             f = [i \in 0 .. m |-> IF i = 0 THEN Pass ELSE AddImage(f[i - 1], filter_in[i])]
           S == {m \in Nat : \E f : Over(m, f)}
<1>1. 0 \in S
  <2>1. Over(0, [i \in 0 .. 0 |-> Pass])
    OBVIOUS
  <2>. QED
    BY <2>1
<1>2. ASSUME NEW m \in Nat, m \in S PROVE m + 1 \in S
  <2>1. PICK f : Over(m, f)
    BY <1>2
  <2> DEFINE g == [i \in 0 .. m + 1 |->
                     IF i = m + 1 THEN AddImage(f[m], filter_in[m + 1]) ELSE f[i]]
  <2>2. ASSUME NEW i \in 0 .. m + 1
        PROVE  g[i] = IF i = 0 THEN Pass ELSE AddImage(g[i - 1], filter_in[i])
    <3>1. CASE i = m + 1
      BY <3>1
    <3>2. CASE i \in 0 .. m
      <4>1. g[i] = f[i] /\ (i # 0 => i - 1 \in 0 .. m /\ g[i - 1] = f[i - 1])
        BY <3>2
      <4>2. f[i] = IF i = 0 THEN Pass ELSE AddImage(f[i - 1], filter_in[i])
        BY <2>1, <3>2
      <4>. QED
        BY <4>1, <4>2
    <3>. QED
      BY <3>1, <3>2
  <2>3. g = [i \in 0 .. m + 1 |-> g[i]]
    OBVIOUS
  <2>. HIDE DEF g
  <2>4. Over(m + 1, g)
    BY <2>2, <2>3
  <2>. QED
    BY <2>4
<1>3. PICK h : Over(n, h)
  <2>. HIDE DEF S
  <2>1. n \in S
    BY <1>1, <1>2, FromZero
  <2>. QED
    BY <2>1 DEF S
<1> DEFINE f == CHOOSE f : Over(n, f)
<1>4. Over(n, f)
  BY <1>3
<1>5. PassOver(n) = f[n]
  BY DEF PassOver
<1>. HIDE DEF f
<1>6. /\ f[0] = Pass
      /\ \A i \in 1 .. n : f[i] = AddImage(f[i - 1], filter_in[i])
  BY <1>4
<1>. QED
  BY <1>5, <1>6

\* What the pass keeps from one frame to the next it keeps to its end.
LEMMA PassKeeps ==
  ASSUME NEW n \in Nat, NEW I, Pass \in I[0],
         \A i \in 1 .. n : \A p \in I[i - 1] : AddImage(p, filter_in[i]) \in I[i]
  PROVE  PassOver(n) \in I[n]
<1>1. PICK f : /\ f[0] = Pass
               /\ \A i \in 1 .. n : f[i] = AddImage(f[i - 1], filter_in[i])
               /\ PassOver(n) = f[n]
  BY PassOverIs
<1> DEFINE S == {i \in Nat : i <= n => f[i] \in I[i]}
<1>2. 0 \in S
  BY <1>1
<1>3. ASSUME NEW i \in Nat, i \in S PROVE i + 1 \in S
  <2> SUFFICES ASSUME i + 1 <= n PROVE f[i + 1] \in I[i + 1]
    OBVIOUS
  <2>1. i + 1 \in 1 .. n /\ i + 1 - 1 = i /\ f[i] \in I[i]
    BY <1>3
  <2>. QED
    BY <1>1, <2>1
<1>4. n \in S
  <2>. HIDE DEF S
  <2>. QED
    BY <1>2, <1>3, FromZero
<1>. QED
  BY <1>1, <1>4

-------------------------------------------------------------------------------
(* The sum over a set of images.                                           *)

\* Folding over an image at a time, whichever is chosen next.
Folding(it, S) ==
  it = [s \in SUBSET S |-> IF s = {} THEN 0
                           ELSE LET x == CHOOSE x \in s : TRUE
                                IN  Pixel[x.id] + it[s \ {x}]]

LEMMA SumIsFolding ==
  ASSUME NEW S
  PROVE  SumOf(S) = (CHOOSE it : Folding(it, S))[S]
  BY DEF SumOf, MapThenSumSet, MapThenFoldSet, Folding

Additive(g, S) ==
  /\ g \in [SUBSET S -> Nat] /\ g[{}] = 0
  /\ \A T \in SUBSET S : \A x \in S \ T : g[T \cup {x}] = g[T] + Pixel[x.id]

LEMMA PixelIs == \A im \in Images : Pixel[im.id] \in Nat
  BY PixelAssumption DEF Images

LEMMA AdditiveExists ==
  ASSUME NEW S \in SUBSET Images, IsFiniteSet(S)
  PROVE  \E g : Additive(g, S)
<1> DEFINE N == {n \in Nat : \A R \in SUBSET Images :
                   IsFiniteSet(R) /\ Cardinality(R) = n => \E g : Additive(g, R)}
<1>1. 0 \in N
  <2> SUFFICES ASSUME NEW R \in SUBSET Images, IsFiniteSet(R), Cardinality(R) = 0
               PROVE  \E g : Additive(g, R)
    OBVIOUS
  <2>1. R = {}
    BY FS_EmptySet
  <2> DEFINE g == [T \in SUBSET R |-> 0]
  <2>2. g \in [SUBSET R -> Nat] /\ g[{}] = 0
    OBVIOUS
  <2>3. \A T \in SUBSET R : R \ T = {}
    BY <2>1
  <2>. HIDE DEF g
  <2>. QED
    BY <2>2, <2>3 DEF Additive
<1>2. ASSUME NEW n \in Nat, n \in N PROVE n + 1 \in N
  <2> SUFFICES ASSUME NEW R \in SUBSET Images, IsFiniteSet(R), Cardinality(R) = n + 1
               PROVE  \E g : Additive(g, R)
    OBVIOUS
  <2>0. R # {}
    BY FS_EmptySet
  <2>1. PICK y : y \in R
    BY <2>0
  <2> DEFINE Q == R \ {y}
  <2>2. Q \in SUBSET Images /\ IsFiniteSet(Q) /\ Cardinality(Q) = n
    <3>1. IsFiniteSet(Q) /\ Cardinality(Q) = Cardinality(R) - 1
      BY <2>1, FS_RemoveElement
    <3>2. n + 1 - 1 = n
      OBVIOUS
    <3>. QED
      BY <3>1, <3>2
  <2>3. PICK h : Additive(h, Q)
    BY <1>2, <2>2
  <2> DEFINE g == [T \in SUBSET R |-> IF y \in T THEN h[T \ {y}] + Pixel[y.id] ELSE h[T]]
  <2>4. h \in [SUBSET Q -> Nat] /\ h[{}] = 0 /\ Pixel[y.id] \in Nat
    BY <2>1, <2>3, PixelIs DEF Additive
  <2>5. g \in [SUBSET R -> Nat] /\ g[{}] = 0
    <3>1. \A T \in SUBSET R : (y \notin T => T \in SUBSET Q) /\ T \ {y} \in SUBSET Q
      OBVIOUS
    <3>2. \A T \in SUBSET R : g[T] \in Nat
      BY <2>4, <3>1
    <3>. QED
      BY <2>4, <3>2
  <2>6. ASSUME NEW T \in SUBSET R, NEW x \in R \ T
        PROVE  g[T \cup {x}] = g[T] + Pixel[x.id]
    <3>1. T \cup {x} \in SUBSET R
      OBVIOUS
    <3>2. CASE x = y
      <4>1. T \in SUBSET Q /\ (T \cup {x}) \ {y} = T
        BY <3>2
      <4>. QED
        BY <3>1, <3>2, <4>1
    <3>3. CASE x # y /\ y \in T
      <4>1. /\ T \ {y} \in SUBSET Q /\ x \in Q \ (T \ {y})
            /\ (T \cup {x}) \ {y} = (T \ {y}) \cup {x}
        BY <3>3
      <4>2. h[(T \ {y}) \cup {x}] = h[T \ {y}] + Pixel[x.id]
        BY <2>3, <4>1 DEF Additive
      <4>3. g[T \cup {x}] = h[T \ {y}] + Pixel[x.id] + Pixel[y.id] /\ g[T] = h[T \ {y}] + Pixel[y.id]
        BY <3>1, <3>3, <4>1, <4>2
      <4>4. h[T \ {y}] \in Nat /\ Pixel[x.id] \in Nat
        BY <2>4, <4>1, PixelIs
      <4>. QED
        BY <2>4, <4>3, <4>4
    <3>4. CASE x # y /\ y \notin T
      <4>1. T \in SUBSET Q /\ x \in Q \ T /\ y \notin T \cup {x}
        BY <3>4
      <4>. QED
        BY <2>3, <3>1, <3>4, <4>1 DEF Additive
    <3>. QED
      BY <3>2, <3>3, <3>4
  <2>7. Additive(g, R)
    <3>. HIDE DEF g
    <3>. QED
      BY <2>5, <2>6 DEF Additive
  <2>. QED
    BY <2>7
<1>3. Cardinality(S) \in N
  <2>. HIDE DEF N
  <2>. QED
    BY <1>1, <1>2, FromZero, FS_CardinalityType
<1>. QED
  BY <1>3

\* The fold does not depend on which image is chosen.
LEMMA SumIs ==
  ASSUME NEW S \in SUBSET Images, IsFiniteSet(S), NEW g, Additive(g, S)
  PROVE  SumOf(S) = g[S]
<1>1. ASSUME NEW s \in SUBSET S, NEW x \in s
      PROVE  /\ s \ {x} \in SUBSET S /\ g[s] = Pixel[x.id] + g[s \ {x}]
             /\ Cardinality(s \ {x}) = Cardinality(s) - 1
  <2>2. s \ {x} \in SUBSET S /\ x \in S \ (s \ {x}) /\ (s \ {x}) \cup {x} = s
    OBVIOUS
  <2>3. g[s] = g[s \ {x}] + Pixel[x.id]
    BY <2>2 DEF Additive
  <2>4. g[s \ {x}] \in Nat /\ Pixel[x.id] \in Nat
    BY <2>2, PixelIs DEF Additive
  <2>. QED
    BY <2>2, <2>3, <2>4, FS_Subset, FS_RemoveElement
<1>2. Folding(g, S)
  <2>1. g = [s \in SUBSET S |-> g[s]]
    BY DEF Additive
  <2>2. ASSUME NEW s \in SUBSET S
        PROVE  g[s] = IF s = {} THEN 0
                      ELSE LET x == CHOOSE x \in s : TRUE IN Pixel[x.id] + g[s \ {x}]
    BY <1>1 DEF Additive
  <2>. QED
    BY <2>1, <2>2 DEF Folding
<1> DEFINE it == CHOOSE it : Folding(it, S)
<1>3. Folding(it, S) /\ SumOf(S) = it[S]
  BY <1>2, SumIsFolding
<1>. HIDE DEF it
<1> DEFINE N == {n \in Nat : \A s \in SUBSET S : Cardinality(s) = n => it[s] = g[s]}
<1>4. 0 \in N
  <2>1. \A s \in SUBSET S : Cardinality(s) = 0 => s = {}
    BY FS_EmptySet, FS_Subset
  <2>2. it[{}] = 0 /\ g[{}] = 0
    BY <1>3 DEF Folding, Additive
  <2>. QED
    BY <2>1, <2>2
<1>5. ASSUME NEW n \in Nat, n \in N PROVE n + 1 \in N
  <2> SUFFICES ASSUME NEW s \in SUBSET S, Cardinality(s) = n + 1 PROVE it[s] = g[s]
    OBVIOUS
  <2>1. s # {}
    BY FS_EmptySet
  <2> DEFINE x == CHOOSE x \in s : TRUE
  <2>2. it[s] = Pixel[x.id] + it[s \ {x}]
    BY <1>3, <2>1 DEF Folding
  <2>3. /\ s \ {x} \in SUBSET S /\ g[s] = Pixel[x.id] + g[s \ {x}]
        /\ Cardinality(s \ {x}) = n + 1 - 1
    <3>1. x \in s
      BY <2>1
    <3>. HIDE DEF x
    <3>. QED
      BY <1>1, <3>1
  <2>4. it[s \ {x}] = g[s \ {x}]
    <3>. HIDE DEF x
    <3>. QED
      BY <1>5, <2>3
  <2>. QED
    BY <2>2, <2>3, <2>4
<1>6. Cardinality(S) \in N
  <2>. HIDE DEF N
  <2>. QED
    BY <1>4, <1>5, FromZero, FS_CardinalityType
<1>. QED
  BY <1>3, <1>6

LEMMA SumAdds ==
  ASSUME NEW S \in SUBSET Images, IsFiniteSet(S)
  PROVE  /\ SumOf(S) \in Nat /\ SumOf({}) = 0
         /\ \A x \in Images \ S : SumOf(S \cup {x}) = SumOf(S) + Pixel[x.id]
<1>1. PICK g : Additive(g, S)
  BY AdditiveExists
<1>2. SumOf(S) = g[S] /\ SumOf(S) \in Nat
  BY <1>1, SumIs DEF Additive
<1>3. SumOf({}) = 0
  <2>1. PICK e : Additive(e, {})
    BY AdditiveExists, FS_EmptySet
  <2>. QED
    BY <2>1, SumIs, FS_EmptySet DEF Additive
<1>4. ASSUME NEW x \in Images \ S PROVE SumOf(S \cup {x}) = SumOf(S) + Pixel[x.id]
  <2>1. S \cup {x} \in SUBSET Images /\ IsFiniteSet(S \cup {x})
    BY FS_AddElement
  <2>2. PICK h : Additive(h, S \cup {x})
    BY <2>1, AdditiveExists
  <2>3. SumOf(S \cup {x}) = h[S \cup {x}]
    BY <2>1, <2>2, SumIs
  <2>4. h[S \cup {x}] = h[S] + Pixel[x.id]
    BY <2>2 DEF Additive
  <2> DEFINE k == [T \in SUBSET S |-> h[T]]
  <2>5. Additive(k, S)
    <3>1. \A T \in SUBSET S : T \in SUBSET (S \cup {x}) /\ k[T] = h[T]
      OBVIOUS
    <3>2. k \in [SUBSET S -> Nat] /\ k[{}] = 0
      BY <2>2, <3>1 DEF Additive
    <3>3. ASSUME NEW T \in SUBSET S, NEW y \in S \ T PROVE k[T \cup {y}] = k[T] + Pixel[y.id]
      <4>1. T \cup {y} \in SUBSET S /\ y \in (S \cup {x}) \ T
        OBVIOUS
      <4>2. h[T \cup {y}] = h[T] + Pixel[y.id]
        BY <2>2, <3>1, <4>1 DEF Additive
      <4>. QED
        BY <3>1, <4>1, <4>2
    <3>. HIDE DEF k
    <3>. QED
      BY <3>2, <3>3 DEF Additive
  <2>6. SumOf(S) = h[S]
    <3>1. k[S] = h[S]
      OBVIOUS
    <3>. HIDE DEF k
    <3>. QED
      BY <2>5, <3>1, SumIs
  <2>. QED
    BY <2>3, <2>4, <2>6
<1>. QED
  BY <1>2, <1>3, <1>4

\* No average is rounded.
LEMMA SumDivides ==
  ASSUME NEW S \in SUBSET Images, IsFiniteSet(S), NEW k \in 1 .. MaxGrabbed
  PROVE  \E c \in Nat : SumOf(S) = c * k
<1> DEFINE N == {n \in Nat : \A R \in SUBSET Images :
                   IsFiniteSet(R) /\ Cardinality(R) = n => \E c \in Nat : SumOf(R) = c * k}
<1>0. k \in Nat \ {0}
  BY TicksAssumption
<1>1. 0 \in N
  <2> SUFFICES ASSUME NEW R \in SUBSET Images, IsFiniteSet(R), Cardinality(R) = 0
               PROVE  \E c \in Nat : SumOf(R) = c * k
    OBVIOUS
  <2>1. SumOf(R) = 0
    BY FS_EmptySet, SumAdds
  <2>2. 0 = 0 * k
    BY <1>0
  <2>. QED
    BY <2>1, <2>2
<1>2. ASSUME NEW n \in Nat, n \in N PROVE n + 1 \in N
  <2> SUFFICES ASSUME NEW R \in SUBSET Images, IsFiniteSet(R), Cardinality(R) = n + 1
               PROVE  \E c \in Nat : SumOf(R) = c * k
    OBVIOUS
  <2>0. R # {}
    BY FS_EmptySet
  <2>1. PICK y : y \in R
    BY <2>0
  <2>2. IsFiniteSet(R \ {y}) /\ Cardinality(R \ {y}) = n
    <3>1. IsFiniteSet(R \ {y}) /\ Cardinality(R \ {y}) = Cardinality(R) - 1
      BY <2>1, FS_RemoveElement
    <3>2. n + 1 - 1 = n
      OBVIOUS
    <3>. QED
      BY <3>1, <3>2
  <2>3. PICK c \in Nat : SumOf(R \ {y}) = c * k
    BY <1>2, <2>2
  <2>4. (R \ {y}) \cup {y} = R /\ y \in Images \ (R \ {y})
    BY <2>1
  <2>5. SumOf(R) = SumOf(R \ {y}) + Pixel[y.id]
    BY <2>2, <2>4, SumAdds
  <2>6. Pixel[y.id] % k = 0 /\ Pixel[y.id] \in Nat
    BY <2>1, PixelAssumption, PixelIs DEF Images
  <2> DEFINE d == Pixel[y.id] \div k
  <2>7. d \in Nat /\ Pixel[y.id] = d * k
    BY <1>0, <2>6
  <2>. HIDE DEF d
  <2>8. c + d \in Nat /\ SumOf(R) = (c + d) * k
    BY <1>0, <2>3, <2>5, <2>7
  <2>. QED
    BY <2>8
<1>3. Cardinality(S) \in N
  <2>. HIDE DEF N
  <2>. QED
    BY <1>1, <1>2, FromZero, FS_CardinalityType
<1>. QED
  BY <1>3

\* Images of one shape are as many as the camera can have taken.
LEMMA ImagesOfOneShape ==
  ASSUME NEW S \in SUBSET Images, NEW shape, \A im \in S : im.shape = shape
  PROVE  IsFiniteSet(S) /\ Cardinality(S) \in 0 .. MaxGrabbed
<1> DEFINE f == [im \in S |-> im.id]
<1>1. MaxGrabbed \in Nat
  BY TicksAssumption
<1>2. f \in [S -> 1 .. MaxGrabbed]
  BY DEF Images
<1>3. ASSUME NEW a \in S, NEW b \in S, f[a] = f[b] PROVE a = b
  BY <1>3 DEF Images
<1>4. f \in Injection(S, 1 .. MaxGrabbed)
  <2>. HIDE DEF f
  <2>. QED
    BY <1>2, <1>3 DEF Injection, IsInjective
<1>5. IsFiniteSet(1 .. MaxGrabbed) /\ Cardinality(1 .. MaxGrabbed) <= MaxGrabbed
  BY <1>1, FS_Interval
<1>. HIDE DEF f
<1>6. /\ IsFiniteSet(S) /\ Cardinality(S) <= Cardinality(1 .. MaxGrabbed)
      /\ Cardinality(1 .. MaxGrabbed) \in Nat /\ Cardinality(S) \in Nat
  BY <1>4, <1>5, FS_Injection, FS_CardinalityType
<1>. QED
  BY <1>1, <1>5, <1>6

-------------------------------------------------------------------------------
(* What a pass does with one frame.                                        *)

LEMMA NoFrameIsNone == \A f \in AnyFrame : f # NoFrame
<1> SUFFICES ASSUME NEW f \in AnyFrame PROVE f # NoFrame
  OBVIOUS
<1>1. f.as # "none"
  BY DEF AnyFrame
<1>2. NoFrame.as = "none"
  BY DEF NoFrame
<1>. QED
  BY <1>1, <1>2

\* A sum the filter has begun, and a frame it has published in this run.
IsSum(f) ==
  /\ f.by = run /\ f.acq_thread <= now
  /\ OfOneShape(f) /\ \A im \in f.of : im.id <= grabbed
  /\ f.blank => f.pixels = SumOf(f.of)

As(f, as) == [f EXCEPT !.as = as]

IsPublished(f) ==
  /\ f.by = run /\ f.acq_thread <= now
  /\ OfOneShape(f)
  /\ f.as = "mean" /\ f.blank => IsMean(f)

PassSet ==
  [region : [0 .. Regions - 1 -> Nat], head : 0 .. Regions - 1,
   acc : AnyFrame \cup {NoFrame}, out : Seq(AnyFrame),
   failed : BOOLEAN, waits : BOOLEAN]

InUse(p) == Len(p.out) + (IF p.acc = NoFrame THEN 0 ELSE 1)

\* A pass that has gone over the first i frames of filter.in.
GoodPass(i) ==
  {p \in PassSet :
    /\ ~ p.waits => Len(sink_in) + InUse(p) <= Regions
    /\ p.acc # NoFrame =>
         IsSum(p.acc) /\ \A j \in i + 1 .. Len(filter_in) : Earlier(p.acc, filter_in[j])
    /\ \A k \in DOMAIN p.out :
         IsPublished(p.out[k]) /\ (p.out[k].as = "mean" \/ (p.failed /\ k = Len(p.out)))
    /\ p.failed => p.acc = NoFrame}

LEMMA NewIs ==
  ASSUME NEW p \in PassSet, NEW in \in AnyFrame, IsImage(in), run \in 1 .. MaxRuns
  PROVE  LET acc == NewAccumulator(p, in) IN
         /\ acc \in AnyFrame /\ acc.shape = in.shape /\ acc.of = {}
         /\ IsSum(acc)
<1> DEFINE acc == NewAccumulator(p, in)
<1>1. p.region[p.head] \in Nat
  BY DEF PassSet
<1>2. acc \in AnyFrame /\ acc.shape = in.shape /\ acc.of = {}
  BY <1>1 DEF NewAccumulator, AnyFrame
<1>3. /\ acc.by = run /\ acc.acq_thread = in.acq_thread /\ acc.pixels = p.region[p.head]
      /\ acc.blank = (p.region[p.head] = 0)
  BY DEF NewAccumulator, AnyFrame
<1>4. SumOf({}) = 0
  BY SumAdds, FS_EmptySet
<1>. HIDE DEF acc
<1>5. IsSum(acc)
  BY <1>2, <1>3, <1>4 DEF IsSum, OfOneShape, IsImage
<1>. QED
  BY <1>2, <1>5 DEF acc

LEMMA SumGrows ==
  ASSUME NEW acc \in AnyFrame, NEW in \in AnyFrame, IsSum(acc), IsImage(in),
         Earlier(acc, in), acc.shape = in.shape, grabbed \in 0 .. MaxGrabbed
  PROVE  LET sum == Sum(acc, in) IN
         /\ sum \in AnyFrame /\ IsSum(sum)
         /\ sum.shape = acc.shape /\ sum.of = acc.of \cup in.of /\ in.of # {}
<1> DEFINE sum == Sum(acc, in)
<1>1. PICK id \in 1 .. grabbed :
        in.of = {[id |-> id, shape |-> in.shape]} /\ in.pixels = Pixel[id]
  BY DEF IsImage
<1> DEFINE im == [id |-> id, shape |-> in.shape]
<1>2. /\ sum.pixels = acc.pixels + in.pixels /\ sum.of = acc.of \cup in.of
      /\ sum.shape = acc.shape /\ sum.by = acc.by /\ sum.acq_thread = acc.acq_thread
      /\ sum.blank = acc.blank
  BY DEF Sum, AnyFrame
<1>3. sum \in AnyFrame
  <2>1. acc.pixels + in.pixels \in Nat /\ acc.of \cup in.of \in SUBSET Images
    BY DEF AnyFrame
  <2>2. sum = [acc EXCEPT !.pixels = acc.pixels + in.pixels, !.of = acc.of \cup in.of]
    BY DEF Sum
  <2>. QED
    BY <2>1, <2>2 DEF AnyFrame
<1>. HIDE DEF sum
<1>4. im \in Images /\ im.id = id /\ im.shape = acc.shape
  BY <1>1 DEF AnyFrame, Images
<1>5. in.of = {im} /\ acc.of \in SUBSET Images
  BY <1>1 DEF AnyFrame
<1>. HIDE DEF im
<1>6. im \notin acc.of
  <2> SUFFICES ASSUME im \in acc.of PROVE FALSE
    OBVIOUS
  <2>1. im.id < im.id
    BY <1>5 DEF Earlier
  <2>. QED
    BY <1>1, <1>4, <2>1
<1>7. IsFiniteSet(acc.of)
  BY <1>5, ImagesOfOneShape DEF IsSum, OfOneShape
<1>8. SumOf(acc.of \cup in.of) = SumOf(acc.of) + Pixel[id]
  BY <1>4, <1>5, <1>6, <1>7, SumAdds
<1>9. OfOneShape(sum) /\ \A jm \in sum.of : jm.id <= grabbed
  BY <1>1, <1>2, <1>4, <1>5 DEF IsSum, OfOneShape
<1>10. IsSum(sum)
  BY <1>1, <1>2, <1>8, <1>9 DEF IsSum
<1>. QED
  BY <1>2, <1>3, <1>5, <1>10 DEF sum

LEMMA MeanOfSum ==
  ASSUME NEW acc \in AnyFrame, IsSum(acc), acc.of # {}
  PROVE  LET mean == Normalized(acc) IN
         /\ mean \in AnyFrame
         /\ IsPublished(As(mean, "mean"))
<1> DEFINE k == Cardinality(acc.of)
           mean == Normalized(acc)
           f == As(mean, "mean")
<1>1. acc.of \in SUBSET Images /\ acc.pixels \in Nat
  BY DEF AnyFrame
<1>2. IsFiniteSet(acc.of) /\ k \in 0 .. MaxGrabbed
  BY <1>1, ImagesOfOneShape DEF IsSum, OfOneShape
<1>3. k \in 1 .. MaxGrabbed
  <2>1. k # 0
    BY <1>2, FS_EmptySet
  <2>. QED
    BY <1>2, <2>1
<1>. HIDE DEF k
<1>4. k \in Nat \ {0}
  BY <1>3, TicksAssumption
<1>5. acc.pixels \div k \in Nat
  BY <1>1, <1>4
<1>6. mean = [acc EXCEPT !.pixels = @ \div k]
  BY DEF Normalized, k
<1>7. mean \in AnyFrame
  BY <1>5, <1>6 DEF AnyFrame
<1>8. /\ f.by = acc.by /\ f.acq_thread = acc.acq_thread /\ f.shape = acc.shape
      /\ f.of = acc.of /\ f.blank = acc.blank /\ f.pixels = acc.pixels \div k
  BY <1>6 DEF AnyFrame, As
<1>. HIDE DEF f
<1>9. ASSUME acc.blank PROVE IsMean(f)
  <2>1. PICK c \in Nat : SumOf(acc.of) = c * k
    BY <1>1, <1>2, <1>3, SumDivides
  <2>2. acc.pixels = c * k
    BY <1>9, <2>1 DEF IsSum
  <2>3. acc.pixels \div k = c
    BY <1>4, <2>2
  <2>. QED
    BY <1>8, <2>1, <2>3 DEF IsMean, k
<1>10. IsPublished(f)
  BY <1>8, <1>9 DEF IsSum, IsPublished, OfOneShape
<1>. QED
  BY <1>7, <1>10 DEF f

LEMMA PublishIs ==
  ASSUME NEW p \in PassSet, NEW acc \in AnyFrame, NEW as \in {"mean", "sum", "failure"}
  PROVE  LET q == Publish(p, acc, as) IN
         /\ q \in PassSet /\ As(acc, as) \in AnyFrame
         /\ q.acc = NoFrame /\ q.out = Append(p.out, As(acc, as))
         /\ q.failed = p.failed /\ q.waits = p.waits
         /\ As(acc, as).as = as
<1> DEFINE f == As(acc, as)
           r == [p.region EXCEPT ![p.head] = acc.pixels]
           h == (p.head + 1) % Regions
           q == [p EXCEPT !.acc = NoFrame, !.head = h, !.region = r, !.out = Append(p.out, f)]
<1>1. f \in AnyFrame /\ f.as = as
  BY DEF AnyFrame, As
<1>2. acc.pixels \in Nat
  BY DEF AnyFrame
<1>3. /\ p.region \in [0 .. Regions - 1 -> Nat] /\ p.head \in 0 .. Regions - 1
      /\ p.out \in Seq(AnyFrame)
  BY DEF PassSet
<1>4. r \in [0 .. Regions - 1 -> Nat]
  BY <1>2, <1>3
<1>5. h \in 0 .. Regions - 1
  BY <1>3, SizesAssumption
<1>6. Publish(p, acc, as) = q
  BY DEF Publish, As
<1>. HIDE DEF f, r, h
<1>7. Append(p.out, f) \in Seq(AnyFrame)
  BY <1>1, <1>3
<1>8. /\ q \in PassSet /\ q.acc = NoFrame /\ q.out = Append(p.out, f)
      /\ q.failed = p.failed /\ q.waits = p.waits
  BY <1>4, <1>5, <1>7 DEF PassSet
<1>. QED
  BY <1>1, <1>6, <1>8 DEF f

LEMMA KeepIs ==
  ASSUME NEW p \in PassSet, NEW acc \in AnyFrame
  PROVE  LET q == Keep(p, acc) IN
         /\ q \in PassSet /\ q.acc = acc
         /\ q.out = p.out /\ q.failed = p.failed /\ q.waits = p.waits
<1> DEFINE r == [p.region EXCEPT ![p.head] = acc.pixels]
           q == [p EXCEPT !.acc = acc, !.region = r]
<1>1. r \in [0 .. Regions - 1 -> Nat]
  BY DEF PassSet, AnyFrame
<1>2. Keep(p, acc) = q
  BY DEF Keep
<1>. HIDE DEF r
<1>3. /\ q \in PassSet /\ q.acc = acc
      /\ q.out = p.out /\ q.failed = p.failed /\ q.waits = p.waits
  BY <1>1 DEF PassSet
<1>. QED
  BY <1>2, <1>3

LEMMA MappedIs ==
  ASSUME NEW p \in PassSet
  PROVE  LET q == Mapped(p) IN
         /\ q \in PassSet /\ q.acc = p.acc /\ q.out = p.out /\ q.failed = p.failed
         /\ q.waits = (p.waits \/ (p.acc = NoFrame /\ Len(sink_in) + Len(p.out) >= Regions))
<1> DEFINE w == p.waits \/ (p.acc = NoFrame /\ Len(sink_in) + Len(p.out) >= Regions)
           q == [p EXCEPT !.waits = w]
<1>1. w \in BOOLEAN
  OBVIOUS
<1>2. Mapped(p) = q
  BY DEF Mapped
<1>. HIDE DEF w
<1>3. q \in PassSet /\ q.acc = p.acc /\ q.out = p.out /\ q.failed = p.failed /\ q.waits = w
  BY <1>1 DEF PassSet
<1>. QED
  BY <1>2, <1>3 DEF w

\* A region that is mapped when the pass did not have to wait is free.
LEMMA MappedHasRoom ==
  ASSUME NEW p \in PassSet, sink_in \in Seq(AnyFrame), ~ Mapped(p).waits,
         ~ p.waits => Len(sink_in) + InUse(p) <= Regions
  PROVE  Len(sink_in) + Len(p.out) + 1 <= Regions
<1>1. /\ ~ p.waits
      /\ ~ (p.acc = NoFrame /\ Len(sink_in) + Len(p.out) >= Regions)
  <2>1. Mapped(p).waits = (p.waits \/ (p.acc = NoFrame /\ Len(sink_in) + Len(p.out) >= Regions))
    BY MappedIs
  <2>. QED
    BY <2>1, Zenon
<1>2. Len(sink_in) \in Nat /\ Len(p.out) \in Nat /\ Regions \in Nat
  BY SizesAssumption DEF PassSet
<1>3. Len(sink_in) + InUse(p) <= Regions
  BY <1>1, Zenon
<1>4. CASE p.acc = NoFrame
  <2>1. ~ (Len(sink_in) + Len(p.out) >= Regions)
    BY <1>1, <1>4, Zenon
  <2>. QED
    BY <1>2, <2>1
<1>5. CASE p.acc # NoFrame
  BY <1>2, <1>3, <1>5 DEF InUse
<1>. QED
  BY <1>4, <1>5, Zenon

\* One more frame published keeps what is said of those before.
LEMMA AppendPublished ==
  ASSUME NEW out \in Seq(AnyFrame), NEW f \in AnyFrame, IsPublished(f),
         \A k \in DOMAIN out : IsPublished(out[k]) /\ out[k].as = "mean"
  PROVE  /\ Len(Append(out, f)) = Len(out) + 1
         /\ \A k \in DOMAIN Append(out, f) :
              /\ IsPublished(Append(out, f)[k])
              /\ Append(out, f)[k].as = "mean" \/ (Append(out, f)[k] = f /\ k = Len(Append(out, f)))
<1>1. /\ Len(Append(out, f)) = Len(out) + 1 /\ DOMAIN Append(out, f) = 1 .. Len(out) + 1
      /\ Len(out) \in Nat /\ DOMAIN out = 1 .. Len(out)
      /\ \A k \in 1 .. Len(out) : Append(out, f)[k] = out[k]
      /\ Append(out, f)[Len(out) + 1] = f
  OBVIOUS
<1> DEFINE new == Append(out, f)
<1>2. ASSUME NEW k \in 1 .. Len(out) + 1
      PROVE  IsPublished(new[k]) /\ (new[k].as = "mean" \/ (new[k] = f /\ k = Len(new)))
  <2>. HIDE DEF new
  <2>1. k \in 1 .. Len(out) \/ k = Len(out) + 1
    BY <1>1
  <2>2. ASSUME k \in 1 .. Len(out) PROVE new[k] = out[k] /\ k \in DOMAIN out
    BY <1>1, <2>2 DEF new
  <2>3. new[Len(out) + 1] = f /\ Len(new) = Len(out) + 1
    BY <1>1 DEF new
  <2>4. CASE k \in 1 .. Len(out)
    BY <2>2, <2>4, Zenon
  <2>5. CASE k = Len(out) + 1
    BY <2>3, <2>5, Zenon
  <2>. QED
    BY <2>1, <2>4, <2>5, Zenon
<1>. QED
  BY <1>1, <1>2

LEMMA AddImageKeeps ==
  ASSUME TypeOK, ImagesInv, run \in 1 .. MaxRuns,
         NEW i \in 1 .. Len(filter_in), NEW p \in GoodPass(i - 1)
  PROVE  AddImage(p, filter_in[i]) \in GoodPass(i)
<1> DEFINE in == filter_in[i]
           acc == IF p.acc = NoFrame THEN NewAccumulator(p, in) ELSE p.acc
           sum == Sum(acc, in)
           later == i + 1 .. Len(filter_in)
<1>1. /\ in \in AnyFrame /\ IsImage(in) /\ grabbed \in 0 .. MaxGrabbed
      /\ sink_in \in Seq(AnyFrame) /\ Len(filter_in) \in Nat
      /\ \A j \in later : Earlier(in, filter_in[j])
  <2>1. filter_in \in Seq(AnyFrame) /\ sink_in \in Seq(AnyFrame) /\ grabbed \in 0 .. MaxGrabbed
    BY DEF TypeOK
  <2>2. DOMAIN filter_in = 1 .. Len(filter_in) /\ Len(filter_in) \in Nat /\ in \in AnyFrame
    BY <2>1
  <2>3. IsImage(in)
    BY <2>2 DEF ImagesInv, Elements
  <2>4. \A j \in later : j \in DOMAIN filter_in /\ i < j
    BY <2>2
  <2>. QED
    BY <2>1, <2>2, <2>3, <2>4 DEF ImagesInv
<1>2. /\ p \in PassSet
      /\ ~ p.waits => Len(sink_in) + InUse(p) <= Regions
      /\ p.acc # NoFrame =>
           /\ IsSum(p.acc) /\ Earlier(p.acc, in)
           /\ \A j \in later : Earlier(p.acc, filter_in[j])
      /\ \A k \in DOMAIN p.out :
           IsPublished(p.out[k]) /\ (p.out[k].as = "mean" \/ (p.failed /\ k = Len(p.out)))
      /\ p.failed => p.acc = NoFrame
  <2>1. i - 1 + 1 = i /\ i \in i .. Len(filter_in) /\ later \subseteq i .. Len(filter_in)
    BY <1>1
  <2>. HIDE DEF later
  <2>. QED
    BY <2>1 DEF GoodPass
<1>3. /\ acc \in AnyFrame /\ IsSum(acc) /\ Earlier(acc, in)
      /\ \A j \in later : Earlier(acc, filter_in[j])
  <2>1. CASE p.acc = NoFrame
    <3>1. acc \in AnyFrame /\ IsSum(acc) /\ acc.of = {}
      BY <1>1, <1>2, <2>1, NewIs
    <3>. QED
      BY <3>1 DEF Earlier
  <2>2. CASE p.acc # NoFrame
    BY <1>2, <2>2 DEF PassSet
  <2>. QED
    BY <2>1, <2>2
<1>. HIDE DEF acc, in, later
<1>4. ASSUME acc.shape = in.shape
      PROVE  /\ sum \in AnyFrame /\ IsSum(sum) /\ sum.of # {}
             /\ \A j \in later : Earlier(sum, filter_in[j])
  <2>1. sum \in AnyFrame /\ IsSum(sum) /\ sum.of = acc.of \cup in.of /\ in.of # {}
    BY <1>1, <1>3, <1>4, SumGrows
  <2>. HIDE DEF sum
  <2>. QED
    BY <1>1, <1>3, <2>1 DEF Earlier
<1>. HIDE DEF sum
<1> DEFINE q == AddImage(p, in)
<1>5. CASE p.failed
  <2>1. q = p
    BY <1>5 DEF AddImage
  <2>. HIDE DEF q
  <2>2. p \in GoodPass(i)
    <3>1. p.acc = NoFrame
      BY <1>2, <1>5
    <3>. QED
      BY <1>2, <3>1 DEF GoodPass
  <2>. QED
    BY <2>1, <2>2 DEF q, in
<1>6. CASE ~ p.failed
  <2>0. \A k \in DOMAIN p.out : IsPublished(p.out[k]) /\ p.out[k].as = "mean"
    BY <1>2, <1>6
  <2>1. CASE acc.shape # in.shape
    <3>1. q = [p EXCEPT !.acc = NoFrame]
      BY <1>6, <2>1 DEF AddImage, acc
    <3>2. /\ q \in PassSet /\ q.acc = NoFrame /\ q.out = p.out
          /\ q.failed = p.failed /\ q.waits = p.waits
      BY <1>2, <3>1 DEF PassSet
    <3>. HIDE DEF q
    <3>3. ASSUME ~ q.waits PROVE Len(sink_in) + InUse(q) <= Regions
      <4>1. Len(sink_in) + InUse(p) <= Regions
        BY <1>2, <3>2, <3>3
      <4>2. Len(sink_in) \in Nat /\ Len(p.out) \in Nat /\ Regions \in Nat
        BY <1>1, <1>2, SizesAssumption DEF PassSet
      <4>3. InUse(q) = Len(p.out)
        BY <3>2, <4>2 DEF InUse
      <4>4. InUse(p) = Len(p.out) \/ InUse(p) = Len(p.out) + 1
        <5>1. CASE p.acc = NoFrame
          BY <4>2, <5>1 DEF InUse
        <5>2. CASE p.acc # NoFrame
          BY <4>2, <5>2 DEF InUse
        <5>. QED
          BY <5>1, <5>2
      <4>. QED
        BY <4>1, <4>2, <4>3, <4>4
    <3>. QED
      BY <2>0, <3>2, <3>3 DEF GoodPass, q, in
  <2>2. CASE acc.shape = in.shape /\ camera.type \notin Supported
    <3>1. q = [Publish(Mapped(p), acc, "failure") EXCEPT !.failed = TRUE]
      BY <1>6, <2>2 DEF AddImage, acc
    <3> DEFINE f == As(acc, "failure")
               m == Mapped(p)
               r == Publish(m, acc, "failure")
    <3>2. m \in PassSet /\ m.out = p.out
      BY <1>2, MappedIs
    <3>. HIDE DEF m, q
    <3>3. /\ r \in PassSet /\ r.acc = NoFrame /\ r.out = Append(p.out, f)
          /\ r.waits = m.waits /\ f \in AnyFrame /\ f.as = "failure"
      <4>1. "failure" \in {"mean", "sum", "failure"} /\ acc \in AnyFrame
        BY <1>3
      <4>2. /\ Publish(m, acc, "failure") \in PassSet
            /\ Publish(m, acc, "failure").acc = NoFrame
            /\ Publish(m, acc, "failure").out = Append(m.out, As(acc, "failure"))
            /\ Publish(m, acc, "failure").waits = m.waits
            /\ As(acc, "failure") \in AnyFrame /\ As(acc, "failure").as = "failure"
        BY <3>2, <4>1, PublishIs
      <4>. QED
        BY <3>2, <4>2
    <3>4. IsPublished(f)
      <4>1. f.by = acc.by /\ f.acq_thread = acc.acq_thread /\ f.of = acc.of /\ f.shape = acc.shape
        BY <1>3 DEF AnyFrame, As
      <4>. QED
        BY <1>3, <3>3, <4>1 DEF IsPublished, IsSum, OfOneShape
    <3>. HIDE DEF f, r
    <3>5. /\ q \in PassSet /\ q.acc = NoFrame /\ q.out = Append(p.out, f)
          /\ q.failed = TRUE /\ q.waits = Mapped(p).waits
      BY <3>1, <3>3 DEF PassSet, r, m
    <3>6. p.out \in Seq(AnyFrame)
      BY <1>2 DEF PassSet
    <3>7. /\ Len(q.out) = Len(p.out) + 1
          /\ \A k \in DOMAIN q.out :
               IsPublished(q.out[k]) /\ (q.out[k].as = "mean" \/ (q.failed /\ k = Len(q.out)))
      BY <2>0, <3>3, <3>4, <3>5, <3>6, AppendPublished
    <3>8. ASSUME ~ q.waits PROVE Len(sink_in) + InUse(q) <= Regions
      <4>1. Len(sink_in) + Len(p.out) + 1 <= Regions
        BY <1>1, <1>2, <3>5, <3>8, MappedHasRoom
      <4>2. Len(sink_in) \in Nat /\ Len(p.out) \in Nat
        BY <1>1, <3>6
      <4>3. InUse(q) = Len(p.out) + 1
        BY <3>5, <3>7, <4>2 DEF InUse
      <4>. QED
        BY <4>1, <4>2, <4>3
    <3>. QED
      BY <3>5, <3>7, <3>8 DEF GoodPass, q, in
  <2>3. CASE acc.shape = in.shape /\ camera.type \in Supported
    <3>1. q = IF p.acc # NoFrame /\ Cardinality(sum.of) >= filter_window_frames
              THEN Publish(p, Normalized(sum), "mean") ELSE Keep(Mapped(p), sum)
      BY <1>6, <2>3 DEF AddImage, acc, sum
    <3>2. /\ sum \in AnyFrame /\ IsSum(sum) /\ sum.of # {}
          /\ \A j \in later : Earlier(sum, filter_in[j])
      BY <1>4, <2>3
    <3>3. CASE p.acc # NoFrame /\ Cardinality(sum.of) >= filter_window_frames
      <4> DEFINE mean == Normalized(sum)
                 f == As(mean, "mean")
      <4>1. mean \in AnyFrame /\ IsPublished(f)
        BY <3>2, MeanOfSum
      <4>2. q = Publish(p, mean, "mean")
        BY <3>1, <3>3
      <4>. HIDE DEF mean
      <4>3. /\ q \in PassSet /\ q.acc = NoFrame /\ q.out = Append(p.out, f)
            /\ q.failed = p.failed /\ q.waits = p.waits /\ f \in AnyFrame /\ f.as = "mean"
        <5>. HIDE DEF q
        <5>. QED
          BY <1>2, <4>1, <4>2, PublishIs, SMTT(20)
      <4>. HIDE DEF q, f
      <4>4. p.out \in Seq(AnyFrame)
        BY <1>2 DEF PassSet
      <4>5. /\ Len(q.out) = Len(p.out) + 1
            /\ \A k \in DOMAIN q.out : IsPublished(q.out[k]) /\ q.out[k].as = "mean"
        BY <2>0, <4>1, <4>3, <4>4, AppendPublished
      <4>6. ASSUME ~ q.waits PROVE Len(sink_in) + InUse(q) <= Regions
        <5>1. Len(sink_in) + InUse(p) <= Regions
          BY <1>2, <4>3, <4>6
        <5>2. Len(sink_in) \in Nat /\ Len(p.out) \in Nat
          BY <1>1, <4>4
        <5>3. InUse(q) = Len(p.out) + 1 /\ InUse(p) = Len(p.out) + 1
          BY <3>3, <4>3, <4>5, <5>2 DEF InUse
        <5>. QED
          BY <5>1, <5>3
      <4>. QED
        BY <4>3, <4>5, <4>6 DEF GoodPass, q, in
    <3>4. CASE ~ (p.acc # NoFrame /\ Cardinality(sum.of) >= filter_window_frames)
      <4>1. q = Keep(Mapped(p), sum)
        BY <3>1, <3>4, Zenon
      <4>2. Mapped(p) \in PassSet /\ Mapped(p).out = p.out /\ Mapped(p).failed = p.failed
        BY <1>2, MappedIs
      <4>. HIDE DEF q
      <4>3. /\ q \in PassSet /\ q.acc = sum /\ q.out = p.out
            /\ q.failed = p.failed /\ q.waits = Mapped(p).waits
        BY <3>2, <4>1, <4>2, KeepIs
      <4>4. ASSUME ~ q.waits PROVE Len(sink_in) + InUse(q) <= Regions
        <5>1. Len(sink_in) + Len(p.out) + 1 <= Regions
          BY <1>1, <1>2, <4>3, <4>4, MappedHasRoom
        <5>2. Len(sink_in) \in Nat /\ Len(p.out) \in Nat
          BY <1>1, <1>2 DEF PassSet
        <5>3. InUse(q) = Len(p.out) + 1
          BY <3>2, <4>3, NoFrameIsNone DEF InUse
        <5>. QED
          BY <5>1, <5>2, <5>3
      <4>. QED
        BY <1>6, <2>0, <3>2, <4>3, <4>4 DEF GoodPass, q, in, later
    <3>. QED
      BY <3>3, <3>4, Zenon
  <2>. QED
    BY <2>1, <2>2, <2>3
<1>. QED
  BY <1>5, <1>6

LEMMA PassIsGood ==
  ASSUME TypeOK, ImagesInv, SumInv, run \in 1 .. MaxRuns, NEW n \in 0 .. Len(filter_in)
  PROVE  PassOver(n) \in GoodPass(n)
<1>1. /\ filter_in \in Seq(AnyFrame) /\ sink_in \in Seq(AnyFrame)
      /\ Len(filter_in) \in Nat /\ Len(sink_in) \in Nat /\ n \in Nat
      /\ region \in [0 .. Regions - 1 -> Nat] /\ head \in 0 .. Regions - 1
      /\ accumulator \in AnyFrame \cup {NoFrame}
      /\ Len(sink_in) + (IF accumulator = NoFrame THEN 0 ELSE 1) <= Regions
  BY DEF TypeOK
<1>2. Pass \in GoodPass(0)
  <2>1. /\ Pass \in PassSet /\ Pass.acc = accumulator /\ Pass.out = <<>> /\ Pass.failed = FALSE
    BY <1>1 DEF Pass, PassSet
  <2>2. Len(sink_in) + InUse(Pass) <= Regions
    <3>1. InUse(Pass) = 0 + (IF accumulator = NoFrame THEN 0 ELSE 1)
      BY <2>1 DEF InUse
    <3>2. 0 + (IF accumulator = NoFrame THEN 0 ELSE 1) = IF accumulator = NoFrame THEN 0 ELSE 1
      OBVIOUS
    <3>3. InUse(Pass) = IF accumulator = NoFrame THEN 0 ELSE 1
      BY <3>1, <3>2, Zenon
    <3>. QED
      BY <1>1, <3>3, Zenon
  <2>3. ASSUME accumulator # NoFrame
        PROVE  /\ IsSum(accumulator)
               /\ \A j \in 0 + 1 .. Len(filter_in) : Earlier(accumulator, filter_in[j])
    <3>1. \A j \in 0 + 1 .. Len(filter_in) : filter_in[j] \in Elements(filter_in)
      BY <1>1 DEF Elements
    <3>. QED
      BY <2>3, <3>1 DEF SumInv, IsSum
  <2>4. DOMAIN <<>> = {}
    OBVIOUS
  <2>. QED
    BY <2>1, <2>2, <2>3, <2>4 DEF GoodPass
<1> DEFINE I == [i \in 0 .. n |-> GoodPass(i)]
<1>3. \A i \in 1 .. n : I[i - 1] = GoodPass(i - 1) /\ I[i] = GoodPass(i) /\ i \in 1 .. Len(filter_in)
  BY <1>1
<1>4. I[0] = GoodPass(0) /\ I[n] = GoodPass(n)
  BY <1>1
<1>. HIDE DEF I
<1>5. \A i \in 1 .. n : \A p \in I[i - 1] : AddImage(p, filter_in[i]) \in I[i]
  BY <1>3, AddImageKeeps
<1>6. PassOver(n) \in I[n]
  BY <1>1, <1>2, <1>4, <1>5, PassKeeps
<1>. QED
  BY <1>4, <1>6

-------------------------------------------------------------------------------
(* What is in the queues.                                                  *)

LEMMA InElements ==
  ASSUME NEW X, NEW s \in Seq(X)
  PROVE  /\ \A i \in 1 .. Len(s) : s[i] \in Elements(s) /\ s[i] \in X
         /\ \A f \in Elements(s) : f \in X /\ \E i \in 1 .. Len(s) : f = s[i]
  BY DEF Elements

LEMMA ElementsOfConcat ==
  ASSUME NEW X, NEW s \in Seq(X), NEW t \in Seq(X)
  PROVE  /\ s \o t \in Seq(X) /\ Len(s \o t) = Len(s) + Len(t)
         /\ \A i \in 1 .. Len(s) : (s \o t)[i] = s[i]
         /\ \A i \in 1 .. Len(t) : (s \o t)[Len(s) + i] = t[i]
         /\ Elements(s \o t) = Elements(s) \cup Elements(t)
<1>1. /\ s \o t \in Seq(X) /\ Len(s \o t) = Len(s) + Len(t)
      /\ \A i \in 1 .. Len(s) : (s \o t)[i] = s[i]
      /\ \A i \in 1 .. Len(t) : (s \o t)[Len(s) + i] = t[i]
      /\ Len(s) \in Nat /\ Len(t) \in Nat
  BY ConcatProperties
<1> DEFINE u == s \o t
<1>5. /\ u \in Seq(X) /\ Len(u) = Len(s) + Len(t) /\ Len(s) \in Nat /\ Len(t) \in Nat
      /\ \A i \in 1 .. Len(s) : u[i] = s[i]
      /\ \A i \in 1 .. Len(t) : u[Len(s) + i] = t[i]
  BY <1>1
<1>. HIDE DEF u
<1>2. ASSUME NEW f \in Elements(u) PROVE f \in Elements(s) \cup Elements(t)
  <2>1. PICK i \in 1 .. Len(u) : f = u[i]
    BY <1>5, InElements
  <2>2. CASE i <= Len(s)
    <3>1. i \in 1 .. Len(s) /\ f = s[i]
      BY <1>5, <2>1, <2>2
    <3>. QED
      BY <3>1, InElements
  <2>3. CASE i > Len(s)
    <3>1. i - Len(s) \in 1 .. Len(t) /\ Len(s) + (i - Len(s)) = i
      BY <1>5, <2>3
    <3>2. f = t[i - Len(s)]
      BY <1>5, <2>1, <3>1
    <3>. QED
      BY <3>1, <3>2, InElements
  <2>. QED
    BY <1>5, <2>2, <2>3
<1>3. ASSUME NEW f \in Elements(s) PROVE f \in Elements(u)
  <2>1. PICK i \in 1 .. Len(s) : f = s[i]
    BY InElements
  <2>2. i \in 1 .. Len(u)
    BY <1>5
  <2>3. u[i] = f
    BY <1>5, <2>1
  <2>. QED
    BY <1>5, <2>2, <2>3, InElements
<1>4. ASSUME NEW f \in Elements(t) PROVE f \in Elements(u)
  <2>1. PICK i \in 1 .. Len(t) : f = t[i]
    BY InElements
  <2>2. Len(s) + i \in 1 .. Len(u) /\ u[Len(s) + i] = f
    BY <1>5, <2>1
  <2>. QED
    BY <1>5, <2>2, InElements
<1>. QED
  BY <1>1, <1>2, <1>3, <1>4 DEF u

\* What is left of a queue when its first n elements are consumed.
LEMMA RestOfQueue ==
  ASSUME NEW X, NEW s \in Seq(X), NEW n \in 0 .. Len(s)
  PROVE  LET t == SubSeq(s, n + 1, Len(s)) IN
         /\ t \in Seq(X) /\ Len(t) = Len(s) - n
         /\ \A i \in 1 .. Len(t) : t[i] = s[n + i] /\ n + i \in 1 .. Len(s)
         /\ Elements(t) \subseteq Elements(s)
<1> DEFINE t == SubSeq(s, n + 1, Len(s))
<1>1. /\ t \in Seq(X) /\ Len(t) = Len(s) - n
      /\ \A i \in 1 .. Len(t) : t[i] = s[n + i] /\ n + i \in 1 .. Len(s)
  <2>1. Len(s) \in Nat /\ n + 1 \in 1 .. Len(s) + 1
    OBVIOUS
  <2>2. /\ t \in Seq(X) /\ Len(t) = IF n + 1 <= Len(s) THEN Len(s) - (n + 1) + 1 ELSE 0
        /\ \A i \in 1 .. Len(s) - (n + 1) + 1 : t[i] = s[n + 1 + i - 1]
    <3>1. \A i \in n + 1 .. Len(s) : s[i] \in X
      BY <2>1
    <3>2. n + 1 \in Int /\ Len(s) \in Int
      BY <2>1
    <3>. QED
      BY <3>1, <3>2, SubSeqProperties
  <2>3. Len(t) = Len(s) - n /\ Len(s) - (n + 1) + 1 = Len(s) - n
    BY <2>1, <2>2
  <2>. HIDE DEF t
  <2>4. \A i \in 1 .. Len(t) : n + 1 + i - 1 = n + i /\ n + i \in 1 .. Len(s)
    BY <2>1, <2>3
  <2>5. ASSUME NEW i \in 1 .. Len(t) PROVE t[i] = s[n + i]
    <3>1. i \in 1 .. Len(s) - (n + 1) + 1
      BY <2>3
    <3>. QED
      BY <2>2, <2>4, <3>1
  <2>. QED
    BY <2>2, <2>3, <2>4, <2>5
<1>. HIDE DEF t
<1>2. Elements(t) \subseteq Elements(s)
  BY <1>1, InElements
<1>. QED
  BY <1>1, <1>2 DEF t

LEMMA PublishedOf ==
  ASSUME NEW st \in Seq(AnyStored), NEW sk \in Seq(AnyFrame)
  PROVE  LET all == [i \in DOMAIN st |-> st[i].frame] \o sk IN
         /\ all \in Seq(AnyFrame) /\ Len(all) = Len(st) + Len(sk)
         /\ \A i \in 1 .. Len(st) : all[i] = st[i].frame
         /\ \A i \in 1 .. Len(sk) : all[Len(st) + i] = sk[i]
         /\ Elements(all) = {s.frame : s \in Elements(st)} \cup Elements(sk)
<1> DEFINE fs == [i \in DOMAIN st |-> st[i].frame]
           all == fs \o sk
<1>1. DOMAIN st = 1 .. Len(st) /\ Len(st) \in Nat
  OBVIOUS
<1>2. \A i \in 1 .. Len(st) : st[i] \in AnyStored /\ st[i].frame \in AnyFrame
  <2>1. \A i \in 1 .. Len(st) : st[i] \in AnyStored
    BY InElements
  <2>2. \A s \in AnyStored : s.frame \in AnyFrame
    BY DEF AnyStored
  <2>. QED
    BY <2>1, <2>2
<1>3. /\ fs \in Seq(AnyFrame) /\ Len(fs) = Len(st)
      /\ \A i \in 1 .. Len(st) : fs[i] = st[i].frame
  <2>1. fs \in [1 .. Len(st) -> AnyFrame]
    BY <1>1, <1>2
  <2>2. \A i \in 1 .. Len(st) : fs[i] = st[i].frame
    BY <1>1
  <2>3. DOMAIN fs = 1 .. Len(st)
    BY <1>1
  <2>. HIDE DEF fs
  <2>4. fs \in Seq(AnyFrame)
    BY <1>1, <2>1, SeqDef
  <2>5. Len(fs) = Len(st)
    BY <1>1, <2>3, <2>4, LenProperties
  <2>. QED
    BY <2>2, <2>4, <2>5
<1>. HIDE DEF fs
<1>4. /\ all \in Seq(AnyFrame) /\ Len(all) = Len(st) + Len(sk)
      /\ \A i \in 1 .. Len(st) : all[i] = fs[i]
      /\ \A i \in 1 .. Len(sk) : all[Len(st) + i] = sk[i]
      /\ Elements(all) = Elements(fs) \cup Elements(sk)
  <2>1. fs \in Seq(AnyFrame) /\ Len(fs) = Len(st)
    BY <1>3
  <2>2. /\ all \in Seq(AnyFrame) /\ Len(all) = Len(fs) + Len(sk)
        /\ \A i \in 1 .. Len(fs) : all[i] = fs[i]
        /\ \A i \in 1 .. Len(sk) : all[Len(fs) + i] = sk[i]
        /\ Elements(all) = Elements(fs) \cup Elements(sk)
    BY <2>1, ElementsOfConcat, ZenonT(60)
  <2>. HIDE DEF all
  <2>. QED
    BY <2>1, <2>2
<1>5. Elements(fs) = {s.frame : s \in Elements(st)}
  <2>1. ASSUME NEW f \in Elements(fs) PROVE f \in {s.frame : s \in Elements(st)}
    <3>1. PICK i \in 1 .. Len(st) : f = fs[i]
      BY <1>3, InElements
    <3>2. st[i] \in Elements(st)
      BY <1>1 DEF Elements
    <3>. QED
      BY <1>3, <3>1, <3>2
  <2>2. ASSUME NEW s \in Elements(st) PROVE s.frame \in Elements(fs)
    <3>1. PICK i \in 1 .. Len(st) : s = st[i]
      BY InElements
    <3>2. fs[i] \in Elements(fs)
      BY <1>3, InElements
    <3>. QED
      BY <1>3, <3>1, <3>2
  <2>. QED
    BY <2>1, <2>2
<1>. HIDE DEF all
<1>. QED
  <2>1. /\ all \in Seq(AnyFrame) /\ Len(all) = Len(st) + Len(sk)
        /\ \A i \in 1 .. Len(st) : all[i] = st[i].frame
        /\ \A i \in 1 .. Len(sk) : all[Len(st) + i] = sk[i]
        /\ Elements(all) = {s.frame : s \in Elements(st)} \cup Elements(sk)
    BY <1>3, <1>4, <1>5
  <2>. QED
    BY <2>1 DEF all, fs

LEMMA PublishedIs ==
  ASSUME TypeOK
  PROVE  /\ Published \in Seq(AnyFrame) /\ Len(Published) = Len(stored) + Len(sink_in)
         /\ Len(stored) \in Nat /\ Len(sink_in) \in Nat
         /\ \A i \in 1 .. Len(stored) : Published[i] = stored[i].frame
         /\ \A i \in 1 .. Len(sink_in) : Published[Len(stored) + i] = sink_in[i]
         /\ Frames = Elements(filter_in) \cup Elements(Published)
         /\ Elements(sink_in) \subseteq Elements(Published)
<1>1. stored \in Seq(AnyStored) /\ sink_in \in Seq(AnyFrame)
  BY DEF TypeOK
<1>2. /\ Published \in Seq(AnyFrame) /\ Len(Published) = Len(stored) + Len(sink_in)
      /\ \A i \in 1 .. Len(stored) : Published[i] = stored[i].frame
      /\ \A i \in 1 .. Len(sink_in) : Published[Len(stored) + i] = sink_in[i]
      /\ Elements(Published) = {s.frame : s \in Elements(stored)} \cup Elements(sink_in)
  BY <1>1, PublishedOf DEF Published
<1>. QED
  BY <1>1, <1>2 DEF Frames

LEMMA PublishedIsNext ==
  ASSUME TypeOK'
  PROVE  /\ Published' \in Seq(AnyFrame) /\ Len(Published') = Len(stored') + Len(sink_in')
         /\ Len(stored') \in Nat /\ Len(sink_in') \in Nat
         /\ \A i \in 1 .. Len(stored') : Published'[i] = stored'[i].frame
         /\ \A i \in 1 .. Len(sink_in') : Published'[Len(stored') + i] = sink_in'[i]
         /\ Frames' = Elements(filter_in') \cup Elements(Published')
         /\ Elements(sink_in') \subseteq Elements(Published')
<1>1. stored' \in Seq(AnyStored) /\ sink_in' \in Seq(AnyFrame)
  BY DEF TypeOK
<1>2. /\ Published' \in Seq(AnyFrame) /\ Len(Published') = Len(stored') + Len(sink_in')
      /\ \A i \in 1 .. Len(stored') : Published'[i] = stored'[i].frame
      /\ \A i \in 1 .. Len(sink_in') : Published'[Len(stored') + i] = sink_in'[i]
      /\ Elements(Published') = {s.frame : s \in Elements(stored')} \cup Elements(sink_in')
  BY <1>1, PublishedOf DEF Published
<1>3. Frames' = Elements(filter_in') \cup Elements(sink_in') \cup {s.frame : s \in Elements(stored')}
  BY DEF Frames
<1>. QED
  BY <1>1, <1>2, <1>3

\* Frames that are added are to be right; those there were stay so.
LEMMA FramesKept ==
  ASSUME MeansAreRight, OneShapePerAverage,
         \A f \in Frames' :
           f \in Frames \/ (OfOneShape(f) /\ (f.as = "mean" /\ f.blank => IsMean(f)))
  PROVE  MeansAreRight' /\ OneShapePerAverage'
<1>1. ASSUME NEW f \in Frames' PROVE OfOneShape(f) /\ (f.as = "mean" /\ f.blank => IsMean(f))
  BY DEF MeansAreRight, OneShapePerAverage, OfOneShape
<1>2. MeansAreRight'
  BY <1>1 DEF MeansAreRight
<1>3. OneShapePerAverage'
  BY <1>1 DEF OneShapePerAverage, OfOneShape
<1>. QED
  BY <1>2, <1>3

-------------------------------------------------------------------------------
(* The steps of the filter.                                                *)

\* A pass over n frames, with what it leaves, that may go on to its end.
Finished(p, n) ==
  /\ p \in PassSet
  /\ Len(sink_in) + InUse(p) <= Regions
  /\ p.acc # NoFrame =>
       /\ IsSum(p.acc) /\ ~ p.failed
       /\ \A j \in n + 1 .. Len(filter_in) : Earlier(p.acc, filter_in[j])
  /\ \A k \in DOMAIN p.out :
       IsPublished(p.out[k]) /\ (p.out[k].as = "mean" \/ k = Len(p.out))

LEMMA EndKeepsImages ==
  ASSUME TypeOK, ImagesInv, NEW p, NEW n \in 0 .. Len(filter_in), Ends(p, n)
  PROVE  /\ filter_in' \in Seq(AnyFrame) /\ Elements(filter_in') \subseteq Elements(filter_in)
         /\ \A i, j \in DOMAIN filter_in' : i < j => Earlier(filter_in'[i], filter_in'[j])
<1>0. filter_in \in Seq(AnyFrame)
  BY DEF TypeOK
<1>1. CASE filter_in' = filter_in
  BY <1>0, <1>1 DEF ImagesInv
<1>2. CASE filter_in' = SubSeq(filter_in, n + 1, Len(filter_in))
  <2>1. /\ filter_in' \in Seq(AnyFrame)
        /\ \A i \in 1 .. Len(filter_in') :
             filter_in'[i] = filter_in[n + i] /\ n + i \in 1 .. Len(filter_in)
        /\ Elements(filter_in') \subseteq Elements(filter_in)
    BY <1>0, <1>2, RestOfQueue
  <2>2. ASSUME NEW i \in DOMAIN filter_in', NEW j \in DOMAIN filter_in', i < j
        PROVE  Earlier(filter_in'[i], filter_in'[j])
    <3>1. i \in 1 .. Len(filter_in') /\ j \in 1 .. Len(filter_in') /\ i \in Nat /\ j \in Nat
      BY <2>1
    <3>2. n + i \in DOMAIN filter_in /\ n + j \in DOMAIN filter_in /\ n + i < n + j
      BY <1>0, <2>1, <2>2, <3>1
    <3>. QED
      BY <2>1, <3>1, <3>2 DEF ImagesInv
  <2>. QED
    BY <2>1, <2>2
<1>. QED
  BY <1>1, <1>2 DEF Ends

\* The end of a pass keeps the invariant.
LEMMA EndKeeps ==
  ASSUME FramesIInv, "filter" \in running, NEW n \in 0 .. Len(filter_in),
         NEW p, Finished(p, n), Ends(p, n), running' \subseteq running,
         "filter" \in running' => \A k \in DOMAIN p.out : p.out[k].as = "mean",
         UNCHANGED <<now, source, filter_window_frames, stored, run>>
  PROVE  FramesIInv'
<1>0. TypeOK /\ ImagesInv /\ SumInv /\ PublishedInv
  BY DEF FramesIInv
<1> DEFINE out == p.out
<1>1. /\ p \in PassSet /\ out \in Seq(AnyFrame) /\ sink_in \in Seq(AnyFrame)
      /\ Len(out) \in Nat /\ Len(sink_in) \in Nat /\ DOMAIN out = 1 .. Len(out)
  BY <1>0 DEF Finished, PassSet, TypeOK
<1>2. /\ sink_in' \in Seq(AnyFrame) /\ Len(sink_in') = Len(sink_in) + Len(out)
      /\ \A i \in 1 .. Len(sink_in) : sink_in'[i] = sink_in[i]
      /\ \A i \in 1 .. Len(out) : sink_in'[Len(sink_in) + i] = out[i]
      /\ Elements(sink_in') = Elements(sink_in) \cup Elements(out)
  <2>1. sink_in' = sink_in \o out
    BY DEF Ends
  <2>. HIDE DEF out
  <2>. QED
    BY <1>1, <2>1, ElementsOfConcat
<1>3. /\ now' = now /\ iframe' = iframe /\ grabbed' = grabbed /\ camera' = camera
      /\ filter_window_frames' = filter_window_frames /\ stored' = stored /\ run' = run
  BY DEF source
<1>4. \A k \in 1 .. Len(out) : IsPublished(out[k]) /\ (out[k].as = "mean" \/ k = Len(out))
  BY <1>1 DEF Finished
<1>5. \A f \in Elements(out) : IsPublished(f)
  <2> SUFFICES ASSUME NEW f \in Elements(out) PROVE IsPublished(f)
    OBVIOUS
  <2>1. PICK k \in DOMAIN out : f = out[k]
    BY DEF Elements
  <2>2. k \in 1 .. Len(out)
    BY <1>1, <2>1
  <2>3. IsPublished(out[k])
    BY <1>4, <2>2
  <2>. QED
    BY <2>1, <2>3
<1>6. /\ filter_in' \in Seq(AnyFrame) /\ Elements(filter_in') \subseteq Elements(filter_in)
      /\ \A i, j \in DOMAIN filter_in' : i < j => Earlier(filter_in'[i], filter_in'[j])
  BY <1>0, EndKeepsImages
<1>7. TypeOK'
  <2>1. /\ region' = p.region /\ head' = p.head /\ accumulator' = p.acc
    BY DEF Ends
  <2>2. Len(sink_in') + (IF accumulator' = NoFrame THEN 0 ELSE 1) <= Regions
    <3>1. Len(sink_in) + (Len(out) + (IF accumulator' = NoFrame THEN 0 ELSE 1)) <= Regions
      BY <2>1 DEF Finished, InUse
    <3> DEFINE one == IF accumulator' = NoFrame THEN 0 ELSE 1
    <3>2. one \in Nat
      OBVIOUS
    <3>. HIDE DEF one, out
    <3>3. Len(sink_in) + (Len(out) + one) <= Regions
      BY <3>1 DEF one
    <3>4. Len(sink_in') + one <= Regions
      BY <1>1, <1>2, <3>2, <3>3, SizesAssumption
    <3>. QED
      BY <3>4 DEF one
  <2>3. /\ region' \in [0 .. Regions - 1 -> Nat] /\ head' \in 0 .. Regions - 1
        /\ accumulator' \in AnyFrame \cup {NoFrame}
    BY <1>1, <2>1 DEF PassSet
  <2>. HIDE DEF out
  <2>. QED
    BY <1>0, <1>2, <1>3, <1>6, <2>2, <2>3 DEF TypeOK
<1>8. ImagesInv'
  <2>1. \A f \in Elements(filter_in') : IsImage(f)'
    BY <1>0, <1>3, <1>6 DEF ImagesInv, IsImage
  <2>. QED
    BY <1>6, <2>1 DEF ImagesInv, Elements
<1>9. SumInv'
  <2> SUFFICES ASSUME p.acc # NoFrame
               PROVE  /\ p.acc.by = run /\ p.acc.acq_thread <= now
                      /\ OfOneShape(p.acc) /\ \A im \in p.acc.of : im.id <= grabbed
                      /\ \A f \in Elements(filter_in') : Earlier(p.acc, f)
                      /\ p.acc.blank => p.acc.pixels = SumOf(p.acc.of)
    BY <1>3 DEF SumInv, Ends, Elements
  <2>1. /\ IsSum(p.acc) /\ ~ p.failed
        /\ \A j \in n + 1 .. Len(filter_in) : Earlier(p.acc, filter_in[j])
    BY DEF Finished
  <2>2. ASSUME NEW f \in Elements(filter_in') PROVE Earlier(p.acc, f)
    <3>1. filter_in' = SubSeq(filter_in, n + 1, Len(filter_in)) /\ filter_in \in Seq(AnyFrame)
      BY <1>0, <2>1 DEF Ends, TypeOK
    <3>2. /\ \A i \in 1 .. Len(filter_in') :
               filter_in'[i] = filter_in[n + i] /\ n + i \in 1 .. Len(filter_in)
      BY <3>1, RestOfQueue
    <3>3. PICK i \in 1 .. Len(filter_in') : f = filter_in'[i]
      BY <1>6, <2>2, InElements
    <3>4. n + i \in n + 1 .. Len(filter_in)
      BY <1>6, <3>1, <3>2, <3>3
    <3>. QED
      BY <2>1, <3>2, <3>3, <3>4
  <2>. QED
    BY <2>1, <2>2 DEF IsSum
<1>. DEFINE old == Len(Published)
<1>10. /\ Published \in Seq(AnyFrame) /\ old \in Nat
       /\ Published' \in Seq(AnyFrame) /\ Len(Published') = old + Len(out)
       /\ \A i \in 1 .. old : Published'[i] = Published[i]
       /\ \A i \in 1 .. Len(out) : Published'[old + i] = out[i]
       /\ Elements(Published') = Elements(Published) \cup Elements(out)
       /\ Frames = Elements(filter_in) \cup Elements(Published)
       /\ Frames' = Elements(filter_in') \cup Elements(Published')
  <2>1. /\ Published \in Seq(AnyFrame)
        /\ Frames = Elements(filter_in) \cup Elements(Published)
        /\ Frames' = Elements(filter_in') \cup Elements(Published')
    BY <1>0, <1>7, PublishedIs, PublishedIsNext
  <2> DEFINE fs == [i \in DOMAIN stored |-> stored[i].frame]
  <2>2. Published' = fs \o (sink_in \o out) /\ Published = fs \o sink_in
    BY <1>3 DEF Published, Ends
  <2>3. fs \in Seq(AnyFrame)
    <3>1. /\ DOMAIN stored = 1 .. Len(stored) /\ Len(stored) \in Nat
          /\ \A i \in 1 .. Len(stored) : stored[i] \in AnyStored
      BY <1>0 DEF TypeOK
    <3>2. \A s \in AnyStored : s.frame \in AnyFrame
      BY DEF AnyStored
    <3>3. fs \in [1 .. Len(stored) -> AnyFrame]
      BY <3>1, <3>2
    <3>. HIDE DEF fs
    <3>. QED
      BY <3>1, <3>3, SeqDef
  <2>. HIDE DEF fs, out
  <2>4. fs \o (sink_in \o out) = (fs \o sink_in) \o out
    BY <1>1, <2>3
  <2>5. Published' = Published \o out
    BY <2>2, <2>4
  <2>6. /\ Published \o out \in Seq(AnyFrame) /\ Len(Published \o out) = Len(Published) + Len(out)
        /\ \A i \in 1 .. Len(Published) : (Published \o out)[i] = Published[i]
        /\ \A i \in 1 .. Len(out) : (Published \o out)[Len(Published) + i] = out[i]
        /\ Elements(Published \o out) = Elements(Published) \cup Elements(out)
    BY <1>1, <2>1, ElementsOfConcat
  <2>. QED
    BY <2>1, <2>5, <2>6
<1>11. PublishedInv'
  <2>1. running' # {} => run' >= 1
    BY <1>0, <1>3 DEF PublishedInv
  <2>2. \A f \in Elements(sink_in') : f.acq_thread <= now'
    BY <1>0, <1>2, <1>3, <1>5 DEF PublishedInv, IsPublished
  <2>3. ASSUME NEW f \in Elements(Published')
        PROVE  f.by <= run' /\ (f.by = run' /\ "filter" \in running' => f.as = "mean")
    <3>1. CASE f \in Elements(Published)
      BY <1>0, <1>3, <3>1 DEF PublishedInv
    <3>2. CASE f \in Elements(out)
      <4>1. f.by = run /\ run \in 0 .. MaxRuns
        BY <1>0, <1>5, <3>2 DEF IsPublished, TypeOK
      <4>2. ASSUME "filter" \in running' PROVE f.as = "mean"
        <5>1. PICK k \in DOMAIN out : f = out[k]
          BY <3>2 DEF Elements
        <5>. QED
          BY <4>2, <5>1
      <4>3. run <= run
        BY <4>1
      <4>. QED
        BY <1>3, <4>1, <4>2, <4>3
    <3>. QED
      BY <1>10, <3>1, <3>2
  <2>. QED
    BY <2>1, <2>2, <2>3 DEF PublishedInv, Elements
<1>12. MeansAreRight' /\ OneShapePerAverage'
  <2>1. Frames' \subseteq Frames \cup Elements(out)
    BY <1>6, <1>10
  <2>2. \A f \in Elements(out) : OfOneShape(f) /\ (f.as = "mean" /\ f.blank => IsMean(f))
    BY <1>5 DEF IsPublished
  <2>. HIDE DEF out
  <2>3. MeansAreRight /\ OneShapePerAverage
    BY DEF FramesIInv
  <2>. QED
    BY <2>1, <2>2, <2>3, FramesKept
<1>13. OnlyTheLastIsASum'
  <2> SUFFICES ASSUME NEW i \in DOMAIN Published', NEW j \in DOMAIN Published', i < j,
                      Published'[i].by = Published'[j].by
               PROVE  Published'[i].as = "mean"
    BY DEF OnlyTheLastIsASum
  <2>. HIDE DEF old
  <2>1. i \in 1 .. old + Len(out) /\ j \in 1 .. old + Len(out)
    BY <1>10
  <2>2. CASE j <= old
    <3>1. i \in 1 .. old /\ j \in 1 .. old /\ DOMAIN Published = 1 .. old
      BY <1>10, <2>1, <2>2 DEF old
    <3>. QED
      BY <1>10, <3>1 DEF FramesIInv, OnlyTheLastIsASum
  <2>3. CASE i <= old /\ j > old
    <3>1. i \in 1 .. old /\ j - old \in 1 .. Len(out) /\ old + (j - old) = j
      BY <1>1, <1>10, <2>1, <2>3
    <3>2. Published'[j] = out[j - old] /\ Published'[i] = Published[i]
      BY <1>10, <3>1
    <3>3. Published'[j].by = run
      BY <1>4, <3>1, <3>2 DEF IsPublished
    <3>4. Published[i] \in Elements(Published)
      BY <1>10, <3>1, InElements DEF old
    <3>. QED
      BY <1>0, <3>2, <3>3, <3>4 DEF PublishedInv
  <2>4. CASE i > old
    <3>1. i - old \in 1 .. Len(out) /\ old + (i - old) = i /\ i - old # Len(out)
      BY <1>1, <1>10, <2>1, <2>4, SMTT(20)
    <3>. QED
      BY <1>4, <1>10, <3>1
  <2>. QED
    BY <1>1, <1>10, <2>1, <2>2, <2>3, <2>4
<1>14. WriteDelayIsKept'
  BY <1>3 DEF FramesIInv, WriteDelayIsKept, Elements
<1>. QED
  BY <1>7, <1>8, <1>9, <1>11, <1>12, <1>13, <1>14 DEF FramesIInv

LEMMA FilterPassesKeeps ==
  ASSUME FramesIInv, FilterPasses
  PROVE  FramesIInv'
<1>1. PICK n \in 1 .. Len(filter_in) :
        /\ ~ PassOver(n).waits /\ Ends(PassOver(n), n)
        /\ running' = running \ {t \in {"filter"} : PassOver(n).failed}
  BY DEF FilterPasses
<1> DEFINE p == PassOver(n)
<1>2. /\ "filter" \in running /\ running' \subseteq running
      /\ UNCHANGED <<now, source, filter_window_frames, stored, run>>
  BY <1>1 DEF FilterPasses
<1>3. /\ n \in 0 .. Len(filter_in) /\ run \in 1 .. MaxRuns
      /\ TypeOK /\ ImagesInv /\ SumInv /\ PublishedInv
  BY <1>2 DEF FramesIInv, TypeOK, PublishedInv
<1>4. p \in GoodPass(n)
  BY <1>3, PassIsGood
<1>5. ~ p.waits /\ Ends(p, n) /\ running' = running \ {t \in {"filter"} : p.failed}
  BY <1>1
<1>. HIDE DEF p
<1>6. Finished(p, n)
  BY <1>4, <1>5 DEF GoodPass, Finished
<1>7. ASSUME "filter" \in running' PROVE \A k \in DOMAIN p.out : p.out[k].as = "mean"
  <2>1. ~ p.failed
    BY <1>5, <1>7
  <2>. QED
    BY <1>4, <2>1 DEF GoodPass
<1>. QED
  BY <1>2, <1>3, <1>5, <1>6, <1>7, EndKeeps

\* What is left of a window when the filter returns is published as a sum.
LEMMA LastIsFinished ==
  ASSUME TypeOK, NEW n \in 0 .. Len(filter_in), NEW p \in GoodPass(n), ~ p.waits
  PROVE  Finished(IF p.acc = NoFrame THEN p ELSE Publish(p, p.acc, "sum"), n)
<1>1. /\ p \in PassSet
      /\ Len(sink_in) + InUse(p) <= Regions
      /\ p.acc # NoFrame => IsSum(p.acc)
      /\ \A k \in DOMAIN p.out :
           IsPublished(p.out[k]) /\ (p.out[k].as = "mean" \/ (p.failed /\ k = Len(p.out)))
      /\ p.failed => p.acc = NoFrame
  BY DEF GoodPass
<1>2. CASE p.acc = NoFrame
  BY <1>1, <1>2 DEF Finished
<1>3. CASE p.acc # NoFrame
  <2> DEFINE q == Publish(p, p.acc, "sum")
             f == As(p.acc, "sum")
  <2>0. p.acc \in AnyFrame /\ p.out \in Seq(AnyFrame) /\ "sum" \in {"mean", "sum", "failure"}
    BY <1>1, <1>3 DEF PassSet
  <2>1. /\ q \in PassSet /\ q.acc = NoFrame /\ q.out = Append(p.out, f)
        /\ f \in AnyFrame /\ f.as = "sum"
    BY <1>1, <2>0, PublishIs, SMTT(20)
  <2>2. IsPublished(f)
    <3>1. f.by = p.acc.by /\ f.acq_thread = p.acc.acq_thread /\ f.of = p.acc.of /\ f.shape = p.acc.shape
      BY <2>0 DEF AnyFrame, As
    <3>. QED
      BY <1>1, <1>3, <2>1, <3>1 DEF IsPublished, IsSum, OfOneShape
  <2>. HIDE DEF q, f
  <2>3. \A k \in DOMAIN p.out : IsPublished(p.out[k]) /\ p.out[k].as = "mean"
    BY <1>1, <1>3
  <2>4. /\ Len(q.out) = Len(p.out) + 1
        /\ \A k \in DOMAIN q.out : IsPublished(q.out[k]) /\ (q.out[k].as = "mean" \/ k = Len(q.out))
    BY <2>0, <2>1, <2>2, <2>3, AppendPublished
  <2>5. Len(sink_in) + InUse(q) <= Regions
    <3>1. Len(p.out) \in Nat
      BY <2>0
    <3>2. InUse(p) = Len(p.out) + 1
      BY <1>3 DEF InUse
    <3>3. InUse(q) = Len(p.out) + 1
      BY <2>1, <2>4, <3>1 DEF InUse
    <3>. QED
      BY <1>1, <3>2, <3>3
  <2>6. Finished(q, n)
    BY <2>1, <2>4, <2>5 DEF Finished
  <2>. QED
    BY <1>3, <2>6 DEF q
<1>. QED
  BY <1>2, <1>3

LEMMA FilterExitsKeeps ==
  ASSUME FramesIInv, FilterExits
  PROVE  FramesIInv'
<1> DEFINE last(p) == IF p.acc = NoFrame THEN p ELSE Publish(p, p.acc, "sum")
<1>1. PICK n \in 0 .. Len(filter_in) : ~ PassOver(n).waits /\ Ends(last(PassOver(n)), n)
  BY DEF FilterExits
<1> DEFINE p == PassOver(n)
           q == last(p)
<1>2. /\ "filter" \in running /\ running' = running \ {"filter"}
      /\ UNCHANGED <<now, source, filter_window_frames, stored, run>>
  BY DEF FilterExits
<1>3. /\ run \in 1 .. MaxRuns /\ TypeOK /\ ImagesInv /\ SumInv /\ PublishedInv
  BY <1>2 DEF FramesIInv, TypeOK, PublishedInv
<1>4. p \in GoodPass(n) /\ ~ p.waits
  BY <1>1, <1>3, PassIsGood
<1>5. Ends(q, n)
  BY <1>1
<1>. HIDE DEF p
<1>6. Finished(q, n)
  BY <1>3, <1>4, LastIsFinished
<1>. HIDE DEF q
<1>7. "filter" \notin running' /\ running' \subseteq running
  BY <1>2
<1>. QED
  BY <1>2, <1>5, <1>6, <1>7, EndKeeps

-------------------------------------------------------------------------------
(* The steps of the sink.                                                  *)

\* The cursor of the split goes on to the first frame that is too young.
CursorOf(slice, cur) ==
  cur = [i \in 1 .. Len(slice) + 1 |->
           IF i > Len(slice) \/ TooYoung(slice[i]) THEN i - 1 ELSE cur[i + 1]]

LEMMA CursorExists ==
  ASSUME NEW slice \in Seq(AnyFrame)
  PROVE  \E cur : CursorOf(slice, cur)
<1> DEFINE end == Len(slice)
           Ahead(i) == {j \in i .. end + 1 : j > end \/ TooYoung(slice[j])}
           First(i) == CHOOSE j \in Ahead(i) : \A k \in Ahead(i) : j <= k
           g == [i \in 1 .. end + 1 |-> First(i) - 1]
<1>1. end \in Nat
  OBVIOUS
<1>. HIDE DEF end
<1>2. ASSUME NEW i \in 1 .. end + 1
      PROVE  First(i) \in Ahead(i) /\ \A k \in Ahead(i) : First(i) <= k
  <2>1. Ahead(i) \in SUBSET Nat /\ end + 1 \in Ahead(i)
    BY <1>1
  <2>2. \E j \in Ahead(i) : \A k \in Ahead(i) : j <= k
    <3>. HIDE DEF Ahead
    <3>. QED
      BY <2>1, LeastOf
  <2>. HIDE DEF Ahead
  <2>. QED
    BY <2>2
<1>3. ASSUME NEW i \in 1 .. end + 1
      PROVE  g[i] = IF i > end \/ TooYoung(slice[i]) THEN i - 1 ELSE g[i + 1]
  <2>1. CASE i > end \/ TooYoung(slice[i])
    <3>1. i \in Ahead(i)
      BY <1>1, <2>1
    <3>2. First(i) <= i /\ First(i) \in i .. end + 1
      <4>1. First(i) \in Ahead(i) /\ First(i) <= i
        BY <1>2, <3>1
      <4>. QED
        BY <4>1
    <3>. HIDE DEF First
    <3>3. First(i) = i
      BY <1>1, <3>2
    <3>. QED
      BY <2>1, <3>3
  <2>2. CASE ~ (i > end \/ TooYoung(slice[i]))
    <3>1. i + 1 \in 1 .. end + 1
      BY <1>1, <2>2
    <3>2. Ahead(i) = Ahead(i + 1)
      <4>1. \A j \in i .. end + 1 : j = i \/ j \in i + 1 .. end + 1
        BY <1>1
      <4>2. \A j \in i + 1 .. end + 1 : j \in i .. end + 1
        BY <1>1
      <4>. QED
        BY <2>2, <4>1, <4>2
    <3>3. First(i) = First(i + 1)
      <4>. HIDE DEF Ahead
      <4>. QED
        BY <3>2
    <3>. HIDE DEF First
    <3>. QED
      BY <2>2, <3>1, <3>3
  <2>. QED
    BY <2>1, <2>2
<1>4. g = [i \in 1 .. end + 1 |-> g[i]]
  OBVIOUS
<1>. HIDE DEF g
<1>5. CursorOf(slice, g)
  BY <1>3, <1>4 DEF CursorOf, end
<1>. QED
  BY <1>5

\* What the split consumes is old enough, all of it.
LEMMA SplitIs ==
  ASSUME NEW slice \in Seq(AnyFrame)
  PROVE  /\ SplitAtDelay(slice) \in 0 .. Len(slice)
         /\ WriteDelay # 0 => \A k \in 1 .. SplitAtDelay(slice) : ~ TooYoung(slice[k])
<1> DEFINE end == Len(slice)
           cur == CHOOSE cur : CursorOf(slice, cur)
<1>1. end \in Nat
  OBVIOUS
<1>2. CursorOf(slice, cur)
  BY CursorExists
<1>3. SplitAtDelay(slice) = IF WriteDelay = 0 THEN end ELSE cur[1]
  BY DEF SplitAtDelay, CursorOf
<1>. HIDE DEF cur
<1>4. \A i \in 1 .. end + 1 :
        cur[i] = IF i > end \/ TooYoung(slice[i]) THEN i - 1 ELSE cur[i + 1]
  BY <1>2 DEF CursorOf
<1>. HIDE DEF end
<1> DEFINE Right(i) == cur[i] \in i - 1 .. end /\ \A k \in i .. cur[i] : ~ TooYoung(slice[k])
           N == {m \in Nat : \A i \in 1 .. end + 1 : i + m = end + 1 => Right(i)}
<1>5. 0 \in N
  <2> SUFFICES ASSUME NEW i \in 1 .. end + 1, i + 0 = end + 1 PROVE Right(i)
    OBVIOUS
  <2>1. i > end /\ cur[i] = i - 1
    BY <1>1, <1>4
  <2>. QED
    BY <1>1, <2>1
<1>6. ASSUME NEW m \in Nat, m \in N PROVE m + 1 \in N
  <2> SUFFICES ASSUME NEW i \in 1 .. end + 1, i + (m + 1) = end + 1 PROVE Right(i)
    OBVIOUS
  <2>1. i + 1 \in 1 .. end + 1 /\ i + 1 + m = end + 1 /\ i <= end
    BY <1>1
  <2>2. CASE TooYoung(slice[i])
    <3>1. cur[i] = i - 1
      BY <1>4, <2>2
    <3>. QED
      BY <1>1, <2>1, <3>1
  <2>3. CASE ~ TooYoung(slice[i])
    <3>1. cur[i] = cur[i + 1]
      BY <1>1, <1>4, <2>1, <2>3
    <3>2. Right(i + 1)
      BY <1>6, <2>1
    <3>3. cur[i] \in i .. end
      BY <1>1, <2>1, <3>1, <3>2
    <3>4. \A k \in i .. cur[i] : k = i \/ k \in i + 1 .. cur[i + 1]
      BY <1>1, <3>1, <3>3
    <3>. QED
      BY <1>1, <2>1, <2>3, <3>2, <3>3, <3>4
  <2>. QED
    BY <2>2, <2>3
<1>7. Right(1)
  <2>1. end \in N
    <3>. HIDE DEF N
    <3>. QED
      BY <1>1, <1>5, <1>6, FromZero
  <2>2. 1 + end = end + 1 /\ 1 \in 1 .. end + 1
    BY <1>1
  <2>. HIDE DEF Right
  <2>. QED
    BY <2>1, <2>2
<1>8. CASE WriteDelay = 0
  BY <1>1, <1>3, <1>8 DEF end
<1>9. CASE WriteDelay # 0
  <2>1. SplitAtDelay(slice) = cur[1] /\ 1 - 1 = 0
    BY <1>3, <1>9
  <2>. QED
    BY <1>7, <2>1 DEF end
<1>. QED
  BY <1>8, <1>9

\* Frames go from the queue to the storage; what is published stays the same.
LEMMA StoresKeeps ==
  ASSUME FramesIInv, NEW n \in 0 .. Len(sink_in), NEW flush \in BOOLEAN, Stores(n, flush),
         running' \subseteq running,
         flush \/ \A k \in 1 .. n : sink_in[k].acq_thread + WriteDelay <= now,
         UNCHANGED <<now, source, filter_in, sums, filter_window_frames, run>>
  PROVE  FramesIInv'
<1> DEFINE new == [i \in 1 .. n |-> [frame |-> sink_in[i], at |-> now, flush |-> flush]]
<1>1. /\ TypeOK /\ ImagesInv /\ SumInv /\ PublishedInv
      /\ sink_in \in Seq(AnyFrame) /\ stored \in Seq(AnyStored) /\ n \in Nat
      /\ Len(sink_in) \in Nat /\ Len(stored) \in Nat /\ now \in 0 .. MaxTicks
  BY DEF FramesIInv, TypeOK
<1>2. /\ now' = now /\ iframe' = iframe /\ grabbed' = grabbed /\ camera' = camera
      /\ filter_in' = filter_in /\ region' = region /\ head' = head /\ accumulator' = accumulator
      /\ filter_window_frames' = filter_window_frames /\ run' = run
  BY DEF source, sums
<1>3. /\ new \in Seq(AnyStored) /\ Len(new) = n /\ DOMAIN new = 1 .. n
      /\ \A i \in 1 .. n : new[i] = [frame |-> sink_in[i], at |-> now, flush |-> flush]
  <2>1. \A i \in 1 .. n : sink_in[i] \in AnyFrame
    BY <1>1
  <2>2. \A i \in 1 .. n : [frame |-> sink_in[i], at |-> now, flush |-> flush] \in AnyStored
    BY <1>1, <2>1 DEF AnyStored
  <2>3. /\ new \in [1 .. n -> AnyStored] /\ DOMAIN new = 1 .. n
        /\ \A i \in 1 .. n : new[i] = [frame |-> sink_in[i], at |-> now, flush |-> flush]
    BY <2>2
  <2>. HIDE DEF new
  <2>4. new \in Seq(AnyStored)
    BY <1>1, <2>3, SeqDef
  <2>5. Len(new) = n
    BY <1>1, <2>3, <2>4, LenProperties
  <2>. QED
    BY <2>3, <2>4, <2>5
<1>4. /\ stored' = stored \o new
      /\ sink_in' = SubSeq(sink_in, n + 1, Len(sink_in))
  BY DEF Stores
<1>. HIDE DEF new
<1>5. /\ stored' \in Seq(AnyStored) /\ Len(stored') = Len(stored) + n
      /\ \A i \in 1 .. Len(stored) : stored'[i] = stored[i]
      /\ \A i \in 1 .. n : stored'[Len(stored) + i] = new[i]
      /\ Elements(stored') = Elements(stored) \cup Elements(new)
  <2>1. /\ stored \o new \in Seq(AnyStored) /\ Len(stored \o new) = Len(stored) + Len(new)
        /\ \A i \in 1 .. Len(stored) : (stored \o new)[i] = stored[i]
        /\ \A i \in 1 .. Len(new) : (stored \o new)[Len(stored) + i] = new[i]
        /\ Elements(stored \o new) = Elements(stored) \cup Elements(new)
    BY <1>1, <1>3, ElementsOfConcat, ZenonT(60)
  <2>. QED
    BY <1>3, <1>4, <2>1
<1>6. /\ sink_in' \in Seq(AnyFrame) /\ Len(sink_in') = Len(sink_in) - n
      /\ \A i \in 1 .. Len(sink_in') : sink_in'[i] = sink_in[n + i] /\ n + i \in 1 .. Len(sink_in)
      /\ Elements(sink_in') \subseteq Elements(sink_in)
  BY <1>1, <1>4, RestOfQueue
<1>7. TypeOK'
  <2>1. Len(sink_in') + (IF accumulator' = NoFrame THEN 0 ELSE 1) <= Regions
    <3> DEFINE one == IF accumulator = NoFrame THEN 0 ELSE 1
    <3>1. one \in Nat
      OBVIOUS
    <3>2. Len(sink_in) + one <= Regions
      BY <1>1 DEF TypeOK
    <3>. HIDE DEF one
    <3>3. Len(sink_in') + one <= Regions
      BY <1>1, <1>6, <3>1, <3>2, SizesAssumption
    <3>. QED
      BY <1>2, <3>3 DEF one
  <2>. QED
    BY <1>1, <1>2, <1>5, <1>6, <2>1 DEF TypeOK
<1>8. ImagesInv' /\ SumInv'
  BY <1>1, <1>2 DEF ImagesInv, SumInv, IsImage, Elements
<1>9. Published' = Published
  <2>1. /\ Published \in Seq(AnyFrame) /\ Len(Published) = Len(stored) + Len(sink_in)
        /\ \A i \in 1 .. Len(stored) : Published[i] = stored[i].frame
        /\ \A i \in 1 .. Len(sink_in) : Published[Len(stored) + i] = sink_in[i]
    BY <1>1, PublishedIs
  <2>2. /\ Published' \in Seq(AnyFrame) /\ Len(Published') = Len(stored') + Len(sink_in')
        /\ \A i \in 1 .. Len(stored') : Published'[i] = stored'[i].frame
        /\ \A i \in 1 .. Len(sink_in') : Published'[Len(stored') + i] = sink_in'[i]
    BY <1>7, PublishedIsNext
  <2>3. Len(Published') = Len(Published)
    BY <1>1, <1>5, <1>6, <2>1, <2>2
  <2>4. ASSUME NEW i \in 1 .. Len(Published) PROVE Published'[i] = Published[i]
    <3>1. CASE i \in 1 .. Len(stored)
      <4>1. i \in 1 .. Len(stored') /\ Published'[i] = stored'[i].frame
        BY <1>1, <1>5, <2>2, <3>1
      <4>. QED
        BY <1>5, <2>1, <3>1, <4>1
    <3>2. CASE i \in Len(stored) + 1 .. Len(stored) + n
      <4>1. /\ i - Len(stored) \in 1 .. n /\ Len(stored) + (i - Len(stored)) = i
            /\ i \in 1 .. Len(stored') /\ i - Len(stored) \in 1 .. Len(sink_in)
        BY <1>1, <1>5, <3>2
      <4>2. Published'[i] = stored'[i].frame /\ stored'[i] = new[i - Len(stored)]
        BY <1>5, <2>2, <4>1
      <4>3. new[i - Len(stored)].frame = sink_in[i - Len(stored)]
        BY <1>3, <4>1
      <4>4. Published[i] = sink_in[i - Len(stored)]
        BY <2>1, <4>1
      <4>. QED
        BY <4>2, <4>3, <4>4
    <3>3. CASE i \in Len(stored) + n + 1 .. Len(stored) + Len(sink_in)
      <4> DEFINE j == i - Len(stored')
      <4>1. /\ j \in 1 .. Len(sink_in') /\ Len(stored') + j = i
            /\ n + j \in 1 .. Len(sink_in) /\ Len(stored) + (n + j) = i
        BY <1>1, <1>5, <1>6, <3>3
      <4>. HIDE DEF j
      <4>2. Published'[i] = sink_in'[j] /\ sink_in'[j] = sink_in[n + j]
        BY <1>6, <2>2, <4>1
      <4>3. Published[i] = sink_in[n + j]
        BY <2>1, <4>1
      <4>. QED
        BY <4>2, <4>3
    <3>4. i \in 1 .. Len(stored) \/ i \in Len(stored) + 1 .. Len(stored) + n
          \/ i \in Len(stored) + n + 1 .. Len(stored) + Len(sink_in)
      BY <1>1, <2>1
    <3>. QED
      BY <3>1, <3>2, <3>3, <3>4
  <2>. QED
    BY <2>1, <2>2, <2>3, <2>4, SeqEqual
<1>10. PublishedInv'
  <2>1. running' # {} => run' >= 1
    BY <1>1, <1>2 DEF PublishedInv
  <2>2. \A f \in Elements(sink_in') : f.acq_thread <= now'
    BY <1>1, <1>2, <1>6 DEF PublishedInv
  <2>3. \A f \in Elements(Published') :
          f.by <= run' /\ (f.by = run' /\ "filter" \in running' => f.as = "mean")
    <3>1. Elements(Published') = Elements(Published)
      BY <1>9 DEF Elements
    <3>. QED
      BY <1>1, <1>2, <3>1 DEF PublishedInv
  <2>. QED
    BY <2>1, <2>2, <2>3 DEF PublishedInv, Elements
<1>11. MeansAreRight' /\ OneShapePerAverage'
  <2>1. Frames' = Elements(filter_in') \cup Elements(Published')
    BY <1>7, PublishedIsNext
  <2>2. Frames = Elements(filter_in) \cup Elements(Published)
    BY <1>1, PublishedIs
  <2>3. Frames' \subseteq Frames
    BY <1>2, <1>9, <2>1, <2>2 DEF Elements
  <2>4. MeansAreRight /\ OneShapePerAverage
    BY DEF FramesIInv
  <2>. QED
    BY <2>3, <2>4, FramesKept
<1>12. OnlyTheLastIsASum'
  BY <1>9 DEF FramesIInv, OnlyTheLastIsASum
<1>13. WriteDelayIsKept'
  <2> SUFFICES ASSUME NEW s \in Elements(stored')
               PROVE  s.flush \/ s.frame.acq_thread + WriteDelay <= s.at
    BY DEF WriteDelayIsKept, Elements
  <2>1. CASE s \in Elements(stored)
    BY <2>1 DEF FramesIInv, WriteDelayIsKept
  <2>2. CASE s \in Elements(new)
    <3>1. PICK k \in 1 .. n : s = new[k]
      BY <1>3, <2>2 DEF Elements
    <3>2. s.flush = flush /\ s.frame = sink_in[k] /\ s.at = now
      BY <1>3, <3>1
    <3>. QED
      BY <3>1, <3>2
  <2>. QED
    BY <1>5, <2>1, <2>2
<1>. QED
  BY <1>7, <1>8, <1>10, <1>11, <1>12, <1>13 DEF FramesIInv

LEMMA SinkPollsKeeps ==
  ASSUME FramesIInv, SinkPolls
  PROVE  FramesIInv'
<1>1. PICK m \in 1 .. Len(sink_in) : Stores(SplitAtDelay(SubSeq(sink_in, 1, m)), FALSE)
  BY DEF SinkPolls
<1> DEFINE slice == SubSeq(sink_in, 1, m)
           n == SplitAtDelay(slice)
<1>2. /\ sink_in \in Seq(AnyFrame) /\ Len(sink_in) \in Nat /\ now \in 0 .. MaxTicks
      /\ WriteDelay \in Nat
  BY SizesAssumption DEF FramesIInv, TypeOK
<1>3. /\ slice \in Seq(AnyFrame) /\ Len(slice) = m
      /\ \A k \in 1 .. m : slice[k] = sink_in[k]
  BY <1>2
<1>4. Stores(n, FALSE)
  BY <1>1
<1>. HIDE DEF slice
<1>5. n \in 0 .. m /\ (WriteDelay # 0 => \A k \in 1 .. n : ~ TooYoung(slice[k]))
  BY <1>3, SplitIs
<1>. HIDE DEF n
<1>6. ASSUME NEW k \in 1 .. n PROVE sink_in[k].acq_thread + WriteDelay <= now
  <2>1. k \in 1 .. m /\ k \in 1 .. Len(sink_in)
    BY <1>2, <1>5
  <2>2. sink_in[k] \in Elements(sink_in) /\ sink_in[k] \in AnyFrame
    BY <1>2, <2>1, InElements
  <2>3. sink_in[k].acq_thread \in Nat /\ sink_in[k].acq_thread <= now
    BY <2>2 DEF AnyFrame, FramesIInv, PublishedInv
  <2>4. CASE WriteDelay = 0
    BY <2>3, <2>4
  <2>5. CASE WriteDelay # 0
    <3>1. ~ (sink_in[k].acq_thread > now - WriteDelay)
      BY <1>3, <1>5, <2>1, <2>5 DEF TooYoung
    <3>. QED
      BY <1>2, <2>3, <3>1
  <2>. QED
    BY <2>4, <2>5
<1>7. n \in 0 .. Len(sink_in)
  BY <1>2, <1>5
<1>8. UNCHANGED <<now, running, source, filter_in, sums, filter_window_frames, run>>
  BY DEF SinkPolls
<1>. QED
  BY <1>4, <1>6, <1>7, <1>8, StoresKeeps

LEMMA SinkExitsKeeps ==
  ASSUME FramesIInv, SinkExits
  PROVE  FramesIInv'
<1>1. /\ Stores(Len(sink_in), TRUE) /\ running' \subseteq running
      /\ UNCHANGED <<now, source, filter_in, sums, filter_window_frames, run>>
  BY DEF SinkExits
<1>2. Len(sink_in) \in 0 .. Len(sink_in)
  BY DEF FramesIInv, TypeOK
<1>. QED
  BY <1>1, <1>2, StoresKeeps

-------------------------------------------------------------------------------
(* The other steps.                                                        *)

LEMMA SourceWritesKeeps ==
  ASSUME FramesIInv, SourceWrites
  PROVE  FramesIInv'
<1> DEFINE id == grabbed + 1
           im == [id |-> id, shape |-> camera.shape]
           f == [frame_id |-> iframe, acq_thread |-> now, shape |-> camera.shape,
                 pixels |-> Pixel[id], of |-> {im}, as |-> "image", by |-> run, blank |-> TRUE]
<1>1. /\ "source" \in running /\ iframe < MaxFrames /\ id <= MaxGrabbed
      /\ filter_in' = Append(filter_in, f) /\ iframe' = iframe + 1 /\ grabbed' = id
      /\ now' = now /\ running' = running /\ camera' = camera /\ sink_in' = sink_in
      /\ region' = region /\ head' = head /\ accumulator' = accumulator
      /\ filter_window_frames' = filter_window_frames /\ stored' = stored /\ run' = run
  BY DEF SourceWrites, sums
<1>2. /\ TypeOK /\ ImagesInv /\ SumInv /\ PublishedInv
  BY DEF FramesIInv
<1>3. /\ now \in 0 .. MaxTicks /\ run \in 1 .. MaxRuns /\ iframe \in 0 .. MaxFrames - 1
      /\ grabbed \in Nat /\ id \in 1 .. MaxGrabbed /\ camera.shape \in Shapes
      /\ filter_in \in Seq(AnyFrame) /\ iframe' \in 0 .. MaxFrames /\ grabbed' \in 0 .. MaxGrabbed
  <2>1. run \in 1 .. MaxRuns
    BY <1>1, <1>2 DEF TypeOK, PublishedInv
  <2>2. MaxFrames \in Nat /\ MaxGrabbed \in Nat
    BY SizesAssumption, TicksAssumption
  <2>. QED
    BY <1>1, <1>2, <2>1, <2>2 DEF TypeOK
<1>4. f \in AnyFrame
  <2>1. im \in Images /\ Pixel[id] \in Nat
    BY <1>3, PixelAssumption DEF Images
  <2>. HIDE DEF im, id
  <2>. QED
    BY <1>3, <2>1 DEF AnyFrame
<1>5. /\ f.of = {im} /\ f.pixels = Pixel[id] /\ f.as = "image" /\ f.acq_thread = now
      /\ f.shape = camera.shape /\ im.id = id /\ im.shape = camera.shape
  OBVIOUS
<1>6. /\ filter_in' \in Seq(AnyFrame) /\ Len(filter_in') = Len(filter_in) + 1
      /\ Len(filter_in) \in Nat
      /\ \A i \in 1 .. Len(filter_in) : filter_in'[i] = filter_in[i]
      /\ filter_in'[Len(filter_in) + 1] = f
  <2>. HIDE DEF f
  <2>. QED
    BY <1>1, <1>3, <1>4
<1> HIDE DEF f
<1>7. Elements(filter_in') \subseteq Elements(filter_in) \cup {f}
  <2> SUFFICES ASSUME NEW g \in Elements(filter_in') PROVE g \in Elements(filter_in) \cup {f}
    OBVIOUS
  <2>1. PICK i \in 1 .. Len(filter_in') : g = filter_in'[i]
    BY <1>6, InElements
  <2>2. i \in 1 .. Len(filter_in) \/ i = Len(filter_in) + 1
    BY <1>6
  <2>3. \A j \in 1 .. Len(filter_in) : filter_in[j] \in Elements(filter_in)
    BY <1>3, InElements
  <2>. QED
    BY <1>6, <2>1, <2>2, <2>3
<1>8. TypeOK'
  BY <1>1, <1>2, <1>3, <1>6 DEF TypeOK
<1>9. ASSUME NEW g \in Elements(filter_in) PROVE IsImage(g)' /\ Earlier(g, f)
  <2>1. PICK jd \in 1 .. grabbed :
          /\ g.of = {[id |-> jd, shape |-> g.shape]} /\ g.pixels = Pixel[jd]
          /\ g.as = "image" /\ g.acq_thread <= now
    BY <1>2 DEF ImagesInv, IsImage
  <2>2. jd \in 1 .. grabbed' /\ jd < id
    BY <1>1, <1>3
  <2>3. IsImage(g)'
    BY <1>1, <2>1, <2>2 DEF IsImage
  <2>4. [id |-> jd, shape |-> g.shape].id = jd
    OBVIOUS
  <2>. HIDE DEF im
  <2>5. Earlier(g, f)
    BY <1>5, <2>1, <2>2, <2>4 DEF Earlier
  <2>. QED
    BY <2>3, <2>5
<1>10. ImagesInv'
  <2>1. ASSUME NEW g, g = f PROVE IsImage(g)'
    <3>1. id \in 1 .. grabbed' /\ now <= now'
      BY <1>1, <1>3
    <3>2. /\ g.of = {[id |-> id, shape |-> g.shape]} /\ g.pixels = Pixel[id]
          /\ g.as = "image" /\ g.acq_thread <= now'
      BY <1>5, <2>1, <3>1
    <3>. QED
      BY <3>1, <3>2 DEF IsImage
  <2>2. \A g \in Elements(filter_in') : IsImage(g)'
    BY <1>7, <1>9, <2>1
  <2>3. ASSUME NEW i \in DOMAIN filter_in', NEW j \in DOMAIN filter_in', i < j
        PROVE  Earlier(filter_in'[i], filter_in'[j])
    <3>1. i \in 1 .. Len(filter_in) /\ j \in 1 .. Len(filter_in) + 1
      BY <1>6, <2>3
    <3>2. filter_in'[i] = filter_in[i] /\ filter_in[i] \in Elements(filter_in)
      BY <1>3, <1>6, <3>1, InElements
    <3>3. CASE j \in 1 .. Len(filter_in)
      <4>1. filter_in'[j] = filter_in[j] /\ DOMAIN filter_in = 1 .. Len(filter_in)
        BY <1>3, <1>6, <3>3
      <4>. QED
        BY <1>2, <2>3, <3>1, <3>2, <3>3, <4>1 DEF ImagesInv
    <3>4. CASE j = Len(filter_in) + 1
      BY <1>6, <1>9, <3>2, <3>4
    <3>. QED
      BY <1>6, <3>1, <3>3, <3>4
  <2>. QED
    BY <2>2, <2>3 DEF ImagesInv, Elements
<1>11. SumInv'
  <2> SUFFICES ASSUME accumulator # NoFrame
               PROVE  /\ accumulator.by = run /\ accumulator.acq_thread <= now
                      /\ OfOneShape(accumulator) /\ \A jm \in accumulator.of : jm.id <= id
                      /\ \A g \in Elements(filter_in') : Earlier(accumulator, g)
                      /\ accumulator.blank => accumulator.pixels = SumOf(accumulator.of)
    BY <1>1 DEF SumInv, Elements
  <2>1. /\ accumulator.by = run /\ accumulator.acq_thread <= now
        /\ OfOneShape(accumulator) /\ \A jm \in accumulator.of : jm.id <= grabbed
        /\ \A g \in Elements(filter_in) : Earlier(accumulator, g)
        /\ accumulator.blank => accumulator.pixels = SumOf(accumulator.of)
    BY <1>2 DEF SumInv
  <2>2. \A jm \in accumulator.of : jm.id \in Nat
    BY <1>2 DEF TypeOK, AnyFrame, Images, NoFrame
  <2>3. \A jm \in accumulator.of : jm.id <= id /\ jm.id < id
    BY <1>3, <2>1, <2>2
  <2>4. Earlier(accumulator, f)
    BY <1>5, <2>3 DEF Earlier
  <2>. QED
    BY <1>7, <2>1, <2>3, <2>4
<1>12. Published' = Published
  BY <1>1 DEF Published
<1>13. PublishedInv'
  BY <1>1, <1>2, <1>12 DEF PublishedInv, Elements
<1>14. MeansAreRight' /\ OneShapePerAverage'
  <2>1. Frames' \subseteq Frames \cup {f}
    BY <1>1, <1>7 DEF Frames, Elements
  <2>2. OfOneShape(f) /\ f.as # "mean"
    BY <1>5 DEF OfOneShape
  <2>3. MeansAreRight /\ OneShapePerAverage
    BY DEF FramesIInv
  <2>. QED
    BY <2>1, <2>2, <2>3, FramesKept
<1>15. OnlyTheLastIsASum' /\ WriteDelayIsKept'
  BY <1>1, <1>12 DEF FramesIInv, OnlyTheLastIsASum, WriteDelayIsKept, Elements
<1>. QED
  BY <1>8, <1>10, <1>11, <1>13, <1>14, <1>15 DEF FramesIInv

\* A run begins: no frame is of it yet.
LEMMA StartKeeps ==
  ASSUME FramesIInv, Start
  PROVE  FramesIInv'
<1>1. /\ run < MaxRuns /\ run' = run + 1 /\ running' = Threads
      /\ iframe' = 0 /\ accumulator' = NoFrame /\ stored' = <<>>
      /\ now' = now /\ grabbed' = grabbed /\ camera' = camera
      /\ filter_in' = filter_in /\ sink_in' = sink_in /\ region' = region /\ head' = head
      /\ filter_window_frames' = filter_window_frames
  BY DEF Start, queues
<1>2. /\ TypeOK /\ ImagesInv /\ SumInv /\ PublishedInv
      /\ run \in 0 .. MaxRuns /\ sink_in \in Seq(AnyFrame) /\ Len(sink_in) \in Nat
      /\ MaxRuns \in Nat /\ MaxFrames \in Nat /\ Regions \in Nat
  BY SizesAssumption, TicksAssumption DEF FramesIInv, TypeOK
<1>3. TypeOK'
  <2>1. Len(sink_in') + (IF accumulator' = NoFrame THEN 0 ELSE 1) <= Regions
    <3> DEFINE one == IF accumulator = NoFrame THEN 0 ELSE 1
    <3>1. one \in Nat /\ Len(sink_in) + one <= Regions
      BY <1>2 DEF TypeOK
    <3>. HIDE DEF one
    <3>2. Len(sink_in) + 0 <= Regions
      BY <1>2, <3>1
    <3>. QED
      BY <1>1, <3>2
  <2>2. stored' \in Seq(AnyStored) /\ run' \in 0 .. MaxRuns /\ iframe' \in 0 .. MaxFrames
    BY <1>1, <1>2
  <2>. QED
    BY <1>1, <1>2, <2>1, <2>2 DEF TypeOK
<1>4. ImagesInv' /\ SumInv'
  BY <1>1, <1>2 DEF ImagesInv, SumInv, IsImage, Elements
<1>5. /\ Published \in Seq(AnyFrame) /\ Len(Published) = Len(stored) + Len(sink_in)
      /\ Len(stored) \in Nat
      /\ \A i \in 1 .. Len(sink_in) : Published[Len(stored) + i] = sink_in[i]
      /\ Frames = Elements(filter_in) \cup Elements(Published)
      /\ Elements(sink_in) \subseteq Elements(Published)
  BY <1>2, PublishedIs
<1>6. /\ Published' \in Seq(AnyFrame) /\ Len(Published') = Len(sink_in)
      /\ \A i \in 1 .. Len(sink_in) : Published'[i] = sink_in[i]
      /\ Frames' = Elements(filter_in) \cup Elements(Published')
      /\ Elements(Published') = Elements(sink_in)
  <2>1. /\ Published' \in Seq(AnyFrame) /\ Len(Published') = Len(stored') + Len(sink_in')
        /\ \A i \in 1 .. Len(sink_in') : Published'[Len(stored') + i] = sink_in'[i]
        /\ Frames' = Elements(filter_in') \cup Elements(Published')
    BY <1>3, PublishedIsNext
  <2>2. Len(stored') = 0 /\ \A i \in 1 .. Len(sink_in) : 0 + i = i
    BY <1>1
  <2>3. /\ Len(Published') = Len(sink_in)
        /\ \A i \in 1 .. Len(sink_in) : Published'[i] = sink_in[i]
    BY <1>1, <1>2, <2>1, <2>2
  <2>4. Elements(filter_in') = Elements(filter_in)
    BY <1>1 DEF Elements
  <2>5. Published' = sink_in
    BY <1>2, <2>1, <2>3, SeqEqual
  <2>. QED
    BY <2>1, <2>3, <2>4, <2>5 DEF Elements
<1>7. PublishedInv'
  <2>1. \A f \in Elements(Published) : f \in AnyFrame /\ f.by \in Nat /\ f.by <= run
    <3>1. \A f \in Elements(Published) : f \in AnyFrame /\ f.by <= run
      BY <1>2, <1>5, InElements DEF PublishedInv
    <3>2. \A f \in AnyFrame : f.by \in Nat
      BY DEF AnyFrame
    <3>. QED
      BY <3>1, <3>2
  <2>2. \A f \in Elements(Published') : f.by <= run' /\ f.by # run'
    BY <1>1, <1>2, <1>5, <1>6, <2>1
  <2>3. run' >= 1
    BY <1>1, <1>2
  <2>4. \A f \in Elements(sink_in') : f.acq_thread <= now'
    BY <1>1, <1>2 DEF PublishedInv, Elements
  <2>. QED
    BY <2>2, <2>3, <2>4 DEF PublishedInv, Elements
<1>8. MeansAreRight' /\ OneShapePerAverage'
  <2>1. Frames' \subseteq Frames
    BY <1>5, <1>6
  <2>2. MeansAreRight /\ OneShapePerAverage
    BY DEF FramesIInv
  <2>. QED
    BY <2>1, <2>2, FramesKept
<1>9. OnlyTheLastIsASum'
  <2> SUFFICES ASSUME NEW i \in DOMAIN Published', NEW j \in DOMAIN Published', i < j,
                      Published'[i].by = Published'[j].by
               PROVE  Published'[i].as = "mean"
    BY DEF OnlyTheLastIsASum
  <2> DEFINE k == Len(stored) + i
             l == Len(stored) + j
  <2>1. i \in 1 .. Len(sink_in) /\ j \in 1 .. Len(sink_in)
    BY <1>6
  <2>2. k \in DOMAIN Published /\ l \in DOMAIN Published /\ k < l
    BY <1>2, <1>5, <2>1
  <2>3. Published[k] = Published'[i] /\ Published[l] = Published'[j]
    BY <1>5, <1>6, <2>1
  <2>. HIDE DEF k, l
  <2>. QED
    BY <2>2, <2>3 DEF FramesIInv, OnlyTheLastIsASum
<1>10. WriteDelayIsKept'
  BY <1>1 DEF WriteDelayIsKept, Elements
<1>. QED
  BY <1>3, <1>4, <1>7, <1>8, <1>9, <1>10 DEF FramesIInv

\* Nothing moves: the clock may go on, threads return, the configuration change.
LEMMA OthersKeep ==
  ASSUME FramesIInv, now' \in 0 .. MaxTicks, now <= now', running' \subseteq running,
         camera' \in [type : SampleTypes, shape : Shapes],
         filter_window_frames' \in Windows,
         UNCHANGED <<iframe, grabbed, queues, sums, stored, run>>
  PROVE  FramesIInv'
<1>1. /\ iframe' = iframe /\ grabbed' = grabbed /\ filter_in' = filter_in /\ sink_in' = sink_in
      /\ region' = region /\ head' = head /\ accumulator' = accumulator
      /\ stored' = stored /\ run' = run
  BY DEF queues, sums
<1>2. TypeOK /\ ImagesInv /\ SumInv /\ PublishedInv /\ now \in Nat /\ now' \in Nat
  BY TicksAssumption DEF FramesIInv, TypeOK
<1>3. TypeOK'
  BY <1>1, <1>2 DEF TypeOK, Threads
<1>4. /\ Elements(filter_in') = Elements(filter_in) /\ Elements(sink_in') = Elements(sink_in)
      /\ Elements(stored') = Elements(stored) /\ Published' = Published
      /\ Elements(Published') = Elements(Published) /\ Frames' = Frames
  BY <1>1 DEF Elements, Published, Frames
<1>5. \A f \in AnyFrame : f.acq_thread <= now => f.acq_thread <= now'
  BY <1>2 DEF AnyFrame
<1>6. ImagesInv'
  <2>1. ASSUME NEW f \in Elements(filter_in) PROVE IsImage(f)'
    <3>1. f \in AnyFrame /\ IsImage(f)
      BY <1>2, InElements DEF TypeOK, ImagesInv
    <3>. QED
      BY <1>1, <1>5, <3>1 DEF IsImage
  <2>. QED
    BY <1>1, <1>2, <1>4, <2>1 DEF ImagesInv
<1>7. SumInv'
  BY <1>1, <1>2, <1>4, <1>5 DEF SumInv, TypeOK
<1>8. PublishedInv'
  <2>1. \A f \in Elements(sink_in) : f \in AnyFrame
    BY <1>2, InElements DEF TypeOK
  <2>. QED
    BY <1>1, <1>2, <1>4, <1>5, <2>1 DEF PublishedInv
<1>9. MeansAreRight' /\ OneShapePerAverage' /\ OnlyTheLastIsASum' /\ WriteDelayIsKept'
  BY <1>1, <1>4 DEF FramesIInv, MeansAreRight, OneShapePerAverage, OnlyTheLastIsASum, WriteDelayIsKept
<1>. QED
  BY <1>3, <1>6, <1>7, <1>8, <1>9 DEF FramesIInv

-------------------------------------------------------------------------------
(* The invariant, and what follows from it.                                *)

LEMMA InitIsRight == Init => FramesIInv
<1> SUFFICES ASSUME Init PROVE FramesIInv
  OBVIOUS
<1>1. /\ now = 0 /\ running = {} /\ run = 0 /\ iframe = 0 /\ grabbed = 0
      /\ camera \in [type : SampleTypes, shape : Shapes]
      /\ filter_in = <<>> /\ sink_in = <<>> /\ stored = <<>>
      /\ region = [r \in 0 .. Regions - 1 |-> 0] /\ head = 0
      /\ accumulator = NoFrame /\ filter_window_frames \in Windows
  BY DEF Init
<1>2. TypeOK
  <2>1. /\ 0 \in 0 .. MaxTicks /\ 0 \in 0 .. MaxRuns /\ 0 \in 0 .. MaxFrames
        /\ 0 \in 0 .. MaxGrabbed /\ 0 \in 0 .. Regions - 1 /\ Regions \in Nat
    BY SizesAssumption, TicksAssumption
  <2>2. Len(sink_in) + (IF accumulator = NoFrame THEN 0 ELSE 1) <= Regions
    BY <1>1, <2>1
  <2>3. filter_in \in Seq(AnyFrame) /\ sink_in \in Seq(AnyFrame) /\ stored \in Seq(AnyStored)
    BY <1>1
  <2>4. region \in [0 .. Regions - 1 -> Nat]
    BY <1>1
  <2>. QED
    BY <1>1, <2>1, <2>2, <2>3, <2>4 DEF TypeOK, Threads
<1>3. Elements(filter_in) = {} /\ Elements(sink_in) = {} /\ Elements(stored) = {}
  BY <1>1 DEF Elements
<1>4. Len(Published) = 0 /\ Published \in Seq(AnyFrame)
  BY <1>1, <1>2, PublishedIs
<1>5. DOMAIN Published = {} /\ Elements(Published) = {}
  BY <1>4 DEF Elements
<1>6. Frames = {}
  BY <1>3 DEF Frames
<1>7. ImagesInv /\ SumInv /\ PublishedInv
  BY <1>1, <1>3, <1>5 DEF ImagesInv, SumInv, PublishedInv
<1>8. MeansAreRight /\ OnlyTheLastIsASum /\ OneShapePerAverage /\ WriteDelayIsKept
  BY <1>3, <1>5, <1>6 DEF MeansAreRight, OnlyTheLastIsASum, OneShapePerAverage, WriteDelayIsKept
<1>. QED
  BY <1>2, <1>7, <1>8 DEF FramesIInv

LEMMA StepKeeps == FramesIInv /\ [Next]_vars => FramesIInv'
<1> SUFFICES ASSUME FramesIInv, [Next]_vars PROVE FramesIInv'
  OBVIOUS
<1>1. /\ now \in 0 .. MaxTicks /\ now <= now
      /\ camera \in [type : SampleTypes, shape : Shapes] /\ filter_window_frames \in Windows
  BY TicksAssumption DEF FramesIInv, TypeOK
<1>2. CASE SourceWrites
  BY <1>2, SourceWritesKeeps
<1>3. CASE SourceExits
  <2>1. running' \subseteq running
    BY <1>3 DEF SourceExits
  <2>. QED
    BY <1>1, <1>3, <2>1, OthersKeep DEF SourceExits, source
<1>4. CASE FilterPasses
  BY <1>4, FilterPassesKeeps
<1>5. CASE FilterExits
  BY <1>5, FilterExitsKeeps
<1>6. CASE SinkPolls
  BY <1>6, SinkPollsKeeps
<1>7. CASE SinkExits
  BY <1>7, SinkExitsKeeps
<1>8. CASE Start
  BY <1>8, StartKeeps
<1>9. CASE Configure
  <2>1. /\ camera' \in [type : SampleTypes, shape : Shapes]
        /\ filter_window_frames' \in Windows
    BY <1>1, <1>9 DEF Configure
  <2>. QED
    BY <1>1, <1>9, <2>1, OthersKeep DEF Configure
<1>10. CASE Tick
  <2>1. now' \in 0 .. MaxTicks /\ now <= now'
    BY <1>1, <1>10, TicksAssumption DEF Tick
  <2>. QED
    BY <1>1, <1>10, <2>1, OthersKeep DEF Tick, source
<1>11. CASE UNCHANGED vars
  BY <1>1, <1>11, OthersKeep DEF vars, source
<1>. QED
  BY <1>2, <1>3, <1>4, <1>5, <1>6, <1>7, <1>8, <1>9, <1>10, <1>11 DEF Next

\* The invariant of Frames holds at every step: of whatever images, windows,
\* slices, ring of regions and number of runs.
THEOREM FramesInvariance == Spec => []FramesIInv
  BY InitIsRight, StepKeeps, PTL DEF Spec

\* The queues hold frames, no more of them are published than the ring of
\* sink.in has regions (with the one the accumulator has mapped).
THEOREM FramesTypeCorrect == Spec => []TypeOK
<1>1. FramesIInv => TypeOK
  BY DEF FramesIInv
<1>. QED
  BY <1>1, FramesInvariance, PTL

\* process_data: a frame published as an average, in a region that was blank, is
\* the mean of the images it adds up, over whatever slices they came in and
\* whatever the window was changed to meanwhile.
THEOREM MeansRight == Spec => []MeansAreRight
<1>1. FramesIInv => MeansAreRight
  BY DEF FramesIInv
<1>. QED
  BY <1>1, FramesInvariance, PTL

\* process_data, its failure and the flush at its end: only the last frame a
\* filter thread publishes in a run may not have been normalised.
THEOREM LastIsASum == Spec => []OnlyTheLastIsASum
<1>1. FramesIInv => OnlyTheLastIsASum
  BY DEF FramesIInv
<1>. QED
  BY <1>1, FramesInvariance, PTL

\* process_data drops the accumulator when the shape changes: no average adds
\* up images of another shape than its header says.
THEOREM OneShape == Spec => []OneShapePerAverage
<1>1. FramesIInv => OneShapePerAverage
  BY DEF FramesIInv
<1>. QED
  BY <1>1, FramesInvariance, PTL

\* vfslice_split_at_delay_ms, for whatever slice: nothing is appended to storage
\* before the delay has passed, but by the flush at the end.
THEOREM DelayKept == Spec => []WriteDelayIsKept
<1>1. FramesIInv => WriteDelayIsKept
  BY DEF FramesIInv
<1>. QED
  BY <1>1, FramesInvariance, PTL

===============================================================================
