---------------------------- MODULE RequestProof ----------------------------
(***************************************************************************)
(* A request, read from a connection that cuts it anywhere, is read as it  *)
(* was sent: proved for headers, caps and reads of any size.               *)
(*                                                                         *)
(* The first half is about texts.  What the operators of the library       *)
(* compute (FlattenSeq, Min, a fold, a prefix) is brought back to the      *)
(* tokens at the indices of a text, for they are recursive functions or    *)
(* choices; then the wire is: the headers, whose end cannot be seen before *)
(* it has come and not be missed afterwards (EndFound), and the chunks,    *)
(* each of which begins with a line that is found whole (LineTaken).       *)
(*                                                                         *)
(* The second half is the invariant (RequestInv).  At each place of the    *)
(* reader it says how much of the payload has been kept, and that what is  *)
(* in the buffer and what is to come are together what was sent from there *)
(* on (Delivered): a read moves tokens from one to the other               *)
(* (DeliverMore), the reader takes from the front (DeliverPast).  Of a     *)
(* connection that breaks off the reader may be past the end of what came, *)
(* with a beginning of the payload and nothing to come (Broken).           *)
(***************************************************************************)
EXTENDS Request, SequenceTheorems, FiniteSetTheorems, WellFoundedInduction, TLAPS

-----------------------------------------------------------------------------
(* Numbers and sequences.                                                  *)

(* The least of some natural numbers is one of them.                        *)
LEMMA LeastOf ==
  ASSUME NEW S, S \subseteq Nat, S # {}
  PROVE  Min(S) \in S /\ \A y \in S : Min(S) <= y
<1> DEFINE less == OpToRel(<, Nat)
<1>1. \A x, y \in Nat : <<x, y>> \in less <=> x < y
  BY DEF OpToRel
<1>2. IsWellFoundedOn(less, Nat)
  BY NatLessThanWellFounded
<1> HIDE DEF less
<1>3. PICK x \in S : \A y \in S : ~(<<y, x>> \in less)
  BY <1>2, WFMin
<1>4. ASSUME NEW y \in S PROVE x <= y
  <2>1. x \in Nat /\ y \in Nat
    OBVIOUS
  <2>2. ~(y < x)
    BY <1>1, <1>3, <2>1
  <2>3. QED
    BY <2>1, <2>2
<1>5. QED
  BY <1>4 DEF Min

(* What starts at some number and goes on from each to the next holds of    *)
(* all: the failures would have a least one.                                *)
LEMMA Steps ==
  ASSUME NEW n \in Nat, NEW Good, Good \subseteq Nat, 0 \in Good,
         \A m \in 0..(n - 1) : m \in Good => m + 1 \in Good
  PROVE  \A m \in 0..n : m \in Good
<1>1. SUFFICES ASSUME NEW x \in 0..n, x \notin Good PROVE FALSE
  OBVIOUS
<1> DEFINE Bad == {m \in 0..n : m \notin Good}
<1>2. Bad \subseteq Nat /\ x \in Bad
  BY <1>1
<1>3. Min(Bad) \in Bad /\ \A y \in Bad : Min(Bad) <= y
  BY <1>2, LeastOf
<1>4. PICK m \in Bad : \A y \in Bad : m <= y
  BY <1>3
<1>5. m \in 1..n
  BY <1>4
<1>6. m - 1 \in 0..(n - 1) /\ m - 1 \in Good
  BY <1>4, <1>5
<1>7. (m - 1) + 1 \in Good
  BY <1>6
<1>8. QED
  BY <1>4, <1>5, <1>7

(* A function on the first n numbers is a sequence of length n.             *)
LEMMA SeqOfFunction ==
  ASSUME NEW S, NEW n \in Nat, NEW f \in [1..n -> S]
  PROVE  f \in Seq(S) /\ Len(f) = n
<1>1. Seq(S) = UNION {[1..m -> S] : m \in Nat}
  OBVIOUS
<1>2. f \in Seq(S)
  BY <1>1, Zenon
<1>3. DOMAIN f = 1..n
  OBVIOUS
<1>4. QED
  BY <1>2, <1>3

-----------------------------------------------------------------------------
(* Flattening.                                                             *)

(* A sequence of texts is flattened from its front on: what the recursive   *)
(* function of the library says, which is one because it can be extended    *)
(* by every next text.                                                      *)
FlatBy(seqs, n, f) == f = [i \in 1..n |-> IF i = 1 THEN seqs[i] ELSE f[i - 1] \o seqs[i]]

(* Such a function, taken apart at one place.                               *)
LEMMA FlatAt ==
  ASSUME NEW seqs, NEW n \in Nat, NEW f, FlatBy(seqs, n, f), NEW i \in 1..n
  PROVE  f[i] = IF i = 1 THEN seqs[i] ELSE f[i - 1] \o seqs[i]
<1> DEFINE g == [j \in 1..n |-> IF j = 1 THEN seqs[j] ELSE f[j - 1] \o seqs[j]]
<1>1. g[i] = IF i = 1 THEN seqs[i] ELSE f[i - 1] \o seqs[i]
  OBVIOUS
<1>2. f = g
  BY Zenon DEF FlatBy
<1>3. QED
  BY ONLY <1>1, <1>2, Zenon

(* There is one for every number of texts: the one for n texts is extended  *)
(* by the text that is next.                                                *)
LEMMA FlatExists ==
  ASSUME NEW seqs, NEW n \in Nat
  PROVE  \E f : FlatBy(seqs, n, f)
<1> DEFINE Good == {m \in Nat : \E f : FlatBy(seqs, m, f)}
<1>1. 0 \in Good
  <2>1. FlatBy(seqs, 0, [i \in 1..0 |-> {}])
    BY DEF FlatBy
  <2>2. QED
    BY <2>1
<1>2. ASSUME NEW m \in 0..(n - 1), m \in Good PROVE m + 1 \in Good
  <2>1. PICK f : FlatBy(seqs, m, f)
    BY <1>2
  <2> DEFINE g == [i \in 1..(m + 1) |-> IF i <= m THEN f[i]
                                        ELSE IF i = 1 THEN seqs[i] ELSE f[i - 1] \o seqs[i]]
  <2>2. ASSUME NEW i \in 1..(m + 1)
        PROVE  g[i] = IF i = 1 THEN seqs[i] ELSE g[i - 1] \o seqs[i]
    <3>1. CASE i <= m
      <4>1. f[i] = IF i = 1 THEN seqs[i] ELSE f[i - 1] \o seqs[i]
        <5>1. i \in 1..m
          BY <3>1
        <5>2. QED
          BY <2>1, <5>1, FlatAt
      <4>2. i # 1 => g[i - 1] = f[i - 1]
        BY <3>1
      <4>3. QED
        BY <3>1, <4>1, <4>2
    <3>2. CASE i = m + 1
      <4>1. i # 1 => g[i - 1] = f[i - 1]
        BY <3>2
      <4>2. QED
        BY <3>2, <4>1
    <3>3. QED
      BY <3>1, <3>2
  <2> HIDE DEF g
  <2>3. g = [i \in 1..(m + 1) |-> g[i]]
    BY DEF g
  <2>4. FlatBy(seqs, m + 1, g)
    BY <2>2, <2>3 DEF FlatBy
  <2>5. QED
    BY <2>4
<1>3. QED
  <2> HIDE DEF Good
  <2>1. Good \subseteq Nat
    BY DEF Good
  <2>2. n \in 0..n
    OBVIOUS
  <2>3. \A m \in 0..n : m \in Good
    BY <1>1, <1>2, <2>1, Steps, Zenon
  <2>4. QED
    BY <2>2, <2>3 DEF Good

(* What FlattenSeq returns is the last value of such a function.            *)
LEMMA FlattenValue ==
  ASSUME NEW seqs, NEW n \in Nat \ {0}, Len(seqs) = n
  PROVE  \E f : /\ FlattenSeq(seqs) = f[n]
                /\ f[1] = seqs[1]
                /\ \A i \in 2..n : f[i] = f[i - 1] \o seqs[i]
<1>1. PICK f : FlatBy(seqs, n, f) /\ FlattenSeq(seqs) = f[n]
  <2> DEFINE flat == CHOOSE f : FlatBy(seqs, n, f)
  <2>1. FlatBy(seqs, n, flat)
    BY FlatExists
  <2>2. FlattenSeq(seqs) = flat[n]
    BY DEF FlattenSeq, FlatBy
  <2>3. QED
    BY ONLY <2>1, <2>2
<1>2. \A i \in 1..n : f[i] = IF i = 1 THEN seqs[i] ELSE f[i - 1] \o seqs[i]
  BY <1>1, FlatAt
<1>3. f[1] = seqs[1]
  BY <1>2
<1>4. ASSUME NEW i \in 2..n PROVE f[i] = f[i - 1] \o seqs[i]
  <2>1. i \in 1..n /\ i # 1
    OBVIOUS
  <2>2. f[i] = IF i = 1 THEN seqs[i] ELSE f[i - 1] \o seqs[i]
    BY <1>2, <2>1, Zenon
  <2>3. QED
    BY ONLY <2>1, <2>2, Zenon
<1>5. QED
  BY <1>1, <1>3, <1>4

(* Buffers flatten to a text.                                                 *)
LEMMA FlattenType ==
  ASSUME NEW S, NEW seqs \in Seq(Seq(S))
  PROVE  FlattenSeq(seqs) \in Seq(S)
<1>1. PICK n \in Nat : n = Len(seqs)
  OBVIOUS
<1>2. CASE n = 0
  <2>1. FlattenSeq(seqs) = seqs
    BY <1>1, <1>2 DEF FlattenSeq
  <2>2. seqs = <<>>
    BY <1>1, <1>2, EmptySeq
  <2>3. QED
    BY <2>1, <2>2
<1>3. CASE n # 0
  <2>1. n \in Nat \ {0}
    BY <1>3
  <2>2. PICK f : /\ FlattenSeq(seqs) = f[n]
                 /\ f[1] = seqs[1]
                 /\ \A i \in 2..n : f[i] = f[i - 1] \o seqs[i]
    BY <1>1, <2>1, FlattenValue
  <2> DEFINE Good == {m \in Nat : m = 0 \/ f[m] \in Seq(S)}
  <2>3. ASSUME NEW m \in 0..(n - 1), m \in Good PROVE m + 1 \in Good
    <3>1. PICK j \in 1..n : j = m + 1
      OBVIOUS
    <3>2. seqs[j] \in Seq(S)
      BY <1>1
    <3>3. f[j] \in Seq(S)
      <4>1. CASE m = 0
        BY <2>2, <3>1, <3>2, <4>1
      <4>2. CASE m # 0
        <5>1. j \in 2..n /\ j - 1 = m
          BY <3>1, <4>2
        <5>2. f[j] = f[j - 1] \o seqs[j] /\ f[m] \in Seq(S)
          BY <2>2, <2>3, <4>2, <5>1
        <5>3. QED
          BY <3>2, <5>1, <5>2
      <4>3. QED
        BY <4>1, <4>2
    <3>4. QED
      BY <3>1, <3>3
  <2>4. 0 \in Good /\ Good \subseteq Nat
    OBVIOUS
  <2> HIDE DEF Good
  <2>5. \A m \in 0..n : m \in Good
    BY ONLY <2>3, <2>4, n \in Nat, Steps
  <2>6. n \in Good
    BY <2>5
  <2>7. QED
    BY <2>1, <2>2, <2>6 DEF Good
<1>4. QED
  BY <1>2, <1>3

(* The first of the texts comes first.                                      *)
LEMMA FlattenFirst ==
  ASSUME NEW S, NEW seqs \in Seq(Seq(S)), NEW tail \in Seq(Seq(S)),
         Len(seqs) = Len(tail) + 1,
         \A i \in 1..Len(tail) : seqs[i + 1] = tail[i]
  PROVE  FlattenSeq(seqs) = seqs[1] \o FlattenSeq(tail)
<1>1. PICK n \in Nat : n = Len(tail)
  OBVIOUS
<1>2. Len(seqs) = n + 1 /\ Len(seqs) \in Nat \ {0} /\ seqs[1] \in Seq(S)
  BY <1>1
<1>3. PICK f : /\ FlattenSeq(seqs) = f[n + 1]
               /\ f[1] = seqs[1]
               /\ \A i \in 2..(n + 1) : f[i] = f[i - 1] \o seqs[i]
  <2>1. PICK f : /\ FlattenSeq(seqs) = f[Len(seqs)]
                 /\ f[1] = seqs[1]
                 /\ \A i \in 2..Len(seqs) : f[i] = f[i - 1] \o seqs[i]
    BY <1>2, FlattenValue
  <2>2. QED
    BY <1>2, <2>1
<1>4. CASE n = 0
  <2>1. FlattenSeq(tail) = tail
    BY <1>1, <1>4 DEF FlattenSeq
  <2>2. tail = <<>>
    BY <1>1, <1>4, EmptySeq
  <2>3. seqs[1] \o <<>> = seqs[1]
    BY <1>2, ConcatEmptySeq
  <2>4. FlattenSeq(seqs) = seqs[1]
    BY <1>3, <1>4
  <2>5. QED
    BY <2>1, <2>2, <2>3, <2>4
<1>5. CASE n # 0
  <2>1. Len(tail) \in Nat \ {0}
    BY <1>1, <1>5
  <2>2. PICK g : /\ FlattenSeq(tail) = g[Len(tail)]
                 /\ g[1] = tail[1]
                 /\ \A i \in 2..Len(tail) : g[i] = g[i - 1] \o tail[i]
    BY <2>1, FlattenValue
  <2> DEFINE Good == {m \in Nat : m = 0 \/ (g[m] \in Seq(S) /\ f[m + 1] = seqs[1] \o g[m])}
  <2>3. ASSUME NEW m \in 0..(n - 1), m \in Good PROVE m + 1 \in Good
    <3>1. PICK j \in 1..n : j = m + 1
      BY <1>1
    <3>2. tail[j] \in Seq(S) /\ tail[j] = seqs[j + 1]
      BY <1>1, <3>1
    <3>3. f[j + 1] = f[j] \o tail[j]
      <4>1. PICK k \in 2..(n + 1) : k = j + 1 /\ k - 1 = j
        BY <3>1
      <4>2. f[k] = f[k - 1] \o seqs[k]
        BY <1>3
      <4>3. QED
        BY <3>2, <4>1, <4>2
    <3>4. g[j] \in Seq(S) /\ f[j + 1] = seqs[1] \o g[j]
      <4>1. CASE m = 0
        <5>1. j = 1 /\ g[j] = tail[j] /\ f[j] = seqs[1]
          BY <1>3, <2>2, <3>1, <4>1
        <5>2. QED
          BY <3>2, <3>3, <5>1
      <4>2. CASE m # 0
        <5>1. g[j] = g[m] \o tail[j]
          <6>1. j \in 2..Len(tail) /\ j - 1 = m
            BY <1>1, <3>1, <4>2
          <6>2. g[j] = g[j - 1] \o tail[j]
            BY <2>2, <6>1
          <6>3. QED
            BY <6>1, <6>2
        <5>2. g[m] \in Seq(S) /\ f[j] = seqs[1] \o g[m]
          BY <2>3, <3>1, <4>2
        <5> seqs[1] \in Seq(S) /\ g[m] \in Seq(S) /\ tail[j] \in Seq(S)
          BY <1>2, <3>2, <5>2
        <5>3. (seqs[1] \o g[m]) \o tail[j] = seqs[1] \o (g[m] \o tail[j])
          <6>1. PICK a \in Seq(S), b \in Seq(S), c \in Seq(S) :
                  a = seqs[1] /\ b = g[m] /\ c = tail[j]
            BY Zenon
          <6>2. (a \o b) \o c = a \o (b \o c)
            BY ONLY ConcatAssociative
          <6>3. QED
            BY <6>1, <6>2, Zenon
        <5>4. g[j] \in Seq(S)
          BY <3>2, <5>1, <5>2
        <5>5. QED
          BY <3>3, <5>1, <5>2, <5>3, <5>4
      <4>3. QED
        BY <4>1, <4>2
    <3>5. g[m + 1] \in Seq(S) /\ f[(m + 1) + 1] = seqs[1] \o g[m + 1]
      BY ONLY <3>1, <3>4, Zenon
    <3>6. m + 1 \in Nat
      OBVIOUS
    <3>7. QED
      BY ONLY <3>5, <3>6, Zenon
  <2>4. 0 \in Good /\ Good \subseteq Nat
    OBVIOUS
  <2> HIDE DEF Good
  <2>5. \A m \in 0..n : m \in Good
    BY ONLY <2>3, <2>4, n \in Nat, Steps
  <2>6. n \in Good /\ n = Len(tail)
    BY <1>1, <2>5
  <2>7. QED
    BY <1>3, <1>5, <2>2, <2>6 DEF Good
<1>6. QED
  BY <1>4, <1>5

-----------------------------------------------------------------------------
(* Adding up the sizes of at most four chunks.                             *)

(* The sum of the sizes of some chunks.                                     *)
Total(c) == FoldLeft(LAMBDA x, y : x + y, 0, c)

(* What the recursive function of the library says: the largest index is    *)
(* taken out, and its number is added to the sum of the others.             *)
SumBy(c, n, f) == f = [s \in SUBSET (1..n) |->
                        IF s = {} THEN 0 ELSE f[s \ {Max(s)}] + c[Max(s)]]

(* One of at most four numbers, and their sum.                              *)
At(c, n, i) == IF i <= n THEN c[i] ELSE 0
Sum4(c, n) == At(c, n, 1) + At(c, n, 2) + At(c, n, 3) + At(c, n, 4)

(* The largest of some of the first n numbers is one of them.               *)
LEMMA LargestOf ==
  ASSUME NEW n \in Nat, NEW s, s \subseteq 1..n, s # {}
  PROVE  Max(s) \in s /\ \A y \in s : y <= Max(s)
<1> DEFINE Upper == {m \in Nat : \A y \in s : y <= m}
<1>1. Upper \subseteq Nat /\ n \in Upper
  OBVIOUS
<1>2. PICK b \in Upper : \A m \in Upper : b <= m
  BY <1>1, LeastOf, Zenon
<1>3. b \in Nat /\ \A y \in s : y \in Nat /\ y <= b
  OBVIOUS
<1>4. b \in s
  <2>1. SUFFICES ASSUME b \notin s PROVE FALSE
    OBVIOUS
  <2>2. \A y \in s : y \in 1..n /\ y <= b - 1
    BY <1>3, <2>1
  <2>3. b - 1 \in Nat
    <3>1. PICK y \in s : TRUE
      OBVIOUS
    <3>2. y \in 1..n /\ y <= b - 1
      BY <2>2
    <3>3. QED
      BY <1>3, <3>2
  <2>4. b - 1 \in Upper
    BY <2>2, <2>3
  <2>5. QED
    BY <1>2, <1>3, <2>4
<1>5. Max(s) \in s /\ \A y \in s : Max(s) >= y
  BY <1>3, <1>4 DEF Max
<1>6. QED
  BY <1>3, <1>5

(* There is such a function for the sizes of at most four chunks.           *)
LEMMA SumExists ==
  ASSUME NEW n \in 0..4, NEW c \in [1..n -> Nat]
  PROVE  \E f : SumBy(c, n, f)
<1> DEFINE part(s, i) == IF i \in s THEN c[i] ELSE 0
           f == [s \in SUBSET (1..n) |-> part(s, 1) + part(s, 2) + part(s, 3) + part(s, 4)]
<1>1. ASSUME NEW s \in SUBSET (1..n)
      PROVE  f[s] = IF s = {} THEN 0 ELSE f[s \ {Max(s)}] + c[Max(s)]
  <2>1. CASE s = {}
    BY <2>1
  <2>2. CASE s # {}
    <3>1. PICK x \in 1..4 : x = Max(s) /\ x \in s /\ x \in 1..n
      <4>1. s \subseteq 1..n /\ n \in Nat
        OBVIOUS
      <4>2. Max(s) \in s
        BY <2>2, <4>1, LargestOf
      <4>3. Max(s) \in 1..n
        BY <4>1, <4>2, Zenon
      <4> HIDE DEF f
      <4>4. Max(s) \in 1..4
        BY ONLY <4>3, n \in 0..4
      <4>5. QED
        BY ONLY <4>2, <4>3, <4>4, Zenon
    <3>2. \A i \in 1..4 : part(s, i) \in Nat /\ part(s \ {x}, i) \in Nat
      OBVIOUS
    <3>3. \A i \in 1..4 : part(s \ {x}, i) = IF i = x THEN 0 ELSE part(s, i)
      OBVIOUS
    <3>4. part(s, x) = c[x]
      BY <3>1
    <3>5. f[s] = f[s \ {x}] + c[x]
      <4>1. f[s] = part(s, 1) + part(s, 2) + part(s, 3) + part(s, 4)
        OBVIOUS
      <4>2. f[s \ {x}] = part(s \ {x}, 1) + part(s \ {x}, 2) + part(s \ {x}, 3)
                           + part(s \ {x}, 4)
        OBVIOUS
      <4> HIDE DEF part, f
      <4>3. \A i \in 1..4 : i # x => part(s \ {x}, i) = part(s, i)
        BY <3>3
      <4>4. part(s \ {x}, x) = 0
        BY <3>3
      <4>5. CASE x = 1
        BY <3>2, <3>4, <4>1, <4>2, <4>3, <4>4, <4>5
      <4>6. CASE x = 2
        BY <3>2, <3>4, <4>1, <4>2, <4>3, <4>4, <4>6
      <4>7. CASE x = 3
        BY <3>2, <3>4, <4>1, <4>2, <4>3, <4>4, <4>7
      <4>8. CASE x = 4
        BY <3>2, <3>4, <4>1, <4>2, <4>3, <4>4, <4>8
      <4>9. QED
        BY <4>5, <4>6, <4>7, <4>8
    <3>6. QED
      BY <2>2, <3>1, <3>5
  <2>3. QED
    BY <2>1, <2>2
<1> HIDE DEF f
<1>2. f = [s \in SUBSET (1..n) |-> f[s]]
  BY DEF f
<1>3. f = [s \in SUBSET (1..n) |-> IF s = {} THEN 0 ELSE f[s \ {Max(s)}] + c[Max(s)]]
  BY <1>1, <1>2
<1>4. QED
  BY <1>3 DEF SumBy

(* It, taken apart at one set.                                              *)
LEMMA SumAt ==
  \A n \in Nat : \A c, f : SumBy(c, n, f) =>
    \A s \in SUBSET (1..n) : f[s] = IF s = {} THEN 0 ELSE f[s \ {Max(s)}] + c[Max(s)]
<1> SUFFICES ASSUME NEW n \in Nat, NEW c, NEW f, SumBy(c, n, f), NEW s \in SUBSET (1..n)
             PROVE  f[s] = IF s = {} THEN 0 ELSE f[s \ {Max(s)}] + c[Max(s)]
  BY Zenon
<1> DEFINE g == [t \in SUBSET (1..n) |-> IF t = {} THEN 0 ELSE f[t \ {Max(t)}] + c[Max(t)]]
<1>1. g[s] = IF s = {} THEN 0 ELSE f[s \ {Max(s)}] + c[Max(s)]
  OBVIOUS
<1>2. f = g
  BY Zenon DEF SumBy
<1>3. QED
  BY ONLY <1>1, <1>2, Zenon

(* The fold is the sum.                                                     *)
LEMMA TotalValue ==
  ASSUME NEW n \in 0..4, NEW c \in [1..n -> Nat]
  PROVE  Total(c) = Sum4(c, n)
<1>1. PICK f : SumBy(c, n, f) /\ Total(c) = f[1..n]
  <2> DEFINE iter == CHOOSE f : SumBy(c, n, f)
  <2>1. SumBy(c, n, iter)
    BY SumExists
  <2>2. DOMAIN c = 1..n
    OBVIOUS
  <2>3. Total(c) = iter[1..n]
    BY <2>2 DEF Total, FoldLeft, MapThenFoldSet, SumBy
  <2>4. QED
    BY ONLY <2>1, <2>3
<1>2. \A s \in SUBSET (1..n) : f[s] = IF s = {} THEN 0 ELSE f[s \ {Max(s)}] + c[Max(s)]
  <2>1. n \in Nat
    OBVIOUS
  <2>2. SumBy(c, n, f)
    BY <1>1
  <2>3. QED
    BY ONLY <2>1, <2>2, SumAt, ZenonT(40)
<1>3. ASSUME NEW j \in 1..n, NEW i \in 0..3, j = i + 1
      PROVE  f[1..j] = f[1..i] + c[j]
  <2>1. 1..j \in SUBSET (1..n) /\ 1..j # {}
    OBVIOUS
  <2>2. Max(1..j) = j
    <3>1. j \in Nat /\ 1..j \subseteq 1..j
      OBVIOUS
    <3>2. Max(1..j) \in 1..j /\ \A y \in 1..j : y <= Max(1..j)
      BY ONLY <2>1, <3>1, LargestOf, Zenon
    <3>3. PICK m \in 1..j : m = Max(1..j) /\ \A y \in 1..j : y <= m
      BY ONLY <3>2, Zenon
    <3>4. QED
      BY <3>3
  <2>3. (1..j) \ {j} = 1..i
    BY <1>3
  <2>4. f[1..j] = f[(1..j) \ {Max(1..j)}] + c[Max(1..j)]
    BY ONLY <1>2, <2>1, Zenon
  <2>5. QED
    BY ONLY <2>2, <2>3, <2>4, Zenon
<1>4. \A j \in 1..n : c[j] \in Nat
  OBVIOUS
<1>5. f[1..0] = 0
  <2>1. 1..0 = {} /\ {} \in SUBSET (1..n)
    OBVIOUS
  <2>2. f[{}] = 0
    BY ONLY <1>2, <2>1, Zenon
  <2>3. QED
    BY ONLY <2>1, <2>2, Zenon
<1>6. n >= 1 => f[1..1] = f[1..0] + c[1]
  <2>1. n >= 1 => 1 \in 1..n /\ 0 \in 0..3 /\ 1 = 0 + 1
    OBVIOUS
  <2>2. QED
    BY ONLY <1>3, <2>1, Zenon
<1>7. n >= 2 => f[1..2] = f[1..1] + c[2]
  <2>1. n >= 2 => 2 \in 1..n /\ 1 \in 0..3 /\ 2 = 1 + 1
    OBVIOUS
  <2>2. QED
    BY ONLY <1>3, <2>1, Zenon
<1>8. n >= 3 => f[1..3] = f[1..2] + c[3]
  <2>1. n >= 3 => 3 \in 1..n /\ 2 \in 0..3 /\ 3 = 2 + 1
    OBVIOUS
  <2>2. QED
    BY ONLY <1>3, <2>1, Zenon
<1>9. n >= 4 => f[1..4] = f[1..3] + c[4]
  <2>1. n >= 4 => 4 \in 1..n /\ 3 \in 0..3 /\ 4 = 3 + 1
    OBVIOUS
  <2>2. QED
    BY ONLY <1>3, <2>1, Zenon
<1>10. CASE n = 0
  BY <1>1, <1>5, <1>10 DEF Sum4, At
<1>11. CASE n = 1
  BY <1>1, <1>4, <1>5, <1>6, <1>11 DEF Sum4, At
<1>12. CASE n = 2
  BY <1>1, <1>4, <1>5, <1>6, <1>7, <1>12 DEF Sum4, At
<1>13. CASE n = 3
  BY <1>1, <1>4, <1>5, <1>6, <1>7, <1>8, <1>13 DEF Sum4, At
<1>14. CASE n = 4
  BY <1>1, <1>4, <1>5, <1>6, <1>7, <1>8, <1>9, <1>14 DEF Sum4, At
<1>15. QED
  BY <1>10, <1>11, <1>12, <1>13, <1>14

-----------------------------------------------------------------------------
(* Requests.                                                               *)

(* What a request is.                                                       *)
Sendable(s) ==
  /\ s.framing \in {"length", "chunked"} /\ s.eol \in {CRLF, LF}
  /\ s.lines \in Nat /\ s.size \in 0..MaxSize
  /\ s.chunks \in IF s.framing = "length" THEN {<<>>} ELSE Chunkings(s.size)

(* What is sent before the i-th chunk, and from it on.                      *)
Before(s, i) == Total(SubSeq(s.chunks, 1, i - 1))
Body(s, i) == SubSeq(Units, Before(s, i) + 1, Before(s, i) + s.chunks[i])
ChunksFrom(s, i) == [j \in 1..(Len(s.chunks) + 1 - i) |-> Chunk(s, i + j - 1)]
Ahead(s, i) == FlattenSeq(ChunksFrom(s, i)) \o <<"0">> \o s.eol \o s.eol

(* The sizes of the chunks add up to the size of the payload.               *)
LEMMA ChunkSums ==
  ASSUME NEW s, Sendable(s), s.framing = "chunked"
  PROVE  /\ Len(s.chunks) \in 0..4
         /\ \A i \in 1..Len(s.chunks) : s.chunks[i] \in 1..4
         /\ Before(s, 1) = 0
         /\ \A i \in 1..Len(s.chunks) : Before(s, i + 1) = Before(s, i) + s.chunks[i]
         /\ \A i \in 1..(Len(s.chunks) + 1) : Before(s, i) \in 0..s.size
         /\ Before(s, Len(s.chunks) + 1) = s.size
<1>1. s.size \in 0..4
  BY DEF Sendable, MaxSize, Units
<1>2. s.chunks \in Chunkings(s.size)
  BY DEF Sendable
<1>3. PICK k \in 0..4 : s.chunks \in [1..k -> 1..s.size] /\ Total(s.chunks) = s.size
  <2>1. PICK k \in 0..s.size : s.chunks \in [1..k -> 1..s.size]
    BY <1>2 DEF Chunkings
  <2>2. Total(s.chunks) = s.size
    BY <1>2 DEF Chunkings, Total
  <2>3. k \in 0..4
    BY <1>1
  <2>4. QED
    BY ONLY <2>1, <2>2, <2>3, Zenon
<1>4. PICK c : c = s.chunks
  OBVIOUS
<1>5. c \in Seq(1..s.size) /\ Len(c) = k /\ \A i \in 1..k : c[i] \in 1..4
  <2>1. c \in [1..k -> 1..s.size] /\ k \in Nat
    BY <1>3, <1>4
  <2>2. c \in Seq(1..s.size)
    BY ONLY <2>1, SeqOfFunction
  <2>3. Len(c) = k
    BY ONLY <2>1, SeqOfFunction
  <2>4. ASSUME NEW i \in 1..k PROVE c[i] \in 1..4
    <3>1. c[i] \in 1..s.size
      BY ONLY <2>1
    <3>2. QED
      BY <1>1, <3>1
  <2>5. QED
    BY <2>2, <2>3, <2>4
<1>6. ASSUME NEW i \in 1..(k + 1) PROVE Before(s, i) = Sum4(c, i - 1)
  <2>1. i - 1 \in 0..4
    OBVIOUS
  <2>2. SubSeq(c, 1, i - 1) \in [1..(i - 1) -> Nat]
    <3>1. PICK m \in 0..4 : m = i - 1 /\ m <= k
      BY <2>1
    <3>2. SubSeq(c, 1, m) \in Seq(1..4) /\ Len(SubSeq(c, 1, m)) = m
      BY <1>5, <3>1
    <3>3. SubSeq(c, 1, m) \in [1..m -> 1..4]
      BY ONLY <3>2, LenProperties, Zenon
    <3>4. QED
      BY <3>1, <3>3
  <2>3. \A j \in 1..(i - 1) : SubSeq(c, 1, i - 1)[j] = c[j]
    BY <1>5
  <2>4. Total(SubSeq(c, 1, i - 1)) = Sum4(SubSeq(c, 1, i - 1), i - 1)
    BY <2>1, <2>2, TotalValue
  <2>5. Sum4(SubSeq(c, 1, i - 1), i - 1) = Sum4(c, i - 1)
    BY <2>1, <2>3 DEF Sum4, At
  <2>6. QED
    BY <1>4, <2>4, <2>5 DEF Before
<1>7. Before(s, 1) = 0
  BY <1>3, <1>6 DEF Sum4, At
<1>8. ASSUME NEW i \in 1..k PROVE Before(s, i + 1) = Before(s, i) + c[i]
  <2>1. Before(s, i + 1) = Sum4(c, i) /\ Before(s, i) = Sum4(c, i - 1)
    BY <1>6
  <2>2. i \in 1..4 /\ \A j \in 1..4 : At(c, i, j) \in Nat /\ At(c, i - 1, j) \in Nat
    BY <1>5 DEF At
  <2>3. Sum4(c, i) = Sum4(c, i - 1) + c[i]
    BY <1>5, <2>2 DEF Sum4, At
  <2>4. QED
    BY <2>1, <2>3
<1>9. Before(s, k + 1) = s.size
  <2>1. c \in [1..k -> Nat]
    BY <1>1, <1>3, <1>4
  <2>2. Total(c) = Sum4(c, k)
    BY <2>1, TotalValue
  <2>3. QED
    BY <1>3, <1>4, <1>6, <2>2
<1>10. ASSUME NEW i \in 1..(k + 1) PROVE Before(s, i) \in 0..s.size
  <2>1. Before(s, i) = Sum4(c, i - 1) /\ s.size = Sum4(c, k)
    BY <1>6, <1>9
  <2>2. \A j \in 1..4 : At(c, k, j) \in Nat /\ At(c, i - 1, j) \in Nat
                        /\ At(c, i - 1, j) <= At(c, k, j)
    BY <1>5 DEF At
  <2>3. QED
    BY <2>1, <2>2 DEF Sum4
<1>11. QED
  BY <1>4, <1>5, <1>7, <1>8, <1>9, <1>10

-----------------------------------------------------------------------------
(* What is on the wire.                                                    *)

(* The tokens, and which of them are none of a line's end.                  *)
Solid == Piece \ {"cr", "lf"}

(* The tokens are what they are declared to be, and the sizes and the units *)
(* of the payload are no part of a line's end.                              *)
LEMMA Tokens ==
  /\ MaxSize = 4
  /\ Units \in Seq(Solid) /\ Len(Units) = 4
  /\ \A n \in 0..4 : Sizes[n + 1] \in Solid /\ Sizes[n + 1] \in Range(Sizes)
  /\ Sizes[1] = "0"
  /\ {"line", "chunked", "length"} \subseteq Solid
  /\ CRLF \in Seq(Piece) /\ LF \in Seq(Piece) /\ Len(CRLF) = 2 /\ Len(LF) = 1
<1>1. Range(Units) = {"a", "b", "c", "d"}
  BY DEF Range, Units
<1>2. Range(Sizes) = {"0", "1", "2", "3", "4"}
  BY DEF Range, Sizes
<1>3. Units \in Seq(Solid) /\ Len(Units) = 4 /\ MaxSize = 4
  BY <1>1 DEF Units, Piece, Solid, MaxSize
<1>4. \A n \in 0..4 : Sizes[n + 1] \in Solid /\ Sizes[n + 1] \in Range(Sizes)
  BY <1>2 DEF Sizes, Piece, Solid
<1>5. QED
  BY <1>3, <1>4 DEF Sizes, Piece, Solid, CRLF, LF

(* A part of the payload.                                                   *)
LEMMA PartOfPayload ==
  ASSUME NEW a \in 0..4, NEW b \in a..4
  PROVE  /\ SubSeq(Units, a + 1, b) \in Seq(Solid)
         /\ Len(SubSeq(Units, a + 1, b)) = b - a
         /\ \A p \in 1..(b - a) : SubSeq(Units, a + 1, b)[p] = Units[a + p]
<1>1. PICK u \in Seq(Solid) : u = Units /\ Len(u) = 4
  BY Tokens
<1>2. \A p \in (a + 1)..b : u[p] \in Solid
  BY <1>1
<1>3. /\ SubSeq(u, a + 1, b) \in Seq(Solid)
      /\ Len(SubSeq(u, a + 1, b)) = b - a
      /\ \A p \in 1..(b - a) : SubSeq(u, a + 1, b)[p] = u[a + p]
  BY <1>1, <1>2, SubSeqProperties
<1>4. QED
  BY <1>1, <1>3

(* Putting texts together, with a name for it the provers leave alone.      *)
Cat(a, b) == a \o b

(* Two texts make a text, and three make the same one whichever two are put *)
(* together first.                                                          *)
LEMMA CatFacts ==
  ASSUME NEW S
  PROVE  /\ \A a, b \in Seq(S) : Cat(a, b) \in Seq(S)
         /\ \A a, b, c \in Seq(S) : Cat(Cat(a, b), c) = Cat(a, Cat(b, c))
<1>1. ASSUME NEW a \in Seq(S), NEW b \in Seq(S) PROVE Cat(a, b) \in Seq(S)
  BY DEF Cat
<1>2. ASSUME NEW a \in Seq(S), NEW b \in Seq(S), NEW c \in Seq(S)
      PROVE  Cat(Cat(a, b), c) = Cat(a, Cat(b, c))
  BY ConcatAssociative DEF Cat
<1>3. QED
  BY <1>1, <1>2, Zenon

(* A size, a chunk and the rest of the framing, taken apart behind the size.*)
LEMMA Regroup ==
  ASSUME NEW S, NEW x \in Seq(S), NEW e \in Seq(S), NEW u \in Seq(S), NEW f \in Seq(S),
         NEW z \in Seq(S)
  PROVE  Cat(Cat(Cat(Cat(Cat(Cat(Cat(x, e), u), e), f), z), e), e)
           = Cat(Cat(x, e), Cat(u, Cat(e, Cat(Cat(Cat(f, z), e), e))))
<1> DEFINE w == Cat(Cat(Cat(x, e), u), e)
           y == Cat(Cat(Cat(f, z), e), e)
<1>1. \A a, b \in Seq(S) : Cat(a, b) \in Seq(S)
  BY CatFacts
<1>2. \A a, b, c \in Seq(S) : Cat(Cat(a, b), c) = Cat(a, Cat(b, c))
  BY CatFacts
<1>3. x \in Seq(S) /\ e \in Seq(S) /\ u \in Seq(S) /\ f \in Seq(S) /\ z \in Seq(S)
  OBVIOUS
<1>4. w \in Seq(S) /\ Cat(x, e) \in Seq(S) /\ Cat(Cat(x, e), u) \in Seq(S)
        /\ w = Cat(Cat(Cat(x, e), u), e)
  BY ONLY <1>1, <1>3
<1>5. Cat(f, z) \in Seq(S) /\ Cat(Cat(f, z), e) \in Seq(S) /\ y \in Seq(S)
        /\ y = Cat(Cat(Cat(f, z), e), e)
  BY ONLY <1>1, <1>3
<1>6. Cat(e, y) \in Seq(S)
  BY ONLY <1>1, <1>3, <1>5
<1> HIDE DEF w, y
<1>7. Cat(Cat(w, f), z) = Cat(w, Cat(f, z))
  BY ONLY <1>2, <1>3, <1>4
<1>8. Cat(Cat(w, Cat(f, z)), e) = Cat(w, Cat(Cat(f, z), e))
  BY ONLY <1>2, <1>3, <1>4, <1>5
<1>9. Cat(Cat(w, Cat(Cat(f, z), e)), e) = Cat(w, y)
  BY ONLY <1>2, <1>3, <1>4, <1>5
<1>10. Cat(w, y) = Cat(Cat(Cat(x, e), u), Cat(e, y))
  BY ONLY <1>2, <1>3, <1>4, <1>5
<1>11. Cat(Cat(Cat(x, e), u), Cat(e, y)) = Cat(Cat(x, e), Cat(u, Cat(e, y)))
  BY ONLY <1>2, <1>3, <1>4, <1>6
<1>12. Cat(Cat(Cat(Cat(w, f), z), e), e) = Cat(Cat(x, e), Cat(u, Cat(e, y)))
  BY ONLY <1>7, <1>8, <1>9, <1>10, <1>11, Zenon
<1>13. QED
  BY ONLY <1>12, Zenon DEF w, y

(* What a request is written in: without CR where lines end in LF.          *)
Alphabet(s) == IF s.eol = LF THEN Piece \ {"cr"} ELSE Piece

(* A request is written in its alphabet, whose line's end is CRLF or LF.    *)
LEMMA AlphabetFacts ==
  ASSUME NEW s, Sendable(s)
  PROVE  /\ Solid \subseteq Alphabet(s) /\ Alphabet(s) \subseteq Piece
         /\ s.eol \in Seq(Alphabet(s))
         /\ <<"0">> \in Seq(Alphabet(s))
         /\ \/ s.eol = CRLF /\ Len(s.eol) = 2 /\ s.eol[1] = "cr" /\ s.eol[2] = "lf"
            \/ s.eol = LF /\ Len(s.eol) = 1 /\ s.eol[1] = "lf" /\ "cr" \notin Alphabet(s)
<1>1. s.eol \in {CRLF, LF} /\ CRLF # LF
  BY DEF Sendable, CRLF, LF
<1>2. Solid \subseteq Alphabet(s) /\ Alphabet(s) \subseteq Piece /\ "0" \in Alphabet(s)
  BY Tokens DEF Alphabet, Solid
<1>3. "lf" \in Alphabet(s) /\ {"cr", "lf"} \subseteq Piece
  BY DEF Alphabet, Piece
<1>4. <<"0">> \in Seq(Alphabet(s))
  BY <1>2
<1>5. CASE s.eol = LF
  <2>1. <<"lf">> \in Seq(Alphabet(s))
    BY <1>3
  <2>2. s.eol = <<"lf">> /\ "cr" \notin Alphabet(s)
    BY <1>5 DEF LF, Alphabet
  <2>3. Len(s.eol) = 1 /\ s.eol[1] = "lf"
    BY <2>2
  <2>4. QED
    BY <1>2, <1>4, <1>5, <2>1, <2>2, <2>3
<1>6. CASE s.eol = CRLF
  <2>1. Alphabet(s) = Piece
    BY <1>1, <1>6 DEF Alphabet
  <2>2. <<"cr", "lf">> \in Seq(Alphabet(s))
    BY <1>3, <2>1
  <2>3. s.eol = <<"cr", "lf">>
    BY <1>6 DEF CRLF
  <2>4. Len(s.eol) = 2 /\ s.eol[1] = "cr" /\ s.eol[2] = "lf"
    BY <2>3
  <2>5. QED
    BY <1>2, <1>4, <1>6, <2>2, <2>3, <2>4
<1>7. QED
  BY <1>1, <1>5, <1>6

(* The chunks of a request, and what is ahead of its reader before each.    *)
LEMMA ChunkTexts ==
  ASSUME NEW s, Sendable(s), s.framing = "chunked", NEW i \in 1..Len(s.chunks)
  PROVE  /\ Body(s, i) \in Seq(Solid)
         /\ Chunk(s, i) = <<Sizes[s.chunks[i] + 1]>> \o s.eol \o Body(s, i) \o s.eol
         /\ Chunk(s, i) \in Seq(Alphabet(s))
<1>1. s.chunks[i] \in 1..4 /\ Before(s, i) \in 0..4 /\ Before(s, i) + s.chunks[i] \in 0..4
  <2>1. s.size \in 0..4
    BY Tokens DEF Sendable
  <2>2. i \in 1..(Len(s.chunks) + 1) /\ i + 1 \in 1..(Len(s.chunks) + 1)
    BY ChunkSums
  <2>3. Before(s, i) \in 0..s.size /\ Before(s, i + 1) \in 0..s.size
    BY <2>2, ChunkSums
  <2>4. s.chunks[i] \in 1..4 /\ Before(s, i + 1) = Before(s, i) + s.chunks[i]
    BY ChunkSums
  <2>5. QED
    BY ONLY <2>1, <2>3, <2>4, SMTT(30)
<1>2. Body(s, i) \in Seq(Solid)
  BY <1>1, PartOfPayload DEF Body
<1>3. Chunk(s, i) = <<Sizes[s.chunks[i] + 1]>> \o s.eol \o Body(s, i) \o s.eol
  BY DEF Chunk, Body, Before, Total
<1>4. s.eol \in Seq(Alphabet(s)) /\ <<Sizes[s.chunks[i] + 1]>> \in Seq(Alphabet(s)) /\ Body(s, i) \in Seq(Alphabet(s))
  <2>1. s.eol \in Seq(Alphabet(s))
    BY AlphabetFacts
  <2>2. Sizes[s.chunks[i] + 1] \in Alphabet(s)
    BY <1>1, Tokens, AlphabetFacts
  <2>3. Body(s, i) \in Seq(Alphabet(s))
    BY <1>2, AlphabetFacts, SeqMonotonic
  <2>4. QED
    BY <2>1, <2>2, <2>3
<1>5. Chunk(s, i) \in Seq(Alphabet(s))
  BY <1>3, <1>4
<1>6. QED
  BY <1>2, <1>3, <1>5

(* The chunks from the i-th on are texts.                                   *)
LEMMA ChunksFromType ==
  ASSUME NEW s, Sendable(s), s.framing = "chunked", NEW i \in 1..(Len(s.chunks) + 1)
  PROVE  /\ ChunksFrom(s, i) \in Seq(Seq(Alphabet(s)))
         /\ Len(ChunksFrom(s, i)) = Len(s.chunks) + 1 - i
         /\ \A j \in 1..(Len(s.chunks) + 1 - i) : ChunksFrom(s, i)[j] = Chunk(s, i + j - 1)
<1>1. PICK k \in 0..4 : k = Len(s.chunks)
  BY ChunkSums
<1>2. PICK n \in 0..4 : n = k + 1 - i
  <2>1. i \in 1..(k + 1)
    BY <1>1
  <2>2. k + 1 - i \in 0..4
    BY ONLY <2>1, k \in 0..4
  <2>3. QED
    BY ONLY <2>2, Zenon
<1>3. ASSUME NEW j \in 1..n PROVE Chunk(s, i + j - 1) \in Seq(Alphabet(s))
  <2>1. i + j - 1 \in 1..Len(s.chunks)
    BY <1>1, <1>2
  <2>2. QED
    BY <2>1, ChunkTexts
<1>4. ChunksFrom(s, i) = [j \in 1..n |-> Chunk(s, i + j - 1)]
  BY <1>1, <1>2 DEF ChunksFrom
<1>5. ChunksFrom(s, i) \in [1..n -> Seq(Alphabet(s))]
  BY <1>3, <1>4
<1>6. ChunksFrom(s, i) \in Seq(Seq(Alphabet(s))) /\ Len(ChunksFrom(s, i)) = n
  BY <1>5, SeqOfFunction
<1>7. \A j \in 1..n : ChunksFrom(s, i)[j] = Chunk(s, i + j - 1)
  BY <1>4
<1>8. QED
  BY <1>1, <1>2, <1>6, <1>7

(* Each chunk is sent with its size before it and a line's end behind it;   *)
(* behind the last one comes a size of nothing and an empty line.           *)
LEMMA AheadIsText ==
  ASSUME NEW s, Sendable(s), s.framing = "chunked", NEW i \in 1..(Len(s.chunks) + 1)
  PROVE  Ahead(s, i) \in Seq(Alphabet(s))
<1>1. FlattenSeq(ChunksFrom(s, i)) \in Seq(Alphabet(s))
  BY ChunksFromType, FlattenType
<1>2. s.eol \in Seq(Alphabet(s)) /\ <<"0">> \in Seq(Alphabet(s))
  BY Tokens, AlphabetFacts
<1>3. \A a, b \in Seq(Alphabet(s)) : Cat(a, b) \in Seq(Alphabet(s))
  BY CatFacts
<1>4. Cat(Cat(Cat(FlattenSeq(ChunksFrom(s, i)), <<"0">>), s.eol), s.eol) \in Seq(Alphabet(s))
  BY ONLY <1>1, <1>2, <1>3
<1>5. QED
  BY ONLY <1>4, Zenon DEF Ahead, Cat

(* Before a chunk its size is ahead, then the chunk, then its line's end and*)
(* what is ahead of the next one.                                           *)
LEMMA AheadNext ==
  ASSUME NEW s, Sendable(s), s.framing = "chunked", NEW i \in 1..Len(s.chunks)
  PROVE  Ahead(s, i) = (<<Sizes[s.chunks[i] + 1]>> \o s.eol)
                         \o (Body(s, i) \o (s.eol \o Ahead(s, i + 1)))
<1>1. PICK k \in 0..4 : k = Len(s.chunks)
  BY ChunkSums
<1>2. i \in 1..(Len(s.chunks) + 1) /\ i + 1 \in 1..(Len(s.chunks) + 1)
  BY <1>1
<1> DEFINE this == ChunksFrom(s, i)
           next == ChunksFrom(s, i + 1)
<1>3. this \in Seq(Seq(Alphabet(s))) /\ Len(this) = k + 1 - i
        /\ \A j \in 1..(k + 1 - i) : this[j] = Chunk(s, i + j - 1)
  BY <1>1, <1>2, ChunksFromType
<1>4. next \in Seq(Seq(Alphabet(s))) /\ Len(next) = k - i
        /\ \A j \in 1..(k - i) : next[j] = Chunk(s, (i + 1) + j - 1)
  <2>1. next \in Seq(Seq(Alphabet(s))) /\ Len(next) = Len(s.chunks) + 1 - (i + 1)
          /\ \A j \in 1..(Len(s.chunks) + 1 - (i + 1)) : next[j] = Chunk(s, (i + 1) + j - 1)
    BY <1>2, ChunksFromType
  <2>2. Len(s.chunks) + 1 - (i + 1) = k - i
    <3>1. i \in Nat /\ k \in Nat
      BY <1>1
    <3>2. k + 1 - (i + 1) = k - i
      BY ONLY <3>1
    <3>3. QED
      BY <1>1, <3>2
  <2>3. QED
    BY <2>1, <2>2
<1> HIDE DEF this, next
<1>5. Len(this) = Len(next) + 1
  BY <1>1, <1>3, <1>4
<1>6. ASSUME NEW j \in 1..Len(next) PROVE this[j + 1] = next[j]
  <2>1. j + 1 \in 1..(k + 1 - i) /\ j \in 1..(k - i) /\ i + (j + 1) - 1 = (i + 1) + j - 1
    BY <1>1, <1>4
  <2>2. QED
    BY <1>3, <1>4, <2>1
<1>7. FlattenSeq(this) = this[1] \o FlattenSeq(next)
  BY <1>3, <1>4, <1>5, <1>6, FlattenFirst
<1>8. this[1] = Chunk(s, i)
  <2>1. 1 \in 1..(k + 1 - i) /\ i + 1 - 1 = i
    BY <1>1
  <2>2. this[1] = Chunk(s, i + 1 - 1)
    BY <1>3, <2>1
  <2>3. QED
    BY <2>1, <2>2
<1>9. PICK x \in Seq(Alphabet(s)), e \in Seq(Alphabet(s)), u \in Seq(Alphabet(s)), f \in Seq(Alphabet(s)),
           z \in Seq(Alphabet(s)) :
        /\ x = <<Sizes[s.chunks[i] + 1]>> /\ e = s.eol /\ u = Body(s, i)
        /\ f = FlattenSeq(next) /\ z = <<"0">>
  <2>1. <<Sizes[s.chunks[i] + 1]>> \in Seq(Alphabet(s))
    <3>1. s.chunks[i] \in 0..4
      BY ChunkSums
    <3>2. QED
      BY <3>1, Tokens, AlphabetFacts
  <2>2. s.eol \in Seq(Alphabet(s)) /\ <<"0">> \in Seq(Alphabet(s))
    BY Tokens, AlphabetFacts
  <2>3. Body(s, i) \in Seq(Alphabet(s))
    <3>1. Body(s, i) \in Seq(Solid)
      BY ChunkTexts
    <3>2. QED
      BY <3>1, SeqMonotonic, AlphabetFacts
  <2>4. FlattenSeq(next) \in Seq(Alphabet(s))
    BY <1>4, FlattenType
  <2>5. QED
    BY ONLY <2>1, <2>2, <2>3, <2>4, Zenon
<1>10. Chunk(s, i) = x \o e \o u \o e
  BY ONLY <1>9, ChunkTexts, Sendable(s), s.framing = "chunked", i \in 1..Len(s.chunks), Zenon
<1>11. Ahead(s, i) = (x \o e \o u \o e) \o f \o z \o e \o e
  <2>1. Ahead(s, i) = FlattenSeq(this) \o <<"0">> \o s.eol \o s.eol
    BY DEF Ahead, this
  <2>2. QED
    BY ONLY <1>7, <1>8, <1>9, <1>10, <2>1, Zenon
<1>12. Ahead(s, i + 1) = f \o z \o e \o e
  <2>1. Ahead(s, i + 1) = FlattenSeq(next) \o <<"0">> \o s.eol \o s.eol
    BY DEF Ahead, next
  <2>2. QED
    BY ONLY <1>9, <2>1, Zenon
<1>13. Ahead(s, i) = (x \o e) \o (u \o (e \o (f \o z \o e \o e)))
  <2>1. (x \o e \o u \o e) \o f \o z \o e \o e = (x \o e) \o (u \o (e \o (f \o z \o e \o e)))
    <3>1. Cat(Cat(Cat(Cat(Cat(Cat(Cat(x, e), u), e), f), z), e), e)
            = Cat(Cat(x, e), Cat(u, Cat(e, Cat(Cat(Cat(f, z), e), e))))
      BY ONLY Regroup
    <3>2. QED
      BY ONLY <3>1, Zenon DEF Cat
  <2>2. QED
    BY ONLY <1>11, <2>1, Zenon
<1>14. QED
  BY ONLY <1>9, <1>12, <1>13, Zenon

(* Behind the last chunk a size of nothing is ahead and an empty line.      *)
LEMMA AheadLast ==
  ASSUME NEW s, Sendable(s), s.framing = "chunked"
  PROVE  Ahead(s, Len(s.chunks) + 1) = (<<"0">> \o s.eol) \o s.eol
<1>1. PICK k \in 0..4 : k = Len(s.chunks)
  BY ChunkSums
<1>2. k + 1 \in 1..(Len(s.chunks) + 1)
  BY <1>1
<1>3. ChunksFrom(s, k + 1) \in Seq(Seq(Alphabet(s))) /\ Len(ChunksFrom(s, k + 1)) = 0
  <2>1. Len(s.chunks) + 1 - (k + 1) = 0
    BY <1>1
  <2>2. QED
    BY <1>2, <2>1, ChunksFromType
<1>4. ChunksFrom(s, k + 1) = <<>>
  BY <1>3, EmptySeq
<1>5. FlattenSeq(<<>>) = <<>>
  BY DEF FlattenSeq
<1>6. <<>> \o <<"0">> = <<"0">>
  OBVIOUS
<1>7. Ahead(s, k + 1) = FlattenSeq(<<>>) \o <<"0">> \o s.eol \o s.eol
  BY <1>4 DEF Ahead
<1>8. QED
  BY ONLY <1>1, <1>5, <1>6, <1>7, Zenon

(* The whole of it.                                                         *)
LEMMA WireChunked ==
  ASSUME NEW s, Sendable(s), s.framing = "chunked"
  PROVE  Wire(s) = Headers(s) \o Ahead(s, 1)
<1>1. PICK k \in 0..4 : k = Len(s.chunks)
  BY ChunkSums
<1>2. ChunksFrom(s, 1) = [i \in 1..k |-> Chunk(s, i)]
  <2>1. ChunksFrom(s, 1) = [j \in 1..k |-> Chunk(s, 1 + j - 1)]
    BY <1>1 DEF ChunksFrom
  <2>2. \A j \in 1..k : 1 + j - 1 = j
    OBVIOUS
  <2>3. QED
    BY <2>1, <2>2
<1>3. Ahead(s, 1) = FlattenSeq([i \in 1..k |-> Chunk(s, i)]) \o <<"0">> \o s.eol \o s.eol
  BY ONLY <1>2, Zenon DEF Ahead
<1>4. QED
  BY <1>1, <1>3 DEF Wire

-----------------------------------------------------------------------------
(* Headers.                                                                *)

(* A token, the end of a line, and what follows.                            *)
LineBefore(s, y, x, t) ==
  /\ y \in Seq(Alphabet(s)) /\ Len(y) = 1 + Len(s.eol) + Len(t)
  /\ y[1] = x
  /\ \A q \in 1..Len(s.eol) : y[1 + q] = s.eol[q]
  /\ \A p \in 1..Len(t) : y[1 + Len(s.eol) + p] = t[p]

(* A token and the end of a line, put before a text.                        *)
LEMMA Prepended ==
  ASSUME NEW s, Sendable(s), NEW x \in Alphabet(s), NEW t \in Seq(Alphabet(s)), NEW y,
         y = Cat(Cat(<<x>>, s.eol), t)
  PROVE  LineBefore(s, y, x, t)
<1>1. PICK e \in Seq(Alphabet(s)) : e = s.eol
  BY ONLY Sendable(s), AlphabetFacts, Zenon
<1>2. PICK u \in Seq(Alphabet(s)) : u = <<x>> /\ Len(u) = 1 /\ u[1] = x
  <2>1. <<x>> \in Seq(Alphabet(s)) /\ Len(<<x>>) = 1 /\ <<x>>[1] = x
    BY ONLY x \in Alphabet(s)
  <2>2. QED
    BY ONLY <2>1, Zenon
<1>3. PICK m \in Nat, n \in Nat : m = Len(e) /\ n = Len(t)
  BY ONLY e \in Seq(Alphabet(s)), t \in Seq(Alphabet(s))
<1>4. PICK h \in Seq(Alphabet(s)) :
        /\ h = Cat(u, e) /\ Len(h) = 1 + m /\ h[1] = x
        /\ \A q \in 1..m : h[1 + q] = e[q]
  <2>1. /\ Cat(u, e) \in Seq(Alphabet(s)) /\ Len(Cat(u, e)) = Len(u) + Len(e)
        /\ \A i \in 1..(Len(u) + Len(e)) : Cat(u, e)[i] = IF i <= Len(u) THEN u[i] ELSE e[i - Len(u)]
    BY ONLY ConcatProperties, u \in Seq(Alphabet(s)), e \in Seq(Alphabet(s)) DEF Cat
  <2>2. PICK g \in Seq(Alphabet(s)) : g = Cat(u, e)
    BY ONLY <2>1, Zenon
  <2>3. /\ Len(g) = 1 + m
        /\ \A i \in 1..(1 + m) : g[i] = IF i <= 1 THEN u[i] ELSE e[i - 1]
    BY ONLY <1>2, <1>3, <2>1, <2>2, Zenon
  <2>4. g[1] = x /\ \A q \in 1..m : g[1 + q] = e[q]
    BY ONLY <1>2, <2>3, m \in Nat
  <2>5. QED
    BY ONLY <2>2, <2>3, <2>4, Zenon
<1>5. /\ Cat(h, t) \in Seq(Alphabet(s)) /\ Len(Cat(h, t)) = (1 + m) + n
      /\ \A i \in 1..((1 + m) + n) : Cat(h, t)[i] = IF i <= 1 + m THEN h[i] ELSE t[i - (1 + m)]
  <2>1. /\ Cat(h, t) \in Seq(Alphabet(s)) /\ Len(Cat(h, t)) = Len(h) + Len(t)
        /\ \A i \in 1..(Len(h) + Len(t)) : Cat(h, t)[i] = IF i <= Len(h) THEN h[i] ELSE t[i - Len(h)]
    BY ONLY ConcatProperties, h \in Seq(Alphabet(s)), t \in Seq(Alphabet(s)) DEF Cat
  <2>2. QED
    BY ONLY <1>3, <1>4, <2>1, Zenon
<1>6. y = Cat(h, t)
  BY ONLY <1>1, <1>2, <1>4, y = Cat(Cat(<<x>>, s.eol), t), Zenon
<1>7. /\ y \in Seq(Alphabet(s)) /\ Len(y) = (1 + m) + n
      /\ \A i \in 1..((1 + m) + n) : y[i] = IF i <= 1 + m THEN h[i] ELSE t[i - (1 + m)]
  BY ONLY <1>5, <1>6, Zenon
<1>8. y[1] = x
  BY ONLY <1>4, <1>7, m \in Nat, n \in Nat
<1>9. \A q \in 1..m : y[1 + q] = e[q]
  BY ONLY <1>4, <1>7, m \in Nat, n \in Nat
<1>10. \A p \in 1..n : y[1 + m + p] = t[p]
  BY ONLY <1>4, <1>7, m \in Nat, n \in Nat
<1>11. QED
  BY ONLY <1>1, <1>3, <1>7, <1>8, <1>9, <1>10 DEF LineBefore

(* n lines of headers and the one that gives the framing.                   *)
HeadersFrom(s, n) ==
  FlattenSeq([i \in 1..n |-> <<"line">> \o s.eol]) \o <<s.framing>> \o s.eol \o s.eol

(* The tokens that are a line of the headers.                               *)
Named == {"line", "chunked", "length"}

(* n lines of headers before the one that gives the framing, and an empty   *)
(* line, by their indices: only at its end does one end of a line follow    *)
(* another.                                                                 *)
LfText(n, f, t, l) ==
  /\ l > 2
  /\ \A p \in 1..(l - 1) : t[p] = "lf" /\ t[p + 1] = "lf" => p = l - 1
  /\ t[l - 1] = "lf" /\ t[l] = "lf"
  /\ \A p \in 1..l : t[p] \in Named => \E k \in 1..(n + 1) : p = 2 * k - 1
  /\ \A p \in 1..l : t[p] \in {"line", f, "cr", "lf"}
  /\ \E p \in 1..l : t[p] = f

CrlfText(n, f, t, l) ==
  /\ l > 4
  /\ \A p \in 1..(l - 2) : t[p] = "cr" /\ t[p + 2] = "cr" => p = l - 3
  /\ t[l - 3] = "cr" /\ t[l - 2] = "lf" /\ t[l - 1] = "cr" /\ t[l] = "lf"
  /\ \A p \in 1..l : t[p] = "lf" => p > 1 /\ t[p - 1] = "cr"
  /\ \A p \in 1..l : t[p] \in Named => \E k \in 1..(n + 1) : p = 3 * k - 2
  /\ \A p \in 1..l : t[p] \in {"line", f, "cr", "lf"}
  /\ \E p \in 1..l : t[p] = f

(* n lines of headers, the one that gives the framing, and an empty line.   *)
HeaderText(s, n, t) ==
  /\ t \in Seq(Alphabet(s)) /\ t[1] \in Named
  /\ s.eol = LF => LfText(n, s.framing, t, Len(t))
  /\ s.eol = CRLF => CrlfText(n, s.framing, t, Len(t))

(* Just the line that gives the framing.                                    *)
LEMMA NoHeaders ==
  ASSUME NEW s, Sendable(s)
  PROVE  HeaderText(s, 0, HeadersFrom(s, 0))
<1> DEFINE t == HeadersFrom(s, 0)
<1>1. s.framing \in {"chunked", "length"} /\ s.framing \in Alphabet(s) /\ s.framing \in Named
  BY Tokens, AlphabetFacts DEF Sendable, Named
<1>2. t = Cat(Cat(<<s.framing>>, s.eol), s.eol)
  <2>1. FlattenSeq([i \in 1..0 |-> <<"line">> \o s.eol]) = <<>>
    <3>1. PICK l : l = [i \in 1..0 |-> <<"line">> \o s.eol]
      OBVIOUS
    <3>2. l \in [1..0 -> {}] /\ 0 \in Nat
      BY <3>1
    <3>3. l \in Seq({}) /\ Len(l) = 0
      BY ONLY <3>2, SeqOfFunction
    <3>4. l = <<>> /\ FlattenSeq(l) = l
      BY <3>3, EmptySeq DEF FlattenSeq
    <3>5. QED
      BY <3>1, <3>4
  <2>2. <<>> \o <<s.framing>> = <<s.framing>>
    OBVIOUS
  <2>3. QED
    BY ONLY <2>1, <2>2, Zenon DEF HeadersFrom, Cat
<1>3. s.eol \in Seq(Alphabet(s))
  BY AlphabetFacts
<1> HIDE DEF t
<1>4. /\ t \in Seq(Alphabet(s)) /\ Len(t) = 1 + Len(s.eol) + Len(s.eol)
      /\ t[1] = s.framing
      /\ \A q \in 1..Len(s.eol) : t[1 + q] = s.eol[q]
      /\ \A p \in 1..Len(s.eol) : t[1 + Len(s.eol) + p] = s.eol[p]
  <2>1. PICK x \in Alphabet(s) : x = s.framing
    BY ONLY <1>1, Zenon
  <2>2. PICK e \in Seq(Alphabet(s)) : e = s.eol
    BY ONLY <1>3, Zenon
  <2>3. t = Cat(Cat(<<x>>, s.eol), e)
    BY ONLY <1>2, <2>1, <2>2, Zenon
  <2>4. LineBefore(s, t, x, e)
    BY ONLY Sendable(s), <2>3, x \in Alphabet(s), e \in Seq(Alphabet(s)), Prepended, Zenon
  <2>5. QED
    BY ONLY <2>1, <2>2, <2>4, Zenon DEF LineBefore
<1>5. CASE s.eol = LF
  <2>1. Len(s.eol) = 1 /\ s.eol[1] = "lf" /\ s.eol # CRLF
    BY <1>5, AlphabetFacts DEF CRLF, LF
  <2>2. Len(t) = 3 /\ t[1] = s.framing /\ t[2] = "lf" /\ t[3] = "lf"
    BY <1>4, <2>1
  <2>3. \A p \in 1..3 : p = 1 \/ p = 2 \/ p = 3
    OBVIOUS
  <2>4. LfText(0, s.framing, t, 3)
    BY ONLY <1>1, <2>2, <2>3 DEF LfText, Named
  <2>5. HeaderText(s, 0, t)
    BY ONLY <1>1, <1>4, <2>1, <2>2, <2>4, Zenon DEF HeaderText
  <2>6. QED
    BY ONLY <2>5, Zenon DEF t
<1>6. CASE s.eol = CRLF
  <2>1. Len(s.eol) = 2 /\ s.eol[1] = "cr" /\ s.eol[2] = "lf"
    BY <1>6, AlphabetFacts DEF CRLF, LF
  <2>2. Len(t) = 5 /\ t[1] = s.framing /\ t[2] = "cr" /\ t[3] = "lf" /\ t[4] = "cr" /\ t[5] = "lf"
    BY <1>4, <2>1
  <2>3. \A p \in 1..5 : p = 1 \/ p = 2 \/ p = 3 \/ p = 4 \/ p = 5
    OBVIOUS
  <2>4. CrlfText(0, s.framing, t, 5)
    <3>1. \A p \in 1..3 : t[p] = "cr" /\ t[p + 2] = "cr" => p = 2
      BY ONLY <1>1, <2>2 DEF Named
    <3>2. \A p \in 1..5 : t[p] = "lf" => p > 1 /\ t[p - 1] = "cr"
      BY ONLY <1>1, <2>2 DEF Named
    <3>3. \A p \in 1..5 : t[p] \in Named => p = 1
      BY ONLY <1>1, <2>2, <2>3 DEF Named
    <3>4. \A p \in 1..5 : t[p] \in {"line", s.framing, "cr", "lf"}
      BY ONLY <1>1, <2>2, <2>3 DEF Named
    <3>5. \A p \in 1..5 : t[p] \in Named => \E k \in 1..(0 + 1) : p = 3 * k - 2
      BY ONLY <3>3
    <3>6. QED
      BY ONLY <2>2, <3>1, <3>2, <3>4, <3>5 DEF CrlfText
  <2>5. s.eol # LF
    BY ONLY <2>1 DEF LF
  <2>6. HeaderText(s, 0, t)
    BY ONLY <1>1, <1>4, <2>2, <2>4, <2>5, Zenon DEF HeaderText
  <2>7. QED
    BY ONLY <2>6, Zenon DEF t
<1>7. QED
  BY <1>5, <1>6 DEF Sendable, t

(* One line more, with lines that end in LF.                                *)
LEMMA OneMoreLf ==
  ASSUME NEW n \in Nat, NEW l \in Nat, NEW f, NEW t, LfText(n, f, t, l), t[1] # "lf",
         NEW y, y[1] = "line", y[2] = "lf", \A p \in 1..l : y[p + 2] = t[p]
  PROVE  LfText(n + 1, f, y, l + 2)
<1>1. "line" # "lf" /\ "line" \in Named /\ "lf" \notin Named
  BY DEF Named
<1>2. y[1] = "line" /\ y[2] = "lf" /\ \A p \in 1..l : y[p + 2] = t[p]
  OBVIOUS
<1>3. /\ l > 2
      /\ \A p \in 1..(l - 1) : t[p] = "lf" /\ t[p + 1] = "lf" => p = l - 1
      /\ t[l - 1] = "lf" /\ t[l] = "lf"
      /\ \A p \in 1..l : t[p] \in Named => \E k \in 1..(n + 1) : p = 2 * k - 1
      /\ \A p \in 1..l : t[p] \in {"line", f, "cr", "lf"}
      /\ \E p \in 1..l : t[p] = f
  BY DEF LfText
<1>4. \A i \in 3..(l + 2) : i - 2 \in 1..l /\ y[i] = t[i - 2]
  BY <1>2
<1>5. ASSUME NEW p \in 1..(l + 1), y[p] = "lf", y[p + 1] = "lf" PROVE p = l + 1
  <2>1. p # 1 /\ p # 2
    BY <1>1, <1>2, <1>5
  <2>2. p - 2 \in 1..(l - 1) /\ t[p - 2] = "lf" /\ t[(p - 2) + 1] = "lf"
    BY <1>4, <1>5, <2>1
  <2>3. QED
    BY <1>3, <2>2
<1>6. y[l + 1] = "lf" /\ y[l + 2] = "lf"
  BY <1>3, <1>4
<1>7. ASSUME NEW p \in 1..(l + 2), y[p] \in Named
      PROVE  \E k \in 1..(n + 2) : p = 2 * k - 1
  <2>1. CASE p <= 2
    BY <1>1, <1>2, <1>7, <2>1
  <2>2. CASE p > 2
    <3>1. PICK j \in 1..l : j = p - 2 /\ t[j] \in Named
      BY <1>4, <1>7, <2>2
    <3>2. PICK k \in 1..(n + 1) : j = 2 * k - 1
      BY <1>3, <3>1
    <3>3. k + 1 \in 1..(n + 2) /\ p = 2 * (k + 1) - 1
      BY <3>1, <3>2
    <3>4. QED
      BY <3>3
  <2>3. QED
    BY <2>1, <2>2
<1>8. \A p \in 1..(l + 2) : y[p] \in {"line", f, "cr", "lf"}
  BY <1>2, <1>3, <1>4
<1>9. \E p \in 1..(l + 2) : y[p] = f
  <2>1. PICK p \in 1..l : t[p] = f
    BY <1>3
  <2>2. p + 2 \in 1..(l + 2) /\ y[p + 2] = f
    BY <1>2, <2>1
  <2>3. QED
    BY <2>2
<1>10. QED
  BY <1>3, <1>5, <1>6, <1>7, <1>8, <1>9 DEF LfText

(* One line more, with lines that end in CRLF.                              *)
LEMMA OneMoreCrlf ==
  ASSUME NEW n \in Nat, NEW l \in Nat, NEW f, NEW t, CrlfText(n, f, t, l),
         t[1] \notin {"cr", "lf"},
         NEW y, y[1] = "line", y[2] = "cr", y[3] = "lf", \A p \in 1..l : y[p + 3] = t[p]
  PROVE  CrlfText(n + 1, f, y, l + 3)
<1>1. "line" \notin {"cr", "lf"} /\ "line" \in Named /\ {"cr", "lf"} \cap Named = {}
  BY DEF Named
<1>2. y[1] = "line" /\ y[2] = "cr" /\ y[3] = "lf" /\ \A p \in 1..l : y[p + 3] = t[p]
  OBVIOUS
<1>3. /\ l > 4
      /\ \A p \in 1..(l - 2) : t[p] = "cr" /\ t[p + 2] = "cr" => p = l - 3
      /\ t[l - 3] = "cr" /\ t[l - 2] = "lf" /\ t[l - 1] = "cr" /\ t[l] = "lf"
      /\ \A p \in 1..l : t[p] = "lf" => p > 1 /\ t[p - 1] = "cr"
      /\ \A p \in 1..l : t[p] \in Named => \E k \in 1..(n + 1) : p = 3 * k - 2
      /\ \A p \in 1..l : t[p] \in {"line", f, "cr", "lf"}
      /\ \E p \in 1..l : t[p] = f
  BY DEF CrlfText
<1>4. \A i \in 4..(l + 3) : i - 3 \in 1..l /\ y[i] = t[i - 3]
  BY <1>2
<1>5. ASSUME NEW p \in 1..(l + 1), y[p] = "cr", y[p + 2] = "cr" PROVE p = l
  <2>1. p # 1 /\ p # 2 /\ p # 3
    BY <1>2, <1>3, <1>4, <1>5
  <2>2. p - 3 \in 1..(l - 2) /\ t[p - 3] = "cr" /\ t[(p - 3) + 2] = "cr"
    BY <1>4, <1>5, <2>1
  <2>3. QED
    BY <1>3, <2>2
<1>6. y[l] = "cr" /\ y[l + 1] = "lf" /\ y[l + 2] = "cr" /\ y[l + 3] = "lf"
  BY <1>3, <1>4
<1>7. ASSUME NEW p \in 1..(l + 3), y[p] \in Named
      PROVE  \E k \in 1..(n + 2) : p = 3 * k - 2
  <2>1. CASE p <= 3
    BY <1>1, <1>2, <1>7, <2>1
  <2>2. CASE p > 3
    <3>1. PICK j \in 1..l : j = p - 3 /\ t[j] \in Named
      BY <1>4, <1>7, <2>2
    <3>2. PICK k \in 1..(n + 1) : j = 3 * k - 2
      BY <1>3, <3>1
    <3>3. k + 1 \in 1..(n + 2) /\ p = 3 * (k + 1) - 2
      BY <3>1, <3>2
    <3>4. QED
      BY <3>3
  <2>3. QED
    BY <2>1, <2>2
<1>8. \A p \in 1..(l + 3) : y[p] \in {"line", f, "cr", "lf"}
  BY <1>2, <1>3, <1>4
<1>9. \E p \in 1..(l + 3) : y[p] = f
  <2>1. PICK p \in 1..l : t[p] = f
    BY <1>3
  <2>2. p + 3 \in 1..(l + 3) /\ y[p + 3] = f
    BY <1>2, <2>1
  <2>3. QED
    BY <2>2
<1>10. ASSUME NEW p \in 1..(l + 3), y[p] = "lf" PROVE p > 1 /\ y[p - 1] = "cr"
  <2>1. CASE p <= 3
    BY <1>2, <1>10, <2>1
  <2>2. CASE p > 3
    <3>1. p - 3 \in 1..l /\ t[p - 3] = "lf"
      BY <1>4, <1>10, <2>2
    <3>2. p - 3 > 1 /\ t[(p - 3) - 1] = "cr"
      BY <1>3, <3>1
    <3>3. QED
      BY <1>4, <3>2
  <2>3. QED
    BY <2>1, <2>2
<1>11. QED
  BY <1>3, <1>5, <1>6, <1>7, <1>8, <1>9, <1>10 DEF CrlfText

(* The headers, line by line.                                               *)
LEMMA OneHeaderMore ==
  ASSUME NEW s, Sendable(s), NEW n \in Nat, NEW t, HeaderText(s, n, t), NEW y,
         y = Cat(Cat(<<"line">>, s.eol), t)
  PROVE  HeaderText(s, n + 1, y)
<1>1. t \in Seq(Alphabet(s)) /\ t[1] \in Named
  BY Zenon DEF HeaderText
<1>2. "line" \in Alphabet(s) /\ "line" \in Named
  BY ONLY Sendable(s), Tokens, AlphabetFacts DEF Named
<1>3. /\ y \in Seq(Alphabet(s)) /\ Len(y) = 1 + Len(s.eol) + Len(t)
      /\ y[1] = "line"
      /\ \A q \in 1..Len(s.eol) : y[1 + q] = s.eol[q]
      /\ \A p \in 1..Len(t) : y[1 + Len(s.eol) + p] = t[p]
  <2>1. PICK x \in Alphabet(s) : x = "line"
    BY ONLY <1>2, Zenon
  <2>2. y = Cat(Cat(<<x>>, s.eol), t) /\ t \in Seq(Alphabet(s))
    BY ONLY <1>1, <2>1, y = Cat(Cat(<<"line">>, s.eol), t), Zenon
  <2>3. /\ y \in Seq(Alphabet(s)) /\ Len(y) = 1 + Len(s.eol) + Len(t)
        /\ y[1] = x
        /\ \A q \in 1..Len(s.eol) : y[1 + q] = s.eol[q]
        /\ \A p \in 1..Len(t) : y[1 + Len(s.eol) + p] = t[p]
    <3>1. LineBefore(s, y, x, t)
      BY ONLY <2>2, Sendable(s), x \in Alphabet(s), Prepended, Zenon
    <3>2. QED
      BY ONLY <3>1, Zenon DEF LineBefore
  <2>4. QED
    BY ONLY <2>1, <2>3, Zenon
<1>4. PICK l \in Nat : l = Len(t)
  BY ONLY <1>1
<1>5. ASSUME s.eol = LF PROVE LfText(n + 1, s.framing, y, Len(y))
  <2>1. Len(s.eol) = 1 /\ s.eol[1] = "lf"
    BY ONLY <1>5, LF = <<"lf">> DEF LF
  <2>2. y[1] = "line" /\ y[2] = "lf" /\ (\A p \in 1..l : y[p + 2] = t[p]) /\ Len(y) = l + 2
    BY ONLY <1>3, <1>4, <2>1
  <2>3. LfText(n, s.framing, t, l) /\ t[1] # "lf"
    <3>1. t[1] # "lf"
      BY ONLY <1>1 DEF Named
    <3>2. QED
      BY <1>4, <1>5, <3>1, Zenon DEF HeaderText
  <2>4. QED
    BY ONLY <2>2, <2>3, n \in Nat, l \in Nat, OneMoreLf, ZenonT(40)
<1>6. ASSUME s.eol = CRLF PROVE CrlfText(n + 1, s.framing, y, Len(y))
  <2>1. Len(s.eol) = 2 /\ s.eol[1] = "cr" /\ s.eol[2] = "lf"
    BY ONLY <1>6 DEF CRLF
  <2>2. /\ y[1] = "line" /\ y[2] = "cr" /\ y[3] = "lf" /\ (\A p \in 1..l : y[p + 3] = t[p])
        /\ Len(y) = l + 3
    BY ONLY <1>3, <1>4, <2>1
  <2>3. CrlfText(n, s.framing, t, l) /\ t[1] \notin {"cr", "lf"}
    <3>1. t[1] \notin {"cr", "lf"}
      BY ONLY <1>1 DEF Named
    <3>2. QED
      BY <1>4, <1>6, <3>1, Zenon DEF HeaderText
  <2>4. QED
    BY ONLY <2>2, <2>3, n \in Nat, l \in Nat, OneMoreCrlf, Zenon
<1>7. QED
  BY ONLY <1>2, <1>3, <1>5, <1>6, Zenon DEF HeaderText

(* The line that gives the framing, and the empty one, are taken with the   *)
(* lines before them or on their own.                                       *)
LEMMA RegroupHeaders ==
  ASSUME NEW S, NEW h \in Seq(S), NEW f \in Seq(S), NEW x \in Seq(S), NEW e \in Seq(S)
  PROVE  Cat(Cat(Cat(Cat(h, f), x), e), e) = Cat(h, Cat(Cat(Cat(f, x), e), e))
<1>1. \A a, b \in Seq(S) : Cat(a, b) \in Seq(S)
  BY CatFacts
<1>2. \A a, b, c \in Seq(S) : Cat(Cat(a, b), c) = Cat(a, Cat(b, c))
  BY CatFacts
<1>3. h \in Seq(S) /\ f \in Seq(S) /\ x \in Seq(S) /\ e \in Seq(S)
  OBVIOUS
<1>4. Cat(f, x) \in Seq(S) /\ Cat(Cat(f, x), e) \in Seq(S)
  BY ONLY <1>1, <1>3
<1>5. Cat(Cat(h, f), x) = Cat(h, Cat(f, x))
  BY ONLY <1>2, <1>3
<1>6. Cat(Cat(h, Cat(f, x)), e) = Cat(h, Cat(Cat(f, x), e))
  BY ONLY <1>2, <1>3, <1>4
<1>7. Cat(Cat(h, Cat(Cat(f, x), e)), e) = Cat(h, Cat(Cat(Cat(f, x), e), e))
  BY ONLY <1>2, <1>3, <1>4
<1>8. QED
  BY ONLY <1>5, <1>6, <1>7, Zenon

(* The headers of a request are its lines, one by one.                      *)
LEMMA HeadersAreText ==
  ASSUME NEW s, Sendable(s)
  PROVE  HeaderText(s, s.lines, Headers(s))
<1> DEFINE A == Alphabet(s)
           L(m) == [i \in 1..m |-> <<"line">> \o s.eol]
           Good == {m \in Nat : HeaderText(s, m, HeadersFrom(s, m))}
<1>1. PICK e \in Seq(A) : e = s.eol
  BY AlphabetFacts, Zenon
<1>2. PICK h \in Seq(A) : h = Cat(<<"line">>, e)
  <2>1. <<"line">> \in Seq(A)
    <3>1. "line" \in A
      BY Tokens, AlphabetFacts
    <3>2. QED
      BY ONLY <3>1
  <2>2. QED
    BY ONLY <2>1, e \in Seq(A), CatFacts, Zenon
<1>3. PICK x \in Seq(A) : x = <<s.framing>>
  <2>1. s.framing \in A
    BY Tokens, AlphabetFacts DEF Sendable
  <2>2. <<s.framing>> \in Seq(A)
    BY ONLY <2>1
  <2>3. QED
    BY ONLY <2>2, Zenon
<1>4. ASSUME NEW m \in Nat
      PROVE  L(m) \in Seq(Seq(A)) /\ Len(L(m)) = m /\ \A i \in 1..m : L(m)[i] = h
  <2>1. \A i \in 1..m : L(m)[i] = h
    <3>1. \A i \in 1..m : L(m)[i] = <<"line">> \o s.eol
      OBVIOUS
    <3>2. QED
      BY ONLY <1>1, <1>2, <3>1, Zenon DEF Cat
  <2>2. L(m) = [i \in 1..m |-> L(m)[i]]
    OBVIOUS
  <2> HIDE DEF L
  <2>3. L(m) \in [1..m -> Seq(A)]
    BY ONLY <2>1, <2>2, h \in Seq(A)
  <2>4. QED
    BY ONLY <2>1, <2>3, m \in Nat, SeqOfFunction, Zenon
<1>5. ASSUME NEW m \in Nat
      PROVE  /\ FlattenSeq(L(m)) \in Seq(A)
             /\ HeadersFrom(s, m) = Cat(Cat(Cat(FlattenSeq(L(m)), x), e), e)
  <2>1. FlattenSeq(L(m)) \in Seq(A)
    BY ONLY <1>4, FlattenType, m \in Nat, Zenon
  <2>2. HeadersFrom(s, m) = FlattenSeq(L(m)) \o <<s.framing>> \o s.eol \o s.eol
    BY Zenon DEF HeadersFrom
  <2>3. QED
    BY ONLY <1>1, <1>3, <2>1, <2>2, Zenon DEF Cat
<1>6. HeaderText(s, 0, HeadersFrom(s, 0))
  BY NoHeaders
<1>7. ASSUME NEW m \in 0..(s.lines - 1), m \in Good PROVE m + 1 \in Good
  <2>1. PICK n \in Nat : n = m + 1
    OBVIOUS
  <2>2. m \in Nat /\ HeaderText(s, m, HeadersFrom(s, m))
    BY <1>7
  <2> HIDE DEF L, Good
  <2>3. FlattenSeq(L(n)) = Cat(h, FlattenSeq(L(m)))
    <3>1. PICK a \in Seq(Seq(A)), b \in Seq(Seq(A)) :
            /\ a = L(n) /\ b = L(m) /\ Len(a) = n /\ Len(b) = m
            /\ (\A i \in 1..n : a[i] = h) /\ (\A i \in 1..m : b[i] = h)
      BY ONLY <1>4, <2>2, n \in Nat, Zenon
    <3>2. Len(a) = Len(b) + 1 /\ a[1] = h /\ \A i \in 1..Len(b) : a[i + 1] = b[i]
      BY ONLY <2>1, <2>2, <3>1
    <3>3. FlattenSeq(a) = a[1] \o FlattenSeq(b)
      BY ONLY <3>2, a \in Seq(Seq(A)), b \in Seq(Seq(A)), FlattenFirst, Zenon
    <3>4. QED
      BY ONLY <3>1, <3>2, <3>3, Zenon DEF Cat
  <2>4. HeadersFrom(s, n) = Cat(h, HeadersFrom(s, m))
    <3>1. PICK f \in Seq(A) : f = FlattenSeq(L(m))
      BY ONLY <1>5, <2>2, Zenon
    <3>2. Cat(Cat(Cat(Cat(h, f), x), e), e) = Cat(h, Cat(Cat(Cat(f, x), e), e))
      BY ONLY RegroupHeaders
    <3>3. HeadersFrom(s, m) = Cat(Cat(Cat(f, x), e), e)
      BY ONLY <1>5, <2>2, <3>1, Zenon
    <3>4. HeadersFrom(s, n) = Cat(Cat(Cat(Cat(h, f), x), e), e)
      BY ONLY <1>5, <2>3, <3>1, n \in Nat, Zenon
    <3>5. QED
      BY ONLY <3>2, <3>3, <3>4, Zenon
  <2>5. HeadersFrom(s, n) = Cat(Cat(<<"line">>, s.eol), HeadersFrom(s, m))
    BY ONLY <1>1, <1>2, <2>4, Zenon
  <2>6. HeaderText(s, m + 1, HeadersFrom(s, n))
    BY ONLY <2>2, <2>5, Sendable(s), OneHeaderMore, Zenon
  <2>7. QED
    BY ONLY <2>1, <2>6, n \in Nat, Zenon DEF Good
<1>8. 0 \in Good /\ Good \subseteq Nat
  BY <1>6
<1>9. s.lines \in Nat
  BY DEF Sendable
<1> HIDE DEF Good
<1>10. s.lines \in 0..s.lines
  BY ONLY <1>9
<1>11. s.lines \in Good
  BY ONLY <1>7, <1>8, <1>9, <1>10, Steps, Zenon
<1>12. Headers(s) = HeadersFrom(s, s.lines)
  BY Zenon DEF Headers, HeadersFrom
<1>13. QED
  BY ONLY <1>11, <1>12, Zenon DEF Good

-----------------------------------------------------------------------------
(* Two texts, one behind the other, by their indices.                       *)
Joins(y, a, z) ==
  /\ Len(y) = Len(a) + Len(z)
  /\ \A p \in 1..Len(a) : y[p] = a[p]
  /\ \A p \in 1..Len(z) : y[Len(a) + p] = z[p]

(* Two texts that are put together are one behind the other.                *)
LEMMA CatJoins ==
  ASSUME NEW S, NEW a \in Seq(S), NEW z \in Seq(S)
  PROVE  Cat(a, z) \in Seq(S) /\ Joins(Cat(a, z), a, z)
<1>1. PICK y : y = Cat(a, z)
  OBVIOUS
<1>2. /\ y \in Seq(S) /\ Len(y) = Len(a) + Len(z)
      /\ \A i \in 1..(Len(a) + Len(z)) : y[i] = IF i <= Len(a) THEN a[i] ELSE z[i - Len(a)]
  BY ONLY <1>1, ConcatProperties, a \in Seq(S), z \in Seq(S) DEF Cat
<1>3. PICK m \in Nat, n \in Nat : m = Len(a) /\ n = Len(z)
  BY ONLY a \in Seq(S), z \in Seq(S)
<1>4. \A i \in 1..(m + n) : y[i] = IF i <= m THEN a[i] ELSE z[i - m]
  BY ONLY <1>2, <1>3, Zenon
<1>5. \A p \in 1..m : y[p] = a[p]
  BY ONLY <1>4, m \in Nat, n \in Nat
<1>6. \A p \in 1..n : y[m + p] = z[p]
  BY ONLY <1>4, m \in Nat, n \in Nat
<1>7. QED
  BY ONLY <1>1, <1>2, <1>3, <1>5, <1>6, Zenon DEF Joins

(* What comes behind the headers.                                           *)
After(s) == IF s.framing = "length" THEN Payload(s) ELSE Ahead(s, 1)

(* The payload is the first so many of its units.                           *)
LEMMA PayloadIsUnits ==
  ASSUME NEW s, Sendable(s)
  PROVE  /\ s.size \in 0..4
         /\ Payload(s) \in Seq(Solid) /\ Len(Payload(s)) = s.size
         /\ \A p \in 1..s.size : Payload(s)[p] = Units[p]
<1>1. s.size \in 0..4
  BY Tokens DEF Sendable
<1>2. PICK b \in 0..4 : b = s.size
  BY <1>1
<1>3. /\ SubSeq(Units, 0 + 1, b) \in Seq(Solid)
      /\ Len(SubSeq(Units, 0 + 1, b)) = b - 0
      /\ \A p \in 1..(b - 0) : SubSeq(Units, 0 + 1, b)[p] = Units[0 + p]
  BY ONLY b \in 0..4, PartOfPayload
<1>4. 0 + 1 = 1 /\ b - 0 = b /\ \A p \in 1..b : 0 + p = p
  OBVIOUS
<1>5. Payload(s) = SubSeq(Units, 1, b)
  BY <1>2 DEF Payload
<1>6. QED
  BY ONLY <1>1, <1>2, <1>3, <1>4, <1>5, Zenon

(* What is on the wire is the headers, and then the body in its framing.    *)
LEMMA WireIsText ==
  ASSUME NEW s, Sendable(s)
  PROVE  /\ Headers(s) \in Seq(Alphabet(s)) /\ After(s) \in Seq(Alphabet(s))
         /\ Wire(s) \in Seq(Alphabet(s)) /\ Joins(Wire(s), Headers(s), After(s))
<1>1. Headers(s) \in Seq(Alphabet(s))
  BY ONLY Sendable(s), HeadersAreText, Zenon DEF HeaderText
<1>2. After(s) \in Seq(Alphabet(s)) /\ Wire(s) = Cat(Headers(s), After(s))
  <2>1. CASE s.framing = "length"
    <3>1. Payload(s) \in Seq(Alphabet(s))
      BY PayloadIsUnits, AlphabetFacts, SeqMonotonic
    <3>2. Wire(s) = Headers(s) \o Payload(s)
      BY ONLY <2>1, Zenon DEF Wire
    <3>3. QED
      BY ONLY <2>1, <3>1, <3>2, Zenon DEF After, Cat
  <2>2. CASE s.framing # "length"
    <3>1. s.framing = "chunked"
      BY <2>2 DEF Sendable
    <3>2. 1 \in 1..(Len(s.chunks) + 1)
      BY <3>1, ChunkSums
    <3>3. Ahead(s, 1) \in Seq(Alphabet(s))
      BY ONLY Sendable(s), <3>1, <3>2, AheadIsText, Zenon
    <3>4. Wire(s) = Headers(s) \o Ahead(s, 1)
      BY ONLY Sendable(s), <3>1, WireChunked, Zenon
    <3>5. QED
      BY ONLY <2>2, <3>3, <3>4, Zenon DEF After, Cat
  <2>3. QED
    BY <2>1, <2>2
<1>3. Cat(Headers(s), After(s)) \in Seq(Alphabet(s)) /\ Joins(Cat(Headers(s), After(s)), Headers(s), After(s))
  BY ONLY <1>1, <1>2, CatJoins
<1>4. QED
  BY ONLY <1>1, <1>2, <1>3, Zenon

-----------------------------------------------------------------------------
(* Looking for the end of a line and of the headers.                        *)

(* Where the ends of lines are in a text of n tokens.                       *)
EndsIn(text, n) ==
  /\ \A i : i \in Ends(text, LF) <=> i \in 1..n /\ text[i] = "lf"
  /\ \A i : i \in Ends(text, CRLF) <=>
       i \in 1..(n - 1) /\ text[i] = "cr" /\ text[i + 1] = "lf"
  /\ \A i : i \in Ends(text, LF \o LF) <=>
       i \in 1..(n - 1) /\ text[i] = "lf" /\ text[i + 1] = "lf"
  /\ \A i : i \in Ends(text, CRLF \o CRLF) <=>
       /\ i \in 1..(n - 3) /\ text[i] = "cr" /\ text[i + 1] = "lf"
       /\ text[i + 2] = "cr" /\ text[i + 3] = "lf"

(* Ends finds a mark wherever it is, and nowhere else.                      *)
LEMMA EndsAre ==
  ASSUME NEW text \in Seq(Piece), NEW n \in Nat, n = Len(text)
  PROVE  EndsIn(text, n)
<1>1. ASSUME NEW m \in 1..4, NEW i \in 1..(n - m + 1)
      PROVE  /\ SubSeq(text, i, i + m - 1) \in Seq(Piece)
             /\ Len(SubSeq(text, i, i + m - 1)) = m
             /\ \A j \in 1..m : SubSeq(text, i, i + m - 1)[j] = text[i + j - 1]
  <2>1. PICK b \in Int : b = i + m - 1
    OBVIOUS
  <2>2. \A j \in i..b : text[j] \in Piece
    BY <2>1
  <2>3. /\ SubSeq(text, i, b) \in Seq(Piece)
        /\ Len(SubSeq(text, i, b)) = IF i <= b THEN b - i + 1 ELSE 0
        /\ \A j \in 1..(b - i + 1) : SubSeq(text, i, b)[j] = text[i + j - 1]
    BY ONLY <2>2, i \in Int, b \in Int, SubSeqProperties
  <2>4. b - i + 1 = m /\ i <= b
    BY <2>1
  <2>5. QED
    BY ONLY <2>1, <2>3, <2>4
<1>2. ASSUME NEW m \in 1..4, NEW mark \in Seq(Piece), Len(mark) = m, NEW i
      PROVE  i \in Ends(text, mark) <=>
               i \in 1..(n - m + 1) /\ \A j \in 1..m : text[i + j - 1] = mark[j]
  <2>1. i \in Ends(text, mark) <=>
          i \in 1..(n - m + 1) /\ SubSeq(text, i, i + m - 1) = mark
    BY ONLY Len(mark) = m, n = Len(text), Zenon DEF Ends
  <2>2. ASSUME i \in 1..(n - m + 1)
        PROVE  SubSeq(text, i, i + m - 1) = mark <=> \A j \in 1..m : text[i + j - 1] = mark[j]
    <3>1. PICK y \in Seq(Piece) :
            /\ y = SubSeq(text, i, i + m - 1) /\ Len(y) = m
            /\ \A j \in 1..m : y[j] = text[i + j - 1]
      BY ONLY <1>1, <2>2, m \in 1..4, Zenon
    <3>2. y = mark <=> \A j \in 1..m : y[j] = mark[j]
      BY ONLY <3>1, Len(mark) = m, mark \in Seq(Piece), y \in Seq(Piece), SeqEqual
    <3>3. QED
      BY ONLY <3>1, <3>2, Zenon
  <2>3. QED
    BY ONLY <2>1, <2>2, Zenon
<1>3. {"cr", "lf"} \subseteq Piece
  BY DEF Piece
<1>4. /\ LF \in Seq(Piece) /\ Len(LF) = 1 /\ LF[1] = "lf"
  BY <1>3 DEF LF
<1>5. /\ CRLF \in Seq(Piece) /\ Len(CRLF) = 2 /\ CRLF[1] = "cr" /\ CRLF[2] = "lf"
  BY <1>3 DEF CRLF
<1>6. PICK l2 : /\ l2 = LF \o LF /\ l2 \in Seq(Piece) /\ Len(l2) = 2
                /\ l2[1] = "lf" /\ l2[2] = "lf"
  <2>1. /\ LF \o LF \in Seq(Piece) /\ Len(LF \o LF) = 1 + 1
        /\ \A j \in 1..(1 + 1) : (LF \o LF)[j] = IF j <= 1 THEN LF[j] ELSE LF[j - 1]
    BY ONLY <1>4, ConcatProperties, SMTT(30)
  <2>2. PICK y : y = LF \o LF
    OBVIOUS
  <2>3. Len(y) = 1 + 1 /\ \A j \in 1..(1 + 1) : y[j] = IF j <= 1 THEN LF[j] ELSE LF[j - 1]
    BY ONLY <2>1, <2>2, Zenon
  <2>4. Len(y) = 2 /\ y[1] = "lf" /\ y[2] = "lf"
    BY ONLY <1>4, <2>3
  <2>5. QED
    BY ONLY <2>1, <2>2, <2>4, Zenon
<1>7. PICK c4 : /\ c4 = CRLF \o CRLF /\ c4 \in Seq(Piece) /\ Len(c4) = 4
                /\ c4[1] = "cr" /\ c4[2] = "lf" /\ c4[3] = "cr" /\ c4[4] = "lf"
  <2>1. PICK c \in Seq(Piece) : c = CRLF /\ Len(c) = 2 /\ c[1] = "cr" /\ c[2] = "lf"
    BY ONLY <1>5, Zenon
  <2>2. PICK y : y = Cat(c, c)
    OBVIOUS
  <2>3. y \in Seq(Piece) /\ Joins(y, c, c)
    BY ONLY <2>2, CatJoins, c \in Seq(Piece)
  <2>4. Len(y) = 4 /\ y[1] = "cr" /\ y[2] = "lf" /\ y[3] = "cr" /\ y[4] = "lf"
    BY ONLY <2>1, <2>3 DEF Joins
  <2>5. y = CRLF \o CRLF
    BY ONLY <2>1, <2>2, Zenon DEF Cat
  <2>6. QED
    BY ONLY <2>3, <2>4, <2>5, Zenon
<1>8. ASSUME NEW i PROVE i \in Ends(text, LF) <=> i \in 1..n /\ text[i] = "lf"
  <2>1. i \in Ends(text, LF) <=> i \in 1..(n - 1 + 1) /\ \A j \in 1..1 : text[i + j - 1] = LF[j]
    BY ONLY <1>2, <1>4, 1 \in 1..4, ZenonT(40)
  <2>2. n - 1 + 1 = n
    OBVIOUS
  <2>3. i \in 1..n => ((\A j \in 1..1 : text[i + j - 1] = LF[j]) <=> text[i] = "lf")
    BY ONLY <1>4
  <2>4. QED
    BY ONLY <2>1, <2>2, <2>3, Zenon
<1>9. ASSUME NEW i
      PROVE  i \in Ends(text, CRLF) <=>
               i \in 1..(n - 1) /\ text[i] = "cr" /\ text[i + 1] = "lf"
  <2>1. i \in Ends(text, CRLF) <=> i \in 1..(n - 2 + 1) /\ \A j \in 1..2 : text[i + j - 1] = CRLF[j]
    BY ONLY <1>2, <1>5, 2 \in 1..4, ZenonT(40)
  <2>2. n - 2 + 1 = n - 1
    OBVIOUS
  <2>3. i \in 1..(n - 1) => ((\A j \in 1..2 : text[i + j - 1] = CRLF[j])
                               <=> text[i] = "cr" /\ text[i + 1] = "lf")
    BY ONLY <1>5
  <2>4. QED
    BY ONLY <2>1, <2>2, <2>3, Zenon
<1>10. ASSUME NEW i
       PROVE  i \in Ends(text, LF \o LF) <=>
                i \in 1..(n - 1) /\ text[i] = "lf" /\ text[i + 1] = "lf"
  <2>1. i \in Ends(text, l2) <=> i \in 1..(n - 2 + 1) /\ \A j \in 1..2 : text[i + j - 1] = l2[j]
    BY ONLY <1>2, <1>6, 2 \in 1..4, ZenonT(40)
  <2>2. n - 2 + 1 = n - 1
    OBVIOUS
  <2>3. i \in 1..(n - 1) => ((\A j \in 1..2 : text[i + j - 1] = l2[j])
                               <=> text[i] = "lf" /\ text[i + 1] = "lf")
    BY ONLY <1>6
  <2>4. QED
    BY ONLY <1>6, <2>1, <2>2, <2>3, Zenon
<1>11. ASSUME NEW i
       PROVE  i \in Ends(text, CRLF \o CRLF) <=>
                /\ i \in 1..(n - 3) /\ text[i] = "cr" /\ text[i + 1] = "lf"
                /\ text[i + 2] = "cr" /\ text[i + 3] = "lf"
  <2>1. i \in Ends(text, c4) <=> i \in 1..(n - 4 + 1) /\ \A j \in 1..4 : text[i + j - 1] = c4[j]
    BY ONLY <1>2, <1>7, 4 \in 1..4, ZenonT(40)
  <2>2. n - 4 + 1 = n - 3
    OBVIOUS
  <2>3. i \in 1..(n - 3) => ((\A j \in 1..4 : text[i + j - 1] = c4[j])
                               <=> /\ text[i] = "cr" /\ text[i + 1] = "lf"
                                   /\ text[i + 2] = "cr" /\ text[i + 3] = "lf")
    <3>1. \A j \in 1..4 : j = 1 \/ j = 2 \/ j = 3 \/ j = 4
      OBVIOUS
    <3>2. SUFFICES ASSUME i \in 1..(n - 3)
                   PROVE  (\A j \in 1..4 : text[i + j - 1] = c4[j])
                            <=> /\ text[i] = "cr" /\ text[i + 1] = "lf"
                                /\ text[i + 2] = "cr" /\ text[i + 3] = "lf"
      OBVIOUS
    <3>3. /\ i + 1 - 1 = i /\ i + 2 - 1 = i + 1 /\ i + 3 - 1 = i + 2 /\ i + 4 - 1 = i + 3
          /\ 1 \in 1..4 /\ 2 \in 1..4 /\ 3 \in 1..4 /\ 4 \in 1..4
      BY <3>2
    <3>4. QED
      BY ONLY <1>7, <3>1, <3>3, Zenon
  <2>4. QED
    BY ONLY <1>7, <2>1, <2>2, <2>3, Zenon
<1>12. QED
  BY ONLY <1>8, <1>9, <1>10, <1>11, Zenon DEF EndsIn

(* What is found to be the least is.                                        *)
LEMMA LeastIs ==
  ASSUME NEW S, S \subseteq Nat, NEW m \in S, \A y \in S : m <= y
  PROVE  Min(S) = m
<1>1. S # {}
  OBVIOUS
<1>2. Min(S) \in S /\ \A y \in S : Min(S) <= y
  BY ONLY <1>1, S \subseteq Nat, LeastOf
<1>3. PICK x \in Nat : x = Min(S) /\ x <= m /\ m <= x
  BY <1>2
<1>4. QED
  BY <1>3

(* However much has come, the end of the headers is found where it is, as   *)
(* soon as it has come and not before.                                      *)
LEMMA EndFound ==
  ASSUME NEW s, Sendable(s), NEW text \in Seq(Alphabet(s)), NEW n \in Nat, n = Len(text),
         NEW l \in Nat, l = Len(Headers(s)),
         \A p \in 1..n : p <= l => text[p] = Headers(s)[p]
  PROVE  /\ HeaderEnd(text) = (IF n >= l THEN l ELSE 0)
         /\ l > 2
<1>1. PICK h : h = Headers(s) /\ HeaderText(s, s.lines, h)
  BY ONLY Sendable(s), HeadersAreText, Zenon
<1>2. \A p \in 1..n : p <= l => text[p] = h[p]
  BY ONLY <1>1, \A p \in 1..n : p <= l => text[p] = Headers(s)[p], Zenon
<1>3. text \in Seq(Piece)
  BY ONLY Sendable(s), AlphabetFacts, SeqMonotonic, text \in Seq(Alphabet(s)), Zenon
<1>4. /\ \A i : i \in Ends(text, LF \o LF) <=>
              i \in 1..(n - 1) /\ text[i] = "lf" /\ text[i + 1] = "lf"
      /\ \A i : i \in Ends(text, CRLF \o CRLF) <=>
              /\ i \in 1..(n - 3) /\ text[i] = "cr" /\ text[i + 1] = "lf"
              /\ text[i + 2] = "cr" /\ text[i + 3] = "lf"
  <2>1. EndsIn(text, n)
    BY ONLY <1>3, n \in Nat, n = Len(text), EndsAre, Zenon
  <2>2. QED
    BY ONLY <2>1, Zenon DEF EndsIn
<1>5. CASE s.eol = LF
  <2>1. LfText(s.lines, s.framing, h, l)
    BY ONLY <1>1, <1>5, l = Len(Headers(s)), Zenon DEF HeaderText
  <2>2. l > 2 /\ (\A p \in 1..(l - 1) : h[p] = "lf" /\ h[p + 1] = "lf" => p = l - 1)
          /\ h[l - 1] = "lf" /\ h[l] = "lf"
    BY ONLY <2>1, Zenon DEF LfText
  <2>3. \A p \in 1..n : text[p] # "cr"
    <3>1. \A p \in 1..n : text[p] \in Alphabet(s)
      BY ONLY text \in Seq(Alphabet(s)), n = Len(text)
    <3>2. "cr" \notin Alphabet(s)
      BY ONLY <1>5 DEF Alphabet
    <3>3. QED
      BY ONLY <3>1, <3>2, Zenon
  <2>4. Ends(text, CRLF \o CRLF) = {}
    <3>1. \A i \in 1..(n - 3) : i \in 1..n
      OBVIOUS
    <3>2. QED
      BY ONLY <1>4, <2>3, <3>1, Zenon
  <2>5. CASE n >= l
    <3>1. PICK m \in Nat : m = l - 1
      BY ONLY <2>2, l \in Nat
    <3>2. m \in 1..(n - 1) /\ text[m] = "lf" /\ text[m + 1] = "lf"
      BY ONLY <1>2, <2>2, <2>5, <3>1, l \in Nat, n \in Nat
    <3>3. ASSUME NEW i \in 1..(n - 1), text[i] = "lf", text[i + 1] = "lf" PROVE m <= i
      BY ONLY <1>2, <2>2, <3>1, <3>3, l \in Nat, n \in Nat
    <3>4. m \in Ends(text, LF \o LF) /\ Ends(text, LF \o LF) \subseteq Nat
            /\ \A i \in Ends(text, LF \o LF) : m <= i
      <4>1. 1..(n - 1) \subseteq Nat
        OBVIOUS
      <4>2. QED
        BY ONLY <1>4, <3>2, <3>3, <4>1, Zenon
    <3>5. Min(Ends(text, LF \o LF)) = m /\ Ends(text, LF \o LF) # {}
      BY ONLY <3>4, LeastIs, Zenon
    <3>6. HeaderEnd(text) = m + 1
      BY ONLY <2>4, <3>5, Zenon DEF HeaderEnd
    <3>7. QED
      BY ONLY <2>2, <2>5, <3>1, <3>6, l \in Nat
  <2>6. CASE ~(n >= l)
    <3>1. ASSUME NEW i \in 1..(n - 1), text[i] = "lf", text[i + 1] = "lf" PROVE FALSE
      BY ONLY <1>2, <2>2, <2>6, <3>1, l \in Nat, n \in Nat
    <3>2. Ends(text, LF \o LF) = {}
      BY ONLY <1>4, <3>1, Zenon
    <3>3. QED
      BY ONLY <2>2, <2>4, <2>6, <3>2, Zenon DEF HeaderEnd
  <2>7. QED
    BY ONLY <2>5, <2>6, Zenon
<1>6. CASE s.eol = CRLF
  <2>1. CrlfText(s.lines, s.framing, h, l)
    BY ONLY <1>1, <1>6, l = Len(Headers(s)), Zenon DEF HeaderText
  <2>2. /\ l > 4
        /\ \A p \in 1..(l - 2) : h[p] = "cr" /\ h[p + 2] = "cr" => p = l - 3
        /\ h[l - 3] = "cr" /\ h[l - 2] = "lf" /\ h[l - 1] = "cr" /\ h[l] = "lf"
        /\ \A p \in 1..l : h[p] = "lf" => p > 1 /\ h[p - 1] = "cr"
    BY ONLY <2>1, Zenon DEF CrlfText
  <2>3. l > 2
    BY ONLY <2>2, l \in Nat
  <2>4. CASE n >= l
    <3>1. PICK m \in Nat : m = l - 3
      BY ONLY <2>2, l \in Nat
    <3>2. m \in 1..(n - 3) /\ text[m] = "cr" /\ text[m + 1] = "lf" /\ text[m + 2] = "cr"
            /\ text[m + 3] = "lf"
      BY ONLY <1>2, <2>2, <2>4, <3>1, l \in Nat, n \in Nat
    <3>3. ASSUME NEW i \in 1..(n - 3), text[i] = "cr", text[i + 2] = "cr" PROVE m <= i
      BY ONLY <1>2, <2>2, <3>1, <3>3, l \in Nat, n \in Nat
    <3>4. m \in Ends(text, CRLF \o CRLF) /\ Ends(text, CRLF \o CRLF) \subseteq Nat
            /\ \A i \in Ends(text, CRLF \o CRLF) : m <= i
      <4>1. 1..(n - 3) \subseteq Nat
        OBVIOUS
      <4>2. QED
        BY ONLY <1>4, <3>2, <3>3, <4>1, Zenon
    <3>5. Min(Ends(text, CRLF \o CRLF)) = m /\ Ends(text, CRLF \o CRLF) # {}
      BY ONLY <3>4, LeastIs, Zenon
    <3>6. HeaderEnd(text) = m + 3
      BY ONLY <3>5, Zenon DEF HeaderEnd
    <3>7. QED
      BY ONLY <2>2, <2>4, <3>1, <3>6, l \in Nat
  <2>5. CASE ~(n >= l)
    <3>1. ASSUME NEW i \in 1..(n - 3), text[i] = "cr", text[i + 2] = "cr" PROVE FALSE
      BY ONLY <1>2, <2>2, <2>5, <3>1, l \in Nat, n \in Nat
    <3>2. Ends(text, CRLF \o CRLF) = {}
      BY ONLY <1>4, <3>1, Zenon
    <3>3. ASSUME NEW i \in 1..(n - 1), text[i] = "lf", text[i + 1] = "lf" PROVE FALSE
      <4>1. PICK j \in 1..n : j = i + 1 /\ text[j] = "lf" /\ j - 1 = i
        BY ONLY <3>3, n \in Nat
      <4>2. j <= l /\ i <= l /\ i \in 1..n /\ j \in 1..l
        BY ONLY <2>5, <4>1, l \in Nat, n \in Nat, i \in 1..(n - 1)
      <4>3. h[j] = "lf" /\ h[i] = "lf"
        BY ONLY <1>2, <3>3, <4>1, <4>2, Zenon
      <4>4. h[j - 1] = "cr"
        BY ONLY <2>2, <4>2, <4>3, Zenon
      <4>5. QED
        BY ONLY <4>1, <4>3, <4>4
    <3>4. Ends(text, LF \o LF) = {}
      BY ONLY <1>4, <3>3, Zenon
    <3>5. QED
      BY ONLY <2>3, <2>5, <3>2, <3>4, Zenon DEF HeaderEnd
  <2>6. QED
    BY ONLY <2>3, <2>4, <2>5, Zenon
<1>7. QED
  BY <1>5, <1>6, Zenon DEF Sendable

(* The headers name the framing they have and no other, in no more lines    *)
(* than they have.                                                          *)
LEMMA HeadNames ==
  ASSUME NEW s, Sendable(s)
  PROVE  /\ Contains(Headers(s), "chunked") <=> s.framing = "chunked"
         /\ Contains(Headers(s), "length") <=> s.framing = "length"
         /\ Lines(Headers(s)) \in 0..(s.lines + 1)
<1>1. PICK h : h = Headers(s) /\ HeaderText(s, s.lines, h)
  BY ONLY Sendable(s), HeadersAreText, Zenon
<1>2. h \in Seq(Alphabet(s))
  BY ONLY <1>1, Zenon DEF HeaderText
<1>3. PICK l \in Nat : l = Len(h) /\ DOMAIN h = 1..l
  BY ONLY <1>2
<1>4. PICK n \in Nat : n = s.lines
  BY DEF Sendable
<1>5. PICK e \in 1..2 :
        /\ \A p \in 1..l : h[p] \in {"line", s.framing, "cr", "lf"}
        /\ \E p \in 1..l : h[p] = s.framing
        /\ \A p \in 1..l : h[p] \in Named => \E k \in 1..(n + 1) : p = (k - 1) * (e + 1) + 1
  <2>1. CASE s.eol = LF
    <3>1. LfText(n, s.framing, h, l)
      BY ONLY <1>1, <1>3, <1>4, <2>1, Zenon DEF HeaderText
    <3>2. \A k \in 1..(n + 1) : 2 * k - 1 = (k - 1) * (1 + 1) + 1
      BY ONLY n \in Nat
    <3>3. 1 \in 1..2
      OBVIOUS
    <3>4. \A p \in 1..l : h[p] \in Named => \E k \in 1..(n + 1) : p = (k - 1) * (1 + 1) + 1
      <4>1. \A p \in 1..l : h[p] \in Named => \E k \in 1..(n + 1) : p = 2 * k - 1
        BY ONLY <3>1, Zenon DEF LfText
      <4>2. QED
        BY ONLY <3>2, <4>1, Zenon
    <3>5. QED
      BY ONLY <3>1, <3>3, <3>4, Zenon DEF LfText
  <2>2. CASE s.eol = CRLF
    <3>1. CrlfText(n, s.framing, h, l)
      BY ONLY <1>1, <1>3, <1>4, <2>2, Zenon DEF HeaderText
    <3>2. \A k \in 1..(n + 1) : 3 * k - 2 = (k - 1) * (2 + 1) + 1
      BY ONLY n \in Nat
    <3>3. 2 \in 1..2
      OBVIOUS
    <3>4. QED
      BY ONLY <3>1, <3>2, <3>3, Zenon DEF CrlfText
  <2>3. QED
    BY <2>1, <2>2, Zenon DEF Sendable
<1>6. Contains(h, "chunked") <=> s.framing = "chunked"
  BY ONLY <1>3, <1>5 DEF Contains
<1>7. Contains(h, "length") <=> s.framing = "length"
  BY ONLY <1>3, <1>5 DEF Contains
<1> DEFINE At1 == {i \in DOMAIN h : h[i] \in {"line", "chunked", "length"}}
           line(k) == (k - 1) * (e + 1) + 1
           f == [k \in 1..(n + 1) |-> line(k)]
           img == {line(k) : k \in 1..(n + 1)}
<1>8. /\ IsFiniteSet(1..(n + 1)) /\ Cardinality(1..(n + 1)) = n + 1
  <2>1. 1 \in Int /\ n + 1 \in Int /\ 1 <= n + 1 /\ (n + 1) - 1 + 1 = n + 1
    OBVIOUS
  <2>2. QED
    BY ONLY <2>1, FS_Interval
<1>9. At1 \subseteq img
  BY ONLY <1>3, <1>5 DEF Named
<1>10. f \in Surjection(1..(n + 1), img)
  BY DEF Surjection
<1>11. IsFiniteSet(img) /\ Cardinality(img) <= n + 1
  <2> HIDE DEF img, f
  <2>1. IsFiniteSet(img) /\ Cardinality(img) <= Cardinality(1..(n + 1))
    BY ONLY <1>8, <1>10, FS_Surjection
  <2>2. QED
    BY <1>8, <2>1
<1>12. IsFiniteSet(At1) /\ Cardinality(At1) \in Nat /\ Cardinality(At1) <= n + 1
  <2> HIDE DEF img, At1
  <2>1. IsFiniteSet(At1) /\ Cardinality(At1) <= Cardinality(img)
    BY ONLY <1>9, <1>11, FS_Subset
  <2>2. Cardinality(At1) \in Nat /\ Cardinality(img) \in Nat
    BY ONLY <1>11, <2>1, FS_CardinalityType
  <2>3. QED
    BY ONLY <1>11, <2>1, <2>2, n \in Nat
<1>13. Lines(h) = Cardinality(At1)
  BY DEF Lines
<1>14. QED
  <2> HIDE DEF At1
  <2>1. Lines(h) \in 0..(s.lines + 1)
    BY ONLY <1>4, <1>12, <1>13
  <2>2. QED
    BY ONLY <1>1, <1>6, <1>7, <2>1, Zenon

-----------------------------------------------------------------------------
(* A line of the chunked framing.                                          *)

(* A part of a text is one.                                                 *)
LEMMA PartOfText ==
  ASSUME NEW S, NEW t \in Seq(S), NEW n \in Nat, n = Len(t), NEW a \in Nat \ {0}, NEW b \in 0..n
  PROVE  /\ SubSeq(t, a, b) \in Seq(S)
         /\ Len(SubSeq(t, a, b)) = IF a <= b THEN b - a + 1 ELSE 0
         /\ \A i \in 1..(b - a + 1) : SubSeq(t, a, b)[i] = t[a + i - 1]
<1>1. \A i \in a..b : t[i] \in S
  BY ONLY t \in Seq(S), n = Len(t), n \in Nat, a \in Nat \ {0}, b \in 0..n
<1>2. a \in Int /\ b \in Int
  OBVIOUS
<1>3. QED
  BY ONLY <1>1, <1>2, SubSeqProperties

(* A line of one token that is no CR is not shortened.                      *)
LEMMA TrimSolid ==
  ASSUME NEW x, x # "cr"
  PROVE  Trim(<<x>>) = <<x>>
<1> DEFINE t == <<x>>
           solid == {i \in DOMAIN t : t[i] # "cr"}
<1>1. t \in Seq({x}) /\ Len(t) = 1 /\ t[1] = x /\ DOMAIN t = {1}
  OBVIOUS
<1>2. solid = {1}
  BY <1>1
<1>3. Min(solid) = 1
  BY <1>2, LeastIs
<1>4. Max(solid) = 1
  <2>1. {1} \subseteq 1..1 /\ {1} # {} /\ 1 \in Nat
    OBVIOUS
  <2>2. Max({1}) \in {1}
    BY ONLY <2>1, LargestOf
  <2>3. QED
    BY ONLY <1>2, <2>2, Zenon
<1> HIDE DEF t, solid
<1>5. Trim(t) = SubSeq(t, Min(solid), Max(solid))
  <2>1. solid # {}
    BY ONLY <1>2
  <2>2. QED
    BY ONLY <2>1, Zenon DEF Trim, solid
<1>6. SubSeq(t, 1, 1) = t
  BY ONLY <1>1, SubSeqFull
<1>7. QED
  BY ONLY <1>3, <1>4, <1>5, <1>6, Zenon DEF t

(* Nothing is left of an empty line.                                        *)
LEMMA TrimEmpty == Trim(<<>>) = <<>>
<1>1. {i \in DOMAIN <<>> : <<>>[i] # "cr"} = {}
  OBVIOUS
<1>2. QED
  BY ONLY <1>1, Zenon DEF Trim

(* x is the line at the front of the buffer, in which there are n tokens.   *)
FrontLine(s, x, n) ==
  /\ Line = <<x>>
  /\ AfterLine = SubSeq(rbuf, 2 + Len(s.eol), n)
  /\ n >= 1 + Len(s.eol)

(* A line that has come is found, whatever has come behind it.              *)
LEMMA LineTaken ==
  ASSUME NEW s, Sendable(s), rbuf \in Seq(Alphabet(s)), NEW x \in Solid, NEW z, NEW y,
         LineBefore(s, y, x, z), NEW n \in Nat, n = Len(rbuf),
         \A p \in 1..n : rbuf[p] = y[p], HasLine
  PROVE  FrontLine(s, x, n)
<1>1. rbuf \in Seq(Piece)
  BY ONLY Sendable(s), AlphabetFacts, SeqMonotonic, rbuf \in Seq(Alphabet(s)), Zenon
<1>2. EndsIn(rbuf, n)
  BY ONLY <1>1, n \in Nat, n = Len(rbuf), EndsAre, Zenon
<1>3. /\ \A i : i \in Ends(rbuf, LF) <=> i \in 1..n /\ rbuf[i] = "lf"
      /\ \A i : i \in Ends(rbuf, CRLF) <=>
           i \in 1..(n - 1) /\ rbuf[i] = "cr" /\ rbuf[i + 1] = "lf"
  BY ONLY <1>2, Zenon DEF EndsIn
<1>4. x # "cr" /\ x # "lf"
  BY DEF Solid
<1>5. PICK j \in 1..n : rbuf[j] = "lf"
  BY ONLY <1>3, HasLine, Zenon DEF HasLine
<1>6. rbuf[1] = x
  BY ONLY <1>5, LineBefore(s, y, x, z), \A p \in 1..n : rbuf[p] = y[p], n \in Nat DEF LineBefore
<1>7. j # 1
  BY ONLY <1>4, <1>5, <1>6
<1>8. rbuf[2] = y[2]
  BY ONLY <1>5, <1>7, \A p \in 1..n : rbuf[p] = y[p], n \in Nat
<1>9. SubSeq(rbuf, 1, 1) = <<x>>
  <2>1. 1 \in Nat \ {0} /\ 1 \in 0..n
    BY ONLY <1>5, n \in Nat
  <2>2. /\ SubSeq(rbuf, 1, 1) \in Seq(Piece)
        /\ Len(SubSeq(rbuf, 1, 1)) = IF 1 <= 1 THEN 1 - 1 + 1 ELSE 0
        /\ \A i \in 1..(1 - 1 + 1) : SubSeq(rbuf, 1, 1)[i] = rbuf[1 + i - 1]
    BY ONLY <1>1, <2>1, n \in Nat, n = Len(rbuf), PartOfText
  <2>3. PICK u : u = SubSeq(rbuf, 1, 1)
    OBVIOUS
  <2>4. u \in Seq(Piece) /\ Len(u) = 1 /\ u[1] = x
    BY ONLY <1>6, <2>2, <2>3
  <2>5. PICK v : v = <<x>>
    OBVIOUS
  <2>6. x \in Piece
    BY DEF Solid
  <2>7. v \in Seq(Piece) /\ Len(v) = 1 /\ v[1] = x
    BY ONLY <2>5, <2>6
  <2>8. u = v
    BY ONLY <2>4, <2>7, SeqEqual
  <2>9. QED
    BY ONLY <2>3, <2>5, <2>8, Zenon
<1>10. Trim(<<x>>) = <<x>>
  BY ONLY <1>4, TrimSolid
<1>11. ASSUME NEW mark, LineMark = mark, Min(Ends(rbuf, mark)) = 2
       PROVE  Line = <<x>> /\ AfterLine = SubSeq(rbuf, 2 + Len(mark), n)
  <2>1. 2 - 1 = 1
    OBVIOUS
  <2>2. Line = Trim(SubSeq(rbuf, 1, 2 - 1))
    BY ONLY <1>11, Zenon DEF Line
  <2>3. AfterLine = SubSeq(rbuf, 2 + Len(mark), n)
    BY ONLY <1>11, n = Len(rbuf), Zenon DEF AfterLine
  <2>4. QED
    BY ONLY <1>9, <1>10, <2>1, <2>2, <2>3, Zenon
<1>12. CASE s.eol = LF
  <2>1. Len(s.eol) = 1 /\ y[2] = "lf"
    <3>1. Len(s.eol) = 1 /\ s.eol[1] = "lf"
      BY ONLY <1>12 DEF LF
    <3>2. QED
      BY ONLY <3>1, LineBefore(s, y, x, z) DEF LineBefore
  <2>2. Ends(rbuf, CRLF) = {}
    <3>1. "cr" \notin Alphabet(s)
      BY ONLY <1>12 DEF Alphabet
    <3>2. \A i \in 1..(n - 1) : rbuf[i] # "cr"
      BY ONLY <3>1, rbuf \in Seq(Alphabet(s)), n = Len(rbuf), n \in Nat
    <3>3. QED
      BY ONLY <1>3, <3>2, Zenon
  <2>3. LineMark = LF
    BY ONLY <2>2, Zenon DEF LineMark
  <2>4. 2 \in Ends(rbuf, LF) /\ Ends(rbuf, LF) \subseteq Nat
    <3>1. 2 \in 1..n
      BY ONLY <1>5, <1>7, n \in Nat
    <3>2. 1..n \subseteq Nat
      OBVIOUS
    <3>3. QED
      BY ONLY <1>3, <1>8, <2>1, <3>1, <3>2, Zenon
  <2>5. ASSUME NEW i \in Ends(rbuf, LF) PROVE 2 <= i
    <3>1. i \in 1..n /\ rbuf[i] = "lf"
      BY ONLY <1>3, <2>5, Zenon
    <3>2. i # 1
      BY ONLY <1>4, <1>6, <3>1
    <3>3. QED
      BY ONLY <3>1, <3>2, n \in Nat
  <2>6. Min(Ends(rbuf, LF)) = 2
    BY ONLY <2>4, <2>5, LeastIs, Zenon
  <2>7. Line = <<x>> /\ AfterLine = SubSeq(rbuf, 2 + Len(LF), n)
    BY ONLY <1>11, <2>3, <2>6, Zenon
  <2>8. n >= 1 + Len(s.eol)
    BY ONLY <1>5, <1>7, <2>1, n \in Nat
  <2>9. QED
    BY ONLY <1>12, <2>7, <2>8, Zenon DEF FrontLine
<1>13. CASE s.eol = CRLF
  <2>1. Len(s.eol) = 2 /\ y[2] = "cr" /\ y[3] = "lf"
    <3>1. Len(s.eol) = 2 /\ s.eol[1] = "cr" /\ s.eol[2] = "lf"
      BY ONLY <1>13 DEF CRLF
    <3>2. QED
      BY ONLY <3>1, LineBefore(s, y, x, z) DEF LineBefore
  <2>2. j # 2
    BY ONLY <1>5, <1>8, <2>1
  <2>3. n >= 3 /\ rbuf[3] = "lf"
    BY ONLY <1>5, <1>7, <2>1, <2>2, \A p \in 1..n : rbuf[p] = y[p], n \in Nat
  <2>4. 2 \in Ends(rbuf, CRLF) /\ Ends(rbuf, CRLF) \subseteq Nat
    <3>1. 2 \in 1..(n - 1) /\ 1..(n - 1) \subseteq Nat /\ 3 = 2 + 1
      BY ONLY <2>3, n \in Nat
    <3>2. rbuf[2] = "cr" /\ rbuf[2 + 1] = "lf"
      BY ONLY <1>8, <2>1, <2>3, <3>1, Zenon
    <3>3. QED
      BY ONLY <1>3, <3>1, <3>2, Zenon
  <2>5. LineMark = CRLF
    BY ONLY <2>4, Zenon DEF LineMark
  <2>6. ASSUME NEW i \in Ends(rbuf, CRLF) PROVE 2 <= i
    <3>1. i \in 1..(n - 1) /\ rbuf[i] = "cr"
      BY ONLY <1>3, <2>6, Zenon
    <3>2. i # 1
      BY ONLY <1>4, <1>6, <3>1
    <3>3. QED
      BY ONLY <3>1, <3>2, n \in Nat
  <2>7. Min(Ends(rbuf, CRLF)) = 2
    BY ONLY <2>4, <2>6, LeastIs, Zenon
  <2>8. Line = <<x>> /\ AfterLine = SubSeq(rbuf, 2 + Len(CRLF), n)
    BY ONLY <1>11, <2>5, <2>7, Zenon
  <2>9. n >= 1 + Len(s.eol)
    BY ONLY <2>1, <2>3, n \in Nat
  <2>10. QED
    BY ONLY <1>13, <2>8, <2>9, Zenon DEF FrontLine
<1>14. QED
  BY <1>12, <1>13, Zenon DEF Sendable

(* So is an empty one with nothing behind it.                               *)
LEMMA EmptyLineTaken ==
  ASSUME NEW s, Sendable(s), rbuf \in Seq(Alphabet(s)), NEW n \in Nat, n = Len(rbuf),
         n <= Len(s.eol), \A p \in 1..n : rbuf[p] = s.eol[p], HasLine
  PROVE  Line = <<>> /\ AfterLine = <<>> /\ n = Len(s.eol)
<1>1. rbuf \in Seq(Piece)
  BY ONLY Sendable(s), AlphabetFacts, SeqMonotonic, rbuf \in Seq(Alphabet(s)), Zenon
<1>2. EndsIn(rbuf, n)
  BY ONLY <1>1, n \in Nat, n = Len(rbuf), EndsAre, Zenon
<1>3. /\ \A i : i \in Ends(rbuf, LF) <=> i \in 1..n /\ rbuf[i] = "lf"
      /\ \A i : i \in Ends(rbuf, CRLF) <=>
           i \in 1..(n - 1) /\ rbuf[i] = "cr" /\ rbuf[i + 1] = "lf"
  BY ONLY <1>2, Zenon DEF EndsIn
<1>4. PICK j \in 1..n : rbuf[j] = "lf"
  BY ONLY <1>3, HasLine, Zenon DEF HasLine
<1>5. ASSUME NEW mark, LineMark = mark, Min(Ends(rbuf, mark)) = 1, Len(mark) = n
      PROVE  Line = <<>> /\ AfterLine = <<>>
  <2>1. 1 - 1 = 0
    OBVIOUS
  <2>2. Line = Trim(SubSeq(rbuf, 1, 1 - 1))
    BY ONLY <1>5, Zenon DEF Line
  <2>3. AfterLine = SubSeq(rbuf, 1 + n, n)
    BY ONLY <1>5, n = Len(rbuf), Zenon DEF AfterLine
  <2>4. SubSeq(rbuf, 1, 0) = <<>>
    BY ONLY SubSeqEmpty
  <2>5. SubSeq(rbuf, 1 + n, n) = <<>>
    <3>1. 1 + n \in Int /\ n \in Int /\ n < 1 + n
      BY ONLY n \in Nat
    <3>2. QED
      BY ONLY <3>1, SubSeqEmpty
  <2>6. QED
    BY ONLY <2>1, <2>2, <2>3, <2>4, <2>5, TrimEmpty, Zenon
<1>6. CASE s.eol = LF
  <2>1. Len(s.eol) = 1 /\ s.eol[1] = "lf" /\ Len(LF) = 1
    BY ONLY <1>6 DEF LF
  <2>2. n = 1 /\ rbuf[1] = "lf"
    BY ONLY <1>4, <2>1, n \in Nat, n <= Len(s.eol), \A p \in 1..n : rbuf[p] = s.eol[p]
  <2>3. Ends(rbuf, CRLF) = {}
    <3>1. 1..(n - 1) = {}
      BY ONLY <2>2
    <3>2. QED
      BY ONLY <1>3, <3>1, Zenon
  <2>4. LineMark = LF
    BY ONLY <2>3, Zenon DEF LineMark
  <2>5. 1 \in Ends(rbuf, LF) /\ Ends(rbuf, LF) \subseteq Nat /\ \A i \in Ends(rbuf, LF) : 1 <= i
    <3>1. 1 \in 1..n /\ 1..n \subseteq Nat /\ \A i \in 1..n : 1 <= i
      BY ONLY <2>2
    <3>2. QED
      BY ONLY <1>3, <2>2, <3>1, Zenon
  <2>6. Min(Ends(rbuf, LF)) = 1
    BY ONLY <2>5, LeastIs, Zenon
  <2>7. QED
    BY ONLY <1>5, <2>1, <2>2, <2>4, <2>6, Zenon
<1>7. CASE s.eol = CRLF
  <2>1. Len(s.eol) = 2 /\ s.eol[1] = "cr" /\ s.eol[2] = "lf" /\ Len(CRLF) = 2
    BY ONLY <1>7 DEF CRLF
  <2>2. j = 2 /\ n = 2 /\ rbuf[1] = "cr" /\ rbuf[2] = "lf"
    BY ONLY <1>4, <2>1, n \in Nat, n <= Len(s.eol), \A p \in 1..n : rbuf[p] = s.eol[p]
  <2>3. 1 \in Ends(rbuf, CRLF) /\ Ends(rbuf, CRLF) \subseteq Nat
          /\ \A i \in Ends(rbuf, CRLF) : 1 <= i
    <3>1. 1 \in 1..(n - 1) /\ 1..(n - 1) \subseteq Nat /\ (\A i \in 1..(n - 1) : 1 <= i) /\ 1 + 1 = 2
      BY ONLY <2>2
    <3>2. QED
      BY ONLY <1>3, <2>2, <3>1, Zenon
  <2>4. LineMark = CRLF
    BY ONLY <2>3, Zenon DEF LineMark
  <2>5. Min(Ends(rbuf, CRLF)) = 1
    BY ONLY <2>3, LeastIs, Zenon
  <2>6. QED
    BY ONLY <1>5, <2>1, <2>2, <2>4, <2>5, Zenon
<1>8. QED
  BY <1>6, <1>7, Zenon DEF Sendable

(* The sizes are written and read alike.                                    *)
LEMMA SizeRead ==
  /\ \A n \in 0..4 : SizeOf(Sizes[n + 1]) = n
  /\ \A t \in Range(Sizes) : SizeOf(t) \in 0..4
<1>1. MaxSize = 4
  BY Tokens
<1>2. \A n, m \in 0..4 : Sizes[n + 1] = Sizes[m + 1] => n = m
  BY DEF Sizes
<1>3. ASSUME NEW n \in 0..4 PROVE SizeOf(Sizes[n + 1]) = n
  BY ONLY <1>1, <1>2, n \in 0..4 DEF SizeOf
<1>4. ASSUME NEW t \in Range(Sizes) PROVE SizeOf(t) \in 0..4
  <2>1. \E n \in 0..4 : Sizes[n + 1] = t
    <3>1. PICK i \in 1..5 : t = Sizes[i]
      BY DEF Range, Sizes
    <3>2. PICK n \in 0..4 : n + 1 = i
      BY <3>1
    <3>3. QED
      BY ONLY <3>1, <3>2, Zenon
  <2>2. QED
    BY ONLY <1>1, <2>1 DEF SizeOf
<1>5. QED
  BY ONLY <1>3, <1>4, Zenon

-----------------------------------------------------------------------------
(* What has come of a text, and what is to come.                           *)

(* The lesser of two numbers.                                               *)
LEMMA LesserOfTwo ==
  ASSUME NEW a \in Nat, NEW b \in Nat
  PROVE  Min({a, b}) = IF a <= b THEN a ELSE b
<1>1. {a, b} \subseteq Nat
  OBVIOUS
<1>2. CASE a <= b
  <2>1. a \in {a, b} /\ \A y \in {a, b} : a <= y
    BY <1>2
  <2>2. Min({a, b}) = a
    BY ONLY <1>1, <2>1, LeastIs
  <2>3. QED
    BY ONLY <1>2, <2>2
<1>3. CASE ~(a <= b)
  <2>1. b \in {a, b} /\ \A y \in {a, b} : b <= y
    BY <1>3
  <2>2. Min({a, b}) = b
    BY ONLY <1>1, <2>1, LeastIs
  <2>3. QED
    BY ONLY <1>3, <2>2
<1>4. QED
  BY <1>2, <1>3

(* Of a text b has been read, and r is to come: all the rest, if it was     *)
(* sent whole.                                                              *)
Delivered(whole, b, r, text) ==
  /\ Len(b) + Len(r) <= Len(text)
  /\ \A p \in 1..Len(b) : b[p] = text[p]
  /\ \A p \in 1..Len(r) : r[p] = text[Len(b) + p]
  /\ whole => Len(b) + Len(r) = Len(text)

(* n more tokens are read; all of a is taken away.                          *)
Advanced(b, r, n, b1, r1) ==
  n \in 1..Len(r) /\ b1 = Cat(b, SubSeq(r, 1, n)) /\ r1 = SubSeq(r, n + 1, Len(r))
Passed(b, a, b1) == Len(a) <= Len(b) /\ b1 = SubSeq(b, Len(a) + 1, Len(b))

(* Reading some more of it leaves it at that.                               *)
LEMMA DeliverMore ==
  ASSUME NEW S, NEW w, NEW b \in Seq(S), NEW r \in Seq(S), NEW text \in Seq(S),
         Delivered(w, b, r, text), NEW n, NEW b1, NEW r1, Advanced(b, r, n, b1, r1)
  PROVE  /\ b1 \in Seq(S) /\ r1 \in Seq(S) /\ Len(b1) = Len(b) + n
         /\ Delivered(w, b1, r1, text)
<1>0. n \in 1..Len(r) /\ b1 = Cat(b, SubSeq(r, 1, n)) /\ r1 = SubSeq(r, n + 1, Len(r))
  BY ONLY Advanced(b, r, n, b1, r1), Zenon DEF Advanced
<1>1. PICK l \in Nat, m \in Nat, k \in Nat : l = Len(b) /\ m = Len(r) /\ k = Len(text)
  BY ONLY b \in Seq(S), r \in Seq(S), text \in Seq(S)
<1>2. /\ l + m <= k
      /\ \A p \in 1..l : b[p] = text[p]
      /\ \A p \in 1..m : r[p] = text[l + p]
      /\ w => l + m = k
  BY ONLY <1>1, Delivered(w, b, r, text), Zenon DEF Delivered
<1>3. n \in 1..m
  BY ONLY <1>0, <1>1, Zenon
<1>4. PICK u \in Seq(S) : u = SubSeq(r, 1, n) /\ Len(u) = n /\ \A p \in 1..n : u[p] = r[p]
  <2>1. 1 \in Nat \ {0} /\ n \in 0..m /\ 1 <= n /\ n - 1 + 1 = n
    BY ONLY <1>3, m \in Nat
  <2>2. /\ SubSeq(r, 1, n) \in Seq(S)
        /\ Len(SubSeq(r, 1, n)) = IF 1 <= n THEN n - 1 + 1 ELSE 0
        /\ \A i \in 1..(n - 1 + 1) : SubSeq(r, 1, n)[i] = r[1 + i - 1]
    BY ONLY <1>1, <2>1, r \in Seq(S), m \in Nat, PartOfText
  <2>3. \A i \in 1..n : 1 + i - 1 = i
    BY ONLY <2>1
  <2>4. Len(SubSeq(r, 1, n)) = n /\ \A p \in 1..n : SubSeq(r, 1, n)[p] = r[p]
    BY ONLY <2>1, <2>2, <2>3, Zenon
  <2>5. QED
    BY ONLY <2>2, <2>4, Zenon
<1>5. r1 \in Seq(S) /\ Len(r1) = m - n /\ \A p \in 1..(m - n) : r1[p] = r[n + p]
  <2>1. PICK a \in Nat \ {0} : a = n + 1
    BY ONLY <1>3, m \in Nat
  <2>2. m \in 0..m
    BY ONLY m \in Nat
  <2>3. /\ SubSeq(r, a, m) \in Seq(S)
        /\ Len(SubSeq(r, a, m)) = IF a <= m THEN m - a + 1 ELSE 0
        /\ \A i \in 1..(m - a + 1) : SubSeq(r, a, m)[i] = r[a + i - 1]
    BY ONLY <1>1, <2>2, r \in Seq(S), m \in Nat, a \in Nat \ {0}, PartOfText
  <2>4. r1 = SubSeq(r, a, m)
    BY ONLY <1>0, <1>1, <2>1, Zenon
  <2>5. /\ r1 \in Seq(S) /\ Len(r1) = IF a <= m THEN m - a + 1 ELSE 0
        /\ \A i \in 1..(m - a + 1) : r1[i] = r[a + i - 1]
    BY ONLY <2>3, <2>4, Zenon
  <2>6. (IF a <= m THEN m - a + 1 ELSE 0) = m - n /\ m - a + 1 = m - n
          /\ \A i \in 1..(m - n) : a + i - 1 = n + i
    BY ONLY <1>3, <2>1, m \in Nat
  <2>7. QED
    BY ONLY <2>5, <2>6, Zenon
<1>6. /\ b1 \in Seq(S) /\ Len(b1) = l + n
      /\ (\A p \in 1..l : b1[p] = b[p]) /\ \A p \in 1..n : b1[l + p] = u[p]
  <2>1. b1 \in Seq(S) /\ Joins(b1, b, u)
    BY ONLY <1>0, <1>4, b \in Seq(S), u \in Seq(S), CatJoins
  <2>2. QED
    BY ONLY <1>1, <1>4, <2>1, Zenon DEF Joins
<1>7. \A p \in 1..(l + n) : b1[p] = text[p]
  <2>1. ASSUME NEW p \in 1..n PROVE b1[l + p] = text[l + p]
    <3>1. p \in 1..m
      BY ONLY <1>3, p \in 1..n, m \in Nat
    <3>2. QED
      BY ONLY <1>2, <1>4, <1>6, <3>1, p \in 1..n, Zenon
  <2>2. ASSUME NEW p \in 1..(l + n) PROVE b1[p] = text[p]
    <3>1. CASE p <= l
      BY ONLY <1>2, <1>6, <3>1, p \in 1..(l + n), l \in Nat
    <3>2. CASE ~(p <= l)
      <4>1. PICK q \in 1..n : l + q = p
        <5>1. p - l \in 1..n /\ l + (p - l) = p
          BY ONLY <1>3, <3>2, p \in 1..(l + n), l \in Nat, m \in Nat
        <5>2. QED
          BY ONLY <5>1
      <4>2. QED
        BY ONLY <2>1, <4>1, Zenon
    <3>3. QED
      BY ONLY <3>1, <3>2
  <2>3. QED
    BY ONLY <2>2
<1>8. \A p \in 1..(m - n) : r1[p] = text[(l + n) + p]
  <2>1. ASSUME NEW p \in 1..(m - n) PROVE r1[p] = text[(l + n) + p]
    <3>1. PICK q \in 1..m : q = n + p
      BY ONLY <1>3, m \in Nat, p \in 1..(m - n)
    <3>2. l + q = (l + n) + p
      BY ONLY <1>3, <3>1, m \in Nat, p \in 1..(m - n), l \in Nat
    <3>3. r[q] = text[l + q] /\ r1[p] = r[q]
      BY ONLY <1>2, <1>5, <3>1, Zenon
    <3>4. QED
      BY ONLY <3>2, <3>3, Zenon
  <2>2. QED
    BY ONLY <2>1
<1>9. (l + n) + (m - n) = l + m
  BY ONLY <1>3, l \in Nat, m \in Nat
<1>10. Delivered(w, b1, r1, text)
  BY ONLY <1>1, <1>2, <1>5, <1>6, <1>7, <1>8, <1>9, Zenon DEF Delivered
<1>11. QED
  BY ONLY <1>1, <1>5, <1>6, <1>10, Zenon

(* What has been read in full may be taken away, before what follows.       *)
LEMMA DeliverPast ==
  ASSUME NEW S, NEW w, NEW b \in Seq(S), NEW r \in Seq(S), NEW a \in Seq(S), NEW z \in Seq(S),
         NEW text, Joins(text, a, z), Delivered(w, b, r, text), NEW b1, Passed(b, a, b1)
  PROVE  /\ b1 \in Seq(S) /\ Len(b1) = Len(b) - Len(a)
         /\ Delivered(w, b1, r, z)
<1>0. Len(a) <= Len(b) /\ b1 = SubSeq(b, Len(a) + 1, Len(b))
  BY ONLY Passed(b, a, b1), Zenon DEF Passed
<1>1. PICK l \in Nat, m \in Nat, i \in Nat, k \in Nat :
        l = Len(b) /\ m = Len(r) /\ i = Len(a) /\ k = Len(z)
  BY ONLY b \in Seq(S), r \in Seq(S), a \in Seq(S), z \in Seq(S)
<1>2. Len(text) = i + k /\ \A p \in 1..k : text[i + p] = z[p]
  BY ONLY <1>1, Joins(text, a, z), Zenon DEF Joins
<1>3. /\ l + m <= i + k
      /\ \A p \in 1..l : b[p] = text[p]
      /\ \A p \in 1..m : r[p] = text[l + p]
      /\ w => l + m = i + k
  BY ONLY <1>1, <1>2, Delivered(w, b, r, text), Zenon DEF Delivered
<1>4. i <= l
  BY ONLY <1>0, <1>1, Zenon
<1>5. b1 \in Seq(S) /\ Len(b1) = l - i /\ \A p \in 1..(l - i) : b1[p] = b[i + p]
  <2>1. PICK q \in Nat \ {0} : q = i + 1
    BY ONLY i \in Nat
  <2>2. l \in 0..l
    BY ONLY l \in Nat
  <2>3. /\ SubSeq(b, q, l) \in Seq(S)
        /\ Len(SubSeq(b, q, l)) = IF q <= l THEN l - q + 1 ELSE 0
        /\ \A p \in 1..(l - q + 1) : SubSeq(b, q, l)[p] = b[q + p - 1]
    BY ONLY <1>1, <2>2, b \in Seq(S), l \in Nat, q \in Nat \ {0}, PartOfText
  <2>4. b1 = SubSeq(b, q, l)
    BY ONLY <1>0, <1>1, <2>1, Zenon
  <2>5. /\ b1 \in Seq(S) /\ Len(b1) = IF q <= l THEN l - q + 1 ELSE 0
        /\ \A p \in 1..(l - q + 1) : b1[p] = b[q + p - 1]
    BY ONLY <2>3, <2>4, Zenon
  <2>6. (IF q <= l THEN l - q + 1 ELSE 0) = l - i /\ l - q + 1 = l - i
          /\ \A p \in 1..(l - i) : q + p - 1 = i + p
    BY ONLY <1>4, <2>1, l \in Nat, i \in Nat
  <2>7. QED
    BY ONLY <2>5, <2>6, Zenon
<1>6. \A p \in 1..(l - i) : b1[p] = z[p]
  <2>1. ASSUME NEW p \in 1..(l - i) PROVE b1[p] = z[p]
    <3>1. PICK q \in 1..l : q = i + p
      BY ONLY <1>4, l \in Nat, i \in Nat, p \in 1..(l - i)
    <3>2. p \in 1..k
      BY ONLY <1>3, <1>4, l \in Nat, i \in Nat, m \in Nat, k \in Nat, p \in 1..(l - i)
    <3>3. b1[p] = b[q] /\ b[q] = text[q] /\ text[q] = z[p]
      BY ONLY <1>2, <1>3, <1>5, <3>1, <3>2, Zenon
    <3>4. QED
      BY ONLY <3>3
  <2>2. QED
    BY ONLY <2>1
<1>7. \A p \in 1..m : r[p] = z[(l - i) + p]
  <2>1. ASSUME NEW p \in 1..m PROVE r[p] = z[(l - i) + p]
    <3>1. PICK q \in 1..k : q = (l - i) + p
      BY ONLY <1>3, <1>4, l \in Nat, i \in Nat, m \in Nat, k \in Nat, p \in 1..m
    <3>2. i + q = l + p
      BY ONLY <1>4, <3>1, l \in Nat, i \in Nat, m \in Nat, p \in 1..m
    <3>3. r[p] = text[l + p] /\ text[i + q] = z[q]
      BY ONLY <1>2, <1>3, Zenon
    <3>4. QED
      BY ONLY <3>1, <3>2, <3>3, Zenon
  <2>2. QED
    BY ONLY <2>1
<1>8. (l - i) + m <= k /\ (w => (l - i) + m = k)
  BY ONLY <1>3, <1>4, l \in Nat, i \in Nat, m \in Nat, k \in Nat
<1>9. Delivered(w, b1, r, z)
  BY ONLY <1>1, <1>5, <1>6, <1>7, <1>8, Zenon DEF Delivered
<1>10. QED
  BY ONLY <1>1, <1>5, <1>9, Zenon

(* A text is the beginning of another if its tokens are.                    *)
LEMMA PrefixIs ==
  ASSUME NEW S, NEW a \in Seq(S), NEW t \in Seq(S)
  PROVE  IsPrefix(a, t) <=> Len(a) <= Len(t) /\ \A p \in 1..Len(a) : t[p] = a[p]
<1>1. PICK m \in Nat, n \in Nat : m = Len(a) /\ n = Len(t)
  BY ONLY a \in Seq(S), t \in Seq(S)
<1>2. SubSeq(a, 1, m) = a
  BY ONLY <1>1, a \in Seq(S), SubSeqFull
<1>3. ASSUME m <= n PROVE a = SubSeq(t, 1, m) <=> \A p \in 1..m : t[p] = a[p]
  <2>1. 1 \in Nat \ {0} /\ m \in 0..n /\ (IF 1 <= m THEN m - 1 + 1 ELSE 0) = m /\ m - 1 + 1 = m
          /\ \A i \in 1..m : 1 + i - 1 = i
    BY ONLY <1>3, m \in Nat, n \in Nat
  <2>2. /\ SubSeq(t, 1, m) \in Seq(S)
        /\ Len(SubSeq(t, 1, m)) = IF 1 <= m THEN m - 1 + 1 ELSE 0
        /\ \A i \in 1..(m - 1 + 1) : SubSeq(t, 1, m)[i] = t[1 + i - 1]
    BY ONLY <1>1, <2>1, t \in Seq(S), n \in Nat, PartOfText
  <2>3. PICK u \in Seq(S) : u = SubSeq(t, 1, m) /\ Len(u) = m /\ \A i \in 1..m : u[i] = t[i]
    BY ONLY <2>1, <2>2, Zenon
  <2>4. a = u <=> \A p \in 1..m : u[p] = a[p]
    BY ONLY <1>1, <2>3, a \in Seq(S), u \in Seq(S), SeqEqual
  <2>5. QED
    BY ONLY <2>3, <2>4, Zenon
<1>4. QED
  BY ONLY <1>1, <1>2, <1>3, Zenon DEF IsPrefix

-----------------------------------------------------------------------------
(* The body.                                                               *)

(* What is kept of so much of the payload.                                  *)
Taken(n) == SubSeq(Units, 1, Min({BodyCap, n}))

(* What is kept of a part of the payload is its beginning, up to the cap.   *)
LEMMA TakenIs ==
  ASSUME NEW n \in 0..4
  PROVE  /\ Min({BodyCap, n}) = (IF BodyCap <= n THEN BodyCap ELSE n)
         /\ Taken(n) \in Seq(Solid) /\ Len(Taken(n)) = Min({BodyCap, n})
         /\ \A p \in 1..Min({BodyCap, n}) : Taken(n)[p] = Units[p]
<1>1. BodyCap \in Nat /\ n \in Nat
  BY RequestAssumption
<1>2. Min({BodyCap, n}) = IF BodyCap <= n THEN BodyCap ELSE n
  BY ONLY <1>1, LesserOfTwo
<1>3. PICK b \in 0..4 : b = Min({BodyCap, n})
  BY ONLY <1>1, <1>2, n \in 0..4
<1>4. 0 \in 0..4 /\ b \in 0..4 /\ 0 + 1 = 1 /\ b - 0 = b /\ \A p \in 1..b : 0 + p = p
  BY ONLY b \in 0..4
<1>5. /\ SubSeq(Units, 0 + 1, b) \in Seq(Solid)
      /\ Len(SubSeq(Units, 0 + 1, b)) = b - 0
      /\ \A p \in 1..(b - 0) : SubSeq(Units, 0 + 1, b)[p] = Units[0 + p]
  BY ONLY <1>4, PartOfPayload
<1>6. /\ SubSeq(Units, 1, b) \in Seq(Solid) /\ Len(SubSeq(Units, 1, b)) = b
      /\ \A p \in 1..b : SubSeq(Units, 1, b)[p] = Units[p]
  BY ONLY <1>4, <1>5, Zenon
<1>7. QED
  BY ONLY <1>2, <1>3, <1>6, Zenon DEF Taken

(* It is the beginning of the payload.                                      *)
LEMMA TakenIsPrefix ==
  ASSUME NEW s, Sendable(s), NEW n \in 0..s.size
  PROVE  IsPrefix(Taken(n), Payload(s))
<1>1. /\ s.size \in 0..4
      /\ Payload(s) \in Seq(Solid) /\ Len(Payload(s)) = s.size
      /\ \A p \in 1..s.size : Payload(s)[p] = Units[p]
  BY PayloadIsUnits
<1>2. n \in 0..4 /\ BodyCap \in Nat
  BY <1>1, RequestAssumption
<1>3. PICK b \in Nat : b = Min({BodyCap, n}) /\ b <= n
  <2>1. Min({BodyCap, n}) = IF BodyCap <= n THEN BodyCap ELSE n
    BY ONLY <1>2, TakenIs, Zenon
  <2>2. QED
    BY ONLY <1>2, <2>1
<1>4. Taken(n) \in Seq(Solid) /\ Len(Taken(n)) = b /\ \A p \in 1..b : Taken(n)[p] = Units[p]
  BY ONLY <1>2, <1>3, TakenIs, Zenon
<1>5. Len(Taken(n)) <= Len(Payload(s)) /\ \A p \in 1..Len(Taken(n)) : Payload(s)[p] = Taken(n)[p]
  <2>1. PICK m \in Nat : m = s.size
    BY ONLY <1>1
  <2>2. b <= m /\ \A p \in 1..b : p \in 1..m
    BY ONLY <1>3, <2>1, n \in 0..s.size, b \in Nat, m \in Nat
  <2>3. \A p \in 1..b : Payload(s)[p] = Taken(n)[p]
    BY ONLY <1>1, <1>4, <2>1, <2>2, Zenon
  <2>4. QED
    BY ONLY <1>1, <1>4, <2>1, <2>2, <2>3, Zenon
<1>6. QED
  BY ONLY <1>1, <1>4, <1>5, PrefixIs

(* A piece of the payload is added to what has been kept of it.             *)
LEMMA TakenMore ==
  ASSUME NEW m \in 0..4, NEW t \in 0..(4 - m), NEW b \in Seq(Piece), t <= Len(b),
         \A p \in 1..t : b[p] = Units[m + p], NEW y,
         y = SubSeq(Cat(Taken(m), SubSeq(b, 1, t)), 1, Min({BodyCap, Len(Taken(m)) + t}))
  PROVE  y = Taken(m + t)
<1>1. BodyCap \in Nat /\ m \in Nat /\ t \in Nat /\ m + t \in 0..4
  BY RequestAssumption
<1>2. PICK a \in Seq(Piece), l \in Nat :
        /\ a = Taken(m) /\ Len(a) = l /\ l = (IF BodyCap <= m THEN BodyCap ELSE m)
        /\ \A p \in 1..l : a[p] = Units[p]
  <2>1. /\ Min({BodyCap, m}) = (IF BodyCap <= m THEN BodyCap ELSE m)
        /\ Taken(m) \in Seq(Solid) /\ Len(Taken(m)) = Min({BodyCap, m})
        /\ \A p \in 1..Min({BodyCap, m}) : Taken(m)[p] = Units[p]
    BY TakenIs
  <2>2. PICK l \in Nat : l = (IF BodyCap <= m THEN BodyCap ELSE m)
    BY <1>1
  <2>3. Taken(m) \in Seq(Piece)
    <3>1. Solid \subseteq Piece
      BY DEF Solid
    <3>2. QED
      BY ONLY <2>1, <3>1, SeqMonotonic
  <2>4. QED
    BY ONLY <2>1, <2>2, <2>3, Zenon
<1>3. PICK d \in Seq(Solid), e \in Nat :
        /\ d = Taken(m + t) /\ Len(d) = e /\ e = (IF BodyCap <= m + t THEN BodyCap ELSE m + t)
        /\ \A p \in 1..e : d[p] = Units[p]
  <2>0. PICK k \in 0..4 : k = m + t
    BY <1>1
  <2>1. /\ Min({BodyCap, k}) = (IF BodyCap <= k THEN BodyCap ELSE k)
        /\ Taken(k) \in Seq(Solid) /\ Len(Taken(k)) = Min({BodyCap, k})
        /\ \A p \in 1..Min({BodyCap, k}) : Taken(k)[p] = Units[p]
    BY ONLY k \in 0..4, TakenIs
  <2>2. PICK j \in Nat : j = (IF BodyCap <= k THEN BodyCap ELSE k)
    BY <1>1
  <2>3. QED
    BY ONLY <2>0, <2>1, <2>2, Zenon
<1>4. PICK u \in Seq(Piece) : u = SubSeq(b, 1, t) /\ Len(u) = t /\ \A p \in 1..t : u[p] = b[p]
  <2>1. PICK n \in Nat : n = Len(b)
    BY ONLY b \in Seq(Piece)
  <2>2. 1 \in Nat \ {0} /\ t \in 0..n /\ (IF 1 <= t THEN t - 1 + 1 ELSE 0) = t /\ t - 1 + 1 = t
          /\ \A i \in 1..t : 1 + i - 1 = i
    BY ONLY <1>1, <2>1, t <= Len(b), n \in Nat
  <2>3. /\ SubSeq(b, 1, t) \in Seq(Piece)
        /\ Len(SubSeq(b, 1, t)) = IF 1 <= t THEN t - 1 + 1 ELSE 0
        /\ \A i \in 1..(t - 1 + 1) : SubSeq(b, 1, t)[i] = b[1 + i - 1]
    BY ONLY <2>1, <2>2, b \in Seq(Piece), n \in Nat, PartOfText
  <2>4. QED
    BY ONLY <2>2, <2>3, Zenon
<1>5. PICK x \in Seq(Piece) :
        /\ x = Cat(a, u) /\ Len(x) = l + t
        /\ (\A p \in 1..l : x[p] = a[p]) /\ \A p \in 1..t : x[l + p] = u[p]
  <2>1. Cat(a, u) \in Seq(Piece) /\ Joins(Cat(a, u), a, u)
    BY ONLY CatJoins, a \in Seq(Piece), u \in Seq(Piece)
  <2>2. PICK x \in Seq(Piece) : x = Cat(a, u) /\ Joins(x, a, u)
    BY ONLY <2>1, Zenon
  <2>3. Len(x) = l + t /\ (\A p \in 1..l : x[p] = a[p]) /\ \A p \in 1..t : x[l + p] = u[p]
    BY ONLY <1>2, <1>4, <2>2, Zenon DEF Joins
  <2>4. QED
    BY ONLY <2>2, <2>3, Zenon
<1>6. Min({BodyCap, l + t}) = e
  <2>1. l + t \in Nat
    BY ONLY <1>1, <1>2
  <2>2. Min({BodyCap, l + t}) = IF BodyCap <= l + t THEN BodyCap ELSE l + t
    BY ONLY <1>1, <2>1, LesserOfTwo
  <2>3. (IF BodyCap <= l + t THEN BodyCap ELSE l + t) = e
    BY ONLY <1>1, <1>2, <1>3
  <2>4. QED
    BY ONLY <2>2, <2>3, Zenon
<1>7. y = SubSeq(x, 1, e)
  <2>1. y = SubSeq(Cat(a, u), 1, Min({BodyCap, l + t}))
    BY ONLY <1>2, <1>4, y = SubSeq(Cat(Taken(m), SubSeq(b, 1, t)), 1, Min({BodyCap, Len(Taken(m)) + t})), Zenon
  <2>2. QED
    BY ONLY <1>5, <1>6, <2>1, Zenon
<1>8. y \in Seq(Piece) /\ Len(y) = e /\ \A p \in 1..e : y[p] = x[p]
  <2>1. 1 \in Nat \ {0} /\ e \in 0..(l + t) /\ (IF 1 <= e THEN e - 1 + 1 ELSE 0) = e
          /\ e - 1 + 1 = e /\ (\A i \in 1..e : 1 + i - 1 = i) /\ l + t \in Nat
    BY ONLY <1>1, <1>2, <1>3
  <2>2. /\ SubSeq(x, 1, e) \in Seq(Piece)
        /\ Len(SubSeq(x, 1, e)) = IF 1 <= e THEN e - 1 + 1 ELSE 0
        /\ \A i \in 1..(e - 1 + 1) : SubSeq(x, 1, e)[i] = x[1 + i - 1]
    BY ONLY <1>5, <2>1, x \in Seq(Piece), PartOfText
  <2>3. QED
    BY ONLY <1>7, <2>1, <2>2, Zenon
<1>9. ASSUME NEW p \in 1..e PROVE x[p] = Units[p]
  <2>1. CASE p <= l
    <3>1. p \in 1..l
      BY ONLY <1>2, <2>1, <1>3, p \in 1..e
    <3>2. QED
      BY ONLY <1>2, <1>5, <3>1, Zenon
  <2>2. CASE ~(p <= l)
    <3>1. PICK q \in 1..t : l + q = p /\ m + q = p
      <4>1. p - l \in 1..t /\ l + (p - l) = p /\ m + (p - l) = p
        BY ONLY <1>1, <1>2, <1>3, <2>2, p \in 1..e
      <4>2. QED
        BY ONLY <4>1
    <3>2. x[l + q] = u[q] /\ u[q] = b[q] /\ b[q] = Units[m + q]
      BY ONLY <1>4, <1>5, \A i \in 1..t : b[i] = Units[m + i], q \in 1..t, Zenon
    <3>3. QED
      BY ONLY <3>1, <3>2, Zenon
  <2>3. QED
    BY ONLY <2>1, <2>2
<1>10. d \in Seq(Piece)
  <2>1. Solid \subseteq Piece
    BY DEF Solid
  <2>2. QED
    BY ONLY <2>1, d \in Seq(Solid), SeqMonotonic
<1>11. Len(y) = Len(d) /\ \A p \in 1..Len(y) : y[p] = d[p]
  BY ONLY <1>3, <1>8, <1>9, Zenon
<1>12. y = d
  BY ONLY <1>8, <1>10, <1>11, SeqEqual
<1>13. QED
  BY ONLY <1>3, <1>12, Zenon

-----------------------------------------------------------------------------
(* The reader's variables.                                                 *)

(* The types of the reader's variables: the buffers hold what a request of  *)
(* this one's framing is written in.                                        *)
Buffers ==
  /\ Sendable(sent) /\ sent.whole \in BOOLEAN
  /\ rest \in Seq(Alphabet(sent)) /\ rbuf \in Seq(Alphabet(sent))
  /\ body \in Seq(Piece)
  /\ rpc \in {"idle", "headers", "length", "size", "payload", "ending", "trailers", "read",
              "admitted", "refused", "dropped"}
  /\ need \in 0..MaxSize
  /\ verdict \in Verdicts \cup {"none", "431", "malformed"}

(* The texts are of the type the model gives them.                          *)
LEMMA BuffersAreTyped == Buffers => ReqTypeOK
<1> SUFFICES ASSUME Buffers PROVE ReqTypeOK
  OBVIOUS
<1>1. Alphabet(sent) \subseteq Piece
  BY AlphabetFacts DEF Buffers
<1>2. rest \in Seq(Piece) /\ rbuf \in Seq(Piece)
  BY <1>1, SeqMonotonic DEF Buffers
<1>3. QED
  BY ONLY <1>2, Buffers, Zenon DEF Buffers, ReqTypeOK

(* One read brings something, and no more than there is or than it may.     *)
LEMMA PiecesAre ==
  ASSUME NEW A, rest \in Seq(A), NEW n \in Pieces
  PROVE  n \in 1..Len(rest) /\ n <= ReadCap
<1>1. PICK m \in Nat : m = Len(rest)
  BY ONLY rest \in Seq(A)
<1>2. ReadCap \in Nat
  BY RequestAssumption
<1>3. Min({ReadCap, m}) = IF ReadCap <= m THEN ReadCap ELSE m
  BY ONLY <1>2, LesserOfTwo, m \in Nat
<1>4. PICK k \in Nat : k = Min({ReadCap, m}) /\ k <= ReadCap /\ k <= m
  BY ONLY <1>2, <1>3, m \in Nat
<1>5. n \in 1..k
  BY ONLY <1>1, <1>4, n \in Pieces, Zenon DEF Pieces
<1>6. n \in 1..m /\ n <= ReadCap
  BY ONLY <1>2, <1>4, <1>5, m \in Nat
<1>7. QED
  BY ONLY <1>1, <1>6, Zenon

(* Parts of texts are texts.                                                *)
LEMMA GetsMore ==
  ASSUME NEW A, rest \in Seq(A), rbuf \in Seq(A), GetMore
  PROVE  /\ \E n \in 1..Len(rest) :
              /\ n <= ReadCap
              /\ rbuf' = Cat(rbuf, SubSeq(rest, 1, n)) /\ rest' = SubSeq(rest, n + 1, Len(rest))
         /\ rbuf' \in Seq(A) /\ rest' \in Seq(A)
<1>1. PICK n \in Pieces : rbuf' = Cat(rbuf, SubSeq(rest, 1, n)) /\ rest' = SubSeq(rest, n + 1, Len(rest))
  BY ONLY GetMore, Zenon DEF GetMore, Cat
<1>2. n \in 1..Len(rest) /\ n <= ReadCap
  BY ONLY rest \in Seq(A), n \in Pieces, PiecesAre
<1>3. PICK m \in Nat : m = Len(rest)
  BY ONLY rest \in Seq(A)
<1>4. SubSeq(rest, 1, n) \in Seq(A) /\ SubSeq(rest, n + 1, m) \in Seq(A)
  <2>1. 1 \in Nat \ {0} /\ n \in 0..m /\ m \in 0..m /\ n + 1 \in Nat \ {0}
    BY ONLY <1>2, <1>3
  <2>2. SubSeq(rest, 1, n) \in Seq(A)
    BY ONLY <1>3, <2>1, rest \in Seq(A), PartOfText
  <2>3. SubSeq(rest, n + 1, m) \in Seq(A)
    BY ONLY <1>3, <2>1, rest \in Seq(A), PartOfText
  <2>4. QED
    BY ONLY <2>2, <2>3
<1>5. Cat(rbuf, SubSeq(rest, 1, n)) \in Seq(A)
  BY ONLY <1>4, rbuf \in Seq(A), CatFacts, Zenon
<1>6. QED
  BY ONLY <1>1, <1>2, <1>3, <1>4, <1>5, Zenon

(* Where a mark is found is a place.                                        *)
LEMMA MarksAre ==
  ASSUME NEW text, NEW mark, Ends(text, mark) # {}
  PROVE  Min(Ends(text, mark)) \in Nat \ {0}
<1>1. Ends(text, mark) \subseteq Nat \ {0}
  <2>1. 1..(Len(text) - Len(mark) + 1) \subseteq Nat \ {0}
    OBVIOUS
  <2>2. QED
    BY ONLY <2>1, Zenon DEF Ends
<1>2. Ends(text, mark) \subseteq Nat
  BY ONLY <1>1
<1>3. Min(Ends(text, mark)) \in Ends(text, mark)
  BY ONLY <1>2, Ends(text, mark) # {}, LeastOf
<1>4. QED
  BY ONLY <1>1, <1>3

(* What is behind a line is a text.                                         *)
LEMMA LinesAre ==
  ASSUME NEW A, rbuf \in Seq(A), HasLine
  PROVE  AfterLine \in Seq(A)
<1>1. Ends(rbuf, LineMark) # {}
  BY DEF HasLine, LineMark
<1>2. PICK k \in Nat \ {0} : k = Min(Ends(rbuf, LineMark))
  BY ONLY <1>1, MarksAre, Zenon
<1>3. PICK m \in Nat : m = Len(LineMark)
  BY Tokens DEF LineMark
<1>4. PICK n \in Nat : n = Len(rbuf)
  BY ONLY rbuf \in Seq(A)
<1>5. k + m \in Nat \ {0} /\ n \in 0..n
  BY ONLY k \in Nat \ {0}, m \in Nat, n \in Nat
<1>6. SubSeq(rbuf, k + m, n) \in Seq(A)
  BY ONLY <1>4, <1>5, rbuf \in Seq(A), n \in Nat, PartOfText
<1>7. QED
  BY ONLY <1>2, <1>3, <1>4, <1>6, Zenon DEF AfterLine

(* So is what is behind any place in one.                                   *)
LEMMA RestsAre ==
  ASSUME NEW A, NEW t \in Seq(A), NEW k \in Nat
  PROVE  SubSeq(t, k + 1, Len(t)) \in Seq(A)
<1>1. PICK n \in Nat : n = Len(t)
  BY ONLY t \in Seq(A)
<1>2. k + 1 \in Nat \ {0} /\ n \in 0..n
  BY ONLY k \in Nat, n \in Nat
<1>3. SubSeq(t, k + 1, n) \in Seq(A)
  BY ONLY <1>1, <1>2, t \in Seq(A), n \in Nat, PartOfText
<1>4. QED
  BY ONLY <1>1, <1>3, Zenon

(* The end of the headers is a place.                                       *)
LEMMA HeaderEndIs ==
  ASSUME NEW text
  PROVE  HeaderEnd(text) \in Nat
<1>1. CASE Ends(text, CRLF \o CRLF) # {}
  <2>1. PICK k \in Nat : k = Min(Ends(text, CRLF \o CRLF))
    BY ONLY <1>1, MarksAre
  <2>2. HeaderEnd(text) = k + 3
    BY ONLY <1>1, <2>1, Zenon DEF HeaderEnd
  <2>3. QED
    BY <2>1, <2>2
<1>2. CASE Ends(text, CRLF \o CRLF) = {} /\ Ends(text, LF \o LF) # {}
  <2>1. PICK k \in Nat : k = Min(Ends(text, LF \o LF))
    BY ONLY <1>2, MarksAre
  <2>2. HeaderEnd(text) = k + 1
    BY ONLY <1>2, <2>1, Zenon DEF HeaderEnd
  <2>3. QED
    BY <2>1, <2>2
<1>3. CASE Ends(text, CRLF \o CRLF) = {} /\ Ends(text, LF \o LF) = {}
  BY ONLY <1>3, 0 \in Nat DEF HeaderEnd
<1>4. QED
  BY <1>1, <1>2, <1>3

(* The places the reader can be at, and what may be told of a request.      *)
ReaderPlaceNames == {"idle", "headers", "length", "size", "payload", "ending", "trailers",
                     "read", "admitted", "refused", "dropped"}
VerdictNames == Verdicts \cup {"none", "431", "malformed"}

(* A step that leaves texts in the buffers, with the same request, keeps the*)
(* types.                                                                   *)
LEMMA TextsKept ==
  ASSUME Buffers, sent' = sent, rest' \in Seq(Alphabet(sent)), rbuf' \in Seq(Alphabet(sent)),
         body' \in Seq(Piece), rpc' \in ReaderPlaceNames, need' \in 0..MaxSize,
         verdict' \in VerdictNames
  PROVE  Buffers'
<1>1. Sendable(sent') /\ sent'.whole \in BOOLEAN
  BY ONLY Buffers, sent' = sent, Zenon DEF Buffers
<1>2. rest' \in Seq(Alphabet(sent')) /\ rbuf' \in Seq(Alphabet(sent'))
  BY ONLY sent' = sent, rest' \in Seq(Alphabet(sent)), rbuf' \in Seq(Alphabet(sent)), Zenon
<1>3. QED
  BY ONLY <1>1, <1>2, body' \in Seq(Piece), rpc' \in ReaderPlaceNames, need' \in 0..MaxSize,
     verdict' \in VerdictNames, Zenon DEF Buffers, ReaderPlaceNames, VerdictNames

(* Every step of the reader leaves texts in its buffers.                    *)
LEMMA ReaderKeepsTexts ==
  ASSUME Buffers, Reader
  PROVE  Buffers'
<1>1. PICK A : A = Alphabet(sent)
  OBVIOUS
<1>2. /\ rest \in Seq(A) /\ rbuf \in Seq(A) /\ body \in Seq(Piece) /\ need \in 0..4
      /\ MaxSize = 4 /\ A \subseteq Piece /\ sent.size \in 0..4
      /\ rpc \in ReaderPlaceNames /\ verdict \in VerdictNames
  <2>1. MaxSize = 4 /\ Alphabet(sent) \subseteq Piece
    BY Tokens, AlphabetFacts DEF Buffers
  <2>2. QED
    BY ONLY <1>1, <2>1, Buffers, Zenon DEF Buffers, Sendable, ReaderPlaceNames, VerdictNames
<1>3. {"headers", "length", "size", "payload", "ending", "trailers", "read", "refused"}
        \subseteq ReaderPlaceNames /\ {"431", "malformed"} \subseteq VerdictNames
  BY DEF ReaderPlaceNames, VerdictNames
<1>0. ASSUME sent' = sent, rest' \in Seq(A), rbuf' \in Seq(A), body' \in Seq(Piece),
             rpc' \in ReaderPlaceNames, need' \in 0..4, verdict' \in VerdictNames
      PROVE  Buffers'
  <2>1. rest' \in Seq(Alphabet(sent)) /\ rbuf' \in Seq(Alphabet(sent))
    BY ONLY <1>0, <1>1, Zenon
  <2>2. need' \in 0..MaxSize
    BY ONLY <1>0, <1>2, Zenon
  <2>3. QED
    BY ONLY <1>0, <2>1, <2>2, Buffers, TextsKept, Zenon
<1>4. SUFFICES /\ sent' = sent /\ rest' \in Seq(A) /\ rbuf' \in Seq(A) /\ body' \in Seq(Piece)
               /\ rpc' \in ReaderPlaceNames /\ need' \in 0..4 /\ verdict' \in VerdictNames
  BY <1>0, Zenon
<1>5. \A t \in Seq(A) : t \in Seq(Piece)
  BY ONLY <1>2, SeqMonotonic
<1>6. BodyCap \in Nat
  BY RequestAssumption
<1>7. ASSUME GetMore PROVE rbuf' \in Seq(A) /\ rest' \in Seq(A)
  BY ONLY <1>2, <1>7, GetsMore, Zenon
<1>8. CASE ReadHeaders \/ ReadChunked
  <2>1. GetMore
    BY ONLY <1>8, Zenon DEF ReadHeaders, ReadChunked
  <2>2. sent' = sent /\ body' = body /\ rpc' = rpc /\ need' = need /\ verdict' = verdict
    BY ONLY <2>1 DEF GetMore
  <2>3. QED
    BY ONLY <1>2, <1>7, <2>1, <2>2, Zenon
<1>9. CASE TakeHeaders
  <2> DEFINE end == IF HeaderEnd(rbuf) # 0 THEN HeaderEnd(rbuf) ELSE Len(rbuf)
             head == SubSeq(rbuf, 1, end)
             came == SubSeq(rbuf, end + 1, Len(rbuf))
             length == IF Contains(head, "length") THEN Min({sent.size, BodyCap}) ELSE 0
  <2>1. end \in Nat
    BY ONLY <1>2, HeaderEndIs
  <2>2. came \in Seq(A)
    BY ONLY <1>2, <2>1, RestsAre
  <2>3. length \in 0..4
    <3>1. Min({sent.size, BodyCap}) = IF sent.size <= BodyCap THEN sent.size ELSE BodyCap
      BY ONLY <1>2, <1>6, LesserOfTwo
    <3>2. QED
      BY ONLY <1>2, <1>6, <3>1
  <2>4. PICK k \in Nat : k = Len(came)
    BY ONLY <2>2
  <2> HIDE DEF came, length
  <2>5. (IF length > k THEN length - k ELSE 0) \in 0..4
    BY ONLY <2>3, k \in Nat
  <2>6. /\ sent' = sent /\ rest' = rest
        /\ \/ rbuf' = came /\ rpc' = "size" /\ UNCHANGED <<body, need, verdict>>
           \/ /\ rbuf' = <<>>
              /\ \/ rpc' = "refused" /\ verdict' = "malformed" /\ UNCHANGED <<body, need>>
                 \/ /\ body' = came
                    /\ need' = IF length > Len(came) THEN length - Len(came) ELSE 0
                    /\ rpc' = "length" /\ verdict' = verdict
           \/ rpc' = "refused" /\ verdict' \in {"431", "malformed"} /\ UNCHANGED <<rbuf, body, need>>
    BY ONLY <1>9 DEF TakeHeaders, Refused, came, length, head, end
  <2>7. <<>> \in Seq(A)
    OBVIOUS
  <2>8. rest' \in Seq(A) /\ rbuf' \in Seq(A) /\ body' \in Seq(Piece)
    BY ONLY <1>2, <1>5, <2>2, <2>6, <2>7
  <2>9. need' \in 0..4
    BY ONLY <1>2, <2>4, <2>5, <2>6
  <2>10. rpc' \in ReaderPlaceNames /\ verdict' \in VerdictNames
    BY ONLY <1>2, <1>3, <2>6
  <2>11. QED
    BY ONLY <2>6, <2>8, <2>9, <2>10, Zenon
<1>10. CASE ReadLength
  <2>1. sent' = sent /\ rbuf' = rbuf /\ verdict' = verdict /\ (rpc' = rpc \/ rpc' = "read")
    BY ONLY <1>10 DEF ReadLength
  <2>2. rest' \in Seq(A) /\ body' \in Seq(Piece) /\ need' \in 0..4
    <3>1. CASE UNCHANGED <<rest, body, need>>
      BY ONLY <1>2, <3>1
    <3>2. ASSUME NEW n \in Pieces, n <= need, body' = Cat(body, SubSeq(rest, 1, n)),
                 rest' = SubSeq(rest, n + 1, Len(rest)), need' = need - n
          PROVE  rest' \in Seq(A) /\ body' \in Seq(Piece) /\ need' \in 0..4
      <4>1. n \in 1..Len(rest)
        BY ONLY <1>2, n \in Pieces, PiecesAre
      <4>2. PICK m \in Nat : m = Len(rest)
        BY ONLY <1>2
      <4>3. 1 \in Nat \ {0} /\ n \in 0..m /\ n \in Nat
        BY ONLY <4>1, <4>2
      <4>4. SubSeq(rest, 1, n) \in Seq(A)
        BY ONLY <1>2, <4>2, <4>3, PartOfText
      <4>5. SubSeq(rest, n + 1, Len(rest)) \in Seq(A)
        BY ONLY <1>2, <4>3, RestsAre
      <4>6. body' \in Seq(Piece)
        BY ONLY <1>2, <1>5, <3>2, <4>4, CatFacts, Zenon
      <4>7. need' \in 0..4
        BY ONLY <1>2, <3>2, <4>3
      <4>8. QED
        BY ONLY <3>2, <4>5, <4>6, <4>7, Zenon
    <3>3. QED
      BY ONLY <1>10, <3>1, <3>2, Zenon DEF ReadLength, Cat
  <2>3. QED
    BY ONLY <1>2, <1>3, <2>1, <2>2, Zenon
<1>11. CASE ReadSize
  <2>1. AfterLine \in Seq(A)
    BY ONLY <1>2, <1>11, LinesAre, Zenon DEF ReadSize
  <2>2. /\ sent' = sent /\ rest' = rest /\ body' = body /\ rbuf' = AfterLine
        /\ \/ UNCHANGED <<rpc, need, verdict>>
           \/ /\ Line[1] \in Range(Sizes) /\ need' = SizeOf(Line[1]) /\ verdict' = verdict
              /\ rpc' \in {"trailers", "payload"}
           \/ need' = need /\ rpc' = "refused" /\ verdict' = "malformed"
    BY ONLY <1>11 DEF ReadSize, Refused
  <2>3. need' \in 0..4
    <3>1. CASE need' = need
      BY ONLY <1>2, <3>1
    <3>2. CASE Line[1] \in Range(Sizes) /\ need' = SizeOf(Line[1])
      BY ONLY <3>2, SizeRead, Zenon
    <3>3. QED
      BY ONLY <2>2, <3>1, <3>2
  <2>4. rpc' \in ReaderPlaceNames /\ verdict' \in VerdictNames
    BY ONLY <1>2, <1>3, <2>2
  <2>5. QED
    BY ONLY <1>2, <2>1, <2>2, <2>3, <2>4, Zenon
<1>12. CASE TakeChunk
  <2> DEFINE take == Min({need, Len(rbuf)})
  <2>1. PICK n \in Nat : n = Len(rbuf)
    BY ONLY <1>2
  <2>2. PICK t \in Nat : t = take /\ t <= n
    <3>1. need \in Nat
      BY ONLY <1>2
    <3>2. Min({need, n}) = IF need <= n THEN need ELSE n
      BY ONLY <3>1, n \in Nat, LesserOfTwo
    <3>3. QED
      BY ONLY <2>1, <3>1, <3>2
  <2>3. SubSeq(rbuf, t + 1, Len(rbuf)) \in Seq(A)
    BY ONLY <1>2, t \in Nat, RestsAre
  <2>4. PICK x \in Seq(Piece) : x = Cat(body, SubSeq(rbuf, 1, t)) /\ Len(x) = Len(body) + t
    <3>1. 1 \in Nat \ {0} /\ t \in 0..n /\ (IF 1 <= t THEN t - 1 + 1 ELSE 0) = t
      BY ONLY <2>2, n \in Nat, t \in Nat
    <3>2. rbuf \in Seq(Piece)
      BY ONLY <1>2, <1>5, Zenon
    <3>3. /\ SubSeq(rbuf, 1, t) \in Seq(Piece)
          /\ Len(SubSeq(rbuf, 1, t)) = IF 1 <= t THEN t - 1 + 1 ELSE 0
      BY ONLY <2>1, <3>1, <3>2, n \in Nat, PartOfText
    <3>4. PICK u \in Seq(Piece) : u = SubSeq(rbuf, 1, t) /\ Len(u) = t
      BY ONLY <3>1, <3>3, Zenon
    <3>5. Cat(body, u) \in Seq(Piece) /\ Joins(Cat(body, u), body, u)
      BY ONLY <1>2, u \in Seq(Piece), CatJoins
    <3>6. PICK x \in Seq(Piece) : x = Cat(body, u) /\ Joins(x, body, u)
      BY ONLY <3>5, Zenon
    <3>7. Len(x) = Len(body) + t
      BY ONLY <3>4, <3>6, Zenon DEF Joins
    <3>8. QED
      BY ONLY <3>4, <3>6, <3>7, Zenon
  <2>5. PICK k \in Nat : k = Len(body)
    BY ONLY <1>2
  <2>6. SubSeq(x, 1, Min({BodyCap, k + t})) \in Seq(Piece)
    <3>1. k + t \in Nat
      BY ONLY k \in Nat, t \in Nat
    <3>2. Min({BodyCap, k + t}) = IF BodyCap <= k + t THEN BodyCap ELSE k + t
      BY ONLY <1>6, <3>1, LesserOfTwo
    <3>3. PICK c \in 0..(k + t) : c = Min({BodyCap, k + t})
      BY ONLY <1>6, <3>1, <3>2
    <3>4. 1 \in Nat \ {0} /\ Len(x) = k + t
      BY ONLY <2>4, <2>5
    <3>5. SubSeq(x, 1, c) \in Seq(Piece)
      BY ONLY <3>1, <3>4, x \in Seq(Piece), c \in 0..(k + t), PartOfText
    <3>6. QED
      BY ONLY <3>3, <3>5, Zenon
  <2>7. /\ sent' = sent /\ rest' = rest /\ need' = need /\ verdict' = verdict /\ rpc' = "ending"
        /\ body' = SubSeq(body \o SubSeq(rbuf, 1, take), 1, Min({BodyCap, Len(body) + take}))
        /\ rbuf' = SubSeq(rbuf, take + 1, Len(rbuf))
    BY ONLY <1>12 DEF TakeChunk
  <2> HIDE DEF take
  <2>8. body' \in Seq(Piece)
    BY ONLY <2>2, <2>4, <2>5, <2>6, <2>7, Zenon DEF Cat
  <2>9. rbuf' \in Seq(A)
    BY ONLY <2>2, <2>3, <2>7, Zenon
  <2>10. QED
    BY ONLY <1>2, <1>3, <2>7, <2>8, <2>9, Zenon
<1>13. CASE EndChunk
  <2>1. PICK k \in Nat : rbuf' = SubSeq(rbuf, 1 + k, Len(rbuf))
    BY ONLY <1>13 DEF EndChunk
  <2>2. 1 + k = k + 1
    OBVIOUS
  <2>3. rbuf' \in Seq(A)
    BY ONLY <1>2, <2>1, <2>2, k \in Nat, RestsAre, Zenon
  <2>4. /\ sent' = sent /\ rest' = rest /\ body' = body /\ need' = need /\ verdict' = verdict
        /\ rpc' = "size"
    BY ONLY <1>13 DEF EndChunk
  <2>5. QED
    BY ONLY <1>2, <1>3, <2>3, <2>4, Zenon
<1>14. CASE Trailers
  <2>1. AfterLine \in Seq(A)
    BY ONLY <1>2, <1>14, LinesAre, Zenon DEF Trailers
  <2>2. /\ sent' = sent /\ rest' = rest /\ body' = body /\ rbuf' = AfterLine /\ need' = need
        /\ verdict' = verdict /\ rpc' \in {"read", "trailers"}
    BY ONLY <1>14 DEF Trailers
  <2>3. rpc' \in ReaderPlaceNames
    BY ONLY <1>3, <2>2
  <2>4. QED
    BY ONLY <1>2, <2>1, <2>2, <2>3, Zenon
<1>15. CASE ChunkedEnds
  <2>1. /\ sent' = sent /\ rest' = rest /\ body' = body /\ rbuf' = rbuf /\ need' = need
        /\ verdict' = verdict /\ rpc' = "read"
    BY ONLY <1>15 DEF ChunkedEnds
  <2>2. QED
    BY ONLY <1>2, <1>3, <2>1, Zenon
<1>16. QED
  BY ONLY Reader, <1>8, <1>9, <1>10, <1>11, <1>12, <1>13, <1>14, <1>15, Zenon DEF Reader

(* Only what is told apart below matters of a request: whether it was sent  *)
(* whole does not change what is written on the wire for it.                *)
WireBy(framing, eol, lines, size, chunks) ==
  (FlattenSeq([i \in 1..lines |-> <<"line">> \o eol]) \o <<framing>> \o eol \o eol) \o
  (IF framing = "length" THEN SubSeq(Units, 1, size)
   ELSE FlattenSeq([i \in 1..Len(chunks) |->
          LET before == FoldLeft(LAMBDA x, y : x + y, 0, SubSeq(chunks, 1, i - 1))
          IN <<Sizes[chunks[i] + 1]>> \o eol
             \o SubSeq(Units, before + 1, before + chunks[i]) \o eol]) \o <<"0">> \o eol \o eol)

(* Requests of the same parts are the same on the wire.                     *)
LEMMA WireSame ==
  ASSUME NEW s, NEW t, s.framing = t.framing, s.eol = t.eol, s.lines = t.lines,
         s.size = t.size, s.chunks = t.chunks
  PROVE  Wire(s) = Wire(t)
<1>1. Wire(s) = WireBy(s.framing, s.eol, s.lines, s.size, s.chunks)
  BY ONLY TRUE, Zenon DEF Wire, WireBy, Headers, Payload, Chunk
<1>2. Wire(t) = WireBy(t.framing, t.eol, t.lines, t.size, t.chunks)
  BY ONLY TRUE, Zenon DEF Wire, WireBy, Headers, Payload, Chunk
<1>3. QED
  BY <1>1, <1>2, Zenon

(* What is asked for is a request.                                          *)
LEMMA RequestsAreSendable ==
  ASSUME NEW f \in {"length", "chunked"}, NEW k \in Nat, NEW s \in Requests(f, k)
  PROVE  Sendable(s)
<1>1. /\ s.framing = f /\ s.eol \in {<<"cr", "lf">>, <<"lf">>} /\ s.lines \in 1..k
      /\ s.size \in 0..MaxSize
      /\ s.chunks \in IF f = "length" THEN {<<>>} ELSE Chunkings(s.size)
  BY DEF Requests
<1>2. s.lines \in Nat
  BY <1>1
<1>3. QED
  BY ONLY <1>1, <1>2, f \in {"length", "chunked"}, Zenon DEF Sendable, CRLF, LF

(* A connection brings a request up to where its sender stopped.            *)
LEMMA AcceptIs ==
  ASSUME NEW f \in {"length", "chunked"}, NEW k \in Nat, NEW s \in Requests(f, k),
         NEW n \in 0..Len(Wire(s)), Accept(s, n)
  PROVE  /\ Sendable(sent') /\ sent'.whole \in BOOLEAN
         /\ rest' \in Seq(Alphabet(sent'))
         /\ Delivered(sent'.whole, <<>>, rest', Wire(sent'))
<1>1. Sendable(s)
  BY RequestsAreSendable
<1>2. /\ sent' = [framing |-> s.framing, eol |-> s.eol, lines |-> s.lines, size |-> s.size,
                  chunks |-> s.chunks, whole |-> n = Len(Wire(s))]
      /\ rest' = SubSeq(Wire(s), 1, n)
  BY ONLY Accept(s, n) DEF Accept
<1>3. PICK t : t = sent'
  OBVIOUS
<1>4. /\ t.framing = s.framing /\ t.eol = s.eol /\ t.lines = s.lines /\ t.size = s.size
      /\ t.chunks = s.chunks /\ t.whole = (n = Len(Wire(s)))
  BY ONLY <1>2, <1>3
<1>5. Sendable(t)
  BY ONLY <1>1, <1>4, Zenon DEF Sendable
<1>6. Wire(s) = Wire(t)
  BY ONLY <1>4, WireSame, Zenon
<1>7. PICK w \in Seq(Alphabet(t)), l \in Nat : w = Wire(t) /\ l = Len(w)
  <2>1. Wire(t) \in Seq(Alphabet(t))
    BY ONLY <1>5, WireIsText, Zenon
  <2>2. QED
    BY ONLY <2>1
<1>8. PICK m \in Nat : m = n /\ m <= l
  BY ONLY <1>6, <1>7, n \in 0..Len(Wire(s))
<1>9. /\ SubSeq(w, 1, m) \in Seq(Alphabet(t))
      /\ Len(SubSeq(w, 1, m)) = m
      /\ \A i \in 1..m : SubSeq(w, 1, m)[i] = w[i]
  <2>1. 1 \in Nat \ {0} /\ m \in 0..l /\ (IF 1 <= m THEN m - 1 + 1 ELSE 0) = m /\ m - 1 + 1 = m
          /\ \A i \in 1..m : 1 + i - 1 = i
    BY ONLY <1>8, m \in Nat, l \in Nat
  <2>2. /\ SubSeq(w, 1, m) \in Seq(Alphabet(t))
        /\ Len(SubSeq(w, 1, m)) = IF 1 <= m THEN m - 1 + 1 ELSE 0
        /\ \A i \in 1..(m - 1 + 1) : SubSeq(w, 1, m)[i] = w[1 + i - 1]
    BY ONLY <1>7, <2>1, w \in Seq(Alphabet(t)), l \in Nat, PartOfText
  <2>3. QED
    BY ONLY <2>1, <2>2, Zenon
<1>10. PICK r \in Seq(Alphabet(t)) : r = rest' /\ Len(r) = m /\ \A i \in 1..m : r[i] = w[i]
  <2>1. rest' = SubSeq(w, 1, m)
    BY ONLY <1>2, <1>6, <1>7, <1>8, Zenon
  <2>2. QED
    BY ONLY <1>9, <2>1, Zenon
<1>11. t.whole = (m = l)
  BY ONLY <1>4, <1>6, <1>7, <1>8, Zenon
<1>12. Delivered(t.whole, <<>>, r, w)
  <2>1. 0 + m = m /\ 1..0 = {} /\ \A p \in 1..m : 0 + p = p
    BY ONLY m \in Nat
  <2>2. Len(<<>>) = 0
    OBVIOUS
  <2>3. QED
    BY ONLY <1>7, <1>8, <1>10, <1>11, <2>1, <2>2, Zenon DEF Delivered
<1>13. t.whole \in BOOLEAN
  BY ONLY <1>11
<1>14. QED
  BY ONLY <1>3, <1>5, <1>7, <1>10, <1>12, <1>13, Zenon

-----------------------------------------------------------------------------
(* The gate.                                                               *)

(* The statuses the checks refuse with.                                     *)
Statuses == {"401", "426", "404", "405", "400", "403", "409"}

(* Every check has a status of its own to refuse with, and none is one the  *)
(* reader refuses with.                                                     *)
LEMMA ChecksAre ==
  ASSUME NEW f \in Facts
  PROVE  Checks(f) \in Seq(BOOLEAN \X Statuses)
<1> DEFINE C == BOOLEAN \X Statuses
<1>0. /\ \A b \in BOOLEAN : \A t \in Statuses : <<b, t>> \in C
      /\ {"401", "426", "404", "405", "400", "403", "409"} \subseteq Statuses
  BY DEF Statuses
<1> HIDE DEF C
<1>a. /\ \A a \in C : (<<a>>) \in Seq(C)
      /\ \A a, b \in C : <<a, b>> \in Seq(C)
      /\ \A a, b, c \in C : <<a, b, c>> \in Seq(C)
      /\ \A a, b, c, d \in C : <<a, b, c, d>> \in Seq(C)
  OBVIOUS
<1>b. /\ (~f.auth) \in BOOLEAN /\ (f.proto = "bad") \in BOOLEAN /\ (f.path = "other") \in BOOLEAN
      /\ (~f.post) \in BOOLEAN /\ (~f.args) \in BOOLEAN /\ (f.proto # "2") \in BOOLEAN
      /\ (f.name = "none") \in BOOLEAN /\ (f.name = "unknown") \in BOOLEAN
      /\ (~f.kind) \in BOOLEAN /\ (~f.running) \in BOOLEAN /\ (~f.readable) \in BOOLEAN
  OBVIOUS
<1>c. /\ <<(~f.auth), "401">> \in C /\ <<f.proto = "bad", "426">> \in C
      /\ <<f.path = "other", "404">> \in C /\ <<(~f.post), "405">> \in C /\ <<~f.args, "400">> \in C
      /\ <<f.proto # "2", "426">> \in C /\ <<f.name = "none", "400">> \in C
      /\ <<f.name = "unknown", "404">> \in C /\ <<(~f.kind), "400">> \in C
      /\ <<f.name = "unknown", "403">> \in C /\ <<(~f.kind), "403">> \in C
      /\ <<(~f.running), "409">> \in C /\ <<~f.readable, "409">> \in C
  BY ONLY <1>0, <1>b, Zenon
<1>1. Auth(f) \in Seq(C)
  BY ONLY <1>a, <1>c, Zenon DEF Auth
<1>2. CommonChecks(f) \in Seq(C)
  BY ONLY <1>a, <1>c, Zenon DEF CommonChecks
<1>3. << <<f.proto # "2", "426">>, <<f.name = "none", "400">> >> \in Seq(C) /\ <<>> \in Seq(C)
  <2>1. <<>> \in Seq(C)
    OBVIOUS
  <2>2. QED
    BY ONLY <1>a, <1>c, <2>1, Zenon
<1>4. << <<f.name = "none", "400">>, <<f.name = "unknown", "404">>, <<~f.kind, "400">> >> \in Seq(C)
  BY ONLY <1>a, <1>c, Zenon
<1>5. /\ << <<f.name = "unknown", "403">> >> \in Seq(C)
      /\ << <<f.name = "none", "400">>, <<~f.kind, "403">>, <<~f.running, "409">>,
            <<~f.readable, "409">> >> \in Seq(C)
  BY ONLY <1>a, <1>c, Zenon
<1>6. \A a, b \in Seq(C) : a \o b \in Seq(C)
  OBVIOUS
<1>7. NotifyChecks(f) \in Seq(C)
  BY ONLY <1>1, <1>3, <1>6, Zenon DEF NotifyChecks
<1>8. SignalChecks(f) \in Seq(C)
  BY ONLY <1>1, <1>4, <1>6, Zenon DEF SignalChecks
<1>9. ExecChecks(f) \in Seq(C)
  BY ONLY <1>1, <1>5, <1>6, Zenon DEF ExecChecks
<1>10. Checks(f) \in Seq(C)
  <2>1. (CASE f.path = "notify" -> NotifyChecks(f) [] f.path = "signal" -> SignalChecks(f)
          [] OTHER -> ExecChecks(f)) \in Seq(C)
    BY ONLY <1>7, <1>8, <1>9
  <2>2. QED
    BY ONLY <1>2, <1>6, <2>1, Zenon DEF Checks
<1>11. QED
  BY <1>10 DEF C

(* A request that has been read is refused for what it says, never for the  *)
(* way it came.                                                             *)
LEMMA VerdictsAre == Verdicts \subseteq Statuses \cup {"exec", "notify", "signal", "other"}
<1> SUFFICES ASSUME NEW f \in Facts
             PROVE  Verdict(f) \in Statuses \cup {"exec", "notify", "signal", "other"}
  BY DEF Verdicts
<1> DEFINE I == {i \in 1..Len(Checks(f)) : Checks(f)[i][1]}
<1>1. SelectInSeq(Checks(f), LAMBDA check : check[1]) = IF I # {} THEN Min(I) ELSE 0
  BY DEF SelectInSeq
<1>2. PICK c \in Seq(BOOLEAN \X Statuses), n \in Nat : c = Checks(f) /\ n = Len(c)
  BY ChecksAre
<1>3. CASE I = {}
  BY <1>1, <1>3 DEF Verdict, Facts
<1>4. CASE I # {}
  <2>1. I \subseteq 1..n /\ I \subseteq Nat
    BY <1>2
  <2>2. Min(I) \in 1..n
    BY ONLY <1>4, <2>1, LeastOf
  <2>3. c[Min(I)][2] \in Statuses
    BY ONLY <1>2, <2>2, c \in Seq(BOOLEAN \X Statuses)
  <2>4. Min(I) # 0
    BY ONLY <2>2
  <2>5. Verdict(f) = Checks(f)[Min(I)][2]
    BY ONLY <1>1, <1>4, <2>4, Zenon DEF Verdict
  <2>6. QED
    BY ONLY <1>2, <2>3, <2>5
<1>5. QED
  BY <1>3, <1>4

(* The endpoint or the status that is told is one of these.                 *)
LEMMA JudgeIs ==
  ASSUME NEW paths, Judge(paths)
  PROVE  /\ rpc = "read" /\ rpc' \in {"admitted", "refused"}
         /\ verdict' \in Verdicts /\ verdict' \notin {"431", "malformed"}
         /\ UNCHANGED <<sent, rest, rbuf, body, need>>
<1>1. VerdictsWithoutBody \subseteq Verdicts
  BY DEF VerdictsWithoutBody, Verdicts
<1>2. verdict' \in Verdicts
  BY <1>1 DEF Judge
<1>3. verdict' \notin {"431", "malformed"}
  BY <1>2, VerdictsAre DEF Statuses
<1>4. QED
  BY <1>2, <1>3 DEF Judge

(* Where the reader is in what was sent.                                   *)

(* The pieces of the chunked framing: a size with its line's end, a chunk   *)
(* with all that follows, and what follows it.                              *)
SizeLine(s, n) == Cat(<<Sizes[n + 1]>>, s.eol)
BehindChunk(s, i) == Cat(s.eol, Ahead(s, i + 1))
FromChunk(s, i) == Cat(Body(s, i), BehindChunk(s, i))

(* s has been sent; r is to come of it, b has come and has not been looked  *)
(* at, y is the body so far and n the need.  A connection that broke off    *)
(* has nothing more to come.                                                *)
Broken(s, r, y) == ~s.whole /\ r = <<>> /\ IsPrefix(y, Payload(s))

AtHeaders(s, r, b, y) ==
  y = <<>> /\ Delivered(s.whole, b, r, Wire(s)) /\ Len(b) < Len(Headers(s)) + ReadCap

BeforeSize(s, r, b, y, i) == y = Taken(Before(s, i)) /\ Delivered(s.whole, b, r, Ahead(s, i))
AtSize(s, r, b, y) ==
  \/ Broken(s, r, y) /\ b \in {<<>>, <<"cr">>}
  \/ s.framing = "chunked" /\ \E i \in 1..(Len(s.chunks) + 1) : BeforeSize(s, r, b, y, i)

BeforeChunk(s, r, b, y, n, i) ==
  n = s.chunks[i] /\ y = Taken(Before(s, i)) /\ Delivered(s.whole, b, r, FromChunk(s, i))
AtPayload(s, r, b, y, n) ==
  s.framing = "chunked" /\ \E i \in 1..Len(s.chunks) : BeforeChunk(s, r, b, y, n, i)

BeforeEnd(s, r, b, y, i) ==
  y = Taken(Before(s, i + 1)) /\ Delivered(s.whole, b, r, BehindChunk(s, i))
AtEnding(s, r, b, y) ==
  \/ Broken(s, r, y) /\ b = <<>>
  \/ s.framing = "chunked" /\ \E i \in 1..Len(s.chunks) : BeforeEnd(s, r, b, y, i)

AtTrailers(s, r, b, y) == y = Taken(s.size) /\ Delivered(s.whole, b, r, s.eol)

AtLength(s, r, y, n) ==
  \/ Broken(s, r, y) /\ y = <<>>
  \/ /\ s.framing = "length"
     /\ Len(y) + n = Min({s.size, BodyCap})
     /\ Delivered(s.whole, y, r, Payload(s))

AtJudgement(s, y) ==
  IsPrefix(y, Payload(s)) /\ (s.whole => Len(y) = Min({s.size, BodyCap}))

Placed ==
  /\ rpc = "headers" => AtHeaders(sent, rest, rbuf, body)
  /\ rpc = "size" => AtSize(sent, rest, rbuf, body)
  /\ rpc = "payload" => AtPayload(sent, rest, rbuf, body, need)
  /\ rpc = "ending" => AtEnding(sent, rest, rbuf, body)
  /\ rpc = "trailers" => AtTrailers(sent, rest, rbuf, body)
  /\ rpc = "length" => AtLength(sent, rest, body, need)
  /\ rpc \in {"read", "admitted"} => AtJudgement(sent, body)
  /\ rpc = "refused" /\ sent.whole => verdict \notin {"431", "malformed"}

(* A chunk, what is before it and what is behind it.                        *)
LEMMA ChunkParts ==
  ASSUME NEW s, Sendable(s), s.framing = "chunked", NEW i \in 1..Len(s.chunks)
  PROVE  /\ s.chunks[i] \in 1..4 /\ s.eol \in Seq(Alphabet(s))
         /\ Body(s, i) \in Seq(Alphabet(s)) /\ Ahead(s, i + 1) \in Seq(Alphabet(s))
         /\ BehindChunk(s, i) \in Seq(Alphabet(s)) /\ FromChunk(s, i) \in Seq(Alphabet(s))
         /\ Ahead(s, i) = Cat(SizeLine(s, s.chunks[i]), FromChunk(s, i))
         /\ Joins(FromChunk(s, i), Body(s, i), BehindChunk(s, i))
         /\ Joins(BehindChunk(s, i), s.eol, Ahead(s, i + 1))
<1>1. Len(s.chunks) \in 0..4 /\ s.chunks[i] \in 1..4
  BY ChunkSums
<1>2. i + 1 \in 1..(Len(s.chunks) + 1)
  BY <1>1
<1>3. PICK a \in Seq(Alphabet(s)) : a = Ahead(s, i + 1)
  BY ONLY Sendable(s), s.framing = "chunked", <1>2, AheadIsText, Zenon
<1>4. s.eol \in Seq(Alphabet(s)) /\ Solid \subseteq Alphabet(s)
  BY AlphabetFacts, Zenon
<1>5. PICK e \in Seq(Alphabet(s)) : e = s.eol
  BY ONLY <1>4
<1>6. PICK u \in Seq(Alphabet(s)) : u = Body(s, i)
  <2>1. Body(s, i) \in Seq(Solid)
    BY ChunkTexts, Zenon
  <2>2. Body(s, i) \in Seq(Alphabet(s))
    BY ONLY <1>4, <2>1, SeqMonotonic
  <2>3. QED
    BY ONLY <2>2
<1>7. Cat(e, a) \in Seq(Alphabet(s)) /\ Joins(Cat(e, a), e, a)
  BY ONLY CatJoins, e \in Seq(Alphabet(s)), a \in Seq(Alphabet(s))
<1>8. PICK z \in Seq(Alphabet(s)) : z = Cat(e, a) /\ Joins(z, e, a)
  BY ONLY <1>7, Zenon
<1>9. z = BehindChunk(s, i)
  BY ONLY <1>3, <1>5, <1>8, Zenon DEF BehindChunk
<1>10. Cat(u, z) \in Seq(Alphabet(s)) /\ Joins(Cat(u, z), u, z)
  BY ONLY CatJoins, u \in Seq(Alphabet(s)), z \in Seq(Alphabet(s))
<1>11. PICK x \in Seq(Alphabet(s)) : x = Cat(u, z) /\ Joins(x, u, z)
  BY ONLY <1>10, Zenon
<1>12. x = FromChunk(s, i)
  BY ONLY <1>6, <1>9, <1>11, Zenon DEF FromChunk
<1>13. Ahead(s, i) = Cat(Cat(<<Sizes[s.chunks[i] + 1]>>, s.eol),
                         Cat(Body(s, i), Cat(s.eol, Ahead(s, i + 1))))
  BY AheadNext, Zenon DEF Cat
<1>14. Ahead(s, i) = Cat(SizeLine(s, s.chunks[i]), FromChunk(s, i))
  BY ONLY <1>13, Zenon DEF SizeLine, FromChunk, BehindChunk
<1>15. QED
  BY ONLY <1>1, <1>3, <1>5, <1>6, <1>8, <1>9, <1>11, <1>12, <1>14, Zenon

(* More comes of what was sent.                                             *)
LEMMA ComesMore ==
  ASSUME Buffers, GetMore, NEW t \in Seq(Alphabet(sent)), Delivered(sent.whole, rbuf, rest, t)
  PROVE  /\ Delivered(sent'.whole, rbuf', rest', t) /\ rest # <<>>
         /\ UNCHANGED <<sent, rpc, body, need, verdict>>
         /\ \E n \in Nat : n <= ReadCap /\ Len(rbuf') = Len(rbuf) + n
<1>1. PICK A : A = Alphabet(sent)
  OBVIOUS
<1>2. rest \in Seq(A) /\ rbuf \in Seq(A) /\ t \in Seq(A)
  BY ONLY <1>1, Buffers, t \in Seq(Alphabet(sent)), Zenon DEF Buffers
<1>3. PICK n \in 1..Len(rest) :
        /\ n <= ReadCap
        /\ rbuf' = Cat(rbuf, SubSeq(rest, 1, n)) /\ rest' = SubSeq(rest, n + 1, Len(rest))
  BY ONLY <1>2, GetMore, GetsMore, Zenon
<1>4. /\ Len(rbuf') = Len(rbuf) + n
      /\ Delivered(sent.whole, rbuf', rest', t)
  <2>1. PICK w, b, r, b1, r1 : w = sent.whole /\ b = rbuf /\ r = rest /\ b1 = rbuf' /\ r1 = rest'
    OBVIOUS
  <2>2. b \in Seq(A) /\ r \in Seq(A) /\ Delivered(w, b, r, t)
    BY ONLY <1>2, <2>1, Delivered(sent.whole, rbuf, rest, t), Zenon
  <2>3. Advanced(b, r, n, b1, r1)
    BY ONLY <1>3, <2>1, n \in 1..Len(rest), Zenon DEF Advanced
  <2>4. Len(b1) = Len(b) + n /\ Delivered(w, b1, r1, t)
    BY ONLY <1>2, <2>2, <2>3, DeliverMore
  <2>5. QED
    BY ONLY <2>1, <2>4, Zenon
<1>5. UNCHANGED <<sent, rpc, body, need, verdict>>
  BY ONLY GetMore DEF GetMore
<1>6. n \in Nat /\ rest # <<>>
  BY ONLY <1>2, n \in 1..Len(rest)
<1>7. QED
  BY ONLY <1>3, <1>4, <1>5, <1>6, Zenon

(* The headers are read on until their end has come, and not beyond what    *)
(* one read brings.                                                         *)
LEMMA HeadersMore ==
  ASSUME Buffers, Placed, ReadHeaders
  PROVE  Placed'
<1>1. rpc = "headers" /\ HeaderEnd(rbuf) = 0 /\ GetMore
  BY ONLY ReadHeaders, Zenon DEF ReadHeaders
<1>2. AtHeaders(sent, rest, rbuf, body)
  BY ONLY <1>1, Placed, Zenon DEF Placed
<1>3. Sendable(sent) /\ rbuf \in Seq(Alphabet(sent))
  BY ONLY Buffers, Zenon DEF Buffers
<1>4. PICK w \in Seq(Alphabet(sent)) : w = Wire(sent)
  BY ONLY <1>3, WireIsText, Zenon
<1>5. Delivered(sent.whole, rbuf, rest, w)
  BY ONLY <1>2, <1>4, Zenon DEF AtHeaders
<1>6. /\ Delivered(sent'.whole, rbuf', rest', w)
      /\ UNCHANGED <<sent, rpc, body, need, verdict>>
      /\ \E n \in Nat : n <= ReadCap /\ Len(rbuf') = Len(rbuf) + n
  BY ONLY <1>1, <1>4, <1>5, Buffers, ComesMore, Zenon
<1>7. PICK n \in Nat : n <= ReadCap /\ Len(rbuf') = Len(rbuf) + n
  BY ONLY <1>6
<1>8. PICK h \in Nat, m \in Nat, l \in Nat : h = Len(Headers(sent)) /\ m = Len(rbuf) /\ l = Len(w)
  <2>1. Headers(sent) \in Seq(Alphabet(sent))
    BY ONLY <1>3, WireIsText, Zenon
  <2>2. QED
    BY ONLY <2>1, <1>3, w \in Seq(Alphabet(sent))
<1>9. \A p \in 1..m : p <= h => rbuf[p] = Headers(sent)[p]
  <2>1. Joins(w, Headers(sent), After(sent))
    BY ONLY <1>3, <1>4, WireIsText, Zenon
  <2>2. /\ \A p \in 1..h : w[p] = Headers(sent)[p]
        /\ \A p \in 1..m : rbuf[p] = w[p]
    BY ONLY <1>5, <1>8, <2>1, Zenon DEF Delivered, Joins
  <2>3. \A p \in 1..m : p <= h => p \in 1..h
    OBVIOUS
  <2>4. QED
    BY ONLY <2>2, <2>3, Zenon
<1>10. HeaderEnd(rbuf) = (IF m >= h THEN h ELSE 0) /\ h > 2
  BY ONLY <1>3, <1>8, <1>9, EndFound, m \in Nat, h \in Nat
<1>11. m < h
  BY ONLY <1>1, <1>10, m \in Nat, h \in Nat
<1>12. ReadCap \in Nat
  BY RequestAssumption
<1>13. m + n < h + ReadCap
  BY ONLY <1>7, <1>11, <1>12, m \in Nat, h \in Nat, n \in Nat
<1>14. AtHeaders(sent', rest', rbuf', body')
  <2>1. body' = body /\ sent' = sent /\ body = <<>>
    BY ONLY <1>2, <1>6, Zenon DEF AtHeaders
  <2>2. QED
    BY ONLY <1>4, <1>6, <1>7, <1>8, <1>13, <2>1, Zenon DEF AtHeaders
<1>15. rpc' = "headers"
  BY ONLY <1>1, <1>6
<1>16. QED
  BY ONLY <1>14, <1>15 DEF Placed

(* So is the chunked framing.                                               *)
LEMMA ChunkedMore ==
  ASSUME Buffers, Placed, ReadChunked
  PROVE  Placed'
<1>1. GetMore /\ rpc \in {"size", "trailers", "payload", "ending"}
  BY ONLY ReadChunked DEF ReadChunked
<1>2. PICK s : s = sent
  OBVIOUS
<1>3. Sendable(s)
  BY ONLY <1>2, Buffers, Zenon DEF Buffers
<1>4. rest # <<>> /\ UNCHANGED <<sent, rpc, body, need, verdict>>
  <2>1. UNCHANGED <<sent, rpc, body, need, verdict>>
    BY ONLY <1>1 DEF GetMore
  <2>2. PICK n \in 1..Len(rest) : TRUE
    <3>1. rest \in Seq(Alphabet(sent)) /\ rbuf \in Seq(Alphabet(sent))
      BY ONLY Buffers, Zenon DEF Buffers
    <3>2. QED
      BY ONLY <1>1, <3>1, GetsMore, Zenon
  <2>3. rest \in Seq(Alphabet(sent))
    BY ONLY Buffers, Zenon DEF Buffers
  <2>4. rest # <<>>
    BY ONLY <2>3, n \in 1..Len(rest)
  <2>5. QED
    BY ONLY <2>1, <2>4, Zenon
<1>5. ASSUME NEW t \in Seq(Alphabet(s)), Delivered(s.whole, rbuf, rest, t)
      PROVE  Delivered(s.whole, rbuf', rest', t)
  BY ONLY <1>1, <1>2, <1>4, <1>5, Buffers, ComesMore, Zenon
<1>6. ~Broken(s, rest, body)
  BY ONLY <1>4, Zenon DEF Broken
<1>7. CASE rpc = "size"
  <2>1. AtSize(s, rest, rbuf, body)
    BY ONLY <1>2, <1>7, Placed, Zenon DEF Placed
  <2>2. PICK i \in 1..(Len(s.chunks) + 1) : s.framing = "chunked" /\ BeforeSize(s, rest, rbuf, body, i)
    BY ONLY <1>6, <2>1, Zenon DEF AtSize
  <2>3. Ahead(s, i) \in Seq(Alphabet(s))
    BY ONLY <1>3, <2>2, AheadIsText, Zenon
  <2>4. BeforeSize(s, rest', rbuf', body, i)
    BY ONLY <1>5, <2>2, <2>3, Zenon DEF BeforeSize
  <2>5. AtSize(s, rest', rbuf', body)
    BY ONLY <2>2, <2>4, Zenon DEF AtSize
  <2>6. AtSize(sent', rest', rbuf', body') /\ rpc' = "size"
    BY ONLY <1>2, <1>4, <1>7, <2>5, Zenon
  <2>7. QED
    BY ONLY <2>6 DEF Placed
<1>8. CASE rpc = "payload"
  <2>1. AtPayload(s, rest, rbuf, body, need)
    BY ONLY <1>2, <1>8, Placed, Zenon DEF Placed
  <2>2. PICK i \in 1..Len(s.chunks) : s.framing = "chunked" /\ BeforeChunk(s, rest, rbuf, body, need, i)
    BY ONLY <2>1, Zenon DEF AtPayload
  <2>3. FromChunk(s, i) \in Seq(Alphabet(s))
    BY ONLY <1>3, <2>2, ChunkParts, Zenon
  <2>4. BeforeChunk(s, rest', rbuf', body, need, i)
    BY ONLY <1>5, <2>2, <2>3, Zenon DEF BeforeChunk
  <2>5. AtPayload(s, rest', rbuf', body, need)
    BY ONLY <2>2, <2>4, Zenon DEF AtPayload
  <2>6. AtPayload(sent', rest', rbuf', body', need') /\ rpc' = "payload"
    BY ONLY <1>2, <1>4, <1>8, <2>5, Zenon
  <2>7. QED
    BY ONLY <2>6 DEF Placed
<1>9. CASE rpc = "ending"
  <2>1. AtEnding(s, rest, rbuf, body)
    BY ONLY <1>2, <1>9, Placed, Zenon DEF Placed
  <2>2. PICK i \in 1..Len(s.chunks) : s.framing = "chunked" /\ BeforeEnd(s, rest, rbuf, body, i)
    BY ONLY <1>6, <2>1, Zenon DEF AtEnding
  <2>3. BehindChunk(s, i) \in Seq(Alphabet(s))
    BY ONLY <1>3, <2>2, ChunkParts, Zenon
  <2>4. BeforeEnd(s, rest', rbuf', body, i)
    BY ONLY <1>5, <2>2, <2>3, Zenon DEF BeforeEnd
  <2>5. AtEnding(s, rest', rbuf', body)
    BY ONLY <2>2, <2>4, Zenon DEF AtEnding
  <2>6. AtEnding(sent', rest', rbuf', body') /\ rpc' = "ending"
    BY ONLY <1>2, <1>4, <1>9, <2>5, Zenon
  <2>7. QED
    BY ONLY <2>6 DEF Placed
<1>10. CASE rpc = "trailers"
  <2>1. AtTrailers(s, rest, rbuf, body)
    BY ONLY <1>2, <1>10, Placed, Zenon DEF Placed
  <2>2. s.eol \in Seq(Alphabet(s))
    BY ONLY <1>3, AlphabetFacts, Zenon
  <2>3. AtTrailers(s, rest', rbuf', body)
    BY ONLY <1>5, <2>1, <2>2, Zenon DEF AtTrailers
  <2>4. AtTrailers(sent', rest', rbuf', body') /\ rpc' = "trailers"
    BY ONLY <1>2, <1>4, <1>10, <2>3, Zenon
  <2>5. QED
    BY ONLY <2>4 DEF Placed
<1>11. QED
  BY ONLY <1>1, <1>7, <1>8, <1>9, <1>10

(* A line with a size is taken, and nothing of what follows it.             *)
LEMMA SizeTaken ==
  ASSUME NEW s, s = sent, Sendable(s), rbuf \in Seq(Alphabet(s)), rest \in Seq(Alphabet(s)),
         NEW n \in 0..4, NEW z \in Seq(Alphabet(s)), NEW y, y = Cat(SizeLine(s, n), z),
         Delivered(s.whole, rbuf, rest, y), n <= BodyCap, ReadSize
  PROVE  /\ need' = n /\ rpc' = (IF n = 0 THEN "trailers" ELSE "payload")
         /\ Delivered(s.whole, rbuf', rest, z)
         /\ UNCHANGED <<sent, rest, body>>
<1>1. PICK x : x = Sizes[n + 1] /\ x \in Solid /\ x \in Range(Sizes) /\ SizeOf(x) = n
  BY Tokens, SizeRead, Zenon
<1>2. x \in Alphabet(s) /\ s.eol \in Seq(Alphabet(s))
  <2>1. Solid \subseteq Alphabet(s) /\ s.eol \in Seq(Alphabet(s))
    BY AlphabetFacts, Zenon
  <2>2. QED
    BY ONLY <1>1, <2>1
<1>3. PICK e \in Seq(Alphabet(s)) : e = s.eol
  BY ONLY <1>2
<1>4. y = Cat(Cat(<<x>>, s.eol), z)
  BY ONLY <1>1, y = Cat(SizeLine(s, n), z), Zenon DEF SizeLine
<1>5. LineBefore(s, y, x, z)
  BY ONLY <1>2, <1>4, Sendable(s), z \in Seq(Alphabet(s)), Prepended
<1>6. PICK m \in Nat, k \in Nat : m = Len(rbuf) /\ k = Len(e)
  BY ONLY rbuf \in Seq(Alphabet(s)), e \in Seq(Alphabet(s))
<1>7. \A p \in 1..m : rbuf[p] = y[p]
  BY ONLY <1>6, Delivered(s.whole, rbuf, rest, y), Zenon DEF Delivered
<1>8. HasLine
  BY ONLY ReadSize, Zenon DEF ReadSize
<1>9. /\ Line = <<x>>
      /\ AfterLine = SubSeq(rbuf, 2 + Len(s.eol), m)
      /\ m >= 1 + Len(s.eol)
  <2>1. x \in Solid /\ m = Len(rbuf)
    BY ONLY <1>1, <1>6
  <2>2. FrontLine(s, x, m)
    BY ONLY <1>5, <1>7, <1>8, <2>1, Sendable(s), rbuf \in Seq(Alphabet(s)), m \in Nat,
            LineTaken
  <2>3. QED
    BY ONLY <2>2, Zenon DEF FrontLine
<1>10. PICK a \in Seq(Alphabet(s)) : a = Cat(<<x>>, e) /\ Len(a) = 1 + k
  <2>0. <<x>> \in Seq(Alphabet(s)) /\ Len(<<x>>) = 1
    BY ONLY <1>2
  <2>1. PICK b \in Seq(Alphabet(s)) : b = <<x>> /\ Len(b) = 1
    BY ONLY <2>0, Zenon
  <2>2. Cat(b, e) \in Seq(Alphabet(s)) /\ Joins(Cat(b, e), b, e)
    BY ONLY CatJoins, b \in Seq(Alphabet(s)), e \in Seq(Alphabet(s))
  <2>3. PICK a \in Seq(Alphabet(s)) : a = Cat(b, e) /\ Joins(a, b, e)
    BY ONLY <2>2, Zenon
  <2>4. Len(a) = 1 + k
    BY ONLY <1>6, <2>1, <2>3, Zenon DEF Joins
  <2>5. QED
    BY ONLY <2>1, <2>3, <2>4, Zenon
<1>11. Joins(y, a, z)
  <2>1. Joins(Cat(a, z), a, z)
    BY ONLY CatJoins, a \in Seq(Alphabet(s)), z \in Seq(Alphabet(s))
  <2>2. QED
    BY ONLY <1>3, <1>4, <1>10, <2>1, Zenon
<1>12. PICK b1 : b1 = AfterLine /\ Passed(rbuf, a, b1)
  <2>1. 2 + k = (1 + k) + 1 /\ 1 + k <= m
    BY ONLY <1>3, <1>6, <1>9, k \in Nat
  <2>2. AfterLine = SubSeq(rbuf, Len(a) + 1, Len(rbuf)) /\ Len(a) <= Len(rbuf)
    BY ONLY <1>3, <1>6, <1>9, <1>10, <2>1, Zenon
  <2>3. QED
    BY ONLY <2>2, Zenon DEF Passed
<1>13. Delivered(s.whole, b1, rest, z)
  <2>1. PICK w, b, r : w = s.whole /\ b = rbuf /\ r = rest
    OBVIOUS
  <2>2. b \in Seq(Alphabet(s)) /\ r \in Seq(Alphabet(s)) /\ Delivered(w, b, r, y) /\ Passed(b, a, b1)
    BY ONLY <1>12, <2>1, rbuf \in Seq(Alphabet(s)), rest \in Seq(Alphabet(s)),
       Delivered(s.whole, rbuf, rest, y), Zenon
  <2>3. Delivered(w, b1, r, z)
    BY ONLY <1>11, <2>2, a \in Seq(Alphabet(s)), z \in Seq(Alphabet(s)), DeliverPast
  <2>4. QED
    BY ONLY <2>1, <2>3, Zenon
<1>14. rbuf' = AfterLine /\ UNCHANGED <<sent, rest, body>>
  BY ONLY ReadSize DEF ReadSize
<1>15. Line # <<>> /\ Len(Line) = 1 /\ Line[1] = x
  BY ONLY <1>9
<1>16. need' = n /\ rpc' = (IF n = 0 THEN "trailers" ELSE "payload")
  <2>1. \/ Line = <<>> /\ ~Full
        \/ need' = SizeOf(Line[1]) /\ rpc' = IF need' = 0 THEN "trailers" ELSE "payload"
        \/ Line = <<>> /\ Full
        \/ Line # <<>> /\ ~(Len(Line) = 1 /\ Line[1] \in Range(Sizes))
        \/ SizeOf(Line[1]) > BodyCap
    BY ONLY ReadSize, Zenon DEF ReadSize
  <2>2. ~(n > BodyCap)
    BY ONLY n <= BodyCap, n \in 0..4, RequestAssumption DEF RequestAssumption
  <2>3. need' = SizeOf(Line[1]) /\ rpc' = IF need' = 0 THEN "trailers" ELSE "payload"
    BY ONLY <1>1, <1>15, <2>1, <2>2, Zenon
  <2>4. QED
    BY ONLY <1>1, <1>15, <2>3, Zenon
<1>17. QED
  BY ONLY <1>12, <1>13, <1>14, <1>16, Zenon

(* Chunks within the cap of the body.                                       *)
LEMMA RegularChunks ==
  ASSUME Buffers, Regular
  PROVE  \A i \in 1..Len(sent.chunks) : sent.framing = "chunked" => sent.chunks[i] <= BodyCap
<1>1. ASSUME sent.framing = "chunked" PROVE DOMAIN sent.chunks = 1..Len(sent.chunks)
  <2>1. Sendable(sent)
    BY ONLY Buffers, Zenon DEF Buffers
  <2>2. sent.chunks \in Chunkings(sent.size)
    BY ONLY <1>1, <2>1 DEF Sendable
  <2>3. PICK k \in Nat : sent.chunks \in [1..k -> 1..sent.size]
    <3>1. sent.chunks \in UNION {[1..k -> 1..sent.size] : k \in 0..sent.size}
      BY ONLY <2>2, Zenon DEF Chunkings
    <3>2. \A k \in 0..sent.size : k \in Nat
      OBVIOUS
    <3>3. QED
      BY ONLY <3>1, <3>2, Zenon
  <2>4. PICK c \in Seq(1..sent.size) : c = sent.chunks
    BY ONLY <2>3, SeqOfFunction, Zenon
  <2>5. DOMAIN c = 1..Len(c)
    BY ONLY c \in Seq(1..sent.size)
  <2>6. QED
    BY ONLY <2>4, <2>5, Zenon
<1>2. \A i \in DOMAIN sent.chunks : sent.chunks[i] <= BodyCap
  BY ONLY Regular, Zenon DEF Regular
<1>3. QED
  BY ONLY <1>1, <1>2, Zenon

(* The reader takes the size of the chunk that is next, or the nothing that *)
(* ends the body.                                                           *)
LEMMA SizeStep ==
  ASSUME Buffers, Regular, Placed, ReadSize
  PROVE  Placed'
<1>1. PICK s : s = sent
  OBVIOUS
<1>2. /\ Sendable(s) /\ rbuf \in Seq(Alphabet(s)) /\ rest \in Seq(Alphabet(s))
  BY ONLY <1>1, Buffers, Zenon DEF Buffers
<1>3. rpc = "size" /\ HasLine /\ UNCHANGED <<sent, rest, body>>
  BY ONLY ReadSize DEF ReadSize
<1>4. AtSize(s, rest, rbuf, body)
  BY ONLY <1>1, <1>3, Placed, Zenon DEF Placed
<1>5. rbuf \notin {<<>>, <<"cr">>}
  <2>1. PICK n \in Nat : n = Len(rbuf)
    BY ONLY <1>2
  <2>2. rbuf \in Seq(Piece)
    BY ONLY <1>1, Buffers, BuffersAreTyped, Zenon DEF ReqTypeOK
  <2>3. \A i : i \in Ends(rbuf, LF) <=> i \in 1..n /\ rbuf[i] = "lf"
    <3>1. EndsIn(rbuf, n)
      BY ONLY <2>1, <2>2, n \in Nat, EndsAre, Zenon
    <3>2. QED
      BY ONLY <3>1, Zenon DEF EndsIn
  <2>4. PICK i \in 1..n : rbuf[i] = "lf"
    BY ONLY <1>3, <2>3, Zenon DEF HasLine
  <2>5. QED
    BY ONLY <2>1, <2>4
<1>6. PICK i \in 1..(Len(s.chunks) + 1) : s.framing = "chunked" /\ BeforeSize(s, rest, rbuf, body, i)
  BY ONLY <1>4, <1>5, Zenon DEF AtSize
<1>7. body = Taken(Before(s, i)) /\ Delivered(s.whole, rbuf, rest, Ahead(s, i))
  BY ONLY <1>6, Zenon DEF BeforeSize
<1>8. Len(s.chunks) \in 0..4 /\ Before(s, Len(s.chunks) + 1) = s.size
  BY ONLY <1>2, <1>6, ChunkSums
<1>9. CASE i \in 1..Len(s.chunks)
  <2>1. PICK n \in 1..4, z \in Seq(Alphabet(s)), y \in Seq(Alphabet(s)) :
          n = s.chunks[i] /\ z = FromChunk(s, i) /\ y = Ahead(s, i) /\ y = Cat(SizeLine(s, n), z)
    <3>1. s.chunks[i] \in 1..4 /\ FromChunk(s, i) \in Seq(Alphabet(s))
          /\ Ahead(s, i) = Cat(SizeLine(s, s.chunks[i]), FromChunk(s, i))
      BY ONLY <1>2, <1>6, <1>9, ChunkParts, Zenon
    <3>2. Ahead(s, i) \in Seq(Alphabet(s))
      BY ONLY <1>2, <1>6, i \in 1..(Len(s.chunks) + 1), AheadIsText, Zenon
    <3>3. QED
      BY ONLY <3>1, <3>2, Zenon
  <2>2. n <= BodyCap
    BY ONLY <1>1, <1>6, <1>9, <2>1, Buffers, Regular, RegularChunks, Zenon
  <2>3. n \in 0..4 /\ n # 0
    BY ONLY n \in 1..4
  <2>4. Delivered(s.whole, rbuf, rest, y)
    BY ONLY <1>7, <2>1, Zenon
  <2>5. /\ need' = n /\ rpc' = (IF n = 0 THEN "trailers" ELSE "payload")
        /\ Delivered(s.whole, rbuf', rest, z)
    BY ONLY <1>1, <1>2, <2>1, <2>2, <2>3, <2>4, ReadSize, SizeTaken
  <2>6. BeforeChunk(s, rest, rbuf', body, need', i)
    BY ONLY <1>7, <2>1, <2>5, Zenon DEF BeforeChunk
  <2>7. AtPayload(s, rest, rbuf', body, need')
    BY ONLY <1>6, <1>9, <2>6, Zenon DEF AtPayload
  <2>8. AtPayload(sent', rest', rbuf', body', need') /\ rpc' = "payload"
    BY ONLY <1>1, <1>3, <2>3, <2>5, <2>7, Zenon
  <2>9. QED
    BY ONLY <2>8 DEF Placed
<1>10. CASE i = Len(s.chunks) + 1
  <2>1. PICK z \in Seq(Alphabet(s)) : z = s.eol
    <3>1. s.eol \in Seq(Alphabet(s))
      BY ONLY <1>2, AlphabetFacts, Zenon
    <3>2. QED
      BY ONLY <3>1
  <2>2. PICK y : y = Ahead(s, i) /\ y = Cat(SizeLine(s, 0), z)
    <3>1. Ahead(s, i) = Cat(Cat(<<"0">>, s.eol), s.eol)
      BY ONLY <1>2, <1>6, <1>10, AheadLast, Zenon DEF Cat
    <3>2. Sizes[0 + 1] = "0"
      BY Tokens
    <3>3. QED
      BY ONLY <2>1, <3>1, <3>2, Zenon DEF SizeLine
  <2>3. 0 \in 0..4 /\ 0 <= BodyCap
    BY RequestAssumption
  <2>4. Delivered(s.whole, rbuf, rest, y)
    BY ONLY <1>7, <2>2, Zenon
  <2>5. rpc' = "trailers" /\ Delivered(s.whole, rbuf', rest, z)
    BY ONLY <1>1, <1>2, <2>2, <2>3, <2>4, z \in Seq(Alphabet(s)), ReadSize, SizeTaken
  <2>6. AtTrailers(s, rest, rbuf', body)
    BY ONLY <1>7, <1>8, <1>10, <2>1, <2>5, Zenon DEF AtTrailers
  <2>7. AtTrailers(sent', rest', rbuf', body') /\ rpc' = "trailers"
    BY ONLY <1>1, <1>3, <2>5, <2>6, Zenon
  <2>8. QED
    BY ONLY <2>7 DEF Placed
<1>11. QED
  BY ONLY <1>8, <1>9, <1>10, i \in 1..(Len(s.chunks) + 1)

(* What has been kept is the payload's beginning, wherever the reader is.   *)
LEMMA KeptIsPrefix ==
  ASSUME NEW s, Sendable(s), s.framing = "chunked", NEW i \in 1..(Len(s.chunks) + 1)
  PROVE  IsPrefix(Taken(Before(s, i)), Payload(s))
<1>1. Before(s, i) \in 0..s.size
  BY ChunkSums
<1>2. QED
  BY ONLY <1>1, Sendable(s), TakenIsPrefix, Zenon

(* A chunk is taken when all of it has come, or nothing more comes.         *)
LEMMA ChunkStep ==
  ASSUME Buffers, Placed, TakeChunk
  PROVE  Placed'
<1>1. PICK s : s = sent
  OBVIOUS
<1>2. /\ Sendable(s) /\ rbuf \in Seq(Alphabet(s)) /\ rest \in Seq(Alphabet(s))
      /\ s.whole \in BOOLEAN
  BY ONLY <1>1, Buffers, Zenon DEF Buffers
<1>3. /\ (Len(rbuf) >= need \/ AtEnd)
      /\ body' = SubSeq(body \o SubSeq(rbuf, 1, Min({need, Len(rbuf)})), 1,
                        Min({BodyCap, Len(body) + Min({need, Len(rbuf)})}))
      /\ rbuf' = SubSeq(rbuf, Min({need, Len(rbuf)}) + 1, Len(rbuf))
      /\ rpc' = "ending" /\ UNCHANGED <<sent, rest>>
  BY ONLY TakeChunk DEF TakeChunk
<1>0. rpc = "payload"
  BY ONLY TakeChunk DEF TakeChunk
<1>4. AtPayload(s, rest, rbuf, body, need)
  BY ONLY <1>0, <1>1, Placed, Zenon DEF Placed
<1>5. PICK i \in 1..Len(s.chunks) :
        s.framing = "chunked" /\ BeforeChunk(s, rest, rbuf, body, need, i)
  BY ONLY <1>4, Zenon DEF AtPayload
<1>6. /\ need = s.chunks[i] /\ body = Taken(Before(s, i))
      /\ Delivered(s.whole, rbuf, rest, FromChunk(s, i))
  BY ONLY <1>5, Zenon DEF BeforeChunk
<1>7. PICK c \in 1..4, k \in 0..4, m \in Nat, d \in Nat :
        /\ c = need /\ k = Len(s.chunks) /\ m = Before(s, i) /\ d = Before(s, i + 1)
        /\ d = m + c /\ d <= s.size /\ s.size \in 0..4
  <2>1. /\ Len(s.chunks) \in 0..4 /\ s.chunks[i] \in 1..4
        /\ Before(s, i + 1) = Before(s, i) + s.chunks[i]
        /\ \A j \in 1..(Len(s.chunks) + 1) : Before(s, j) \in 0..s.size
    BY ONLY <1>2, <1>5, ChunkSums, i \in 1..Len(s.chunks)
  <2>2. i \in 1..(Len(s.chunks) + 1) /\ i + 1 \in 1..(Len(s.chunks) + 1)
    BY ONLY <2>1, i \in 1..Len(s.chunks)
  <2>3. s.size \in 0..4
    BY ONLY <1>2, PayloadIsUnits, Zenon
  <2>4. PICK m \in Nat, d \in Nat : m = Before(s, i) /\ d = Before(s, i + 1) /\ d <= s.size
    BY ONLY <2>1, <2>2, <2>3
  <2>5. QED
    BY ONLY <1>6, <2>1, <2>3, <2>4, Zenon
<1>8. PICK u \in Seq(Alphabet(s)), z \in Seq(Alphabet(s)), x \in Seq(Alphabet(s)) :
        /\ u = Body(s, i) /\ z = BehindChunk(s, i) /\ x = FromChunk(s, i) /\ Joins(x, u, z)
        /\ Len(u) = c /\ \A p \in 1..c : u[p] = Units[m + p]
  <2>1. /\ Body(s, i) \in Seq(Alphabet(s)) /\ BehindChunk(s, i) \in Seq(Alphabet(s))
        /\ FromChunk(s, i) \in Seq(Alphabet(s))
        /\ Joins(FromChunk(s, i), Body(s, i), BehindChunk(s, i))
    BY ONLY <1>2, <1>5, i \in 1..Len(s.chunks), ChunkParts, Zenon
  <2>2. /\ Len(SubSeq(Units, m + 1, d)) = d - m
        /\ \A p \in 1..(d - m) : SubSeq(Units, m + 1, d)[p] = Units[m + p]
    <3>1. m \in 0..4 /\ d \in m..4
      BY ONLY <1>7
    <3>2. QED
      BY ONLY <3>1, PartOfPayload
  <2>3. d - m = c
    BY ONLY <1>7
  <2>4. Body(s, i) = SubSeq(Units, m + 1, d)
    BY ONLY <1>6, <1>7, Zenon DEF Body
  <2>5. QED
    BY ONLY <2>1, <2>2, <2>3, <2>4, Zenon
<1>9. PICK n \in Nat : n = Len(rbuf)
  BY ONLY <1>2
<1>10. PICK t \in Nat : t = Min({need, Len(rbuf)}) /\ t = (IF c <= n THEN c ELSE n)
  <2>1. Min({c, n}) = IF c <= n THEN c ELSE n
    BY ONLY c \in 1..4, n \in Nat, LesserOfTwo, SMTT(30)
  <2>2. (IF c <= n THEN c ELSE n) \in Nat
    BY ONLY c \in 1..4, n \in Nat
  <2>3. QED
    BY ONLY <1>7, <1>9, <2>1, <2>2, Zenon
<1>11. body' = Taken(m + t)
  <2>1. rbuf \in Seq(Piece)
    BY ONLY Buffers, BuffersAreTyped, Zenon DEF ReqTypeOK
  <2>2. m \in 0..4 /\ t \in 0..(4 - m) /\ t <= n /\ t <= c
    <3>1. t <= n /\ t <= c
      BY ONLY <1>10, n \in Nat, c \in 1..4
    <3>2. m + c <= 4
      BY ONLY <1>7, m \in Nat, d \in Nat, c \in 1..4, SMTT(30)
    <3>3. QED
      BY ONLY <3>1, <3>2, m \in Nat, t \in Nat, c \in 1..4
  <2>3. \A p \in 1..t : rbuf[p] = Units[m + p]
    <3>1. \A p \in 1..n : rbuf[p] = x[p]
      BY ONLY <1>6, <1>8, <1>9, Zenon DEF Delivered
    <3>2. \A p \in 1..c : x[p] = u[p]
      BY ONLY <1>8, Zenon DEF Joins
    <3>3. \A p \in 1..t : p \in 1..n /\ p \in 1..c
      BY ONLY <2>2, n \in Nat, t \in Nat, c \in 1..4
    <3>4. QED
      BY ONLY <1>8, <3>1, <3>2, <3>3, Zenon
  <2>4. PICK b \in Seq(Piece) : b = rbuf
    BY ONLY <2>1
  <2>5. t <= Len(b) /\ \A p \in 1..t : b[p] = Units[m + p]
    BY ONLY <1>9, <2>2, <2>3, <2>4, Zenon
  <2>6. body' = SubSeq(Cat(Taken(m), SubSeq(b, 1, t)), 1, Min({BodyCap, Len(Taken(m)) + t}))
    BY ONLY <1>3, <1>6, <1>7, <1>10, <2>4, Zenon DEF Cat
  <2>7. QED
    BY ONLY <2>2, <2>5, <2>6, b \in Seq(Piece), TakenMore
<1>12. CASE c <= n
  <2>1. t = c /\ m + t = d
    BY ONLY <1>7, <1>10, <1>12
  <2>2. PICK b1 : b1 = rbuf' /\ Passed(rbuf, u, b1)
    <3>1. rbuf' = SubSeq(rbuf, Len(u) + 1, Len(rbuf)) /\ Len(u) <= Len(rbuf)
      BY ONLY <1>3, <1>8, <1>9, <1>10, <1>12, <2>1, Zenon
    <3>2. QED
      BY ONLY <3>1, Zenon DEF Passed
  <2>3. Delivered(s.whole, b1, rest, z)
    <3>1. PICK w, b, r : w = s.whole /\ b = rbuf /\ r = rest
      OBVIOUS
    <3>2. /\ b \in Seq(Alphabet(s)) /\ r \in Seq(Alphabet(s))
          /\ Delivered(w, b, r, x) /\ Passed(b, u, b1)
      BY ONLY <1>2, <1>6, <1>8, <2>2, <3>1, Zenon
    <3>3. Joins(x, u, z)
      BY ONLY <1>8
    <3>4. Delivered(w, b1, r, z)
      BY ONLY <3>2, <3>3, u \in Seq(Alphabet(s)), z \in Seq(Alphabet(s)), DeliverPast
    <3>5. QED
      BY ONLY <3>1, <3>4, Zenon
  <2>4. BeforeEnd(s, rest, rbuf', body', i)
    BY ONLY <1>7, <1>8, <1>11, <2>1, <2>2, <2>3, Zenon DEF BeforeEnd
  <2>5. AtEnding(s, rest, rbuf', body')
    BY ONLY <1>5, <2>4, i \in 1..Len(s.chunks), Zenon DEF AtEnding
  <2>6. AtEnding(sent', rest', rbuf', body') /\ rpc' = "ending"
    BY ONLY <1>1, <1>3, <2>5, Zenon
  <2>7. QED
    BY ONLY <2>6 DEF Placed
<1>13. CASE ~(c <= n)
  <2>1. t = n /\ m + t \in 0..s.size
    <3>1. t = n
      BY ONLY <1>10, <1>13, Zenon
    <3>2. n <= c
      BY ONLY <1>13, n \in Nat, c \in 1..4
    <3>3. PICK g \in 0..4 : g = s.size /\ m + c <= g
      <4>1. s.size \in 0..4 /\ m + c <= s.size
        BY ONLY <1>7, Zenon
      <4>2. QED
        BY ONLY <4>1, Zenon
    <3>4. m + n \in 0..g
      BY ONLY <3>2, <3>3, n \in Nat, m \in Nat, c \in 1..4
    <3>5. QED
      BY ONLY <3>1, <3>3, <3>4, Zenon
  <2>2. rest = <<>> /\ ~s.whole
    <3>1. ~(n >= c)
      BY ONLY <1>13, n \in Nat, c \in 1..4
    <3>2. AtEnd
      BY ONLY <1>3, <1>7, <1>9, <3>1, Zenon
    <3>3. QED
      BY ONLY <1>1, <3>2, Zenon DEF AtEnd
  <2>3. IsPrefix(Taken(m + t), Payload(s))
    BY ONLY <1>2, <2>1, TakenIsPrefix, Zenon
  <2>4. rbuf' = <<>>
    <3>1. rbuf' = SubSeq(rbuf, n + 1, n)
      BY ONLY <1>3, <1>9, <1>10, <2>1, Zenon
    <3>2. n + 1 \in Nat \ {0} /\ n \in 0..n /\ ~(n + 1 <= n)
      BY ONLY n \in Nat
    <3>3. SubSeq(rbuf, n + 1, n) \in Seq(Alphabet(s)) /\ Len(SubSeq(rbuf, n + 1, n)) = 0
      BY ONLY <1>2, <1>9, <3>2, n \in Nat, PartOfText
    <3>4. PICK v \in Seq(Alphabet(s)) : v = SubSeq(rbuf, n + 1, n) /\ Len(v) = 0
      BY ONLY <3>3, Zenon
    <3>5. v = <<>>
      BY ONLY <3>4
    <3>6. QED
      BY ONLY <3>1, <3>4, <3>5, Zenon
  <2>5. AtEnding(s, rest, rbuf', body')
    BY ONLY <1>11, <2>2, <2>3, <2>4, Zenon DEF AtEnding, Broken
  <2>6. AtEnding(sent', rest', rbuf', body') /\ rpc' = "ending"
    BY ONLY <1>1, <1>3, <2>5, Zenon
  <2>7. QED
    BY ONLY <2>6 DEF Placed
<1>14. QED
  BY ONLY <1>12, <1>13

(* How much of a line's end is there.                                       *)
LEMMA EndOfLine ==
  ASSUME NEW e \in {CRLF, LF}, NEW b \in Seq(Piece), NEW n \in Nat, n = Len(b),
         NEW l \in Nat, l = Len(e), \A p \in 1..n : p <= l => b[p] = e[p]
  PROVE  LET k == IF IsPrefix(CRLF, b) THEN 2 ELSE IF IsPrefix(LF, b) THEN 1 ELSE 0
         IN k = IF n >= l THEN l ELSE 0
<1>1. CRLF \in Seq(Piece) /\ LF \in Seq(Piece) /\ Len(CRLF) = 2 /\ Len(LF) = 1
  BY Tokens
<1>2. CRLF[1] = "cr" /\ CRLF[2] = "lf" /\ LF[1] = "lf"
  BY DEF CRLF, LF
<1>3. IsPrefix(CRLF, b) <=> 2 <= n /\ \A p \in 1..2 : b[p] = CRLF[p]
  <2>1. IsPrefix(CRLF, b) <=> Len(CRLF) <= Len(b) /\ \A p \in 1..Len(CRLF) : b[p] = CRLF[p]
    BY ONLY <1>1, b \in Seq(Piece), PrefixIs, Zenon
  <2>2. QED
    BY ONLY <1>1, <2>1, n = Len(b), Zenon
<1>4. IsPrefix(LF, b) <=> 1 <= n /\ \A p \in 1..1 : b[p] = LF[p]
  <2>1. IsPrefix(LF, b) <=> Len(LF) <= Len(b) /\ \A p \in 1..Len(LF) : b[p] = LF[p]
    BY ONLY <1>1, b \in Seq(Piece), PrefixIs, Zenon
  <2>2. QED
    BY ONLY <1>1, <2>1, n = Len(b), Zenon
<1>5. CASE e = CRLF
  <2>1. l = 2
    BY ONLY <1>1, <1>5, l = Len(e), Zenon
  <2>2. IsPrefix(CRLF, b) <=> 2 <= n
    BY ONLY <1>3, <1>5, <2>1, \A p \in 1..n : p <= l => b[p] = e[p], n \in Nat
  <2>3. ~IsPrefix(LF, b)
    <3>1. ASSUME 1 <= n PROVE b[1] = "cr"
      BY ONLY <1>2, <1>5, <2>1, <3>1, \A p \in 1..n : p <= l => b[p] = e[p], n \in Nat
    <3>2. QED
      BY ONLY <1>2, <1>4, <3>1
  <2>4. QED
    BY ONLY <2>1, <2>2, <2>3, n \in Nat
<1>6. CASE e = LF
  <2>1. l = 1
    BY ONLY <1>1, <1>6, l = Len(e), Zenon
  <2>2. IsPrefix(LF, b) <=> 1 <= n
    BY ONLY <1>4, <1>6, <2>1, \A p \in 1..n : p <= l => b[p] = e[p], n \in Nat
  <2>3. ~IsPrefix(CRLF, b)
    <3>1. ASSUME 1 <= n PROVE b[1] = "lf"
      BY ONLY <1>2, <1>6, <2>1, <3>1, \A p \in 1..n : p <= l => b[p] = e[p], n \in Nat
    <3>2. QED
      BY ONLY <1>2, <1>3, <3>1, n \in Nat
  <2>4. QED
    BY ONLY <2>1, <2>2, <2>3, n \in Nat
<1>7. QED
  BY ONLY <1>5, <1>6, e \in {CRLF, LF}

(* The line's end behind a chunk is taken, if it has come.                  *)
LEMMA EndStep ==
  ASSUME Buffers, Placed, EndChunk
  PROVE  Placed'
<1>1. PICK s : s = sent
  OBVIOUS
<1>2. /\ Sendable(s) /\ rbuf \in Seq(Alphabet(s)) /\ rest \in Seq(Alphabet(s))
      /\ s.whole \in BOOLEAN
  BY ONLY <1>1, Buffers, Zenon DEF Buffers
<1>3. PICK b \in Seq(Piece) : b = rbuf
  <2>1. rbuf \in Seq(Piece)
    BY ONLY Buffers, BuffersAreTyped, Zenon DEF ReqTypeOK
  <2>2. QED
    BY ONLY <2>1
<1>4. PICK n \in Nat : n = Len(b)
  BY ONLY b \in Seq(Piece)
<1>5. PICK k : /\ k = (IF IsPrefix(CRLF, b) THEN 2 ELSE IF IsPrefix(LF, b) THEN 1 ELSE 0)
               /\ rbuf' = SubSeq(b, 1 + k, n)
  BY ONLY <1>3, <1>4, EndChunk, Zenon DEF EndChunk
<1>6. /\ rpc = "ending" /\ rpc' = "size" /\ UNCHANGED <<sent, rest, body>>
      /\ Len(rbuf) >= 2 \/ AtEnd
  BY ONLY EndChunk DEF EndChunk
<1>7. AtEnding(s, rest, b, body)
  BY ONLY <1>1, <1>3, <1>6, Placed, Zenon DEF Placed
<1>8. PICK e \in Seq(Alphabet(s)), l \in 1..2 : e = s.eol /\ l = Len(e) /\ e \in {CRLF, LF}
  <2>1. s.eol \in Seq(Alphabet(s)) /\ s.eol \in {CRLF, LF} /\ Len(s.eol) \in 1..2
    BY ONLY <1>2, AlphabetFacts
  <2>2. QED
    BY ONLY <2>1, Zenon
<1>9. ASSUME \A p \in 1..n : p <= l => b[p] = e[p]
      PROVE  k = IF n >= l THEN l ELSE 0
  <2>1. l \in Nat
    BY ONLY l \in 1..2
  <2>2. QED
    BY ONLY <1>4, <1>5, <1>8, <1>9, <2>1, n \in Nat, b \in Seq(Piece), EndOfLine, Zenon
<1>10. ASSUME b \in {<<>>, <<"cr">>}, Broken(s, rest, body)
       PROVE  rbuf' \in {<<>>, <<"cr">>}
  <2>1. n \in 0..1 /\ n <= 1
    BY ONLY <1>4, <1>10
  <2>2. k = 0
    <3>1. CRLF \in Seq(Piece) /\ LF \in Seq(Piece) /\ Len(CRLF) = 2 /\ Len(LF) = 1 /\ LF[1] = "lf"
      BY Tokens DEF LF
    <3>2. IsPrefix(CRLF, b) <=> Len(CRLF) <= Len(b) /\ \A p \in 1..Len(CRLF) : b[p] = CRLF[p]
      BY ONLY <3>1, b \in Seq(Piece), PrefixIs, Zenon
    <3>3. IsPrefix(LF, b) <=> Len(LF) <= Len(b) /\ \A p \in 1..Len(LF) : b[p] = LF[p]
      BY ONLY <3>1, b \in Seq(Piece), PrefixIs, Zenon
    <3>4. ~IsPrefix(CRLF, b)
      BY ONLY <1>4, <2>1, <3>1, <3>2
    <3>5. ~IsPrefix(LF, b)
      <4>1. ASSUME Len(LF) <= Len(b), \A p \in 1..Len(LF) : b[p] = LF[p] PROVE FALSE
        <5>1. b # <<>> /\ b[1] = "lf"
          BY ONLY <1>10, <3>1, <4>1
        <5>2. QED
          BY ONLY <1>10, <5>1
      <4>2. QED
        BY ONLY <3>3, <4>1
    <3>6. QED
      BY ONLY <1>5, <3>4, <3>5, Zenon
  <2>3. SubSeq(b, 1, n) = b
    BY ONLY <1>4, b \in Seq(Piece), SubSeqFull
  <2>4. 1 + 0 = 1
    OBVIOUS
  <2>5. QED
    BY ONLY <1>5, <1>10, <2>2, <2>3, <2>4, Zenon
<1>11. ASSUME AtSize(s, rest, rbuf', body) PROVE Placed'
  <2>1. AtSize(sent', rest', rbuf', body') /\ rpc' = "size"
    BY ONLY <1>1, <1>6, <1>11, Zenon
  <2>2. QED
    BY ONLY <2>1 DEF Placed
<1>12. CASE Broken(s, rest, body) /\ b = <<>>
  <2>1. AtSize(s, rest, rbuf', body)
    BY ONLY <1>10, <1>12, Zenon DEF AtSize
  <2>2. QED
    BY ONLY <1>11, <2>1, Zenon
<1>13. ASSUME s.framing = "chunked", NEW i \in 1..Len(s.chunks), BeforeEnd(s, rest, b, body, i)
       PROVE  Placed'
  <2>1. body = Taken(Before(s, i + 1)) /\ Delivered(s.whole, b, rest, BehindChunk(s, i))
    BY ONLY <1>13, Zenon DEF BeforeEnd
  <2>2. i + 1 \in 1..(Len(s.chunks) + 1)
    <3>1. Len(s.chunks) \in Nat
      BY ONLY <1>2, <1>13, ChunkSums
    <3>2. QED
      BY ONLY <3>1, i \in 1..Len(s.chunks)
  <2>3. PICK z \in Seq(Alphabet(s)), x \in Seq(Alphabet(s)) :
          x = BehindChunk(s, i) /\ z = Ahead(s, i + 1) /\ Joins(x, e, z)
    <3>1. /\ Ahead(s, i + 1) \in Seq(Alphabet(s)) /\ BehindChunk(s, i) \in Seq(Alphabet(s))
          /\ Joins(BehindChunk(s, i), s.eol, Ahead(s, i + 1))
      BY ONLY <1>2, <1>13, ChunkParts, Zenon
    <3>2. QED
      BY ONLY <1>8, <3>1, Zenon
  <2>4. \A p \in 1..n : p <= l => b[p] = e[p]
    <3>1. \A p \in 1..n : b[p] = x[p]
      BY ONLY <1>4, <2>1, <2>3, Zenon DEF Delivered
    <3>2. \A p \in 1..l : x[p] = e[p]
      BY ONLY <1>8, <2>3, Zenon DEF Joins
    <3>3. \A p \in 1..n : p <= l => p \in 1..l
      BY ONLY l \in 1..2
    <3>4. QED
      BY ONLY <3>1, <3>2, <3>3, Zenon
  <2>5. CASE n >= l
    <3>1. k = l /\ 1 + l = l + 1 /\ l <= n
      BY ONLY <1>9, <2>4, <2>5, n \in Nat, l \in 1..2
    <3>2. PICK b1 : b1 = rbuf' /\ Passed(b, e, b1)
      <4>1. rbuf' = SubSeq(b, Len(e) + 1, Len(b)) /\ Len(e) <= Len(b)
        BY ONLY <1>4, <1>5, <1>8, <3>1, Zenon
      <4>2. QED
        BY ONLY <4>1, Zenon DEF Passed
    <3>3. Delivered(s.whole, b1, rest, z)
      <4>1. PICK w, r : w = s.whole /\ r = rest
        OBVIOUS
      <4>2. b \in Seq(Alphabet(s)) /\ r \in Seq(Alphabet(s)) /\ Delivered(w, b, r, x)
        BY ONLY <1>2, <1>3, <2>1, <2>3, <4>1, Zenon
      <4>3. Joins(x, e, z) /\ Passed(b, e, b1)
        BY ONLY <2>3, <3>2
      <4>4. Delivered(w, b1, r, z)
        BY ONLY <4>2, <4>3, e \in Seq(Alphabet(s)), z \in Seq(Alphabet(s)), DeliverPast
      <4>5. QED
        BY ONLY <4>1, <4>4, Zenon
    <3>4. BeforeSize(s, rest, rbuf', body, i + 1)
      BY ONLY <2>1, <2>3, <3>2, <3>3, Zenon DEF BeforeSize
    <3>5. AtSize(s, rest, rbuf', body)
      BY ONLY <1>13, <2>2, <3>4, Zenon DEF AtSize
    <3>6. QED
      BY ONLY <1>11, <3>5, Zenon
  <2>6. CASE ~(n >= l)
    <3>1. Broken(s, rest, body)
      <4>1. ~(n >= 2)
        BY ONLY <2>6, n \in Nat, l \in 1..2
      <4>2. AtEnd
        BY ONLY <1>3, <1>4, <1>6, <4>1, Zenon
      <4>3. IsPrefix(body, Payload(s))
        BY ONLY <1>2, <1>13, <2>1, <2>2, KeptIsPrefix, Zenon
      <4>4. QED
        BY ONLY <1>1, <4>2, <4>3, Zenon DEF AtEnd, Broken
    <3>2. b \in {<<>>, <<"cr">>}
      <4>1. CASE n = 0
        <5>1. Len(b) = 0
          BY ONLY <1>4, <4>1, Zenon
        <5>2. b = <<>>
          BY ONLY <5>1, b \in Seq(Piece)
        <5>3. QED
          BY ONLY <5>2
      <4>2. CASE n # 0
        <5>1. n = 1 /\ l = 2
          BY ONLY <2>6, <4>2, n \in Nat, l \in 1..2
        <5>2. e[1] = "cr"
          <6>1. Len(LF) = 1 /\ CRLF[1] = "cr"
            BY Tokens DEF CRLF
          <6>2. e # LF
            <7>0. 2 # 1
              OBVIOUS
            <7>1. Len(e) = 2 /\ 2 # 1
              BY ONLY <1>8, <5>1, <7>0, Zenon
            <7>2. QED
              BY ONLY <6>1, <7>1, Zenon
          <6>3. e = CRLF
            BY ONLY <1>8, <6>2, Zenon
          <6>4. QED
            BY ONLY <6>1, <6>3, Zenon
        <5>3. b[1] = "cr"
          BY ONLY <2>4, <5>1, <5>2
        <5>4. b = <<"cr">>
          <6>1. Len(b) = 1
            BY ONLY <1>4, <5>1, Zenon
          <6>2. QED
            BY ONLY <5>3, <6>1, b \in Seq(Piece)
        <5>5. QED
          BY ONLY <5>4
      <4>3. QED
        BY ONLY <4>1, <4>2
    <3>3. AtSize(s, rest, rbuf', body)
      BY ONLY <1>10, <3>1, <3>2, Zenon DEF AtSize
    <3>4. QED
      BY ONLY <1>11, <3>3, Zenon
  <2>7. QED
    BY ONLY <2>5, <2>6
<1>14. QED
  BY ONLY <1>7, <1>12, <1>13, Zenon DEF AtEnding

(* All of the payload is kept, up to the cap.                               *)
LEMMA AllIsKept ==
  ASSUME NEW s, Sendable(s)
  PROVE  AtJudgement(s, Taken(s.size))
<1>1. s.size \in 0..4
  BY PayloadIsUnits, Zenon
<1>2. PICK n \in 0..4 : n = s.size
  BY <1>1
<1>3. n \in 0..n
  OBVIOUS
<1>4. IsPrefix(Taken(n), Payload(s))
  BY ONLY <1>2, <1>3, Sendable(s), TakenIsPrefix, Zenon
<1>5. Len(Taken(n)) = Min({BodyCap, n})
  BY ONLY n \in 0..4, TakenIs, Zenon
<1>6. {BodyCap, n} = {n, BodyCap}
  OBVIOUS
<1>7. QED
  BY ONLY <1>2, <1>4, <1>5, <1>6, Zenon DEF AtJudgement

(* The body is read when the empty line behind its last chunk has come.     *)
LEMMA TrailersStep ==
  ASSUME Buffers, Placed, Trailers
  PROVE  Placed'
<1>1. PICK s : s = sent
  OBVIOUS
<1>2. /\ Sendable(s) /\ rbuf \in Seq(Alphabet(s))
  BY ONLY <1>1, Buffers, Zenon DEF Buffers
<1>3. /\ rpc = "trailers" /\ HasLine /\ UNCHANGED <<sent, body>>
      /\ rpc' = IF Line = <<>> THEN "read" ELSE "trailers"
  BY ONLY Trailers DEF Trailers
<1>4. body = Taken(s.size) /\ Delivered(s.whole, rbuf, rest, s.eol)
  BY ONLY <1>1, <1>3, Placed, Zenon DEF Placed, AtTrailers
<1>5. PICK n \in Nat, m \in Nat, l \in Nat : n = Len(rbuf) /\ m = Len(rest) /\ l = Len(s.eol)
  <2>1. rest \in Seq(Alphabet(s)) /\ s.eol \in Seq(Alphabet(s))
    BY ONLY <1>1, <1>2, Buffers, AlphabetFacts, Zenon DEF Buffers
  <2>2. QED
    BY ONLY <1>2, <2>1
<1>6. n + m <= l /\ \A p \in 1..n : rbuf[p] = s.eol[p]
  BY ONLY <1>4, <1>5, Zenon DEF Delivered
<1>7. n <= l
  BY ONLY <1>6, n \in Nat, m \in Nat, l \in Nat
<1>8. Line = <<>>
  <2>1. n <= Len(s.eol)
    BY ONLY <1>5, <1>7, Zenon
  <2>2. n = Len(rbuf) /\ (\A p \in 1..n : rbuf[p] = s.eol[p]) /\ HasLine
    BY ONLY <1>3, <1>5, <1>6
  <2>3. QED
    BY ONLY <1>2, <2>1, <2>2, n \in Nat, EmptyLineTaken, Zenon
<1>9. AtJudgement(sent', body') /\ rpc' = "read"
  BY ONLY <1>1, <1>2, <1>3, <1>4, <1>8, AllIsKept, Zenon
<1>10. QED
  BY ONLY <1>9 DEF Placed

(* A body that breaks off in its framing is what has been kept of it.       *)
LEMMA BreakStep ==
  ASSUME Buffers, Placed, ChunkedEnds
  PROVE  Placed'
<1>1. PICK s : s = sent
  OBVIOUS
<1>2. Sendable(s) /\ s.whole \in BOOLEAN
  BY ONLY <1>1, Buffers, Zenon DEF Buffers
<1>3. /\ rpc \in {"size", "trailers"} /\ AtEnd /\ rpc' = "read" /\ UNCHANGED <<sent, body>>
  BY ONLY ChunkedEnds DEF ChunkedEnds
<1>4. ~s.whole
  BY ONLY <1>1, <1>3, Zenon DEF AtEnd
<1>5. IsPrefix(body, Payload(s))
  <2>1. CASE rpc = "size"
    <3>1. AtSize(s, rest, rbuf, body)
      BY ONLY <1>1, <2>1, Placed, Zenon DEF Placed
    <3>2. CASE Broken(s, rest, body)
      BY ONLY <3>2, Zenon DEF Broken
    <3>3. ASSUME s.framing = "chunked", NEW i \in 1..(Len(s.chunks) + 1),
                 BeforeSize(s, rest, rbuf, body, i)
          PROVE  IsPrefix(body, Payload(s))
      <4>1. body = Taken(Before(s, i))
        BY ONLY <3>3, Zenon DEF BeforeSize
      <4>2. QED
        BY ONLY <1>2, <3>3, <4>1, KeptIsPrefix, Zenon
    <3>4. QED
      BY ONLY <3>1, <3>2, <3>3, Zenon DEF AtSize
  <2>2. CASE rpc = "trailers"
    <3>1. body = Taken(s.size)
      BY ONLY <1>1, <2>2, Placed, Zenon DEF Placed, AtTrailers
    <3>2. QED
      BY ONLY <1>2, <3>1, AllIsKept, Zenon DEF AtJudgement
  <2>3. QED
    BY ONLY <1>3, <2>1, <2>2
<1>6. AtJudgement(sent', body')
  BY ONLY <1>1, <1>3, <1>4, <1>5, Zenon DEF AtJudgement
<1>7. QED
  BY ONLY <1>3, <1>6 DEF Placed

(* Nothing is the beginning of everything, and all that is kept of nothing. *)
LEMMA NothingKept ==
  /\ Taken(0) = <<>>
  /\ \A s : Sendable(s) => IsPrefix(<<>>, Payload(s))
<1>1. Taken(0) = <<>>
  <2>1. 0 \in 0..4
    OBVIOUS
  <2>2. /\ Min({BodyCap, 0}) = (IF BodyCap <= 0 THEN BodyCap ELSE 0)
        /\ Taken(0) \in Seq(Solid) /\ Len(Taken(0)) = Min({BodyCap, 0})
    BY ONLY <2>1, TakenIs
  <2>3. (IF BodyCap <= 0 THEN BodyCap ELSE 0) = 0
    BY RequestAssumption
  <2>4. PICK t \in Seq(Solid) : t = Taken(0) /\ Len(t) = 0
    BY ONLY <2>2, <2>3, Zenon
  <2>5. t = <<>>
    BY ONLY <2>4
  <2>6. QED
    BY ONLY <2>4, <2>5, Zenon
<1>2. ASSUME NEW s, Sendable(s) PROVE IsPrefix(<<>>, Payload(s))
  <2>1. Payload(s) \in Seq(Solid) /\ <<>> \in Seq(Solid)
    BY ONLY <1>2, PayloadIsUnits
  <2>2. Len(Payload(s)) \in Nat /\ Len(<<>>) = 0 /\ \A p \in 1..0 : FALSE
    BY ONLY <2>1
  <2>3. Len(<<>>) <= Len(Payload(s)) /\ \A p \in 1..Len(<<>>) : Payload(s)[p] = <<>>[p]
    BY ONLY <2>2
  <2>4. QED
    BY ONLY <2>1, <2>3, PrefixIs, Zenon
<1>3. QED
  BY ONLY <1>1, <1>2, Zenon

(* How the reader goes on with these headers, what came behind them and the *)
(* length they give.                                                        *)
AfterHeaders(head, came, length) ==
  /\ rpc = "headers" /\ HeadersRead /\ UNCHANGED <<sent, rest>>
  /\ \/ /\ Lines(head) <= LineCap + 1 /\ Contains(head, "chunked")
        /\ rbuf' = came /\ rpc' = "size" /\ UNCHANGED <<body, need, verdict>>
     \/ /\ ~Contains(head, "chunked") /\ length > 0 /\ Len(came) > length
        /\ rpc' = "refused"
     \/ /\ ~Contains(head, "chunked") /\ ~(length > 0 /\ Len(came) > length)
        /\ body' = came /\ rpc' = "length"
        /\ need' = IF length > Len(came) THEN length - Len(came) ELSE 0
     \/ Lines(head) > LineCap + 1 /\ rpc' = "refused"
     \/ HeaderEnd(rbuf) = 0 /\ rpc' = "refused"
  /\ rpc' = "size" => rbuf' = came /\ body' = body
  /\ rpc' = "length" => body' = came
  /\ rpc' \in {"size", "length", "refused"}

(* What TakeHeaders does, given where the headers are taken to end.         *)
LEMMA HeadersTaken ==
  ASSUME TakeHeaders, NEW end, end = IF HeaderEnd(rbuf) # 0 THEN HeaderEnd(rbuf) ELSE Len(rbuf),
         NEW head, head = SubSeq(rbuf, 1, end), NEW came, came = SubSeq(rbuf, end + 1, Len(rbuf)),
         NEW length,
         length = IF Contains(head, "length") THEN Min({sent.size, BodyCap}) ELSE 0
  PROVE  AfterHeaders(head, came, length)
<1>1. SubSeq(rbuf, 1, IF HeaderEnd(rbuf) # 0 THEN HeaderEnd(rbuf) ELSE Len(rbuf)) = head
  BY ONLY end = IF HeaderEnd(rbuf) # 0 THEN HeaderEnd(rbuf) ELSE Len(rbuf),
          head = SubSeq(rbuf, 1, end), Zenon
<1>2. SubSeq(rbuf, (IF HeaderEnd(rbuf) # 0 THEN HeaderEnd(rbuf) ELSE Len(rbuf)) + 1, Len(rbuf)) = came
  BY ONLY end = IF HeaderEnd(rbuf) # 0 THEN HeaderEnd(rbuf) ELSE Len(rbuf),
          came = SubSeq(rbuf, end + 1, Len(rbuf)), Zenon
<1>3. QED
  BY ONLY <1>1, <1>2, TakeHeaders,
          length = IF Contains(head, "length") THEN Min({sent.size, BodyCap}) ELSE 0
     DEF TakeHeaders, Refused, AfterHeaders

(* Past the headers the reader is at the body, whichever the framing.       *)
LEMMA HeadersStep ==
  ASSUME Buffers, Regular, Placed, TakeHeaders
  PROVE  Placed'
<1>1. PICK s : s = sent
  OBVIOUS
<1>2. /\ Sendable(s) /\ rbuf \in Seq(Alphabet(s)) /\ rest \in Seq(Alphabet(s))
      /\ s.whole \in BOOLEAN
  BY ONLY <1>1, Buffers, Zenon DEF Buffers
<1>3. PICK end, head, came, length :
        /\ end = IF HeaderEnd(rbuf) # 0 THEN HeaderEnd(rbuf) ELSE Len(rbuf)
        /\ head = SubSeq(rbuf, 1, end) /\ came = SubSeq(rbuf, end + 1, Len(rbuf))
        /\ length = IF Contains(head, "length") THEN Min({sent.size, BodyCap}) ELSE 0
  OBVIOUS
<1>4. /\ rpc = "headers" /\ HeadersRead /\ UNCHANGED <<sent, rest>>
      /\ \/ /\ Lines(head) <= LineCap + 1 /\ Contains(head, "chunked")
            /\ rbuf' = came /\ rpc' = "size" /\ UNCHANGED <<body, need, verdict>>
         \/ /\ ~Contains(head, "chunked") /\ length > 0 /\ Len(came) > length
            /\ rpc' = "refused"
         \/ /\ ~Contains(head, "chunked") /\ ~(length > 0 /\ Len(came) > length)
            /\ body' = came /\ rpc' = "length"
            /\ need' = IF length > Len(came) THEN length - Len(came) ELSE 0
         \/ Lines(head) > LineCap + 1 /\ rpc' = "refused"
         \/ HeaderEnd(rbuf) = 0 /\ rpc' = "refused"
      /\ rpc' = "size" => rbuf' = came /\ body' = body
      /\ rpc' = "length" => body' = came
      /\ rpc' \in {"size", "length", "refused"}
  <2>1. AfterHeaders(head, came, length)
    BY ONLY <1>3, TakeHeaders, HeadersTaken, Zenon
  <2>2. QED
    BY ONLY <2>1, Zenon DEF AfterHeaders
<1>5. body = <<>> /\ Delivered(s.whole, rbuf, rest, Wire(s)) /\ Len(rbuf) < Len(Headers(s)) + ReadCap
  BY ONLY <1>1, <1>4, Placed, Zenon DEF Placed, AtHeaders
<1>6. PICK a \in Seq(Alphabet(s)), z \in Seq(Alphabet(s)), w \in Seq(Alphabet(s)) :
        a = Headers(s) /\ z = After(s) /\ w = Wire(s) /\ Joins(w, a, z)
  BY ONLY <1>2, WireIsText, Zenon
<1>7. PICK n \in Nat, h \in Nat : n = Len(rbuf) /\ h = Len(a)
  BY ONLY <1>2, a \in Seq(Alphabet(s))
<1>8. \A p \in 1..n : p <= h => rbuf[p] = a[p]
  <2>1. \A p \in 1..n : rbuf[p] = w[p]
    BY ONLY <1>5, <1>6, <1>7, Zenon DEF Delivered
  <2>2. \A p \in 1..h : w[p] = a[p]
    BY ONLY <1>6, <1>7, Zenon DEF Joins
  <2>3. \A p \in 1..n : p <= h => p \in 1..h
    OBVIOUS
  <2>4. QED
    BY ONLY <2>1, <2>2, <2>3, Zenon
<1>9. HeaderEnd(rbuf) = (IF n >= h THEN h ELSE 0) /\ h > 2
  BY ONLY <1>2, <1>6, <1>7, <1>8, EndFound, n \in Nat, h \in Nat
<1>10. h <= HdrCap /\ Lines(a) <= LineCap + 1
  <2>1. h <= HdrCap /\ s.lines <= LineCap
    BY ONLY <1>1, <1>6, <1>7, Regular, Zenon DEF Regular
  <2>2. Lines(a) \in 0..(s.lines + 1) /\ s.lines \in Nat
    BY ONLY <1>2, <1>6, HeadNames, Zenon DEF Sendable
  <2>3. LineCap \in Nat
    BY RequestAssumption
  <2>4. QED
    BY ONLY <2>1, <2>2, <2>3
<1>11. CASE n >= h
  <2>1. HeaderEnd(rbuf) = h /\ h # 0
    BY ONLY <1>9, <1>11, h \in Nat
  <2>2. end = h
    BY ONLY <1>3, <2>1, Zenon
  <2>3. head = a
    <3>1. 1 \in Nat \ {0} /\ h \in 0..n /\ (IF 1 <= h THEN h - 1 + 1 ELSE 0) = h /\ h - 1 + 1 = h
            /\ \A i \in 1..h : 1 + i - 1 = i
      BY ONLY <1>11, n \in Nat, h \in Nat
    <3>2. /\ SubSeq(rbuf, 1, h) \in Seq(Alphabet(s))
          /\ Len(SubSeq(rbuf, 1, h)) = IF 1 <= h THEN h - 1 + 1 ELSE 0
          /\ \A i \in 1..(h - 1 + 1) : SubSeq(rbuf, 1, h)[i] = rbuf[1 + i - 1]
      BY ONLY <1>2, <1>7, <3>1, n \in Nat, PartOfText
    <3>3. PICK t \in Seq(Alphabet(s)) : t = SubSeq(rbuf, 1, h) /\ Len(t) = h /\ \A i \in 1..h : t[i] = rbuf[i]
      BY ONLY <3>1, <3>2, Zenon
    <3>4. \A i \in 1..h : rbuf[i] = a[i]
      BY ONLY <1>8, <1>11, n \in Nat, h \in Nat
    <3>5. Len(t) = Len(a) /\ \A i \in 1..Len(t) : t[i] = a[i]
      BY ONLY <1>7, <3>3, <3>4, Zenon
    <3>6. t = a
      BY ONLY <3>5, t \in Seq(Alphabet(s)), a \in Seq(Alphabet(s)), SeqEqual
    <3>7. QED
      BY ONLY <1>3, <2>2, <3>3, <3>6, Zenon
  <2>4. Passed(rbuf, a, came)
    BY ONLY <1>3, <1>7, <1>11, <2>2, n \in Nat, h \in Nat DEF Passed
  <2>5. Delivered(s.whole, came, rest, z) /\ Len(came) = n - h /\ came \in Seq(Alphabet(s))
    <3>1. PICK v, b, r : v = s.whole /\ b = rbuf /\ r = rest
      OBVIOUS
    <3>2. b \in Seq(Alphabet(s)) /\ r \in Seq(Alphabet(s)) /\ Delivered(v, b, r, w)
          /\ Passed(b, a, came)
      BY ONLY <1>2, <1>5, <1>6, <2>4, <3>1, Zenon
    <3>3. Joins(w, a, z)
      BY ONLY <1>6
    <3>4. came \in Seq(Alphabet(s)) /\ Len(came) = Len(b) - Len(a) /\ Delivered(v, came, r, z)
      BY ONLY <3>2, <3>3, a \in Seq(Alphabet(s)), z \in Seq(Alphabet(s)), DeliverPast
    <3>5. QED
      BY ONLY <1>7, <3>1, <3>4, Zenon
  <2>6. PICK k \in Nat : k = Len(came) /\ k < ReadCap
    <3>1. ReadCap \in Nat /\ n < h + ReadCap
      BY <1>5, <1>6, <1>7, RequestAssumption
    <3>2. QED
      BY ONLY <1>11, <2>5, <3>1, n \in Nat, h \in Nat
  <2>7. Contains(a, "chunked") <=> s.framing = "chunked"
    BY ONLY <1>2, <1>6, HeadNames, Zenon
  <2>8. Contains(a, "length") <=> s.framing = "length"
    BY ONLY <1>2, <1>6, HeadNames, Zenon
  <2>9. ~(Lines(a) > LineCap + 1)
    <3>1. Lines(a) \in Nat
      <4>1. Lines(a) \in 0..(s.lines + 1)
        BY ONLY <1>2, <1>6, HeadNames, Zenon
      <4>2. QED
        BY ONLY <4>1
    <3>2. LineCap \in Nat
      BY RequestAssumption
    <3>3. QED
      BY ONLY <1>10, <3>1, <3>2
  <2>10. CASE s.framing = "chunked"
    <3>1. Contains(head, "chunked")
      BY ONLY <2>3, <2>7, <2>10, Zenon
    <3>2. rpc' = "size" /\ rbuf' = came /\ body' = body
      BY ONLY <1>4, <2>1, <2>3, <2>9, <3>1, Zenon
    <3>3. z = Ahead(s, 1)
      BY ONLY <1>6, <2>10 DEF After
    <3>4. body = Taken(Before(s, 1))
      <4>1. Before(s, 1) = 0
        BY ONLY <1>2, <2>10, ChunkSums
      <4>2. QED
        BY ONLY <1>5, <4>1, NothingKept, Zenon
    <3>5. BeforeSize(s, rest, rbuf', body', 1)
      BY ONLY <2>5, <3>2, <3>3, <3>4, Zenon DEF BeforeSize
    <3>6. 1 \in 1..(Len(s.chunks) + 1)
      <4>1. Len(s.chunks) \in 0..4
        BY ONLY <1>2, <2>10, ChunkSums
      <4>2. QED
        BY ONLY <4>1
    <3>7. AtSize(s, rest, rbuf', body')
      BY ONLY <2>10, <3>5, <3>6, Zenon DEF AtSize
    <3>8. AtSize(sent', rest', rbuf', body')
      BY ONLY <1>1, <1>4, <3>7, Zenon
    <3>9. QED
      BY ONLY <3>2, <3>8 DEF Placed
  <2>11. CASE s.framing = "length"
    <3>1. ~Contains(head, "chunked") /\ Contains(head, "length")
      <4>1. "length" # "chunked"
        OBVIOUS
      <4>2. QED
        BY ONLY <2>3, <2>7, <2>8, <2>11, <4>1, Zenon
    <3>2. PICK g \in 0..4 : g = s.size
      BY ONLY <1>2, PayloadIsUnits, Zenon
    <3>3. z = Payload(s) /\ Len(z) = g
      BY ONLY <1>2, <1>6, <2>11, <3>2, PayloadIsUnits, Zenon DEF After
    <3>4. k <= g
      <4>1. PICK m \in Nat : m = Len(rest)
        BY ONLY <1>2
      <4>2. k + m <= g
        BY ONLY <2>5, <2>6, <3>3, <4>1, Zenon DEF Delivered
      <4>3. QED
        BY ONLY <4>2, k \in Nat, m \in Nat, g \in 0..4
    <3>5. BodyCap \in Nat /\ k <= BodyCap
      BY <2>6, RequestAssumption
    <3>6. PICK j \in Nat : j = Min({g, BodyCap}) /\ k <= j
      <4>1. g \in Nat
        BY ONLY g \in 0..4
      <4>2. Min({g, BodyCap}) = IF g <= BodyCap THEN g ELSE BodyCap
        BY ONLY <3>5, <4>1, LesserOfTwo
      <4>3. (IF g <= BodyCap THEN g ELSE BodyCap) \in Nat /\ k <= IF g <= BodyCap THEN g ELSE BodyCap
        BY ONLY <3>4, <3>5, <4>1
      <4>4. QED
        BY ONLY <4>2, <4>3, Zenon
    <3>7. length = j
      BY ONLY <1>1, <1>3, <3>1, <3>2, <3>6, Zenon
    <3>8. ~(k > j) /\ k + (IF j > k THEN j - k ELSE 0) = j
      BY ONLY <3>6, k \in Nat, j \in Nat
    <3>9. rpc' = "length" /\ body' = came /\ need' = IF j > k THEN j - k ELSE 0
      BY ONLY <1>4, <2>1, <2>3, <2>6, <2>9, <3>1, <3>7, <3>8, Zenon
    <3>10. Len(body') + need' = Min({s.size, BodyCap})
      BY ONLY <2>6, <3>2, <3>6, <3>8, <3>9, Zenon
    <3>11. AtLength(s, rest, body', need')
      BY ONLY <2>5, <2>11, <3>3, <3>9, <3>10, Zenon DEF AtLength
    <3>12. AtLength(sent', rest', body', need')
      BY ONLY <1>1, <1>4, <3>11, Zenon
    <3>13. QED
      BY ONLY <3>9, <3>12 DEF Placed
  <2>12. QED
    BY ONLY <1>2, <2>10, <2>11, Zenon DEF Sendable
<1>12. CASE ~(n >= h)
  <2>1. HeaderEnd(rbuf) = 0
    BY ONLY <1>9, <1>12
  <2>2. end = n
    BY ONLY <1>3, <1>7, <2>1, Zenon
  <2>3. rest = <<>> /\ ~s.whole
    <3>1. HdrCap \in Nat
      BY RequestAssumption
    <3>2. ~(n >= HdrCap)
      BY ONLY <1>10, <1>12, <3>1, n \in Nat, h \in Nat
    <3>3. AtEnd
      BY ONLY <1>4, <1>7, <2>1, <3>2, Zenon DEF HeadersRead
    <3>4. QED
      BY ONLY <1>1, <3>3, Zenon DEF AtEnd
  <2>4. came = <<>>
    <3>1. came = SubSeq(rbuf, n + 1, n)
      BY ONLY <1>3, <1>7, <2>2, Zenon
    <3>2. n + 1 \in Nat \ {0} /\ n \in 0..n /\ ~(n + 1 <= n)
      BY ONLY n \in Nat
    <3>3. SubSeq(rbuf, n + 1, n) \in Seq(Alphabet(s)) /\ Len(SubSeq(rbuf, n + 1, n)) = 0
      BY ONLY <1>2, <1>7, <3>2, n \in Nat, PartOfText
    <3>4. PICK v \in Seq(Alphabet(s)) : v = SubSeq(rbuf, n + 1, n) /\ Len(v) = 0
      BY ONLY <3>3, Zenon
    <3>5. v = <<>>
      BY ONLY <3>4
    <3>6. QED
      BY ONLY <3>1, <3>4, <3>5, Zenon
  <2>5. Broken(s, rest, <<>>)
    BY ONLY <1>2, <2>3, NothingKept, Zenon DEF Broken
  <2>6. CASE rpc' = "size"
    <3>1. rbuf' = <<>> /\ body' = <<>>
      BY ONLY <1>4, <1>5, <2>4, <2>6, Zenon
    <3>2. <<>> \in {<<>>, <<"cr">>}
      OBVIOUS
    <3>3. AtSize(s, rest, rbuf', body')
      BY ONLY <2>5, <3>1, <3>2, Zenon DEF AtSize
    <3>4. AtSize(sent', rest', rbuf', body')
      BY ONLY <1>1, <1>4, <3>3, Zenon
    <3>5. QED
      BY ONLY <2>6, <3>4 DEF Placed
  <2>7. CASE rpc' = "length"
    <3>1. body' = <<>>
      BY ONLY <1>4, <2>4, <2>7, Zenon
    <3>2. AtLength(s, rest, body', need')
      BY ONLY <2>5, <3>1, Zenon DEF AtLength
    <3>3. AtLength(sent', rest', body', need')
      BY ONLY <1>1, <1>4, <3>2, Zenon
    <3>4. QED
      BY ONLY <2>7, <3>3 DEF Placed
  <2>8. CASE rpc' = "refused"
    <3>1. ~sent'.whole
      BY ONLY <1>1, <1>4, <2>3, Zenon
    <3>2. QED
      BY ONLY <2>8, <3>1 DEF Placed
  <2>9. QED
    BY ONLY <1>4, <2>6, <2>7, <2>8, Zenon
<1>13. QED
  BY ONLY <1>11, <1>12

(* A body of a known length is read as it comes.                            *)
LEMMA LengthStep ==
  ASSUME Buffers, Placed, ReadLength
  PROVE  Placed'
<1>1. PICK s : s = sent
  OBVIOUS
<1>2. Sendable(s) /\ s.whole \in BOOLEAN
  BY ONLY <1>1, Buffers, Zenon DEF Buffers
<1>3. rest \in Seq(Piece) /\ body \in Seq(Piece) /\ need \in 0..4
  <2>1. MaxSize = 4
    BY Tokens
  <2>2. QED
    BY ONLY <2>1, Buffers, BuffersAreTyped, Zenon DEF ReqTypeOK
<1>4. rpc = "length" /\ sent' = sent
  BY ONLY ReadLength DEF ReadLength
<1>5. AtLength(s, rest, body, need)
  BY ONLY <1>1, <1>4, Placed, Zenon DEF Placed
<1>6. Payload(s) \in Seq(Piece)
  <2>1. Payload(s) \in Seq(Solid)
    BY ONLY <1>2, PayloadIsUnits
  <2>2. Solid \subseteq Piece
    BY DEF Solid
  <2>3. QED
    BY ONLY <2>1, <2>2, SeqMonotonic
<1>7. ASSUME NEW n \in Pieces, n <= need, body' = Cat(body, SubSeq(rest, 1, n)),
             rest' = SubSeq(rest, n + 1, Len(rest)), need' = need - n, rpc' = rpc
      PROVE  Placed'
  <2>1. n \in 1..Len(rest)
    BY ONLY <1>3, n \in Pieces, PiecesAre
  <2>2. ~Broken(s, rest, body)
    <3>1. rest # <<>>
      BY ONLY <1>3, <2>1
    <3>2. QED
      BY ONLY <3>1, Zenon DEF Broken
  <2>3. /\ s.framing = "length" /\ Len(body) + need = Min({s.size, BodyCap})
        /\ Delivered(s.whole, body, rest, Payload(s))
    BY ONLY <1>5, <2>2, Zenon DEF AtLength
  <2>4. PICK w, b, r, b1, r1, t : w = s.whole /\ b = body /\ r = rest /\ b1 = body' /\ r1 = rest'
                                 /\ t = Payload(s)
    OBVIOUS
  <2>5. b \in Seq(Piece) /\ r \in Seq(Piece) /\ t \in Seq(Piece) /\ Delivered(w, b, r, t)
    BY ONLY <1>3, <1>6, <2>3, <2>4, Zenon
  <2>6. Advanced(b, r, n, b1, r1)
    BY ONLY <1>7, <2>1, <2>4, Zenon DEF Advanced
  <2>7. Len(b1) = Len(b) + n /\ Delivered(w, b1, r1, t)
    BY ONLY <2>5, <2>6, DeliverMore
  <2>8. Len(body') + need' = Len(body) + need
    <3>1. PICK l \in Nat, m \in Nat, c \in Nat : l = Len(b) /\ m = n /\ c = need /\ m <= c
      BY ONLY <1>3, <1>7, <2>1, <2>5
    <3>2. (l + m) + (c - m) = l + c
      BY ONLY l \in Nat, m \in Nat, c \in Nat
    <3>3. QED
      BY ONLY <1>7, <2>4, <2>7, <3>1, <3>2, Zenon
  <2>9. AtLength(s, rest', body', need')
    BY ONLY <2>3, <2>4, <2>7, <2>8, Zenon DEF AtLength
  <2>10. AtLength(sent', rest', body', need') /\ rpc' = "length"
    BY ONLY <1>1, <1>4, <1>7, <2>9, Zenon
  <2>11. QED
    BY ONLY <2>10 DEF Placed
<1>8. ASSUME need = 0 \/ AtEnd, rpc' = "read", body' = body
      PROVE  Placed'
  <2>1. AtJudgement(s, body)
    <3>1. CASE Broken(s, rest, body)
      BY ONLY <3>1, Zenon DEF Broken, AtJudgement
    <3>2. CASE /\ Len(body) + need = Min({s.size, BodyCap})
               /\ Delivered(s.whole, body, rest, Payload(s))
      <4>1. PICK l \in Nat, m \in Nat, k \in Nat : l = Len(body) /\ m = Len(rest) /\ k = Len(Payload(s))
        BY ONLY <1>3, <1>6
      <4>2. l + m <= k /\ \A p \in 1..l : body[p] = Payload(s)[p]
        BY ONLY <3>2, <4>1, Zenon DEF Delivered
      <4>3. l <= k
        BY ONLY <4>2, l \in Nat, m \in Nat, k \in Nat
      <4>4. Len(body) <= Len(Payload(s)) /\ \A p \in 1..Len(body) : Payload(s)[p] = body[p]
        BY ONLY <4>1, <4>2, <4>3, Zenon
      <4>5. IsPrefix(body, Payload(s))
        BY ONLY <1>3, <1>6, <4>4, PrefixIs, Zenon
      <4>6. CASE need = 0
        <5>1. l + 0 = l
          BY ONLY l \in Nat
        <5>2. Len(body) = Min({s.size, BodyCap})
          BY ONLY <3>2, <4>1, <4>6, <5>1, Zenon
        <5>3. QED
          BY ONLY <4>5, <5>2, Zenon DEF AtJudgement
      <4>7. CASE AtEnd
        BY ONLY <1>1, <4>5, <4>7, Zenon DEF AtEnd, AtJudgement
      <4>8. QED
        BY ONLY <1>8, <4>6, <4>7
    <3>3. QED
      BY ONLY <1>5, <3>1, <3>2, Zenon DEF AtLength
  <2>2. AtJudgement(sent', body')
    BY ONLY <1>1, <1>4, <1>8, <2>1, Zenon
  <2>3. QED
    BY ONLY <1>8, <2>2 DEF Placed
<1>9. QED
  <2>1. \/ \E n \in Pieces : /\ n <= need /\ body' = Cat(body, SubSeq(rest, 1, n))
                             /\ rest' = SubSeq(rest, n + 1, Len(rest)) /\ need' = need - n
                             /\ rpc' = rpc
        \/ (need = 0 \/ AtEnd) /\ rpc' = "read" /\ body' = body
    <3>1. UNCHANGED <<rest, body, need>> => body' = body
      OBVIOUS
    <3>2. QED
      BY ONLY ReadLength, <3>1, Zenon DEF ReadLength, Cat
  <2>2. QED
    BY ONLY <1>7, <1>8, <2>1, Zenon

(* A request's verdict says nothing of the way it came.                     *)
LEMMA JudgeStep ==
  ASSUME Placed, NEW paths, Judge(paths)
  PROVE  Placed'
<1>1. /\ rpc = "read" /\ rpc' \in {"admitted", "refused"}
      /\ verdict' \notin {"431", "malformed"}
      /\ sent' = sent /\ body' = body
  BY ONLY Judge(paths), JudgeIs, Zenon
<1>2. AtJudgement(sent', body')
  BY ONLY <1>1, Placed, Zenon DEF Placed
<1>3. QED
  BY ONLY <1>1, <1>2 DEF Placed

-----------------------------------------------------------------------------
(* All that happens to a request.                                          *)

(* A connection is accepted, dropped, or let go of when its request has been*)
(* taken: with the reader's steps and the gate's all there is.              *)
Arrives == \E f \in {"length", "chunked"}, k \in Nat : \E s \in Requests(f, k) :
             \E n \in 0..Len(Wire(s)) : Accept(s, n)
Dropped == rpc' = "dropped" /\ UNCHANGED <<sent, rest, rbuf, body, need, verdict>>
Forgotten == /\ rpc = "admitted" /\ sent' = Nothing
             /\ rest' = <<>> /\ rbuf' = <<>> /\ body' = <<>> /\ need' = 0
             /\ UNCHANGED <<rpc, verdict>>

RequestStep == \/ Arrives \/ Reader \/ (\E paths : Judge(paths)) \/ Dropped \/ Forgotten
               \/ UNCHANGED reqVars

(* Nothing is in the buffers before there is a connection.                  *)
Unconnected == rpc = "idle" => rest = <<>> /\ rbuf = <<>> /\ body = <<>>

RequestInv == Buffers /\ Unconnected /\ (Regular => Placed)

(* A request that has been let go of is one, of nothing and not whole.      *)
LEMMA NothingIsSendable == Sendable(Nothing) /\ Nothing.whole = FALSE
<1>1. MaxSize = 4
  BY Tokens
<1>2. QED
  BY <1>1 DEF Nothing, Sendable, LF

(* The invariant holds before there is a request.                           *)
LEMMA RequestInvInit == ReqInit => RequestInv
<1> SUFFICES ASSUME ReqInit PROVE RequestInv
  OBVIOUS
<1>1. /\ sent = Nothing /\ rest = <<>> /\ rbuf = <<>> /\ body = <<>>
      /\ rpc = "idle" /\ need = 0 /\ verdict = "none"
  BY DEF ReqInit
<1>2. Buffers
  <2>1. rest \in Seq(Alphabet(sent)) /\ rbuf \in Seq(Alphabet(sent)) /\ body \in Seq(Piece)
    BY ONLY <1>1
  <2>2. need \in 0..MaxSize
    BY <1>1, Tokens
  <2>3. Sendable(sent) /\ sent.whole \in BOOLEAN
    BY ONLY <1>1, NothingIsSendable
  <2>4. QED
    BY ONLY <1>1, <2>1, <2>2, <2>3 DEF Buffers
<1>3. Unconnected
  BY ONLY <1>1 DEF Unconnected
<1>4. Placed
  BY ONLY <1>1 DEF Placed
<1>5. QED
  BY <1>2, <1>3, <1>4 DEF RequestInv

(* The reader stays with the request it has.                                *)
LEMMA ReaderIs ==
  ASSUME Reader
  PROVE  sent' = sent /\ rpc' # "idle"
  BY DEF Reader, ReadHeaders, TakeHeaders, ReadLength, ReadChunked, ReadSize, TakeChunk, EndChunk,
         Trailers, ChunkedEnds, GetMore, Refused

(* Nothing that happens to a request breaks it.                             *)
LEMMA RequestInvStep ==
  ASSUME RequestInv, RequestStep
  PROVE  RequestInv'
<1>1. Buffers /\ Unconnected /\ (Regular => Placed)
  BY ONLY RequestInv, Zenon DEF RequestInv
<1>2. CASE Arrives
  <2>1. PICK f \in {"length", "chunked"}, k \in Nat : \E s \in Requests(f, k) :
             \E n \in 0..Len(Wire(s)) : Accept(s, n)
    BY ONLY <1>2, Zenon DEF Arrives
  <2>2. PICK s \in Requests(f, k) : \E n \in 0..Len(Wire(s)) : Accept(s, n)
    BY ONLY <2>1
  <2>3. PICK n \in 0..Len(Wire(s)) : Accept(s, n)
    BY ONLY <2>2
  <2>4. /\ Sendable(sent') /\ sent'.whole \in BOOLEAN
        /\ rest' \in Seq(Alphabet(sent'))
        /\ Delivered(sent'.whole, <<>>, rest', Wire(sent'))
    BY ONLY <2>3, AcceptIs, f \in {"length", "chunked"}, k \in Nat, s \in Requests(f, k),
            n \in 0..Len(Wire(s)), Zenon
  <2>5. rpc = "idle" /\ rpc' = "headers" /\ UNCHANGED <<rbuf, body, need, verdict>>
    BY ONLY <2>3 DEF Accept
  <2>6. rbuf' = <<>> /\ body' = <<>>
    BY ONLY <1>1, <2>5 DEF Unconnected
  <2>7. Buffers'
    <3>1. rbuf' \in Seq(Alphabet(sent')) /\ body' \in Seq(Piece)
      BY ONLY <2>6
    <3>2. need' \in 0..MaxSize /\ verdict' \in Verdicts \cup {"none", "431", "malformed"}
      BY ONLY <1>1, <2>5 DEF Buffers
    <3>3. QED
      BY ONLY <2>4, <2>5, <3>1, <3>2 DEF Buffers
  <2>8. AtHeaders(sent', rest', rbuf', body')
    <3>1. Headers(sent') \in Seq(Alphabet(sent'))
      BY ONLY <2>4, WireIsText, Zenon
    <3>2. PICK h \in Nat : h = Len(Headers(sent'))
      BY ONLY <3>1
    <3>3. 0 < h + ReadCap
      BY RequestAssumption
    <3>4. Len(<<>>) = 0
      OBVIOUS
    <3>5. QED
      BY ONLY <2>4, <2>6, <3>2, <3>3, <3>4, Zenon DEF AtHeaders
  <2>9. Placed' /\ Unconnected'
    BY ONLY <2>5, <2>8 DEF Placed, Unconnected
  <2>10. QED
    BY ONLY <2>7, <2>9, Zenon DEF RequestInv
<1>3. CASE Reader
  <2>1. sent' = sent /\ rpc' # "idle"
    BY ONLY <1>3, ReaderIs
  <2>2. Buffers'
    BY ONLY <1>1, <1>3, ReaderKeepsTexts
  <2>3. ASSUME Regular PROVE Placed'
    <3>1. Placed
      BY ONLY <1>1, <2>3
    <3>2. QED
      BY ONLY <1>1, <1>3, <2>3, <3>1, HeadersMore, ChunkedMore, SizeStep, ChunkStep, EndStep,
              TrailersStep, BreakStep, HeadersStep, LengthStep, Zenon DEF Reader
  <2>4. Regular' => Regular
    BY ONLY <2>1, Zenon DEF Regular
  <2>5. QED
    BY ONLY <2>1, <2>2, <2>3, <2>4, Zenon DEF RequestInv, Unconnected
<1>4. ASSUME NEW paths, Judge(paths) PROVE RequestInv'
  <2>1. /\ rpc' \in {"admitted", "refused"} /\ verdict' \in Verdicts
        /\ UNCHANGED <<sent, rest, rbuf, body, need>>
    BY ONLY <1>4, JudgeIs, Zenon
  <2>2. Buffers'
    BY ONLY <1>1, <2>1 DEF Buffers
  <2>3. Regular => Placed'
    BY ONLY <1>1, <1>4, JudgeStep, Zenon
  <2>4. Regular' => Regular
    <3>1. sent' = sent
      BY ONLY <2>1
    <3>2. QED
      BY ONLY <3>1, Zenon DEF Regular
  <2>5. Unconnected'
    BY ONLY <2>1 DEF Unconnected
  <2>6. QED
    BY ONLY <2>2, <2>3, <2>4, <2>5, Zenon DEF RequestInv
<1>5. CASE Dropped
  <2>1. Buffers'
    BY ONLY <1>1, <1>5 DEF Buffers, Dropped
  <2>2. Placed' /\ Unconnected'
    BY ONLY <1>5 DEF Dropped, Placed, Unconnected
  <2>3. QED
    BY ONLY <2>1, <2>2, Zenon DEF RequestInv
<1>6. CASE Forgotten
  <2>1. /\ rpc' = "admitted" /\ sent' = Nothing /\ rest' = <<>> /\ rbuf' = <<>> /\ body' = <<>>
        /\ need' = 0 /\ verdict' = verdict
    BY ONLY <1>6 DEF Forgotten
  <2>2. Buffers'
    <3>1. rest' \in Seq(Alphabet(sent')) /\ rbuf' \in Seq(Alphabet(sent')) /\ body' \in Seq(Piece)
      BY ONLY <2>1
    <3>2. need' \in 0..MaxSize
      BY <2>1, Tokens
    <3>3. Sendable(sent') /\ sent'.whole \in BOOLEAN
      BY ONLY <2>1, NothingIsSendable
    <3>4. verdict' \in Verdicts \cup {"none", "431", "malformed"}
      BY ONLY <1>1, <2>1 DEF Buffers
    <3>5. QED
      BY ONLY <2>1, <3>1, <3>2, <3>3, <3>4 DEF Buffers
  <2>3. AtJudgement(sent', body')
    <3>1. ~sent'.whole /\ Sendable(sent')
      BY ONLY <2>1, NothingIsSendable
    <3>2. QED
      BY ONLY <2>1, <3>1, NothingKept, Zenon DEF AtJudgement
  <2>4. Placed' /\ Unconnected'
    BY ONLY <2>1, <2>3 DEF Placed, Unconnected
  <2>5. QED
    BY ONLY <2>2, <2>4, Zenon DEF RequestInv
<1>7. CASE UNCHANGED reqVars
  <2>1. UNCHANGED <<sent, rest, rpc, rbuf, body, need, verdict>>
    BY ONLY <1>7 DEF reqVars, reading
  <2>2. Buffers' /\ Unconnected'
    BY ONLY <1>1, <2>1 DEF Buffers, Unconnected
  <2>3. Regular' <=> Regular
    BY ONLY <2>1, Zenon DEF Regular
  <2>4. Placed => Placed'
    BY ONLY <2>1 DEF Placed
  <2>5. QED
    BY ONLY <1>1, <2>2, <2>3, <2>4, Zenon DEF RequestInv
<1>8. QED
  BY ONLY RequestStep, <1>2, <1>3, <1>4, <1>5, <1>6, <1>7, Zenon DEF RequestStep

(* What the invariant says of a body that has been read.                    *)
LEMMA RequestInvImplies == RequestInv => ReqTypeOK /\ ReadsWhatWasSent
<1> SUFFICES ASSUME RequestInv PROVE ReqTypeOK /\ ReadsWhatWasSent
  OBVIOUS
<1>1. Buffers /\ (Regular => Placed)
  BY ONLY RequestInv, Zenon DEF RequestInv
<1>2. ReqTypeOK
  BY ONLY <1>1, BuffersAreTyped
<1>3. ASSUME Regular
      PROVE  /\ rpc \in {"read", "admitted"} =>
                  /\ IsPrefix(body, Payload(sent))
                  /\ sent.whole => Len(body) = Min({sent.size, BodyCap})
             /\ rpc = "refused" /\ sent.whole => verdict \notin {"431", "malformed"}
  BY ONLY <1>1, <1>3, Zenon DEF Placed, AtJudgement
<1>4. QED
  BY ONLY <1>2, <1>3, Zenon DEF ReadsWhatWasSent
=============================================================================
