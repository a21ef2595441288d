--------------------------- MODULE SequenceLemmas ---------------------------
(***************************************************************************)
(* Lemmas about numbers, folds and sequences, stated once for the modules  *)
(* of proofs: induction over the naturals as a fact about sets, what       *)
(* FoldLeft and FlattenSeq of the community modules compute (they fold over *)
(* sets of positions, taking the largest one last), and sequences in parts. *)
(***************************************************************************)
EXTENDS Naturals, FiniteSets, Sequences, SequencesExt, SequenceTheorems,
        WellFoundedInduction, TLAPS

-----------------------------------------------------------------------------
(* Numbers                                                                 *)

\* Numbers have a least one: what all induction here comes from.
LEMMA LeastNat ==
  ASSUME NEW T, T \subseteq Nat, T # {}
  PROVE  \E m \in T : \A k \in T : m <= k
<1> DEFINE R == OpToRel(<, Nat)
<1>1. IsWellFoundedOn(R, Nat)
  BY NatLessThanWellFounded
<1>2. R = {ss \in Nat \X Nat : ss[1] < ss[2]}
  BY DEF OpToRel
<1> HIDE DEF R
<1>3. PICK m \in T : \A k \in T : ~ (<<k, m>> \in R)
  BY <1>1, WFMin
<1>4. \A k \in T : ~ (k < m)
  <2> TAKE k \in T
  <2>1. <<k, m>> \in Nat \X Nat /\ <<k, m>>[1] = k /\ <<k, m>>[2] = m
    OBVIOUS
  <2>2. <<k, m>> \notin R
    BY <1>3
  <2> QED BY <2>1, <2>2, <1>2, Zenon
<1> QED BY <1>4

\* Induction for a set in the place of a predicate, which the provers could
\* not be given as a parameter
LEMMA Induction ==
  ASSUME NEW P, 0 \in P, \A n \in Nat : n \in P => n + 1 \in P
  PROVE  Nat \subseteq P
<1> SUFFICES ASSUME Nat \ P # {} PROVE FALSE
  OBVIOUS
<1>1. PICK m \in Nat \ P : \A k \in Nat \ P : m <= k
  BY LeastNat
<1>2. m # 0 /\ m - 1 \in Nat /\ m - 1 \in P
  BY <1>1
<1> QED BY <1>2

\* A set of numbers that is bounded and not empty has a largest one.
LEMMA LargestNumber ==
  ASSUME NEW n \in Nat, NEW T, T \subseteq 0 .. n, T # {}
  PROVE  /\ Max(T) \in T
         /\ \A k \in T : k <= Max(T)
<1> DEFINE U == {i \in 0 .. n : n - i \in T}
<1>1. \A k \in T : k \in 0 .. n /\ n - k \in U
  <2> TAKE k \in T
  <2>1. k \in 0 .. n
    OBVIOUS
  <2>2. n - k \in 0 .. n /\ n - (n - k) = k
    BY <2>1
  <2> QED BY <2>1, <2>2
<1>2. U \subseteq Nat /\ U # {}
  <2>1. PICK k \in T : TRUE
    OBVIOUS
  <2>2. n - k \in U
    BY <1>1
  <2>3. U \subseteq 0 .. n
    OBVIOUS
  <2> HIDE DEF U
  <2> QED BY <2>2, <2>3
<1>3. PICK u \in U : \A v \in U : u <= v
  BY <1>2, LeastNat
<1>4. \A k \in T : n - u >= k
  <2> TAKE k \in T
  <2>1. u <= n - k
    BY <1>1, <1>3
  <2> QED BY <2>1, <1>1
<1> HIDE DEF U
<1>5. n - u \in T
  BY DEF U
<1> QED BY <1>4, <1>5, <1>1 DEF Max

\* A set of positions that is not empty has a last one.
LEMMA LargestPosition ==
  ASSUME NEW n \in Nat, NEW T, T \subseteq 1 .. n, T # {}
  PROVE  /\ Max(T) \in T
         /\ \A k \in T : k <= Max(T)
<1>1. T \subseteq 0 .. n
  OBVIOUS
<1> QED BY <1>1, LargestNumber

\* 1 .. k without its last position
LEMMA LastPosition ==
  ASSUME NEW k \in Nat \ {0}
  PROVE  1 .. k # {} /\ Max(1 .. k) = k /\ (1 .. k) \ {k} = 1 .. (k - 1)
<1>1. k \in Nat /\ 1 .. k # {} /\ 1 .. k \subseteq 1 .. k
  OBVIOUS
<1>2. Max(1 .. k) \in 1 .. k /\ \A i \in 1 .. k : i <= Max(1 .. k)
  BY <1>1, LargestPosition
<1>3. Max(1 .. k) = k
  BY <1>2
<1>4. (1 .. k) \ {k} = 1 .. (k - 1)
  OBVIOUS
<1> QED BY <1>1, <1>3, <1>4

\* What holds of the first of n + 1 things and is handed on from each to the
\* next holds of all of them.
LEMMA HandedOn ==
  ASSUME NEW n \in Nat, NEW S, 0 \in S, \A k \in 0 .. n - 1 : k \in S => k + 1 \in S
  PROVE  0 .. n \subseteq S
<1> DEFINE P == {k \in Nat : k <= n => k \in S}
<1>1. 0 \in P /\ \A k \in Nat : k \in P => k + 1 \in P
  OBVIOUS
<1> HIDE DEF P
<1>2. Nat \subseteq P
  BY <1>1, Induction
<1> QED BY <1>2 DEF P

\* The function a fold from the left goes by: on every set of positions it is
\* a step from the set without its last position.
IsFold(g, n, base, step) ==
  \A s \in SUBSET (1 .. n) :
    g[s] = IF s = {} THEN base ELSE step[<<g[s \ {Max(s)}], Max(s)>>]

\* There is such a function, whatever the step.
LEMMA FoldExists ==
  ASSUME NEW n \in Nat, NEW A, NEW base \in A,
         NEW step \in [A \X (1 .. n) -> A]
  PROVE  \E g \in [SUBSET (1 .. n) -> A] : IsFold(g, n, base, step)
<1> DEFINE Folds(g, k) ==
             \A s \in SUBSET (1 .. k) :
               g[s] = IF s = {} THEN base
                      ELSE step[<<g[s \ {Max(s)}], Max(s)>>]
           Q(k) == k <= n => \E g \in [SUBSET (1 .. k) -> A] : Folds(g, k)
<1>1. Q(0)
  <2>1. SUBSET (1 .. 0) = {{}}
    OBVIOUS
  <2>2. [s \in SUBSET (1 .. 0) |-> base] \in [SUBSET (1 .. 0) -> A]
    OBVIOUS
  <2>3. Folds([s \in SUBSET (1 .. 0) |-> base], 0)
    BY <2>1
  <2> QED BY <2>2, <2>3
<1>2. ASSUME NEW k \in Nat, Q(k) PROVE Q(k + 1)
  <2> SUFFICES ASSUME k + 1 <= n
               PROVE  \E g \in [SUBSET (1 .. k + 1) -> A] : Folds(g, k + 1)
    OBVIOUS
  <2>1. PICK g \in [SUBSET (1 .. k) -> A] : Folds(g, k)
    <3> HIDE DEF Folds
    <3>1. k <= n
      OBVIOUS
    <3> QED BY <1>2, <3>1
  <2> DEFINE h == [s \in SUBSET (1 .. k + 1) |->
                     IF k + 1 \in s THEN step[<<g[s \ {k + 1}], k + 1>>]
                     ELSE g[s]]
  <2>2. \A s \in SUBSET (1 .. k + 1) :
          IF k + 1 \in s THEN s \ {k + 1} \in SUBSET (1 .. k)
          ELSE s \in SUBSET (1 .. k)
    OBVIOUS
  <2>3. h \in [SUBSET (1 .. k + 1) -> A]
    <3> SUFFICES ASSUME NEW s \in SUBSET (1 .. k + 1)
                 PROVE  (IF k + 1 \in s THEN step[<<g[s \ {k + 1}], k + 1>>]
                         ELSE g[s]) \in A
      OBVIOUS
    <3>1. CASE k + 1 \in s
      <4>1. <<g[s \ {k + 1}], k + 1>> \in A \X (1 .. n)
        BY <2>2, <3>1
      <4> QED BY <4>1, <3>1
    <3>2. CASE k + 1 \notin s
      BY <2>2, <3>2
    <3> QED BY <3>1, <3>2
  <2>4. Folds(h, k + 1)
    <3> SUFFICES ASSUME NEW s \in SUBSET (1 .. k + 1)
                 PROVE  h[s] = IF s = {} THEN base
                               ELSE step[<<h[s \ {Max(s)}], Max(s)>>]
      OBVIOUS
    <3>1. CASE k + 1 \in s
      <4> HIDE DEF h
      <4>0. k + 1 \in Nat /\ s \subseteq 1 .. k + 1 /\ s # {}
        BY <3>1
      <4>1. Max(s) \in s /\ \A i \in s : i <= Max(s)
        BY <4>0, LargestPosition
      <4>2. Max(s) = k + 1
        <5>1. Max(s) \in 1 .. k + 1 /\ k + 1 <= Max(s)
          BY <4>0, <4>1, <3>1
        <5> QED BY <5>1
      <4>3. h[s \ {k + 1}] = g[s \ {k + 1}]
        BY <2>2, <3>1 DEF h
      <4> QED BY <4>2, <4>3, <3>1 DEF h
    <3>2. CASE k + 1 \notin s
      <4>1. s \in SUBSET (1 .. k) /\ h[s] = g[s]
        BY <2>2, <3>2
      <4>2. s # {} => h[s \ {Max(s)}] = g[s \ {Max(s)}]
        <5>1. s \ {Max(s)} \in SUBSET (1 .. k) /\ k + 1 \notin s \ {Max(s)}
          BY <4>1, <3>2
        <5>2. s \ {Max(s)} \in SUBSET (1 .. k + 1)
          OBVIOUS
        <5> QED BY <5>1, <5>2
      <4> QED BY <4>1, <4>2, <2>1
    <3> QED BY <3>1, <3>2
  <2> QED BY <2>3, <2>4
<1>3. Q(n)
  <2> DEFINE P == {k \in Nat : Q(k)}
  <2> HIDE DEF Q
  <2>1. 0 \in P /\ \A k \in Nat : k \in P => k + 1 \in P
    BY <1>1, <1>2
  <2> HIDE DEF P
  <2>2. Nat \subseteq P
    BY <2>1, Induction
  <2> QED BY <2>2 DEF P
<1>4. PICK g \in [SUBSET (1 .. n) -> A] : Folds(g, n)
  <2> HIDE DEF Folds
  <2>1. n <= n
    OBVIOUS
  <2> QED BY <1>3, <2>1
<1> QED BY <1>4 DEF IsFold

-----------------------------------------------------------------------------
(* Sequences one element at a time                                         *)

\* A property of the empty sequence that survives every Append is one of all
\* sequences.
LEMMA OneMoreElement ==
  ASSUME NEW S, NEW P, <<>> \in P,
         \A s \in Seq(S), x \in S : s \in P => Append(s, x) \in P
  PROVE  Seq(S) \subseteq P
<1> DEFINE Q(n) == \A s \in Seq(S) : Len(s) = n => s \in P
<1>1. Q(0)
  BY EmptySeq
<1>2. ASSUME NEW n \in Nat, Q(n) PROVE Q(n + 1)
  <2> TAKE s \in Seq(S)
  <2> HAVE Len(s) = n + 1
  <2>1. s # <<>>
    OBVIOUS
  <2>2. PICK t \in Seq(S), x \in S : s = Append(t, x)
    BY <2>1, SequenceEmptyOrAppend
  <2>3. Len(t) = n
    BY <2>2
  <2> QED BY <2>2, <2>3, <1>2
<1>3. \A n \in Nat : Q(n)
  <2> DEFINE R == {n \in Nat : Q(n)}
  <2> HIDE DEF Q
  <2>1. 0 \in R /\ \A k \in Nat : k \in R => k + 1 \in R
    BY <1>1, <1>2
  <2> HIDE DEF R
  <2>2. Nat \subseteq R
    BY <2>1, Induction
  <2> QED BY <2>2 DEF R
<1> QED BY <1>3

-----------------------------------------------------------------------------
(* FlattenSeq                                                              *)

\* The results FlattenSeq goes through
IsFlattening(d, seqs) ==
  \A k \in 1 .. Len(seqs) :
    d[k] = IF k = 1 THEN seqs[k] ELSE d[k - 1] \o seqs[k]

\* FlattenSeq takes one sequence after the other.
LEMMA FlattenGoesThrough ==
  ASSUME NEW S, NEW seqs \in Seq(Seq(S)), seqs # <<>>
  PROVE  \E d \in [1 .. Len(seqs) -> Seq(S)] :
           IsFlattening(d, seqs) /\ FlattenSeq(seqs) = d[Len(seqs)]
<1> DEFINE n    == Len(seqs)
           A    == Seq(S)
           step == [p \in A \X (1 .. n) |->
                      IF p[2] = 1 THEN seqs[1] ELSE p[1] \o seqs[p[2]]]
           Run(f) == f = [i \in 1 .. n |->
                            IF i = 1 THEN seqs[i] ELSE f[i - 1] \o seqs[i]]
           all == CHOOSE f : Run(f)
<1>1. n \in Nat \ {0} /\ \A i \in 1 .. n : seqs[i] \in A
  OBVIOUS
<1>2. FlattenSeq(seqs) = all[n]
  BY <1>1 DEF FlattenSeq
<1>3. <<>> \in A
  OBVIOUS
<1>4. step \in [A \X (1 .. n) -> A]
  <2> SUFFICES ASSUME NEW s \in A, NEW k \in 1 .. n
               PROVE  (IF k = 1 THEN seqs[1] ELSE s \o seqs[k]) \in A
    OBVIOUS
  <2> QED BY <1>1
<1>5. PICK g \in [SUBSET (1 .. n) -> A] : IsFold(g, n, <<>>, step)
  <2> HIDE DEF step, n, A
  <2> QED BY <1>1, <1>3, <1>4, FoldExists
<1> DEFINE d == [i \in 1 .. n |-> g[1 .. i]]
<1>6. d \in [1 .. n -> A]
  <2>1. \A i \in 1 .. n : 1 .. i \in SUBSET (1 .. n)
    BY <1>1
  <2> QED BY <2>1
<1>7. ASSUME NEW k \in 1 .. n
      PROVE  d[k] = IF k = 1 THEN seqs[k] ELSE d[k - 1] \o seqs[k]
  <2>1. 1 .. k # {} /\ Max(1 .. k) = k /\ (1 .. k) \ {k} = 1 .. (k - 1)
    <3>1. k \in Nat \ {0}
      BY <1>1
    <3> QED BY <3>1, LastPosition
  <2>2. 1 .. k \in SUBSET (1 .. n) /\ 1 .. (k - 1) \in SUBSET (1 .. n)
    BY <1>1
  <2>3. d[k] = step[<<g[1 .. (k - 1)], k>>]
    <3> HIDE DEF step
    <3> QED BY <1>5, <2>1, <2>2 DEF IsFold
  <2>4. step[<<g[1 .. (k - 1)], k>>] =
          IF k = 1 THEN seqs[1] ELSE g[1 .. (k - 1)] \o seqs[k]
    <3>1. g[1 .. (k - 1)] \in A
      BY <2>2
    <3> QED BY <3>1
  <2>5. k # 1 => k - 1 \in 1 .. n
    BY <1>1
  <2> QED BY <2>3, <2>4, <2>5
<1>8. Run(d)
  <2> HIDE DEF d
  <2>1. d = [i \in 1 .. n |-> d[i]]
    BY <1>6
  <2> QED BY <2>1, <1>7
<1>9. Run(all)
  <2> HIDE DEF Run
  <2> QED BY <1>8
<1>9a. \A i \in 1 .. n : all[i] = IF i = 1 THEN seqs[i] ELSE all[i - 1] \o seqs[i]
  <2> HIDE DEF all
  <2> QED BY <1>9
<1>10. \A k \in 1 .. n : all[k] \in A
  <2> DEFINE R == {k \in 0 .. n : k = 0 \/ all[k] \in A}
  <2> HIDE DEF all
  <2>1. 0 \in R
    BY <1>1
  <2>2. \A k \in 0 .. n - 1 : k \in R => k + 1 \in R
    <3> TAKE k \in 0 .. n - 1
    <3> HAVE k \in R
    <3>1. k + 1 \in 1 .. n /\ k + 1 - 1 = k /\ k + 1 \in 0 .. n
      BY <1>1
    <3>2. all[k + 1] = IF k + 1 = 1 THEN seqs[k + 1] ELSE all[k] \o seqs[k + 1]
      BY <3>1, <1>9a
    <3>3. all[k + 1] \in A
      BY <3>1, <3>2, <1>1
    <3> QED BY <3>1, <3>3
  <2> HIDE DEF R
  <2>3. 0 .. n \subseteq R
    BY <1>1, <2>1, <2>2, HandedOn
  <2>4. \A k \in 1 .. n : k \in 0 .. n /\ k # 0
    BY <1>1
  <2> QED BY <2>3, <2>4 DEF R
<1>11. all \in [1 .. n -> A]
  <2> HIDE DEF all
  <2> QED BY <1>9, <1>10
<1>12. IsFlattening(all, seqs)
  <2> HIDE DEF all
  <2> QED BY <1>9 DEF IsFlattening
<1> HIDE DEF all
<1> QED BY <1>2, <1>11, <1>12

\* The flattened sequence is one of the same elements.
LEMMA FlattenType ==
  ASSUME NEW S, NEW seqs \in Seq(Seq(S))
  PROVE  FlattenSeq(seqs) \in Seq(S)
<1>1. CASE seqs = <<>>
  BY <1>1 DEF FlattenSeq
<1>2. CASE seqs # <<>>
  <2>1. PICK d \in [1 .. Len(seqs) -> Seq(S)] : FlattenSeq(seqs) = d[Len(seqs)]
    BY <1>2, FlattenGoesThrough
  <2>2. Len(seqs) \in 1 .. Len(seqs)
    BY <1>2
  <2> QED BY <2>1, <2>2
<1> QED BY <1>1, <1>2

\* Nothing to flatten
LEMMA FlattenEmpty == FlattenSeq(<<>>) = <<>>
BY DEF FlattenSeq

\* What is appended comes last.
LEMMA FlattenAppend ==
  ASSUME NEW S, NEW seqs \in Seq(Seq(S)), NEW s \in Seq(S)
  PROVE  FlattenSeq(Append(seqs, s)) = FlattenSeq(seqs) \o s
<1> DEFINE n == Len(seqs)
           more == Append(seqs, s)
           A == Seq(S)
<1>0. n \in Nat /\ s \in A /\ seqs \in Seq(A)
  OBVIOUS
<1> HIDE DEF A
<1>1. more \in Seq(A) /\ Len(more) = n + 1
  BY <1>0, AppendProperties
<1>1a. more # <<>>
  BY <1>0, <1>1
<1>2. (\A k \in 1 .. n : more[k] = seqs[k]) /\ more[n + 1] = s
  BY <1>0, AppendProperties
<1> HIDE DEF more
<1>3. PICK e \in [1 .. Len(more) -> Seq(S)] :
        IsFlattening(e, more) /\ FlattenSeq(more) = e[Len(more)]
  BY <1>1, <1>1a, FlattenGoesThrough DEF A
<1>4. \A k \in 1 .. n + 1 :
        e[k] = IF k = 1 THEN more[k] ELSE e[k - 1] \o more[k]
  BY <1>1, <1>3 DEF IsFlattening
<1>5. CASE seqs = <<>>
  <2>1. n = 0
    BY <1>5
  <2>2. e[1] = s
    BY <1>2, <1>4, <2>1
  <2>3. FlattenSeq(more) = s
    BY <1>1, <1>3, <2>1, <2>2
  <2> QED BY <2>3, <1>5, FlattenEmpty, ConcatEmptySeq DEF more
<1>6. CASE seqs # <<>>
  <2>0. n \in Nat \ {0}
    BY <1>0, <1>6
  <2>1. PICK d \in [1 .. n -> Seq(S)] :
          IsFlattening(d, seqs) /\ FlattenSeq(seqs) = d[n]
    BY <1>6, FlattenGoesThrough
  <2>2. \A k \in 1 .. n :
          d[k] = IF k = 1 THEN seqs[k] ELSE d[k - 1] \o seqs[k]
    BY <2>1 DEF IsFlattening
  <2> DEFINE R == {k \in 0 .. n : k = 0 \/ d[k] = e[k]}
  <2>3. 0 \in R
    BY <2>0
  <2>4. ASSUME NEW k \in 0 .. n - 1, k = 0 \/ d[k] = e[k]
        PROVE  d[k + 1] = e[k + 1]
    <3> DEFINE j == k + 1
    <3>1. j \in 1 .. n /\ j \in 1 .. n + 1 /\ j - 1 = k /\ (j = 1 <=> k = 0)
      BY <2>0
    <3> HIDE DEF j
    <3>2. d[j] = IF j = 1 THEN seqs[j] ELSE d[k] \o seqs[j]
      BY <2>2, <3>1
    <3>3. e[j] = IF j = 1 THEN seqs[j] ELSE e[k] \o seqs[j]
      BY <1>2, <1>4, <3>1
    <3>4. d[j] = e[j]
      BY <2>4, <3>1, <3>2, <3>3
    <3> QED BY <3>4 DEF j
  <2>5. \A k \in 0 .. n - 1 : k \in R => k + 1 \in R
    <3> TAKE k \in 0 .. n - 1
    <3>1. k + 1 \in 0 .. n
      BY <2>0
    <3> QED BY <2>4, <3>1
  <2> HIDE DEF R
  <2>6. 0 .. n \subseteq R
    BY <2>0, <2>3, <2>5, HandedOn
  <2>7. n \in R /\ n # 0
    <3>1. n \in 0 .. n
      BY <2>0
    <3> QED BY <2>0, <2>6, <3>1, Zenon
  <2>8. d[n] = e[n]
    BY <2>7 DEF R
  <2>9. e[n + 1] = e[n] \o s
    <3> DEFINE j == n + 1
    <3>1. j \in 1 .. n + 1 /\ j # 1 /\ j - 1 = n /\ more[j] = s
      BY <1>2, <2>0
    <3> HIDE DEF j
    <3>2. e[j] = e[n] \o s
      BY <1>4, <3>1
    <3> QED BY <3>2 DEF j
  <2>10. FlattenSeq(more) = e[n + 1] /\ FlattenSeq(seqs) = e[n]
    BY <2>1, <2>8, <1>1, <1>3
  <2> QED BY <2>9, <2>10 DEF more
<1> QED BY <1>5, <1>6 DEF more

\* Two sequences of sequences, one behind the other
LEMMA FlattenConcat ==
  ASSUME NEW S, NEW a \in Seq(Seq(S)), NEW b \in Seq(Seq(S))
  PROVE  FlattenSeq(a \o b) = FlattenSeq(a) \o FlattenSeq(b)
<1> DEFINE A == Seq(S)
           P == {t \in Seq(A) : FlattenSeq(a \o t) = FlattenSeq(a) \o FlattenSeq(t)}
<1>0. a \in Seq(A) /\ b \in Seq(A) /\ FlattenSeq(a) \in A
  BY FlattenType
<1>1. <<>> \in P
  <2>1. <<>> \in Seq(A) /\ a \o <<>> = a
    BY <1>0, EmptySeq, ConcatEmptySeq
  <2>2. FlattenSeq(a) \o <<>> = FlattenSeq(a)
    BY <1>0, ConcatEmptySeq
  <2> QED BY <2>1, <2>2, FlattenEmpty
<1>2. ASSUME NEW t \in Seq(A), NEW s \in A, t \in P PROVE Append(t, s) \in P
  <2>1. Append(t, s) \in Seq(A)
    BY AppendProperties
  <2>2. a \o Append(t, s) = Append(a \o t, s)
    <3> HIDE DEF A
    <3>1. <<s>> \in Seq(A) /\ a \o t \in Seq(A)
      BY <1>0, ConcatProperties
    <3>2. Append(t, s) = t \o <<s>> /\ Append(a \o t, s) = (a \o t) \o <<s>>
      BY <3>1, AppendIsConcat
    <3>3. (a \o t) \o <<s>> = a \o (t \o <<s>>)
      BY <1>0, <3>1, ConcatAssociative
    <3> QED BY <3>2, <3>3
  <2>3. a \o t \in Seq(A)
    BY <1>0, ConcatProperties
  <2>4. FlattenSeq(Append(a \o t, s)) = FlattenSeq(a \o t) \o s
    BY <2>3, FlattenAppend
  <2>5. FlattenSeq(Append(t, s)) = FlattenSeq(t) \o s
    BY FlattenAppend
  <2>6. FlattenSeq(a \o t) = FlattenSeq(a) \o FlattenSeq(t)
    BY <1>2
  <2>7. FlattenSeq(t) \in A /\ s \in A
    BY FlattenType
  <2>8. (FlattenSeq(a) \o FlattenSeq(t)) \o s = FlattenSeq(a) \o (FlattenSeq(t) \o s)
    BY <1>0, <2>7, ConcatAssociative, SMTT(30)
  <2> QED BY <2>1, <2>2, <2>4, <2>5, <2>6, <2>8
<1>3. Seq(A) \subseteq P
  <2> HIDE DEF A, P
  <2> QED BY <1>1, <1>2, OneMoreElement
<1>4. b \in P
  BY <1>0, <1>3
<1> QED BY <1>4

\* Nothing but empty sequences
LEMMA FlattenNothing ==
  ASSUME NEW S, NEW seqs \in Seq(Seq(S)),
         \A k \in 1 .. Len(seqs) : seqs[k] = <<>>
  PROVE  FlattenSeq(seqs) = <<>>
<1> DEFINE A == Seq(S)
           Nothing(t) == \A k \in 1 .. Len(t) : t[k] = <<>>
           P == {t \in Seq(A) : Nothing(t) => FlattenSeq(t) = <<>>}
<1>1. <<>> \in P
  BY FlattenEmpty
<1>2. ASSUME NEW t \in Seq(A), NEW s \in A, t \in P PROVE Append(t, s) \in P
  <2> SUFFICES ASSUME Nothing(Append(t, s)) PROVE FlattenSeq(Append(t, s)) = <<>>
    BY AppendProperties
  <2>1. Len(Append(t, s)) = Len(t) + 1 /\ Len(t) \in Nat
    BY AppendProperties
  <2>2. Append(t, s)[Len(t) + 1] = s /\ \A k \in 1 .. Len(t) : Append(t, s)[k] = t[k]
    BY AppendProperties
  <2>3. s = <<>>
    BY <2>1, <2>2
  <2>4. Nothing(t)
    BY <2>1, <2>2
  <2>5. FlattenSeq(t) = <<>>
    BY <1>2, <2>4
  <2>6. FlattenSeq(Append(t, s)) = FlattenSeq(t) \o s
    BY FlattenAppend
  <2> QED BY <2>3, <2>5, <2>6, ConcatEmptySeq
<1>3. Seq(A) \subseteq P
  <2> HIDE DEF A, P
  <2> QED BY <1>1, <1>2, OneMoreElement
<1>4. seqs \in P
  BY <1>3
<1> QED BY <1>4

\* Each element on its own
LEMMA FlattenElements ==
  ASSUME NEW S, NEW s \in Seq(S)
  PROVE  FlattenSeq([i \in DOMAIN s |-> <<s[i]>>]) = s
<1> DEFINE Each(t) == [i \in DOMAIN t |-> <<t[i]>>]
           P == {t \in Seq(S) : FlattenSeq(Each(t)) = t}
<1>1. <<>> \in P
  <2>1. Each(<<>>) = <<>>
    OBVIOUS
  <2> QED BY <2>1, FlattenEmpty
<1>2. ASSUME NEW t \in Seq(S), NEW x \in S, t \in P PROVE Append(t, x) \in P
  <2>1. Each(t) \in Seq(Seq(S)) /\ <<x>> \in Seq(S)
    <3> DEFINE A == Seq(S)
    <3>1. DOMAIN t = 1 .. Len(t) /\ Len(t) \in Nat
      OBVIOUS
    <3>2. \A i \in 1 .. Len(t) : <<t[i]>> \in A
      OBVIOUS
    <3>3. <<x>> \in A
      OBVIOUS
    <3> HIDE DEF A
    <3>4. Each(t) \in Seq(A)
      BY <3>1, <3>2
    <3> QED BY <3>3, <3>4 DEF A
  <2>2. Each(Append(t, x)) = Append(Each(t), <<x>>)
    OBVIOUS
  <2>3. FlattenSeq(Append(Each(t), <<x>>)) = FlattenSeq(Each(t)) \o <<x>>
    <3> HIDE DEF Each
    <3> QED BY <2>1, FlattenAppend
  <2>4. t \o <<x>> = Append(t, x) /\ Append(t, x) \in Seq(S)
    BY AppendIsConcat, AppendProperties
  <2> QED BY <2>2, <2>3, <2>4, <1>2
<1>3. Seq(S) \subseteq P
  <2> HIDE DEF P
  <2> QED BY <1>1, <1>2, OneMoreElement
<1> QED BY <1>3

-----------------------------------------------------------------------------
(* Beginnings and ends                                                     *)

\* Reverse, element by element
LEMMA ReverseProperties ==
  ASSUME NEW S, NEW s \in Seq(S)
  PROVE  /\ Reverse(s) \in Seq(S) /\ Len(Reverse(s)) = Len(s)
         /\ \A i \in 1 .. Len(s) : Reverse(s)[i] = s[(Len(s) - i) + 1]
BY DEF Reverse

\* What comes last is a suffix, ...
LEMMA SuffixOfConcat ==
  ASSUME NEW S, NEW c \in Seq(S), NEW s \in Seq(S)
  PROVE  IsSuffix(s, c \o s)
<1> DEFINE t == c \o s
           n == Len(s)
           m == Len(c)
<1>1. t \in Seq(S) /\ Len(t) = m + n /\ n \in Nat /\ m \in Nat
  BY ConcatProperties
<1>2. \A i \in 1 .. n : t[m + i] = s[i]
  <2> TAKE i \in 1 .. n
  <2>1. m + i \in 1 .. m + n /\ ~ (m + i <= m) /\ (m + i) - m = i
    BY <1>1
  <2> QED BY <2>1, ConcatProperties
<1> HIDE DEF t
<1>3. Reverse(t) \in Seq(S) /\ Len(Reverse(t)) = m + n
  BY <1>1, ReverseProperties
<1>4. Reverse(s) \in Seq(S) /\ Len(Reverse(s)) = n
  BY ReverseProperties
<1>5. \A i \in 1 .. n : Reverse(t)[i] = Reverse(s)[i]
  <2> TAKE i \in 1 .. n
  <2>1. Reverse(s)[i] = s[(n - i) + 1]
    BY ReverseProperties
  <2>2. i \in 1 .. Len(t)
    BY <1>1
  <2>3. Reverse(t)[i] = t[(Len(t) - i) + 1]
    BY <2>2, <1>1, ReverseProperties
  <2>4. (n - i) + 1 \in 1 .. n /\ (Len(t) - i) + 1 = m + ((n - i) + 1)
    BY <1>1
  <2> QED BY <2>1, <2>3, <2>4, <1>2
<1>6. SubSeq(Reverse(s), 1, n) = SubSeq(Reverse(t), 1, n)
  <2> HIDE DEF n, m
  <2>1. \A i \in 1 .. n : Reverse(t)[i] \in S /\ Reverse(s)[i] \in S
    BY <1>1, <1>3, <1>4, <1>5, ElementOfSeq
  <2>2. /\ SubSeq(Reverse(t), 1, n) \in Seq(S)
        /\ Len(SubSeq(Reverse(t), 1, n)) = n
        /\ \A i \in 1 .. n : SubSeq(Reverse(t), 1, n)[i] = Reverse(t)[i]
    BY <1>1, <2>1, SubSeqProperties
  <2>3. /\ SubSeq(Reverse(s), 1, n) \in Seq(S)
        /\ Len(SubSeq(Reverse(s), 1, n)) = n
        /\ \A i \in 1 .. n : SubSeq(Reverse(s), 1, n)[i] = Reverse(s)[i]
    BY <1>1, <2>1, SubSeqProperties
  <2> QED BY <2>2, <2>3, <1>5, SeqEqual
<1> QED BY <1>1, <1>3, <1>4, <1>6 DEF IsSuffix, IsPrefix, t

\* ... and what comes first a prefix.
LEMMA PrefixOfConcat ==
  ASSUME NEW S, NEW s \in Seq(S), NEW c \in Seq(S)
  PROVE  IsPrefix(s, s \o c)
<1>1. s \o c \in Seq(S) /\ Len(s \o c) = Len(s) + Len(c)
  BY ConcatProperties
<1>2. \A i \in 1 .. Len(s) : (s \o c)[i] = s[i]
  BY ConcatProperties
<1>3. SubSeq(s \o c, 1, Len(s)) = s
  BY <1>1, <1>2
<1>4. SubSeq(s, 1, Len(s)) = s
  BY SubSeqFull
<1> QED BY <1>1, <1>3, <1>4 DEF IsPrefix

\* A sequence divided anywhere
LEMMA Divided ==
  ASSUME NEW S, NEW s \in Seq(S), NEW n \in 0 .. Len(s)
  PROVE  /\ SubSeq(s, 1, n) \in Seq(S) /\ Len(SubSeq(s, 1, n)) = n
         /\ SubSeq(s, n + 1, Len(s)) \in Seq(S)
         /\ Len(SubSeq(s, n + 1, Len(s))) = Len(s) - n
         /\ s = SubSeq(s, 1, n) \o SubSeq(s, n + 1, Len(s))
<1> DEFINE m == Len(s)
<1>1. m \in Nat /\ n \in Nat /\ n <= m /\ \A i \in 1 .. m : s[i] \in S
  OBVIOUS
<1> HIDE DEF m
<1>2. SubSeq(s, 1, n) \in Seq(S) /\ Len(SubSeq(s, 1, n)) = n
  <2>1. \A i \in 1 .. n : s[i] \in S
    BY <1>1
  <2>2. 1 \in Int /\ n \in Int /\ (1 <= n => n - 1 + 1 = n) /\ (~ (1 <= n) => n = 0)
    BY <1>1
  <2>3. /\ SubSeq(s, 1, n) \in Seq(S)
        /\ Len(SubSeq(s, 1, n)) = IF 1 <= n THEN n - 1 + 1 ELSE 0
    BY <2>1, <2>2, SubSeqProperties
  <2> QED BY <2>2, <2>3
<1>3. SubSeq(s, n + 1, m) \in Seq(S) /\ Len(SubSeq(s, n + 1, m)) = m - n
  <2> DEFINE k == n + 1
  <2>1. k \in Int /\ m \in Int /\ (k <= m => m - k + 1 = m - n) /\ (~ (k <= m) => m - n = 0)
    BY <1>1
  <2>2. \A i \in k .. m : s[i] \in S
    BY <1>1
  <2> HIDE DEF k
  <2>3. /\ SubSeq(s, k, m) \in Seq(S)
        /\ Len(SubSeq(s, k, m)) = IF k <= m THEN m - k + 1 ELSE 0
    BY <2>1, <2>2, SubSeqProperties
  <2> QED BY <2>1, <2>3 DEF k
<1>4. SubSeq(s, 1, n) \o SubSeq(s, n + 1, m) = SubSeq(s, 1, m)
  <2>1. 1 \in 1 .. Len(s) + 1 /\ n \in 1 - 1 .. Len(s) /\ m \in n .. Len(s)
    BY <1>1 DEF m
  <2> QED BY <2>1, ConcatAdjacentSubSeq
<1>5. SubSeq(s, 1, m) = s
  BY SubSeqFull DEF m
<1> QED BY <1>2, <1>3, <1>4, <1>5 DEF m

\* What is appended to the second part is appended to the whole.
LEMMA AppendBehind ==
  ASSUME NEW S, NEW p \in Seq(S), NEW q \in Seq(S), NEW x \in S
  PROVE  Append(p \o q, x) = p \o Append(q, x)
<1>1. <<x>> \in Seq(S) /\ p \o q \in Seq(S)
  BY ConcatProperties
<1>2. (p \o q) \o <<x>> = p \o (q \o <<x>>)
  BY <1>1, ConcatAssociative
<1>3. Append(p \o q, x) = (p \o q) \o <<x>> /\ Append(q, x) = q \o <<x>>
  BY <1>1, AppendIsConcat
<1> QED BY <1>2, <1>3

\* What comes behind p
LEMMA SecondPart ==
  ASSUME NEW S, NEW p \in Seq(S), NEW w \in Seq(S)
  PROVE  SubSeq(p \o w, Len(p) + 1, Len(p \o w)) = w
<1> DEFINE n == Len(p)
           m == Len(w)
<1>1. n \in Nat /\ m \in Nat /\ Len(p \o w) = n + m
  BY ConcatProperties
<1> HIDE DEF n, m
<1>2. CASE m = 0
  <2>1. w = <<>>
    BY <1>2, EmptySeq DEF m
  <2>2. n + 1 \in Int /\ n + m \in Int /\ n + m < n + 1
    BY <1>1, <1>2
  <2>3. SubSeq(p \o w, n + 1, n + m) = <<>>
    BY <2>2, SubSeqEmpty
  <2> QED BY <1>1, <2>1, <2>3 DEF n
<1>3. CASE m # 0
  <2> DEFINE i == n + 1
             j == n + m
  <2>1. i \in n + 1 .. n + m /\ j \in n + 1 .. n + m /\ i - n = 1 /\ j - n = m
    BY <1>1, <1>3
  <2> HIDE DEF i, j
  <2>2. SubSeq(p \o w, i, j) = SubSeq(w, i - n, j - n)
    BY <2>1, SubSeqOfConcat2 DEF n, m
  <2>3. SubSeq(w, 1, m) = w
    BY SubSeqFull DEF m
  <2> QED BY <1>1, <2>1, <2>2, <2>3 DEF i, j, n
<1> QED BY <1>2, <1>3

\* Cut off before its end, a sequence keeps that end.
EndKept(S, c, t, k) ==
  \E p, q \in Seq(S) :
    /\ c = p \o q /\ Len(p) = k
    /\ SubSeq(c \o t, k + 1, Len(c \o t)) = q \o t

\* It does, wherever it is cut.
LEMMA EndIsKept ==
  ASSUME NEW S, NEW c \in Seq(S), NEW t \in Seq(S), NEW k \in 0 .. Len(c)
  PROVE  EndKept(S, c, t, k)
<1> DEFINE p == SubSeq(c, 1, k)
           q == SubSeq(c, k + 1, Len(c))
<1>1. p \in Seq(S) /\ q \in Seq(S) /\ Len(p) = k /\ c = p \o q
  BY Divided, ZenonT(60)
<1> HIDE DEF p, q
<1>2. c \o t = p \o (q \o t) /\ q \o t \in Seq(S)
  <2>0. p \in Seq(S) /\ q \in Seq(S)
    BY <1>1
  <2>1. (p \o q) \o t = p \o (q \o t)
    BY <2>0, ConcatAssociative, SMTT(30)
  <2>2. q \o t \in Seq(S)
    BY <1>1, ConcatProperties
  <2> QED BY <1>1, <2>1, <2>2, Zenon
<1>3. SubSeq(p \o (q \o t), Len(p) + 1, Len(p \o (q \o t))) = q \o t
  BY <1>1, <1>2, SecondPart
<1>4. SubSeq(c \o t, k + 1, Len(c \o t)) = q \o t
  BY <1>1, <1>2, <1>3
<1> QED BY <1>1, <1>4, Zenon DEF EndKept

\* A pair in two parts
LEMMA Pair ==
  ASSUME NEW S, NEW a \in S, NEW b \in S
  PROVE  <<a>> \o <<b>> = <<a, b>>
<1> DEFINE r == <<a, b>>
           s == <<a>>
           t == <<b>>
<1>1. r \in Seq(S) /\ s \in Seq(S) /\ t \in Seq(S)
  OBVIOUS
<1>2. Len(r) = 2 /\ Len(s) = 1 /\ Len(t) = 1
  OBVIOUS
<1>3. r[1] = a /\ r[2] = b /\ s[1] = a /\ t[1] = b
  OBVIOUS
<1> HIDE DEF r, s, t
<1>4. s \o t \in Seq(S) /\ Len(s \o t) = 2 /\ (s \o t)[1] = a /\ (s \o t)[2] = b
  BY <1>1, <1>2, <1>3, ConcatProperties DEF r, s, t
<1>5. \A i \in 1 .. 2 : (s \o t)[i] = r[i]
  BY <1>3, <1>4
<1>6. s \o t = r
  BY <1>1, <1>2, <1>4, <1>5, SeqEqual
<1> QED BY <1>6 DEF r, s, t

\* Two sequences in one
LEMMA FlattenPair ==
  ASSUME NEW S, NEW a \in Seq(S), NEW b \in Seq(S)
  PROVE  FlattenSeq(<<a, b>>) = a \o b
<1> DEFINE A == Seq(S)
<1>1. <<>> \in Seq(A)
  OBVIOUS
<1>2. ASSUME NEW s \in A PROVE <<s>> \in Seq(A) /\ FlattenSeq(<<s>>) = s
  <2>1. FlattenSeq(Append(<<>>, s)) = FlattenSeq(<<>>) \o s
    BY <1>1, FlattenAppend
  <2>2. Append(<<>>, s) = <<s>>
    <3> HIDE DEF A
    <3> QED OBVIOUS
  <2>3. <<>> \o s = s
    BY ConcatEmptySeq
  <2>4. <<s>> \in Seq(A)
    <3> HIDE DEF A
    <3> QED OBVIOUS
  <2> QED BY <2>1, <2>2, <2>3, <2>4, FlattenEmpty
<1>3. FlattenSeq(<<a>> \o <<b>>) = FlattenSeq(<<a>>) \o FlattenSeq(<<b>>)
  BY <1>2, FlattenConcat
<1>4. <<a>> \o <<b>> = <<a, b>>
  <2> HIDE DEF A
  <2>1. a \in A /\ b \in A
    BY DEF A
  <2> QED BY <2>1, Pair
<1> QED BY <1>2, <1>3, <1>4

\* A sequence of two is the pair of its elements.
LEMMA TwoElements ==
  ASSUME NEW S, NEW s \in Seq(S), Len(s) = 2
  PROVE  s[1] \in S /\ s[2] \in S /\ s = <<s[1], s[2]>>
<1> DEFINE t == <<s[1], s[2]>>
<1>1. s[1] \in S /\ s[2] \in S
  <2>1. 1 \in 1 .. Len(s) /\ 2 \in 1 .. Len(s)
    OBVIOUS
  <2> QED BY <2>1, ElementOfSeq
<1>2. t \in Seq(S)
  BY <1>1
<1>2a. Len(t) = 2 /\ t[1] = s[1] /\ t[2] = s[2]
  OBVIOUS
<1> HIDE DEF t
<1>3. \A k \in 1 .. 2 : s[k] = t[k]
  BY <1>2, <1>2a
<1> QED BY <1>1, <1>2, <1>2a, <1>3, SeqEqual DEF t

\* A sequence is its first element and the others.
LEMMA FirstAndTail ==
  ASSUME NEW S, NEW s \in Seq(S), s # <<>>
  PROVE  /\ s[1] \in S /\ <<s[1]>> \in Seq(S) /\ Tail(s) \in Seq(S)
         /\ Len(Tail(s)) = Len(s) - 1
         /\ \A k \in 1 .. Len(s) - 1 : Tail(s)[k] = s[k + 1]
         /\ s = <<s[1]>> \o Tail(s)
<1> DEFINE h == <<s[1]>>
           t == Tail(s)
           n == Len(s)
<1>1. n \in Nat \ {0} /\ s[1] \in S
  OBVIOUS
<1>2. h \in Seq(S) /\ Len(h) = 1 /\ h[1] = s[1]
  BY <1>1
<1>3. t \in Seq(S) /\ Len(t) = n - 1 /\ \A k \in 1 .. n - 1 : t[k] = s[k + 1]
  OBVIOUS
<1> HIDE DEF h, t, n
<1>4. /\ h \o t \in Seq(S) /\ Len(h \o t) = Len(h) + Len(t)
      /\ \A k \in 1 .. Len(h) + Len(t) :
           (h \o t)[k] = IF k <= Len(h) THEN h[k] ELSE t[k - Len(h)]
  <2>1. h \in Seq(S) /\ t \in Seq(S)
    BY <1>2, <1>3
  <2> QED BY <2>1, ConcatProperties, Zenon
<1>4a. Len(h) + Len(t) = n
  BY <1>1, <1>2, <1>3
<1>5. \A k \in 1 .. n : (h \o t)[k] = s[k]
  <2> TAKE k \in 1 .. n
  <2>1. CASE k = 1
    BY <2>1, <1>1, <1>2, <1>4, <1>4a
  <2>2. CASE k # 1
    <3>1. k - 1 \in 1 .. n - 1 /\ (k - 1) + 1 = k /\ ~ (k <= 1)
      BY <2>2, <1>1
    <3> QED BY <3>1, <1>2, <1>3, <1>4, <1>4a
  <2> QED BY <2>1, <2>2
<1>6. h \o t = s
  BY <1>4, <1>4a, <1>5, SeqEqual DEF n
<1> QED BY <1>1, <1>2, <1>3, <1>6 DEF h, t, n

=============================================================================
