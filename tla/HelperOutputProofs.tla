------------------------- MODULE HelperOutputProofs -------------------------
(***************************************************************************)
(* Theorems about HelperOutput for chunks, lines and logs of any size, as  *)
(* long as a line of a helper and a message fit into the log: wherever the *)
(* reads cut the output, the lines are whole (Cut goes byte by byte, so it *)
(* does not matter where the text is divided), and the log is a terminal's *)
(* (Draw and Clean do the same to the end of the log as Terminal does to   *)
(* all of the text).                                                       *)
(***************************************************************************)
EXTENDS HelperOutput, SequenceLemmas

\* Draw takes one byte after the other.
LEMMA DrawIsIterated ==
  ASSUME NEW text \in Seq(Bytes), Resume(text) \in Seq(Bytes),
         \A s \in Seq(Bytes), i \in 1 .. Len(text) : Put(s, text, i) \in Seq(Bytes)
  PROVE  \E d \in [0 .. Len(text) -> Seq(Bytes)] :
           /\ d[0] = Resume(text)
           /\ \A k \in 1 .. Len(text) : d[k] = Put(d[k - 1], text, k)
           /\ Draw(text) = d[Len(text)]
<1> DEFINE n    == Len(text)
           A    == Seq(Bytes)
           base == Resume(text)
           step == [p \in A \X (1 .. n) |-> Put(p[1], text, p[2])]
           seq  == [i \in DOMAIN text |-> i]
           Fold(g) == g = [s \in SUBSET (DOMAIN seq) |->
                             IF s = {} THEN base
                             ELSE Put(g[s \ {Max(s)}], text, seq[Max(s)])]
           all  == CHOOSE g : Fold(g)
           d    == [k \in 0 .. n |-> all[1 .. k]]
<1>1. Draw(text) = all[DOMAIN seq]
  BY DEF Draw, FoldLeft, MapThenFoldSet
<1>2. n \in Nat /\ DOMAIN seq = 1 .. n /\ \A k \in 1 .. n : seq[k] = k
  OBVIOUS
<1>3. step \in [A \X (1 .. n) -> A]
  OBVIOUS
<1>4. PICK g \in [SUBSET (1 .. n) -> A] : IsFold(g, n, base, step)
  <2> HIDE DEF step, n, A, base
  <2>1. base \in A
    BY DEF base, A
  <2> QED BY <1>2, <1>3, <2>1, FoldExists
<1>5. \A s \in SUBSET (1 .. n) : s # {} => Max(s) \in 1 .. n /\ s \ {Max(s)} \in SUBSET (1 .. n)
  BY <1>2, LargestPosition
<1>6. Fold(g)
  <2> SUFFICES ASSUME NEW s \in SUBSET (1 .. n)
               PROVE  g[s] = IF s = {} THEN base ELSE Put(g[s \ {Max(s)}], text, seq[Max(s)])
    BY <1>2
  <2>1. CASE s # {}
    <3>1. <<g[s \ {Max(s)}], Max(s)>> \in A \X (1 .. n)
      BY <1>5, <2>1
    <3>2. step[<<g[s \ {Max(s)}], Max(s)>>] = Put(g[s \ {Max(s)}], text, Max(s))
      BY <3>1
    <3> HIDE DEF step
    <3> QED BY <3>2, <1>2, <1>4, <1>5, <2>1 DEF IsFold
  <2>2. CASE s = {}
    BY <2>2, <1>4 DEF IsFold
  <2> QED BY <2>1, <2>2
<1>7. Fold(all)
  <2> HIDE DEF Fold
  <2> QED BY <1>6
<1>8. d[0] = base
  <2>1. 1 .. 0 = {} /\ {} \in SUBSET (DOMAIN seq)
    OBVIOUS
  <2> HIDE DEF all
  <2> QED BY <2>1, <1>2, <1>7
<1>9. ASSUME NEW k \in 1 .. n PROVE d[k] = Put(d[k - 1], text, k)
  <2>1. 1 .. k # {} /\ Max(1 .. k) = k /\ (1 .. k) \ {k} = 1 .. (k - 1)
    <3>1. k \in Nat \ {0}
      BY <1>2
    <3> QED BY <3>1, LastPosition
  <2>2. 1 .. k \in SUBSET (DOMAIN seq)
    BY <1>2
  <2> HIDE DEF all
  <2>3. all[1 .. k] = Put(all[1 .. (k - 1)], text, k)
    <3> DEFINE s == 1 .. k
    <3>1. /\ s \in SUBSET (DOMAIN seq) /\ s # {} /\ Max(s) = k
          /\ s \ {k} = 1 .. (k - 1) /\ seq[k] = k
      BY <2>1, <2>2, <1>2
    <3> HIDE DEF s
    <3>2. all[s] = Put(all[s \ {Max(s)}], text, seq[Max(s)])
      BY <3>1, <1>7
    <3>3. all[s] = Put(all[1 .. (k - 1)], text, k)
      BY <3>1, <3>2
    <3> QED BY <3>3 DEF s
  <2> QED BY <2>3, <1>2
<1>10. \A k \in 0 .. n : d[k] \in A
  <2> DEFINE S == {k \in 0 .. n : d[k] \in A}
  <2>1. 0 \in S
    BY <1>2, <1>8
  <2>2. \A k \in 0 .. n - 1 : k \in S => k + 1 \in S
    <3> TAKE k \in 0 .. n - 1
    <3>1. k + 1 \in 1 .. n /\ k + 1 - 1 = k
      BY <1>2
    <3> HIDE DEF d
    <3> QED BY <3>1, <1>9
  <2> HIDE DEF S
  <2>3. 0 .. n \subseteq S
    BY <1>2, <2>1, <2>2, HandedOn
  <2> QED BY <2>3 DEF S
<1>11. Draw(text) = d[n]
  <2> HIDE DEF all
  <2> QED BY <1>1, <1>2
<1>12. d \in [0 .. n -> A]
  BY <1>10
<1> HIDE DEF d
<1> QED BY <1>8, <1>9, <1>11, <1>12

-----------------------------------------------------------------------------
(* Lines                                                                   *)

\* Nothing, or whole lines; and part of a line
Closed == {a \in Seq(Bytes) : a # <<>> => a[Len(a)] = LF}
Open   == Seq(Bytes \ {LF})

\* Both are texts, and the empty one is both.
LEMMA OpenIsText == Open \subseteq Seq(Bytes) /\ <<>> \in Open /\ <<>> \in Closed
BY DEF Open, Closed

\* Part of a line has no LF.
LEMMA OpenHasNoBreak ==
  ASSUME NEW u \in Open
  PROVE  \A i \in 1 .. Len(u) : u[i] # LF
BY DEF Open

\* Texts one after the other, in the form the provers take it
LEMMA TextAssociative ==
  \A p, q, t \in Seq(Bytes) : (p \o q) \o t = p \o (q \o t)
BY ConcatAssociative

\* The same with the type and the length
LEMMA TextConcat ==
  \A p, q, t \in Seq(Bytes) :
    /\ p \o q \in Seq(Bytes) /\ Len(p \o q) = Len(p) + Len(q)
    /\ (p \o q) \o t = p \o (q \o t)
<1> TAKE p, q, t \in Seq(Bytes)
<1>1. p \o q \in Seq(Bytes) /\ Len(p \o q) = Len(p) + Len(q)
  BY ConcatProperties
<1>2. (p \o q) \o t = p \o (q \o t)
  BY ConcatAssociative
<1> QED BY <1>1, <1>2

\* A line that ends is closed, with whatever comes before it.
LEMMA ClosedByBreak ==
  ASSUME NEW s \in Seq(Bytes)
  PROVE  s \o <<LF>> \in Closed
<1>1. LF \in Bytes /\ <<LF>> \in Seq(Bytes) /\ Len(<<LF>>) = 1
  BY DEF Bytes, HelperBytes, Breaks
<1>2. s \o <<LF>> \in Seq(Bytes) /\ Len(s \o <<LF>>) = Len(s) + 1
  BY <1>1, ConcatProperties
<1>3. (s \o <<LF>>)[Len(s) + 1] = LF
  BY <1>1
<1> QED BY <1>2, <1>3 DEF Closed

\* Whole lines behind whole lines are whole lines, ...
LEMMA ClosedConcat ==
  ASSUME NEW a \in Closed, NEW b \in Closed
  PROVE  a \o b \in Closed
<1>1. a \in Seq(Bytes) /\ b \in Seq(Bytes)
  BY DEF Closed
<1>2. a \o b \in Seq(Bytes) /\ Len(a \o b) = Len(a) + Len(b)
  BY <1>1, ConcatProperties
<1>3. CASE b = <<>>
  BY <1>1, <1>3, ConcatEmptySeq
<1>4. CASE b # <<>>
  <2>1. Len(a) \in Nat /\ Len(b) \in Nat \ {0} /\ b[Len(b)] = LF
    BY <1>1, <1>4, EmptySeq DEF Closed
  <2>2. (a \o b)[Len(a) + Len(b)] = LF
    BY <1>1, <2>1
  <2> QED BY <1>2, <2>2 DEF Closed
<1> QED BY <1>3, <1>4

\* ... and parts of a line are part of a line.
LEMMA OpenConcat ==
  ASSUME NEW u \in Open, NEW v \in Open
  PROVE  u \o v \in Open
BY ConcatProperties DEF Open

\* Erasing a line leaves the whole lines before it.
LEMMA EraseRest ==
  ASSUME NEW a \in Closed, NEW u \in Open
  PROVE  EraseLine(a \o u) = a
<1> DEFINE s == a \o u
           n == Len(a)
           ends == {i \in DOMAIN s : s[i] = LF}
<1>0. a \in Seq(Bytes) /\ u \in Seq(Bytes) /\ n \in Nat /\ Len(u) \in Nat
  BY OpenIsText DEF Closed
<1>1. s \in Seq(Bytes) /\ DOMAIN s = 1 .. n + Len(u) /\ Len(s) = n + Len(u)
  BY <1>0, ConcatProperties
<1>2. \A i \in 1 .. n : s[i] = a[i]
  BY <1>0
<1>3. \A i \in ends : i \in 1 .. n
  <2> TAKE i \in ends
  <2>1. i \in 1 .. n + Len(u) /\ s[i] = LF
    BY <1>1
  <2>2. ASSUME ~ (i <= n) PROVE FALSE
    <3>1. s[i] = u[i - n] /\ i - n \in 1 .. Len(u)
      BY <1>0, <2>1, <2>2
    <3> QED BY <3>1, <2>1, OpenHasNoBreak
  <2> QED BY <1>0, <2>1, <2>2
<1>4. CASE a = <<>>
  <2>1. ends = {}
    <3>1. n = 0
      BY <1>4
    <3> HIDE DEF ends
    <3> QED BY <1>3, <3>1
  <2> HIDE DEF s
  <2>2. EraseLine(s) = IF ends = {} THEN <<>> ELSE SubSeq(s, 1, Max(ends))
    BY Zenon DEF EraseLine
  <2> HIDE DEF ends
  <2> QED BY <2>1, <2>2, <1>4 DEF s
<1>5. CASE a # <<>>
  <2>1. n \in 1 .. n /\ a[n] = LF
    BY <1>0, <1>5 DEF Closed
  <2>2. n \in ends
    BY <2>1, <1>0, <1>1, <1>2
  <2> HIDE DEF ends
  <2>3. ends # {} /\ ends \subseteq 1 .. n
    BY <2>2, <1>3
  <2>4. Max(ends) = n
    <3>1. Max(ends) \in ends /\ n <= Max(ends)
      BY <1>0, <2>2, <2>3, LargestPosition
    <3>2. Max(ends) \in 1 .. n
      BY <3>1, <1>3
    <3> QED BY <3>1, <3>2, <1>0
  <2>5. EraseLine(s) = SubSeq(s, 1, n)
    BY <2>3, <2>4 DEF EraseLine, ends
  <2>6. SubSeq(s, 1, n) = a
    <3> HIDE DEF s
    <3>1. \A i \in 1 .. n : s[i] \in Bytes
      BY <1>0, <1>2
    <3>2. /\ SubSeq(s, 1, n) \in Seq(Bytes) /\ Len(SubSeq(s, 1, n)) = n
          /\ \A i \in 1 .. n : SubSeq(s, 1, n)[i] = s[i]
      BY <1>0, <3>1, SubSeqProperties
    <3> QED BY <3>2, <1>0, <1>2, SeqEqual
  <2> QED BY <2>5, <2>6
<1> QED BY <1>4, <1>5

\* What EraseLine leaves is whole lines, and what it erases part of a line.
LEMMA LineSplit ==
  ASSUME NEW s \in Seq(Bytes)
  PROVE  /\ EraseLine(s) \in Closed
         /\ \E u \in Open : s = EraseLine(s) \o u
<1> DEFINE P == {t \in Seq(Bytes) : \E a \in Closed, u \in Open : t = a \o u}
<1>1. <<>> \in P
  BY OpenIsText, EmptySeq, ConcatEmptySeq
<1>2. ASSUME NEW t \in Seq(Bytes), NEW x \in Bytes, t \in P PROVE Append(t, x) \in P
  <2>1. PICK a \in Closed, u \in Open : t = a \o u
    BY <1>2
  <2>2. a \in Seq(Bytes) /\ u \in Seq(Bytes) /\ <<x>> \in Seq(Bytes)
    BY OpenIsText DEF Closed
  <2>3. Append(t, x) \in Seq(Bytes) /\ Append(t, x) = t \o <<x>>
    BY AppendProperties, AppendIsConcat
  <2>4. t \o <<x>> = a \o (u \o <<x>>)
    BY <2>1, <2>2, ConcatAssociative, SMTT(30)
  <2>5. CASE x = LF
    <3>1. t \o <<x>> \in Closed /\ <<>> \in Open
      BY <2>5, ClosedByBreak, OpenIsText
    <3>2. t \o <<x>> = (t \o <<x>>) \o <<>>
      BY <2>3, ConcatEmptySeq
    <3> QED BY <2>3, <3>1, <3>2
  <2>6. CASE x # LF
    <3>1. <<x>> \in Open
      BY <2>6 DEF Open
    <3>2. u \o <<x>> \in Open
      BY <3>1, OpenConcat
    <3> QED BY <2>3, <2>4, <3>2
  <2> QED BY <2>5, <2>6
<1>3. Seq(Bytes) \subseteq P
  <2> HIDE DEF P
  <2> QED BY <1>1, <1>2, OneMoreElement
<1>4. PICK a \in Closed, u \in Open : s = a \o u
  BY <1>3
<1> QED BY <1>4, EraseRest

-----------------------------------------------------------------------------
(* The pieces of AppendLog                                                 *)

\* One byte drawn leaves a text.
LEMMA PutType ==
  ASSUME NEW text \in Seq(Bytes), NEW s \in Seq(Bytes), NEW i \in 1 .. Len(text)
  PROVE  Put(s, text, i) \in Seq(Bytes)
<1>1. EraseLine(s) \in Seq(Bytes)
  BY LineSplit DEF Closed
<1>2. text[i] \in Bytes /\ Append(s, text[i]) \in Seq(Bytes)
  OBVIOUS
<1> QED BY <1>1, <1>2 DEF Put

\* So does the CR that waited, ...
LEMMA ResumeType ==
  ASSUME log \in Seq(Bytes), NEW text
  PROVE  Resume(text) \in Seq(Bytes)
<1>1. EraseLine(log) \in Seq(Bytes)
  BY LineSplit DEF Closed
<1> QED BY <1>1 DEF Resume

\* ... so that Draw takes one byte after the other, ...
LEMMA DrawGoesThrough ==
  ASSUME NEW text \in Seq(Bytes), log \in Seq(Bytes)
  PROVE  \E d \in [0 .. Len(text) -> Seq(Bytes)] :
           /\ d[0] = Resume(text)
           /\ \A k \in 1 .. Len(text) : d[k] = Put(d[k - 1], text, k)
           /\ Draw(text) = d[Len(text)]
<1>1. Resume(text) \in Seq(Bytes)
  BY ResumeType
<1>2. \A s \in Seq(Bytes), i \in 1 .. Len(text) : Put(s, text, i) \in Seq(Bytes)
  BY PutType
<1> QED BY <1>1, <1>2, DrawIsIterated

\* ... and leaves a text.
LEMMA DrawType ==
  ASSUME NEW text \in Seq(Bytes), log \in Seq(Bytes)
  PROVE  Draw(text) \in Seq(Bytes)
<1>1. PICK d \in [0 .. Len(text) -> Seq(Bytes)] : Draw(text) = d[Len(text)]
  BY DrawGoesThrough
<1>2. Len(text) \in 0 .. Len(text)
  OBVIOUS
<1> QED BY <1>1, <1>2

\* What is left of one byte is a text.
LEMMA CleanedType ==
  ASSUME NEW s \in Seq(Bytes), NEW i \in 1 .. Len(s)
  PROVE  Cleaned(s, i) \in Seq(Bytes)
<1>1. <<>> \in Seq(Bytes) /\ <<s[i]>> \in Seq(Bytes)
  OBVIOUS
<1>2. <<"starting", CR, LF>> \in Seq(Bytes)
  BY DEF Bytes, EngineBytes, HelperBytes, Breaks
<1> QED BY <1>1, <1>2 DEF Cleaned

\* So are all the parts Clean puts together.
LEMMA CleanedType2 ==
  ASSUME NEW s \in Seq(Bytes)
  PROVE  [i \in DOMAIN s |-> Cleaned(s, i)] \in Seq(Seq(Bytes))
<1> DEFINE A == Seq(Bytes)
<1>1. DOMAIN s = 1 .. Len(s) /\ Len(s) \in Nat
  OBVIOUS
<1>2. \A i \in 1 .. Len(s) : Cleaned(s, i) \in A
  BY CleanedType
<1> HIDE DEF A
<1>3. [i \in DOMAIN s |-> Cleaned(s, i)] \in Seq(A)
  BY <1>1, <1>2
<1> QED BY <1>3 DEF A

\* Clean leaves a text.
LEMMA CleanType ==
  ASSUME NEW s \in Seq(Bytes)
  PROVE  Clean(s) \in Seq(Bytes)
BY CleanedType2, FlattenType DEF Clean

\* Whether a line is complete and has noise in it is the same with other lines
\* before or behind it.
LEMMA LinesApart ==
  ASSUME NEW a \in Closed, NEW v \in Seq(Bytes), NEW b
  PROVE  /\ \A i \in 1 .. Len(a) :
              CompleteLineWith(a \o v, i, b) <=> CompleteLineWith(a, i, b)
         /\ \A i \in 1 .. Len(v) :
              CompleteLineWith(a \o v, Len(a) + i, b) <=> CompleteLineWith(v, i, b)
<1> DEFINE s == a \o v
           n == Len(a)
           m == Len(v)
<1>0. a \in Seq(Bytes) /\ n \in Nat /\ m \in Nat
  BY DEF Closed
<1>1. s \in Seq(Bytes) /\ DOMAIN s = 1 .. n + m /\ DOMAIN a = 1 .. n /\ DOMAIN v = 1 .. m
  BY <1>0, ConcatProperties
<1>2. \A i \in 1 .. n : i \in 1 .. n + m /\ s[i] = a[i]
  BY <1>0
<1>3. \A i \in 1 .. m : n + i \in 1 .. n + m /\ s[n + i] = v[i]
  BY <1>0
<1>4. \A j \in 1 .. n + m : j \in 1 .. n \/ (j - n \in 1 .. m /\ j = n + (j - n))
  BY <1>0
<1>5. n # 0 => a[n] = LF /\ n \in 1 .. n
  BY <1>0 DEF Closed
<1> HIDE DEF s, n, m
<1>6. ASSUME NEW i \in 1 .. n
      PROVE  CompleteLineWith(s, i, b) <=> CompleteLineWith(a, i, b)
  <2>0. n # 0 /\ i <= n
    BY <1>0
  <2>1. ASSUME NEW j \in 1 .. n PROVE SameLine(s, i, j) <=> SameLine(a, i, j)
    BY <1>0, <1>1, <1>2 DEF SameLine
  <2>2. ASSUME NEW j \in 1 .. n + m, SameLine(s, i, j) PROVE j \in 1 .. n
    <3> SUFFICES ASSUME ~ (j <= n) PROVE FALSE
      BY <1>0
    <3>1. i <= n /\ n < j /\ n \in 1 .. n + m /\ s[n] = LF
      BY <1>0, <1>2, <1>5, <2>0
    <3> QED BY <3>1, <2>2, <1>1 DEF SameLine
  <2>3. (\E j \in 1 .. n + m : s[j] = b /\ SameLine(s, i, j))
          <=> (\E j \in 1 .. n : a[j] = b /\ SameLine(a, i, j))
    BY <2>1, <2>2, <1>2
  <2>4. \E j \in 1 .. n + m : s[j] = LF /\ i <= j
    BY <2>0, <1>2, <1>5
  <2>5. \E j \in 1 .. n : a[j] = LF /\ i <= j
    BY <2>0, <1>5
  <2> QED BY <1>1, <2>3, <2>4, <2>5 DEF CompleteLineWith
<1>7. ASSUME NEW i \in 1 .. m
      PROVE  CompleteLineWith(s, n + i, b) <=> CompleteLineWith(v, i, b)
  <2>1. ASSUME NEW j \in 1 .. m PROVE SameLine(s, n + i, n + j) <=> SameLine(v, i, j)
    <3>1. ASSUME SameLine(s, n + i, n + j), NEW k \in 1 .. m,
                 (i <= k /\ k < j) \/ (j <= k /\ k < i)
          PROVE  v[k] # LF
      <4>1. (n + i <= n + k /\ n + k < n + j) \/ (n + j <= n + k /\ n + k < n + i)
        BY <3>1, <1>0
      <4> QED BY <4>1, <3>1, <1>1, <1>3 DEF SameLine
    <3>2. ASSUME SameLine(v, i, j), NEW k \in 1 .. n + m,
                 (n + i <= k /\ k < n + j) \/ (n + j <= k /\ k < n + i)
          PROVE  s[k] # LF
      <4>1. k - n \in 1 .. m /\ k = n + (k - n)
        BY <3>2, <1>0, <1>4
      <4>2. (i <= k - n /\ k - n < j) \/ (j <= k - n /\ k - n < i)
        BY <3>2, <4>1, <1>0
      <4>3. v[k - n] # LF
        BY <4>1, <4>2, <3>2, <1>1 DEF SameLine
      <4> QED BY <4>1, <4>3, <1>3
    <3> QED BY <3>1, <3>2, <1>1 DEF SameLine
  <2>2. ASSUME NEW j \in 1 .. n + m, SameLine(s, n + i, j) PROVE j - n \in 1 .. m /\ j = n + (j - n)
    <3> SUFFICES ASSUME j \in 1 .. n PROVE FALSE
      BY <1>4
    <3>1. n # 0 /\ j <= n /\ n < n + i /\ n \in 1 .. n + m
      BY <1>0
    <3>2. s[n] = LF
      BY <3>1, <1>2, <1>5
    <3> QED BY <3>1, <3>2, <2>2, <1>1 DEF SameLine
  <2>3. (\E j \in 1 .. n + m : s[j] = b /\ SameLine(s, n + i, j))
          <=> (\E j \in 1 .. m : v[j] = b /\ SameLine(v, i, j))
    <3>1. ASSUME NEW j \in 1 .. n + m, s[j] = b, SameLine(s, n + i, j)
          PROVE  \E h \in 1 .. m : v[h] = b /\ SameLine(v, i, h)
      <4>1. j - n \in 1 .. m /\ j = n + (j - n)
        BY <2>2, <3>1
      <4> QED BY <4>1, <2>1, <3>1, <1>3
    <3>2. ASSUME NEW h \in 1 .. m, v[h] = b, SameLine(v, i, h)
          PROVE  \E j \in 1 .. n + m : s[j] = b /\ SameLine(s, n + i, j)
      BY <2>1, <3>2, <1>3
    <3> QED BY <3>1, <3>2
  <2>4. (\E j \in 1 .. n + m : s[j] = LF /\ n + i <= j)
          <=> (\E j \in 1 .. m : v[j] = LF /\ i <= j)
    <3>1. ASSUME NEW j \in 1 .. n + m, s[j] = LF, n + i <= j
          PROVE  \E h \in 1 .. m : v[h] = LF /\ i <= h
      <4>1. j - n \in 1 .. m /\ j = n + (j - n) /\ i <= j - n
        BY <1>0, <3>1
      <4> QED BY <4>1, <3>1, <1>3
    <3>2. ASSUME NEW h \in 1 .. m, v[h] = LF, i <= h
          PROVE  \E j \in 1 .. n + m : s[j] = LF /\ n + i <= j
      <4>1. n + h \in 1 .. n + m /\ s[n + h] = LF /\ n + i <= n + h
        BY <1>0, <3>2, <1>3
      <4> QED BY <4>1
    <3> QED BY <3>1, <3>2
  <2> QED BY <1>1, <2>3, <2>4 DEF CompleteLineWith
<1> QED BY <1>6, <1>7 DEF s, n, m

\* Whole lines can be cleaned apart from what follows them.
LEMMA CleanSplit ==
  ASSUME NEW a \in Closed, NEW v \in Seq(Bytes)
  PROVE  Clean(a \o v) = Clean(a) \o Clean(v)
<1> DEFINE s == a \o v
           n == Len(a)
           m == Len(v)
           A == Seq(Bytes)
           Each(t) == [i \in DOMAIN t |-> Cleaned(t, i)]
<1>0. a \in Seq(Bytes) /\ n \in Nat /\ m \in Nat
  BY DEF Closed
<1>1. s \in Seq(Bytes) /\ DOMAIN s = 1 .. n + m /\ DOMAIN a = 1 .. n /\ DOMAIN v = 1 .. m
  BY <1>0, ConcatProperties
<1>2. \A i \in 1 .. n : Cleaned(s, i) = Cleaned(a, i)
  <2> TAKE i \in 1 .. n
  <2>1. s[i] = a[i]
    BY <1>0
  <2>2. CompleteLineWith(s, i, "noise") <=> CompleteLineWith(a, i, "noise")
    BY LinesApart
  <2>3. CompleteLineWith(s, i, "countdown") <=> CompleteLineWith(a, i, "countdown")
    BY LinesApart
  <2> QED BY <2>1, <2>2, <2>3, Zenon DEF Cleaned
<1>3. \A i \in 1 .. m : Cleaned(s, n + i) = Cleaned(v, i)
  <2> TAKE i \in 1 .. m
  <2>1. s[n + i] = v[i]
    BY <1>0
  <2>2. CompleteLineWith(s, n + i, "noise") <=> CompleteLineWith(v, i, "noise")
    BY LinesApart
  <2>3. CompleteLineWith(s, n + i, "countdown") <=> CompleteLineWith(v, i, "countdown")
    BY LinesApart
  <2> QED BY <2>1, <2>2, <2>3, Zenon DEF Cleaned
<1>4. Each(s) \in Seq(A) /\ Each(a) \in Seq(A) /\ Each(v) \in Seq(A)
  BY <1>0, <1>1, CleanedType2
<1>5. DOMAIN Each(s) = 1 .. n + m /\ DOMAIN Each(a) = 1 .. n /\ DOMAIN Each(v) = 1 .. m
  BY <1>1
<1>6. /\ \A i \in 1 .. n + m : Each(s)[i] = Cleaned(s, i)
      /\ \A i \in 1 .. n : Each(a)[i] = Cleaned(a, i)
      /\ \A i \in 1 .. m : Each(v)[i] = Cleaned(v, i)
  BY <1>1
<1> HIDE DEF Each, A, s, n, m
<1>7. Each(s) = Each(a) \o Each(v)
  <2>1. Len(Each(s)) = n + m /\ Len(Each(a)) = n /\ Len(Each(v)) = m
    BY <1>0, <1>4, <1>5, LenProperties
  <2>2. Each(a) \o Each(v) \in Seq(A) /\ Len(Each(a) \o Each(v)) = n + m
    BY <1>4, <2>1, ConcatProperties
  <2>3. ASSUME NEW i \in 1 .. n + m PROVE Each(s)[i] = (Each(a) \o Each(v))[i]
    <3>1. (Each(a) \o Each(v))[i] =
            IF i <= n THEN Each(a)[i] ELSE Each(v)[i - n]
      BY <1>4, <2>1, ConcatProperties
    <3>2. CASE i <= n
      BY <3>1, <3>2, <1>0, <1>2, <1>6
    <3>3. CASE ~ (i <= n)
      <4>1. i - n \in 1 .. m /\ i = n + (i - n)
        BY <3>3, <1>0
      <4>2. Cleaned(s, n + (i - n)) = Cleaned(v, i - n)
        BY <4>1, <1>3
      <4> QED BY <3>1, <3>3, <4>1, <4>2, <1>6
    <3> QED BY <3>2, <3>3
  <2> QED BY <1>4, <2>1, <2>2, <2>3, SeqEqual
<1>8. FlattenSeq(Each(s)) = FlattenSeq(Each(a)) \o FlattenSeq(Each(v))
  BY <1>4, <1>7, FlattenConcat DEF A
<1> QED BY <1>8 DEF Clean, Each, s

-----------------------------------------------------------------------------
(* What Clean does to a line                                               *)

\* What Clean leaves nothing of
Dirt == {"noise", "countdown", "backspace"}

\* The bytes that have a meaning are different ones.
LEMMA BytesApart ==
  /\ LF \in Bytes /\ CR \in Bytes /\ "noise" \in Bytes /\ "countdown" \in Bytes
  /\ "error" \in Bytes \ Dirt /\ "starting" \in Bytes \ Dirt
  /\ LF \notin Dirt /\ CR \notin Dirt /\ CR # LF
  /\ "error" # LF /\ "starting" # LF /\ "error" # CR /\ "starting" # CR
BY DEF Bytes, HelperBytes, EngineBytes, Breaks, CR, LF, Dirt

\* A text without noise, countdown and backspace stays as it is.
LEMMA CleanKeeps ==
  ASSUME NEW s \in Seq(Bytes),
         \A i \in 1 .. Len(s) :
           /\ s[i] # "backspace"
           /\ ~ CompleteLineWith(s, i, "noise")
           /\ ~ CompleteLineWith(s, i, "countdown")
  PROVE  Clean(s) = s
<1>1. DOMAIN s = 1 .. Len(s)
  OBVIOUS
<1>2. \A i \in DOMAIN s : Cleaned(s, i) = <<s[i]>>
  BY <1>1 DEF Cleaned
<1>3. [i \in DOMAIN s |-> Cleaned(s, i)] = [i \in DOMAIN s |-> <<s[i]>>]
  BY <1>2
<1> QED BY <1>3, FlattenElements DEF Clean

\* In particular a text without such bytes
LEMMA CleanTidy ==
  ASSUME NEW s \in Seq(Bytes \ Dirt)
  PROVE  s \in Seq(Bytes) /\ Clean(s) = s
<1>1. s \in Seq(Bytes) /\ DOMAIN s = 1 .. Len(s)
  OBVIOUS
<1>2. \A i \in 1 .. Len(s) : s[i] \notin Dirt
  OBVIOUS
<1>3. \A i \in 1 .. Len(s) :
           /\ s[i] # "backspace"
           /\ ~ CompleteLineWith(s, i, "noise")
           /\ ~ CompleteLineWith(s, i, "countdown")
  BY <1>1, <1>2 DEF CompleteLineWith, Dirt
<1> QED BY <1>1, <1>3, CleanKeeps

\* A part of a line is no complete line, ...
LEMMA OpenIsIncomplete ==
  ASSUME NEW u \in Open, NEW i, NEW b
  PROVE  ~ CompleteLineWith(u, i, b)
BY OpenHasNoBreak, OpenIsText DEF CompleteLineWith

\* ... so that only its backspaces go.
LEMMA CleanedOpen ==
  ASSUME NEW u \in Open, NEW i \in 1 .. Len(u)
  PROVE  Cleaned(u, i) = IF u[i] = "backspace" THEN <<>> ELSE <<u[i]>>
BY OpenIsIncomplete DEF Cleaned

\* One more byte of a line
LEMMA CleanOpenAppend ==
  ASSUME NEW u \in Open, NEW b \in Bytes \ {LF}
  PROVE  /\ Append(u, b) \in Open
         /\ Clean(Append(u, b)) =
              Clean(u) \o (IF b = "backspace" THEN <<>> ELSE <<b>>)
<1> DEFINE n == Len(u)
           s == Append(u, b)
           A == Seq(Bytes)
           last == IF b = "backspace" THEN <<>> ELSE <<b>>
           Each(t) == [i \in DOMAIN t |-> Cleaned(t, i)]
<1>1. /\ s \in Open /\ Len(s) = n + 1 /\ n \in Nat
      /\ (\A i \in 1 .. n : s[i] = u[i]) /\ s[n + 1] = b
  BY AppendProperties DEF Open
<1>1a. s \in Seq(Bytes) /\ u \in Seq(Bytes) /\ DOMAIN s = 1 .. n + 1 /\ DOMAIN u = 1 .. n
  BY <1>1, OpenIsText
<1>2. Each(s) \in Seq(A) /\ Each(u) \in Seq(A) /\ last \in A
  <2>1. Each(s) \in Seq(A) /\ Each(u) \in Seq(A)
    BY <1>1a, CleanedType2
  <2>2. <<>> \in A /\ <<b>> \in A
    OBVIOUS
  <2> QED BY <2>1, <2>2
<1>3. /\ DOMAIN Each(s) = 1 .. n + 1 /\ DOMAIN Each(u) = 1 .. n
      /\ \A i \in 1 .. n + 1 : Each(s)[i] = Cleaned(s, i)
      /\ \A i \in 1 .. n : Each(u)[i] = Cleaned(u, i)
  BY <1>1a
<1> HIDE DEF s, n
<1>4. \A i \in 1 .. n : Cleaned(s, i) = Cleaned(u, i)
  <2> TAKE i \in 1 .. n
  <2>1. i \in 1 .. Len(s) /\ i \in 1 .. Len(u) /\ s[i] = u[i]
    BY <1>1 DEF n
  <2> QED BY <2>1, <1>1, CleanedOpen
<1>5. Cleaned(s, n + 1) = last
  <2>1. n + 1 \in 1 .. Len(s) /\ s[n + 1] = b
    BY <1>1
  <2> QED BY <2>1, <1>1, CleanedOpen
<1> HIDE DEF Each, A, last
<1>6. Each(s) = Append(Each(u), last)
  <2>1. Len(Each(s)) = n + 1 /\ Len(Each(u)) = n
    BY <1>1, <1>2, <1>3, LenProperties
  <2>2. /\ Append(Each(u), last) \in Seq(A) /\ Len(Append(Each(u), last)) = n + 1
        /\ \A i \in 1 .. n : Append(Each(u), last)[i] = Each(u)[i]
        /\ Append(Each(u), last)[n + 1] = last
    BY <1>2, <2>1, AppendProperties
  <2>3. \A i \in 1 .. n + 1 : Each(s)[i] = Append(Each(u), last)[i]
    <3> TAKE i \in 1 .. n + 1
    <3>1. i \in 1 .. n \/ i = n + 1
      BY <1>1
    <3> QED BY <3>1, <2>2, <1>1, <1>3, <1>4, <1>5
  <2> QED BY <1>2, <2>1, <2>2, <2>3, SeqEqual
<1>7. FlattenSeq(Each(s)) = FlattenSeq(Each(u)) \o last
  BY <1>2, <1>6, FlattenAppend DEF A
<1> QED BY <1>1, <1>7 DEF Clean, Each, s, last

\* What is shown of a line that has not ended
LEMMA CleanOpenType ==
  ASSUME NEW u \in Open
  PROVE  /\ Clean(u) \in Open /\ Len(Clean(u)) <= Len(u)
         /\ \A i \in 1 .. Len(Clean(u)) : Clean(u)[i] # "backspace"
         /\ \A x \in Bytes \ {LF, "backspace"} :
              (\E i \in 1 .. Len(u) : u[i] = x)
                <=> (\E i \in 1 .. Len(Clean(u)) : Clean(u)[i] = x)
<1> DEFINE Has(t, x) == \E i \in 1 .. Len(t) : t[i] = x
           Q(t) == /\ Clean(t) \in Open /\ Len(Clean(t)) <= Len(t)
                   /\ ~ Has(Clean(t), "backspace")
                   /\ \A x \in Bytes \ {LF, "backspace"} :
                        Has(t, x) <=> Has(Clean(t), x)
           P == {t \in Open : Q(t)}
<1>1. <<>> \in P
  <2>1. Clean(<<>>) = <<>>
    <3>1. <<>> \in Seq(Bytes \ Dirt)
      OBVIOUS
    <3> QED BY <3>1, CleanTidy
  <2> QED BY <2>1, OpenIsText
<1>a. ASSUME NEW t \in Open, NEW c \in Bytes \ {LF}, NEW x
      PROVE  Has(t \o <<c>>, x) <=> Has(t, x) \/ c = x
  <2> DEFINE r == t \o <<c>>
  <2>1. /\ Len(r) = Len(t) + 1 /\ Len(t) \in Nat /\ r[Len(t) + 1] = c
        /\ \A i \in 1 .. Len(t) : r[i] = t[i]
    BY AppendProperties, AppendIsConcat DEF Open
  <2> HIDE DEF r
  <2>2. Has(r, x) <=> Has(t, x) \/ c = x
    <3>1. ASSUME NEW i \in 1 .. Len(r), r[i] = x PROVE Has(t, x) \/ c = x
      <4>1. i \in 1 .. Len(t) \/ i = Len(t) + 1
        BY <2>1
      <4> QED BY <3>1, <4>1, <2>1
    <3>2. ASSUME NEW i \in 1 .. Len(t), t[i] = x PROVE Has(r, x)
      <4>1. i \in 1 .. Len(r)
        BY <2>1
      <4> QED BY <3>2, <4>1, <2>1
    <3>3. ASSUME c = x PROVE Has(r, x)
      <4>1. Len(t) + 1 \in 1 .. Len(r)
        BY <2>1
      <4> QED BY <3>3, <4>1, <2>1
    <3> QED BY <3>1, <3>2, <3>3
  <2> QED BY <2>2 DEF r
<1>2. ASSUME NEW t \in Open, NEW c \in Bytes \ {LF}, t \in P PROVE Append(t, c) \in P
  <2>1. /\ Append(t, c) \in Open /\ Append(t, c) = t \o <<c>>
        /\ Len(Append(t, c)) = Len(t) + 1 /\ Len(t) \in Nat
    BY AppendProperties, AppendIsConcat DEF Open
  <2>2. Clean(Append(t, c)) = Clean(t) \o (IF c = "backspace" THEN <<>> ELSE <<c>>)
    BY CleanOpenAppend
  <2>3. Q(t)
    BY <1>2
  <2> HIDE DEF Has
  <2>4. CASE c = "backspace"
    <3>1. Clean(Append(t, c)) = Clean(t)
      BY <2>2, <2>3, <2>4, ConcatEmptySeq DEF Open
    <3>2. \A x \in Bytes \ {LF, "backspace"} : Has(Append(t, c), x) <=> Has(t, x)
      BY <1>a, <2>1, <2>4
    <3>3. Len(Clean(t)) \in Nat
      BY <2>3 DEF Open
    <3> QED BY <2>1, <2>3, <3>1, <3>2, <3>3
  <2>5. CASE c # "backspace"
    <3>1. Clean(Append(t, c)) = Clean(t) \o <<c>>
      BY <2>2, <2>5
    <3>2. \A x : /\ Has(Append(t, c), x) <=> Has(t, x) \/ c = x
                 /\ Has(Clean(t) \o <<c>>, x) <=> Has(Clean(t), x) \/ c = x
      BY <1>a, <2>1, <2>3
    <3>3. /\ Clean(t) \o <<c>> \in Open
          /\ Len(Clean(t) \o <<c>>) = Len(Clean(t)) + 1 /\ Len(Clean(t)) \in Nat
      BY <2>3, AppendProperties, AppendIsConcat DEF Open
    <3>4. ~ Has(Clean(t) \o <<c>>, "backspace")
      BY <2>3, <2>5, <3>2
    <3>5. Len(Clean(t) \o <<c>>) <= Len(Append(t, c))
      BY <2>1, <2>3, <3>3
    <3>6. \A x \in Bytes \ {LF, "backspace"} :
            Has(Append(t, c), x) <=> Has(Clean(t) \o <<c>>, x)
      BY <2>3, <3>2
    <3> QED BY <2>1, <3>1, <3>3, <3>4, <3>5, <3>6
  <2> QED BY <2>4, <2>5
<1>3. Open \subseteq P
  <2> HIDE DEF P
  <2> QED BY <1>1, <1>2, OneMoreElement DEF Open
<1>4. Q(u)
  <2> HIDE DEF Q
  <2> QED BY <1>3
<1> QED BY <1>4

\* Cleaning the end of the log again changes nothing.
LEMMA CleanTwice ==
  ASSUME NEW u \in Open
  PROVE  Clean(Clean(u)) = Clean(u)
<1>1. Clean(u) \in Open /\ \A i \in 1 .. Len(Clean(u)) : Clean(u)[i] # "backspace"
  BY CleanOpenType
<1> QED BY <1>1, OpenIsText, OpenIsIncomplete, CleanKeeps

\* A line that ends
LEMMA CleanLine ==
  ASSUME NEW u \in Open
  PROVE  Clean(u \o <<LF>>) =
           IF \E i \in 1 .. Len(u) : u[i] = "noise" THEN <<>>
           ELSE IF \E i \in 1 .. Len(u) : u[i] = "countdown"
                THEN <<"starting", CR, LF>>
           ELSE Clean(u) \o <<LF>>
<1> DEFINE n == Len(u)
           s == u \o <<LF>>
           A == Seq(Bytes)
           Has(x) == \E i \in 1 .. n : u[i] = x
           Each(t) == [i \in DOMAIN t |-> Cleaned(t, i)]
           bar == [i \in 1 .. n |-> Cleaned(s, i)]
<1>1. /\ s \in Seq(Bytes) /\ u \in Seq(Bytes) /\ Len(s) = n + 1 /\ n \in Nat
      /\ (\A i \in 1 .. n : s[i] = u[i]) /\ s[n + 1] = LF
  BY AppendProperties, AppendIsConcat, BytesApart, OpenIsText
<1>1a. DOMAIN s = 1 .. n + 1 /\ DOMAIN u = 1 .. n
  BY <1>1
<1>1b. \A i \in 1 .. n : u[i] # LF
  BY OpenHasNoBreak
<1> HIDE DEF s, n
<1>2. \A i \in 1 .. n + 1, j \in 1 .. n + 1 : SameLine(s, i, j)
  <2> SUFFICES ASSUME NEW i \in 1 .. n + 1, NEW j \in 1 .. n + 1,
                      NEW k \in 1 .. n + 1, (i <= k /\ k < j) \/ (j <= k /\ k < i)
               PROVE  s[k] # LF
    BY <1>1a DEF SameLine
  <2>1. k \in 1 .. n
    BY <1>1
  <2> QED BY <2>1, <1>1, <1>1b
<1>3. \A i \in 1 .. n + 1, b \in Bytes \ {LF} : CompleteLineWith(s, i, b) <=> Has(b)
  <2> TAKE i \in 1 .. n + 1, b \in Bytes \ {LF}
  <2>1. n + 1 \in 1 .. n + 1 /\ i <= n + 1
    BY <1>1
  <2>2. (\E j \in 1 .. n + 1 : s[j] = b) <=> Has(b)
    <3>1. ASSUME NEW j \in 1 .. n + 1, s[j] = b PROVE Has(b)
      <4>1. j \in 1 .. n \/ j = n + 1
        BY <1>1
      <4> QED BY <4>1, <3>1, <1>1
    <3>2. \A j \in 1 .. n : j \in 1 .. n + 1 /\ s[j] = u[j]
      BY <1>1
    <3> QED BY <3>1, <3>2
  <2> QED BY <1>1, <1>1a, <1>2, <2>1, <2>2 DEF CompleteLineWith
<1>4. "noise" \in Bytes \ {LF} /\ "countdown" \in Bytes \ {LF}
  BY DEF Bytes, HelperBytes, LF
<1>5. Each(s) \in Seq(A) /\ Each(u) \in Seq(A)
  BY <1>1, CleanedType2
<1>6. /\ DOMAIN Each(s) = 1 .. n + 1 /\ DOMAIN Each(u) = 1 .. n
      /\ \A i \in 1 .. n + 1 : Each(s)[i] = Cleaned(s, i)
      /\ \A i \in 1 .. n : Each(u)[i] = Cleaned(u, i)
  BY <1>1a
<1>7. Len(Each(s)) = n + 1 /\ Len(Each(u)) = n
  BY <1>1, <1>5, <1>6, LenProperties
<1>8. \A i \in 1 .. n + 1 :
        Cleaned(s, i) =
          IF Has("noise") THEN <<>>
          ELSE IF Has("countdown") THEN IF s[i] = LF THEN <<"starting", CR, LF>> ELSE <<>>
          ELSE IF s[i] = "backspace" THEN <<>>
          ELSE <<s[i]>>
  BY <1>3, <1>4, Zenon DEF Cleaned
<1>9. \A i \in 1 .. n : Cleaned(u, i) = IF u[i] = "backspace" THEN <<>> ELSE <<u[i]>>
  BY CleanedOpen DEF n
<1>10. bar \in Seq(A) /\ Len(bar) = n /\ \A i \in 1 .. n : bar[i] = Cleaned(s, i)
  <2>1. \A i \in 1 .. n : i \in 1 .. Len(s)
    BY <1>1
  <2>2. \A i \in 1 .. n : Cleaned(s, i) \in A
    BY <1>1, <2>1, CleanedType
  <2> HIDE DEF A
  <2> QED BY <1>1, <2>2
<1>11. Cleaned(s, n + 1) \in A /\ n + 1 \in 1 .. n + 1
  BY <1>1, CleanedType
<1> HIDE DEF Each, A, bar
<1>12. Each(s) = Append(bar, Cleaned(s, n + 1))
  <2> DEFINE last == Cleaned(s, n + 1)
  <2>0. last \in A
    BY <1>11
  <2> HIDE DEF last
  <2>2. /\ Append(bar, last) \in Seq(A) /\ Len(Append(bar, last)) = n + 1
        /\ \A i \in 1 .. n : Append(bar, last)[i] = bar[i]
        /\ Append(bar, last)[n + 1] = last
    BY <1>10, <2>0, AppendProperties
  <2>3. \A i \in 1 .. n + 1 : Each(s)[i] = Append(bar, last)[i]
    <3> TAKE i \in 1 .. n + 1
    <3>1. i \in 1 .. n \/ i = n + 1
      BY <1>1
    <3> QED BY <3>1, <2>2, <1>6, <1>10 DEF last
  <2>4. Each(s) = Append(bar, last)
    BY <1>5, <1>7, <2>2, <2>3, SeqEqual
  <2> QED BY <2>4 DEF last
<1>13. FlattenSeq(Each(s)) = FlattenSeq(bar) \o Cleaned(s, n + 1)
  BY <1>10, <1>11, <1>12, FlattenAppend DEF A
<1>14. Clean(s) = FlattenSeq(bar) \o Cleaned(s, n + 1) /\ Clean(u) = FlattenSeq(Each(u))
  BY <1>13 DEF Clean, Each
<1>15. \A i \in 1 .. n : i \in 1 .. n + 1 /\ s[i] # LF
  BY <1>1, <1>1b
<1>16. Has("noise") \/ Has("countdown") => FlattenSeq(bar) = <<>>
  <2> SUFFICES ASSUME Has("noise") \/ Has("countdown") PROVE FlattenSeq(bar) = <<>>
    OBVIOUS
  <2>1. \A i \in 1 .. n : bar[i] = <<>>
    BY <1>8, <1>10, <1>15
  <2> QED BY <2>1, <1>10, FlattenNothing DEF A
<1>17. CASE Has("noise")
  <2>1. Cleaned(s, n + 1) = <<>>
    BY <1>8, <1>11, <1>17
  <2>2. Clean(s) = <<>>
    BY <2>1, <1>14, <1>16, <1>17, EmptySeq, ConcatEmptySeq
  <2> QED BY <2>2, <1>17 DEF n, s
<1>18. CASE ~ Has("noise") /\ Has("countdown")
  <2>1. Cleaned(s, n + 1) = <<"starting", CR, LF>>
    BY <1>1, <1>8, <1>11, <1>18
  <2>2. Clean(s) = <<"starting", CR, LF>>
    BY <2>1, <1>11, <1>14, <1>16, <1>18, ConcatEmptySeq DEF A
  <2> QED BY <2>2, <1>18 DEF n, s
<1>19. CASE ~ Has("noise") /\ ~ Has("countdown")
  <2>1. Cleaned(s, n + 1) = <<LF>>
    BY <1>1, <1>8, <1>11, <1>19 DEF LF
  <2>2. \A i \in 1 .. n : bar[i] = Each(u)[i]
    BY <1>1, <1>6, <1>8, <1>9, <1>10, <1>15, <1>19
  <2>3. bar = Each(u)
    BY <1>5, <1>7, <1>10, <2>2, SeqEqual
  <2>4. Clean(s) = Clean(u) \o <<LF>>
    BY <2>1, <2>3, <1>14
  <2> QED BY <2>4, <1>19 DEF n, s
<1> QED BY <1>17, <1>18, <1>19

\* Two lines that look the same unfinished look the same finished.
LEMMA CleanLineSame ==
  ASSUME NEW u \in Open, NEW v \in Open, Clean(u) = Clean(v)
  PROVE  Clean(u \o <<LF>>) = Clean(v \o <<LF>>)
<1>1. "noise" \in Bytes \ {LF, "backspace"} /\ "countdown" \in Bytes \ {LF, "backspace"}
  BY DEF Bytes, HelperBytes, LF
<1>2. (\E i \in 1 .. Len(u) : u[i] = "noise") <=> (\E i \in 1 .. Len(v) : v[i] = "noise")
  BY <1>1, CleanOpenType
<1>3. (\E i \in 1 .. Len(u) : u[i] = "countdown") <=> (\E i \in 1 .. Len(v) : v[i] = "countdown")
  BY <1>1, CleanOpenType
<1>4. /\ Clean(u \o <<LF>>) =
           IF \E i \in 1 .. Len(u) : u[i] = "noise" THEN <<>>
           ELSE IF \E i \in 1 .. Len(u) : u[i] = "countdown"
                THEN <<"starting", CR, LF>>
           ELSE Clean(u) \o <<LF>>
      /\ Clean(v \o <<LF>>) =
           IF \E i \in 1 .. Len(v) : v[i] = "noise" THEN <<>>
           ELSE IF \E i \in 1 .. Len(v) : v[i] = "countdown"
                THEN <<"starting", CR, LF>>
           ELSE Clean(v) \o <<LF>>
  BY CleanLine
<1> QED BY <1>2, <1>3, <1>4, Zenon

\* A finished line is clean and still a line.
LEMMA CleanLineType ==
  ASSUME NEW u \in Open
  PROVE  /\ Clean(u \o <<LF>>) \in Closed
         /\ Clean(u \o <<LF>>) \in Seq(Bytes \ Dirt)
<1> DEFINE Has(x) == \E i \in 1 .. Len(u) : u[i] = x
<1>1. Clean(u \o <<LF>>) = IF Has("noise") THEN <<>>
                           ELSE IF Has("countdown") THEN <<"starting", CR, LF>>
                           ELSE Clean(u) \o <<LF>>
  BY CleanLine
<1>2. <<>> \in Closed /\ <<>> \in Seq(Bytes \ Dirt)
  BY OpenIsText
<1>3. <<"starting", CR, LF>> \in Closed /\ <<"starting", CR, LF>> \in Seq(Bytes \ Dirt)
  BY BytesApart DEF Closed
<1>4. ASSUME ~ Has("noise"), ~ Has("countdown")
      PROVE  Clean(u) \o <<LF>> \in Closed /\ Clean(u) \o <<LF>> \in Seq(Bytes \ Dirt)
  <2>1. Clean(u) \in Open /\ \A i \in 1 .. Len(Clean(u)) : Clean(u)[i] # "backspace"
    BY CleanOpenType
  <2>2. "noise" \in Bytes \ {LF, "backspace"} /\ "countdown" \in Bytes \ {LF, "backspace"}
    BY DEF Bytes, HelperBytes, LF
  <2>3. \A i \in 1 .. Len(Clean(u)) : Clean(u)[i] # "noise" /\ Clean(u)[i] # "countdown"
    BY <1>4, <2>2, CleanOpenType
  <2>4. Clean(u) \in Seq(Bytes)
    BY <2>1, OpenIsText
  <2>5. \A i \in 1 .. Len(Clean(u)) : Clean(u)[i] \in Bytes \ Dirt
    BY <2>1, <2>3, <2>4 DEF Dirt
  <2>6. Clean(u) \in Seq(Bytes \ Dirt)
    <3> DEFINE w == Clean(u)
    <3>1. w \in Seq(Bytes) /\ \A i \in 1 .. Len(w) : w[i] \in Bytes \ Dirt
      BY <2>4, <2>5
    <3> HIDE DEF w
    <3>2. w \in [1 .. Len(w) -> Bytes \ Dirt] /\ Len(w) \in Nat
      BY <3>1
    <3>3. w \in Seq(Bytes \ Dirt)
      BY <3>2, SeqDef
    <3> QED BY <3>3 DEF w
  <2>7. <<LF>> \in Seq(Bytes \ Dirt)
    BY BytesApart
  <2> QED BY <2>4, <2>6, <2>7, ClosedByBreak, ConcatProperties
<1> HIDE DEF Has
<1> QED BY <1>1, <1>2, <1>3, <1>4

\* Whole lines stay whole lines.
LEMMA CleanClosed ==
  ASSUME NEW a \in Closed
  PROVE  Clean(a) \in Closed /\ Clean(a) \in Seq(Bytes \ Dirt)
<1> DEFINE C == {t \in Closed : Clean(t) \in Closed /\ Clean(t) \in Seq(Bytes \ Dirt)}
           P == {t \in Seq(Bytes) : EraseLine(t) \in C /\ (t \in Closed => t \in C)}
<1>1. <<>> \in P
  <2>1. Clean(<<>>) = <<>> /\ <<>> \in Seq(Bytes \ Dirt)
    <3>1. <<>> \in Seq(Bytes \ Dirt)
      OBVIOUS
    <3> QED BY <3>1, CleanTidy
  <2>2. EraseLine(<<>>) = <<>>
    <3>1. <<>> \o <<>> = <<>>
      BY EmptySeq, ConcatEmptySeq
    <3> QED BY <3>1, OpenIsText, EraseRest
  <2> QED BY <2>1, <2>2, OpenIsText
<1>2. ASSUME NEW t \in Seq(Bytes), NEW x \in Bytes, t \in P PROVE Append(t, x) \in P
  <2>1. EraseLine(t) \in Closed /\ \E u \in Open : t = EraseLine(t) \o u
    BY LineSplit
  <2>2. PICK u \in Open : t = EraseLine(t) \o u
    BY <2>1
  <2> DEFINE e == EraseLine(t)
  <2>3. e \in C /\ e \in Closed /\ e \in Seq(Bytes) /\ u \in Seq(Bytes) /\ <<x>> \in Seq(Bytes)
    BY <1>2, <2>1, OpenIsText DEF Closed
  <2>4. t = e \o u
    BY <2>2
  <2> HIDE DEF e
  <2>5. Append(t, x) \in Seq(Bytes) /\ Append(t, x) = t \o <<x>>
    BY AppendProperties, AppendIsConcat
  <2>6. t \o <<x>> = e \o (u \o <<x>>)
    BY <2>3, <2>4, ConcatAssociative
  <2>7. CASE x = LF
    <3>1. t \o <<x>> \in Closed
      BY <2>7, ClosedByBreak
    <3>2. u \o <<x>> \in Seq(Bytes)
      BY <2>3, ConcatProperties
    <3>3. Clean(t \o <<x>>) = Clean(e) \o Clean(u \o <<x>>)
      BY <2>3, <2>6, <3>2, CleanSplit
    <3>4. Clean(u \o <<x>>) \in Closed /\ Clean(u \o <<x>>) \in Seq(Bytes \ Dirt)
      BY <2>7, CleanLineType
    <3>5. Clean(e) \in Closed /\ Clean(e) \in Seq(Bytes \ Dirt)
      BY <2>3
    <3>6. t \o <<x>> \in C
      BY <3>1, <3>3, <3>4, <3>5, ClosedConcat, ConcatProperties
    <3>7. EraseLine(t \o <<x>>) = t \o <<x>>
      <4>1. (t \o <<x>>) \o <<>> = t \o <<x>>
        BY <2>5, ConcatEmptySeq
      <4> QED BY <3>1, <4>1, OpenIsText, EraseRest
    <3> HIDE DEF C
    <3> QED BY <2>5, <3>6, <3>7
  <2>8. CASE x # LF
    <3>1. u \o <<x>> \in Open
      <4>1. <<x>> \in Open
        BY <2>8 DEF Open
      <4> QED BY <4>1, OpenConcat
    <3>2. EraseLine(t \o <<x>>) = e
      BY <2>3, <2>6, <3>1, EraseRest
    <3>3. t \o <<x>> \notin Closed
      <4>1. Len(t \o <<x>>) = Len(t) + 1 /\ (t \o <<x>>)[Len(t) + 1] = x /\ Len(t) \in Nat
        BY <2>5, AppendProperties
      <4>2. t \o <<x>> # <<>>
        BY <4>1
      <4> QED BY <4>1, <4>2, <2>8 DEF Closed
    <3> HIDE DEF C
    <3> QED BY <2>3, <2>5, <3>2, <3>3
  <2> QED BY <2>7, <2>8
<1>3. Seq(Bytes) \subseteq P
  <2> HIDE DEF P
  <2> QED BY <1>1, <1>2, OneMoreElement
<1>4. a \in C
  BY <1>3 DEF Closed
<1> QED BY <1>4

-----------------------------------------------------------------------------
(* A terminal, one byte at a time                                          *)

\* What a terminal shows of one byte
Shown(s, i) == IF Stays(s, i) THEN <<s[i]>> ELSE <<>>

\* One byte or none
LEMMA ShownType ==
  ASSUME NEW s \in Seq(Bytes)
  PROVE  /\ \A i \in 1 .. Len(s) : Shown(s, i) \in Seq(Bytes)
         /\ [i \in DOMAIN s |-> Shown(s, i)] \in Seq(Seq(Bytes))
<1> DEFINE A == Seq(Bytes)
<1>1. DOMAIN s = 1 .. Len(s) /\ Len(s) \in Nat
  OBVIOUS
<1>2. \A i \in 1 .. Len(s) : Shown(s, i) \in A
  <2> TAKE i \in 1 .. Len(s)
  <2>1. <<s[i]>> \in A /\ <<>> \in A
    OBVIOUS
  <2> QED BY <2>1 DEF Shown
<1> HIDE DEF A
<1>3. [i \in DOMAIN s |-> Shown(s, i)] \in Seq(A)
  BY <1>1, <1>2
<1> QED BY <1>2, <1>3 DEF A

\* A terminal shows a text, ...
LEMMA TerminalType ==
  ASSUME NEW s \in Seq(Bytes)
  PROVE  Terminal(s) \in Seq(Bytes)
BY ShownType, FlattenType DEF Terminal, Shown

\* ... and nothing of nothing.
LEMMA TerminalEmpty == Terminal(<<>>) = <<>>
<1>1. [i \in DOMAIN <<>> |-> IF Stays(<<>>, i) THEN <<(<<>>)[i]>> ELSE <<>>] = <<>>
  OBVIOUS
<1> QED BY <1>1, FlattenEmpty DEF Terminal

\* A CR that some other byte than a LF follows has redrawn its line.
LEMMA TerminalStep ==
  ASSUME NEW s \in Seq(Bytes), NEW b \in Bytes
  PROVE  Terminal(s \o <<b>>) =
           (IF s # <<>> /\ s[Len(s)] = CR /\ b # LF
            THEN EraseLine(Terminal(s)) ELSE Terminal(s))
             \o (IF b = CR THEN <<>> ELSE <<b>>)
<1> DEFINE n == Len(s)
           r == s \o <<b>>
           A == Seq(Bytes)
           last == IF b = CR THEN <<>> ELSE <<b>>
           Each(t) == [i \in DOMAIN t |-> Shown(t, i)]
<1>0. last \in A
  <2>1. <<b>> \in A /\ <<>> \in A
    OBVIOUS
  <2> QED BY <2>1
<1>1. /\ r \in Seq(Bytes) /\ Len(r) = n + 1 /\ n \in Nat
      /\ (\A i \in 1 .. n : r[i] = s[i]) /\ r[n + 1] = b
  BY AppendProperties, AppendIsConcat
<1>2. DOMAIN r = 1 .. n + 1 /\ DOMAIN s = 1 .. n
  BY <1>1
<1>3. /\ Each(r) \in Seq(A) /\ Each(s) \in Seq(A)
      /\ Terminal(r) = FlattenSeq(Each(r)) /\ Terminal(s) = FlattenSeq(Each(s))
  BY <1>1, ShownType DEF Terminal, Shown
<1>4. /\ DOMAIN Each(r) = 1 .. n + 1 /\ DOMAIN Each(s) = 1 .. n
      /\ \A i \in 1 .. n + 1 : Each(r)[i] = Shown(r, i)
      /\ \A i \in 1 .. n : Each(s)[i] = Shown(s, i)
  BY <1>2
<1>5. Len(Each(r)) = n + 1 /\ Len(Each(s)) = n
  BY <1>1, <1>3, <1>4, LenProperties
<1>a. s # <<>> <=> n # 0
  BY <1>1, EmptySeq
<1>b. \A i \in 1 .. n : Shown(s, i) \in A
  BY ShownType
<1>c. \A i \in 1 .. n + 1 : i \in 1 .. n \/ i = n + 1
  BY <1>1
<1> HIDE DEF r, n, Each, A, last
<1>6. \A j \in 1 .. n : j # n => (Redraws(r, j) <=> Redraws(s, j))
  <2> TAKE j \in 1 .. n
  <2> HAVE j # n
  <2>1. j < n /\ j < n + 1 /\ j + 1 \in 1 .. n
    BY <1>1
  <2>2. r[j] = s[j] /\ r[j + 1] = s[j + 1]
    BY <1>1, <2>1
  <2> QED BY <1>1, <2>1, <2>2 DEF Redraws, n
<1>7. n # 0 => (Redraws(r, n) <=> s[n] = CR /\ b # LF) /\ ~ Redraws(s, n)
  <2> HAVE n # 0
  <2>1. n \in 1 .. n /\ n < n + 1 /\ ~ (n < n)
    BY <1>1
  <2> QED BY <1>1, <2>1 DEF Redraws, n
<1>8. ~ Redraws(r, n + 1)
  BY <1>1 DEF Redraws
<1>9. Shown(r, n + 1) = last
  <2>1. \A j \in 1 .. n + 1 : ~ (n + 1 < j)
    BY <1>1
  <2>2. Stays(r, n + 1) <=> b # CR
    BY <2>1, <1>1, <1>2, BytesApart DEF Stays
  <2> QED BY <2>2, <1>1 DEF Shown, last
<1>10. CASE ~ (s # <<>> /\ s[n] = CR /\ b # LF)
  <2>1. \A j \in 1 .. n : Redraws(r, j) <=> Redraws(s, j)
    BY <1>a, <1>6, <1>7, <1>10
  <2>2. \A i \in 1 .. n : Shown(r, i) = Shown(s, i)
    <3> TAKE i \in 1 .. n
    <3>1. Stays(r, i) <=> Stays(s, i)
      <4>1. \A j \in 1 .. n : \A k \in i .. j : k \in 1 .. n /\ r[k] = s[k]
        BY <1>1
      <4>2. \A j \in 1 .. n :
              (\E k \in i .. j : r[k] = LF) <=> (\E k \in i .. j : s[k] = LF)
        BY <4>1
      <4>3. (\A j \in 1 .. n + 1 : i < j /\ Redraws(r, j) => \E k \in i .. j : r[k] = LF)
              <=> (\A j \in 1 .. n : i < j /\ Redraws(s, j) => \E k \in i .. j : s[k] = LF)
        <5>1. \A j \in 1 .. n : j \in 1 .. n + 1
          BY <1>1
        <5> QED BY <5>1, <4>2, <2>1, <1>8, <1>c, Zenon
      <4>4. r[i] = s[i]
        BY <1>1
      <4> QED BY <4>3, <4>4, <1>2, Zenon DEF Stays
    <3>2. r[i] = s[i]
      BY <1>1
    <3> QED BY <3>1, <3>2 DEF Shown
  <2>3. Each(r) = Append(Each(s), last)
    <3>1. /\ Append(Each(s), last) \in Seq(A) /\ Len(Append(Each(s), last)) = n + 1
          /\ \A i \in 1 .. n : Append(Each(s), last)[i] = Each(s)[i]
          /\ Append(Each(s), last)[n + 1] = last
      BY <1>0, <1>3, <1>5, AppendProperties
    <3>2. \A i \in 1 .. n : i \in 1 .. n + 1
      BY <1>1
    <3>3. \A i \in 1 .. n + 1 : Each(r)[i] = Append(Each(s), last)[i]
      <4>1. \A i \in 1 .. n : Each(r)[i] = Append(Each(s), last)[i]
        BY <3>1, <3>2, <1>4, <2>2
      <4>2. Each(r)[n + 1] = Append(Each(s), last)[n + 1]
        <5>1. n + 1 \in 1 .. n + 1
          BY <1>1
        <5> QED BY <3>1, <5>1, <1>4, <1>9
      <4> QED BY <4>1, <4>2, <1>c
    <3> QED BY <3>1, <3>3, <1>3, <1>5, SeqEqual
  <2>4. Terminal(r) = Terminal(s) \o last
    BY <2>3, <1>0, <1>3, FlattenAppend DEF A
  <2> QED BY <2>4, <1>10 DEF r, last, n
<1>11. CASE s # <<>> /\ s[n] = CR /\ b # LF
  <2>0. n # 0 /\ n \in 1 .. n
    BY <1>1, <1>a, <1>11
  <2>1. PICK a \in Closed, u \in Open : s = a \o u
    BY LineSplit
  <2> DEFINE p == Len(a)
             m == Len(u)
  <2>2. /\ p \in Nat /\ m \in Nat /\ n = p + m
        /\ (\A i \in 1 .. p : s[i] = a[i])
        /\ (\A i \in 1 .. m : s[p + i] = u[i])
        /\ (p # 0 => a[p] = LF)
    <3>1. a \in Seq(Bytes) /\ u \in Seq(Bytes)
      BY OpenIsText DEF Closed
    <3>2. p # 0 => a[p] = LF
      BY <3>1 DEF Closed
    <3>3. p \in Nat /\ m \in Nat /\ n = p + m
      BY <3>1, <2>1, ConcatProperties DEF n
    <3>4. \A i \in 1 .. p : s[i] = a[i]
      BY <3>1, <2>1
    <3>5. \A i \in 1 .. m : s[p + i] = u[i]
      BY <3>1, <2>1
    <3> QED BY <3>2, <3>3, <3>4, <3>5
  <2>3. \A i \in 1 .. m : u[i] # LF
    BY OpenHasNoBreak
  <2> HIDE DEF p, m
  <2>4. p < n
    <3> SUFFICES ASSUME p = n PROVE FALSE
      BY <2>2
    <3>1. s[n] = LF
      BY <2>0, <2>2
    <3> QED BY <3>1, <1>11, BytesApart
  <2>5. \A k \in 1 .. n : p < k => s[k] # LF
    <3> TAKE k \in 1 .. n
    <3> HAVE p < k
    <3>1. k - p \in 1 .. m /\ p + (k - p) = k
      BY <2>2
    <3> QED BY <3>1, <2>2, <2>3
  <2>6. \A i \in 1 .. p : i \in 1 .. n /\ i \in 1 .. n + 1 /\ Shown(r, i) = Shown(s, i)
    <3> TAKE i \in 1 .. p
    <3>0. i \in 1 .. n /\ i \in 1 .. n + 1 /\ r[i] = s[i]
      BY <1>1, <2>2
    <3>1. \A j \in 1 .. n : \A k \in i .. j : k \in 1 .. n /\ r[k] = s[k]
      BY <1>1, <3>0
    <3>2. \A j \in 1 .. n :
            (\E k \in i .. j : r[k] = LF) <=> (\E k \in i .. j : s[k] = LF)
      BY <3>1
    <3>3. \E k \in i .. n : r[k] = LF
      <4>1. p \in i .. n /\ p \in 1 .. n /\ p \in 1 .. p /\ p # 0
        BY <2>2, <2>4
      <4>2. r[p] = LF
        BY <4>1, <1>1, <2>2
      <4> QED BY <4>1, <4>2
    <3>4. (\A j \in 1 .. n + 1 : i < j /\ Redraws(r, j) => \E k \in i .. j : r[k] = LF)
            <=> (\A j \in 1 .. n : i < j /\ Redraws(s, j) => \E k \in i .. j : s[k] = LF)
      <4>1. \A j \in 1 .. n : j \in 1 .. n + 1
        BY <1>1
      <4>2. ASSUME \A j \in 1 .. n + 1 : i < j /\ Redraws(r, j) => \E k \in i .. j : r[k] = LF,
                   NEW j \in 1 .. n, i < j, Redraws(s, j)
            PROVE  \E k \in i .. j : s[k] = LF
        <5>1. j # n
          BY <1>7, <2>0, <4>2
        <5> QED BY <5>1, <4>1, <4>2, <3>2, <1>6
      <4>3. ASSUME \A j \in 1 .. n : i < j /\ Redraws(s, j) => \E k \in i .. j : s[k] = LF,
                   NEW j \in 1 .. n + 1, i < j, Redraws(r, j)
            PROVE  \E k \in i .. j : r[k] = LF
        <5>1. j \in 1 .. n
          BY <1>8, <1>c, <4>3
        <5>2. CASE j = n
          BY <5>2, <3>3
        <5>3. CASE j # n
          BY <5>1, <5>3, <4>3, <3>2, <1>6
        <5> QED BY <5>2, <5>3
      <4> QED BY <4>2, <4>3, Zenon
    <3>5. Stays(r, i) <=> Stays(s, i)
      BY <3>0, <3>4, <1>2, Zenon DEF Stays
    <3> QED BY <3>0, <3>5 DEF Shown
  <2>7. \A i \in 1 .. n : p < i => i \in 1 .. n + 1 /\ Shown(r, i) = <<>>
    <3> TAKE i \in 1 .. n
    <3> HAVE p < i
    <3>1. i \in 1 .. n + 1 /\ r[i] = s[i] /\ r[i] # LF
      BY <1>1, <2>5
    <3>2. ~ Stays(r, i)
      <4>1. CASE i = n
        BY <4>1, <3>1, <1>11 DEF Stays
      <4>2. CASE i # n
        <5>1. i < n /\ n \in 1 .. n + 1 /\ Redraws(r, n)
          BY <4>2, <1>1, <1>7, <1>11, <2>0
        <5>2. \A k \in i .. n : r[k] # LF
          <6> TAKE k \in i .. n
          <6>1. k \in 1 .. n /\ p < k
            BY <1>1, <2>2
          <6> QED BY <6>1, <1>1, <2>5
        <5> QED BY <3>1, <5>1, <5>2, <1>2 DEF Stays
      <4> QED BY <4>1, <4>2
    <3> QED BY <3>1, <3>2 DEF Shown
  <2> DEFINE fore == [i \in 1 .. p |-> Shown(s, i)]
             rest == [i \in 1 .. m |-> Shown(s, p + i)]
             none == [i \in 1 .. m |-> <<>>]
  <2>8. \A i \in 1 .. m : p + i \in 1 .. n /\ p + i \in 1 .. n + 1 /\ p < p + i
    BY <2>2
  <2>9. /\ fore \in Seq(A) /\ Len(fore) = p /\ \A i \in 1 .. p : fore[i] = Shown(s, i)
    BY <2>2, <2>6, <1>b
  <2>10. /\ rest \in Seq(A) /\ Len(rest) = m /\ \A i \in 1 .. m : rest[i] = Shown(s, p + i)
    BY <2>2, <2>8, <1>b
  <2>11. /\ none \in Seq(A) /\ Len(none) = m /\ \A i \in 1 .. m : none[i] = <<>>
    <3>1. <<>> \in A
      BY DEF A
    <3> QED BY <2>2, <3>1
  <2>12. rest \in Seq(Open)
    <3>1. \A i \in 1 .. m : Shown(s, p + i) \in Open
      <4> TAKE i \in 1 .. m
      <4>1. s[p + i] # LF /\ s[p + i] \in Bytes
        BY <2>5, <2>8 DEF n
      <4>2. <<s[p + i]>> \in Open /\ <<>> \in Open
        BY <4>1 DEF Open
      <4> QED BY <4>2 DEF Shown
    <3> QED BY <3>1, <2>2
  <2> HIDE DEF fore, rest, none
  <2>13. Each(s) = fore \o rest
    <3>1. fore \o rest \in Seq(A) /\ Len(fore \o rest) = n
      BY <2>2, <2>9, <2>10, ConcatProperties
    <3>2. \A i \in 1 .. n : Each(s)[i] = (fore \o rest)[i]
      <4> TAKE i \in 1 .. n
      <4>1. (fore \o rest)[i] = IF i <= p THEN fore[i] ELSE rest[i - p]
        BY <2>2, <2>9, <2>10, ConcatProperties, SMTT(30)
      <4>2. CASE i <= p
        BY <4>1, <4>2, <2>2, <2>9, <1>4
      <4>3. CASE ~ (i <= p)
        <5>1. i - p \in 1 .. m /\ p + (i - p) = i
          BY <4>3, <2>2
        <5> QED BY <4>1, <4>3, <5>1, <2>10, <1>4
      <4> QED BY <4>2, <4>3
    <3> QED BY <3>1, <3>2, <1>3, <1>5, SeqEqual
  <2>14. Each(r) = Append(fore \o none, last)
    <3>1. fore \o none \in Seq(A) /\ Len(fore \o none) = n
      BY <2>2, <2>9, <2>11, ConcatProperties
    <3>2. /\ Append(fore \o none, last) \in Seq(A)
          /\ Len(Append(fore \o none, last)) = n + 1
          /\ \A i \in 1 .. n : Append(fore \o none, last)[i] = (fore \o none)[i]
          /\ Append(fore \o none, last)[n + 1] = last
      BY <3>1, <1>0, AppendProperties
    <3>3. \A i \in 1 .. n : Each(r)[i] = (fore \o none)[i]
      <4> TAKE i \in 1 .. n
      <4>0. i \in 1 .. n + 1
        BY <1>1
      <4>1. (fore \o none)[i] = IF i <= p THEN fore[i] ELSE none[i - p]
        BY <2>2, <2>9, <2>11, ConcatProperties, SMTT(30)
      <4>2. CASE i <= p
        <5>1. i \in 1 .. p
          BY <4>2, <2>2
        <5> QED BY <5>1, <4>0, <4>1, <4>2, <2>6, <2>9, <1>4
      <4>3. CASE ~ (i <= p)
        <5>1. i - p \in 1 .. m /\ p < i
          BY <4>3, <2>2
        <5> QED BY <4>0, <4>1, <4>3, <5>1, <2>7, <2>11, <1>4
      <4> QED BY <4>2, <4>3
    <3>4. Each(r)[n + 1] = last
      <4>1. n + 1 \in 1 .. n + 1
        BY <1>1
      <4> QED BY <4>1, <1>4, <1>9
    <3>5. \A i \in 1 .. n + 1 : Each(r)[i] = Append(fore \o none, last)[i]
      BY <3>2, <3>3, <3>4, <1>c
    <3> QED BY <3>2, <3>5, <1>3, <1>5, SeqEqual
  <2>15. FlattenSeq(fore) \in Closed
    <3>1. CASE p = 0
      <4>1. fore = <<>>
        BY <3>1, <2>9, EmptySeq
      <4> QED BY <4>1, FlattenEmpty, OpenIsText
    <3>2. CASE p # 0
      <4>1. p \in 1 .. p /\ p \in 1 .. n /\ p - 1 \in Nat
        BY <3>2, <2>2, <2>4
      <4>2. s[p] = LF
        BY <4>1, <2>2
      <4>3. fore[p] = <<LF>>
        BY <4>1, <4>2, <2>9 DEF Shown, Stays
      <4>4. PICK f \in Seq(A), x \in A : fore = Append(f, x)
        <5>1. fore # <<>>
          BY <3>2, <2>9
        <5> QED BY <5>1, <2>9, SequenceEmptyOrAppend
      <4>5. Len(Append(f, x)) = Len(f) + 1 /\ Append(f, x)[Len(f) + 1] = x
        BY AppendProperties
      <4>6. x = <<LF>>
        BY <4>3, <4>4, <4>5, <2>9
      <4>7. FlattenSeq(fore) = FlattenSeq(f) \o <<LF>> /\ FlattenSeq(f) \in Seq(Bytes)
        BY <4>4, <4>6, FlattenAppend, FlattenType DEF A
      <4> QED BY <4>7, ClosedByBreak
    <3> QED BY <3>1, <3>2
  <2>16. FlattenSeq(rest) \in Open
    BY <2>12, FlattenType DEF Open
  <2>17. Terminal(s) = FlattenSeq(fore) \o FlattenSeq(rest)
    BY <2>9, <2>10, <2>13, <1>3, FlattenConcat DEF A
  <2>18. Terminal(r) = FlattenSeq(fore) \o last
    <3>1. fore \o none \in Seq(A)
      BY <2>9, <2>11, ConcatProperties
    <3>2. FlattenSeq(Each(r)) = FlattenSeq(fore \o none) \o last
      BY <3>1, <2>14, <1>0, FlattenAppend DEF A
    <3>3. FlattenSeq(fore \o none) = FlattenSeq(fore) \o FlattenSeq(none)
      BY <2>9, <2>11, FlattenConcat DEF A
    <3>4. FlattenSeq(none) = <<>>
      BY <2>11, FlattenNothing DEF A
    <3>5. FlattenSeq(fore) \o <<>> = FlattenSeq(fore)
      BY <2>9, FlattenType, ConcatEmptySeq DEF A
    <3> QED BY <3>2, <3>3, <3>4, <3>5, <1>3
  <2>19. EraseLine(Terminal(s)) = FlattenSeq(fore)
    BY <2>15, <2>16, <2>17, EraseRest
  <2> QED BY <2>18, <2>19, <1>11 DEF r, last, n
<1> QED BY <1>10, <1>11

-----------------------------------------------------------------------------
(* The log and a terminal go together                                      *)

\* Both end with the same unfinished line, however many backspaces there are
\* in it, and the finished lines of x are the last of those of y, all of them
\* unless x has lost some.
Alike(x, y, lost) ==
  \E a, b \in Closed : \E u, v \in Open :
    /\ x = a \o u /\ y = b \o v
    /\ Clean(u) = Clean(v)
    /\ \E c \in Seq(Bytes) : Clean(b) = c \o Clean(a) /\ (~lost => c = <<>>)

\* Only texts are alike.
LEMMA AlikeType ==
  ASSUME NEW x, NEW y, NEW lost, Alike(x, y, lost)
  PROVE  x \in Seq(Bytes) /\ y \in Seq(Bytes)
<1>1. PICK a \in Closed, b \in Closed, u \in Open, v \in Open : x = a \o u /\ y = b \o v
  BY ZenonT(60) DEF Alike
<1>2. a \in Seq(Bytes) /\ b \in Seq(Bytes) /\ u \in Seq(Bytes) /\ v \in Seq(Bytes)
  BY OpenIsText DEF Closed
<1> QED BY <1>1, <1>2, ConcatProperties

\* Texts that are alike stay so when both erase their last line, ...
LEMMA AlikeErased ==
  ASSUME NEW x, NEW y, NEW lost, Alike(x, y, lost)
  PROVE  Alike(EraseLine(x), EraseLine(y), lost)
<1>1. PICK a \in Closed, b \in Closed, u \in Open, v \in Open :
        /\ x = a \o u /\ y = b \o v
        /\ \E c \in Seq(Bytes) : Clean(b) = c \o Clean(a) /\ (~lost => c = <<>>)
  BY DEF Alike
<1>2. EraseLine(x) = a /\ EraseLine(y) = b
  BY <1>1, EraseRest
<1>3. <<>> \in Open /\ a \in Seq(Bytes) /\ b \in Seq(Bytes)
  BY OpenIsText DEF Closed
<1>4. a = a \o <<>> /\ b = b \o <<>>
  BY <1>3, ConcatEmptySeq
<1> HIDE DEF Closed, Open
<1> QED BY <1>1, <1>2, <1>3, <1>4, Zenon DEF Alike

\* ... and when both get the same byte.
LEMMA AlikeAppended ==
  ASSUME NEW x, NEW y, NEW lost, Alike(x, y, lost), NEW b \in Bytes
  PROVE  Alike(x \o <<b>>, y \o <<b>>, lost)
<1>1. PICK p \in Closed, q \in Closed, u \in Open, v \in Open :
        /\ x = p \o u /\ y = q \o v
        /\ Clean(u) = Clean(v)
        /\ \E c \in Seq(Bytes) : Clean(q) = c \o Clean(p) /\ (~lost => c = <<>>)
  BY DEF Alike
<1>2. /\ p \in Seq(Bytes) /\ q \in Seq(Bytes) /\ u \in Seq(Bytes) /\ v \in Seq(Bytes)
      /\ <<b>> \in Seq(Bytes)
  BY OpenIsText DEF Closed
<1>3. x \o <<b>> = p \o (u \o <<b>>) /\ y \o <<b>> = q \o (v \o <<b>>)
  <2>1. (p \o u) \o <<b>> = p \o (u \o <<b>>)
    BY <1>2, ConcatAssociative, SMTT(30)
  <2>2. (q \o v) \o <<b>> = q \o (v \o <<b>>)
    BY <1>2, ConcatAssociative, SMTT(30)
  <2> QED BY <1>1, <2>1, <2>2
<1>4. CASE b # LF
  <2>1. /\ Append(u, b) \in Open /\ Append(v, b) \in Open
        /\ Clean(Append(u, b)) = Clean(Append(v, b))
    <3>1. b \in Bytes \ {LF}
      BY <1>4
    <3>2. /\ Append(u, b) \in Open
          /\ Clean(Append(u, b)) = Clean(u) \o (IF b = "backspace" THEN <<>> ELSE <<b>>)
      BY <3>1, CleanOpenAppend
    <3>3. /\ Append(v, b) \in Open
          /\ Clean(Append(v, b)) = Clean(v) \o (IF b = "backspace" THEN <<>> ELSE <<b>>)
      BY <3>1, CleanOpenAppend
    <3> QED BY <1>1, <3>2, <3>3
  <2>2. Append(u, b) = u \o <<b>> /\ Append(v, b) = v \o <<b>>
    BY <1>2, AppendIsConcat
  <2>3. /\ u \o <<b>> \in Open /\ v \o <<b>> \in Open
        /\ Clean(u \o <<b>>) = Clean(v \o <<b>>)
    BY <2>1, <2>2
  <2> QED BY <1>1, <1>3, <2>3, ZenonT(60) DEF Alike
<1>5. CASE b = LF
  <2> DEFINE pu == p \o (u \o <<LF>>)
             qv == q \o (v \o <<LF>>)
  <2>1. u \o <<LF>> \in Seq(Bytes) /\ v \o <<LF>> \in Seq(Bytes)
    BY <1>2, <1>5, ConcatProperties
  <2>2. x \o <<LF>> \in Closed /\ y \o <<LF>> \in Closed
    <3>1. x \in Seq(Bytes) /\ y \in Seq(Bytes)
      BY <1>1, <1>2, ConcatProperties
    <3> QED BY <3>1, ClosedByBreak
  <2>3. pu \in Closed /\ qv \in Closed /\ pu \in Seq(Bytes) /\ qv \in Seq(Bytes)
    BY <1>3, <1>5, <2>2 DEF Closed
  <2>4. Clean(pu) = Clean(p) \o Clean(u \o <<LF>>)
    BY <2>1, CleanSplit
  <2>5. Clean(qv) = Clean(q) \o Clean(v \o <<LF>>)
    BY <2>1, CleanSplit
  <2>6. Clean(u \o <<LF>>) = Clean(v \o <<LF>>)
    BY <1>1, CleanLineSame
  <2>7. PICK c \in Seq(Bytes) : Clean(q) = c \o Clean(p) /\ (~lost => c = <<>>)
    BY <1>1
  <2>8. Clean(p) \in Seq(Bytes) /\ Clean(u \o <<LF>>) \in Seq(Bytes)
    BY <1>2, <2>1, CleanType
  <2>9. (c \o Clean(p)) \o Clean(u \o <<LF>>) = c \o (Clean(p) \o Clean(u \o <<LF>>))
    BY <2>8, ConcatAssociative, SMTT(30)
  <2>10. Clean(qv) = c \o Clean(pu)
    BY <2>4, <2>5, <2>6, <2>7, <2>9
  <2>11. pu = pu \o <<>> /\ qv = qv \o <<>> /\ <<>> \in Open
    BY <2>3, ConcatEmptySeq, OpenIsText
  <2> HIDE DEF pu, qv
  <2>12. Alike(pu, qv, lost)
    BY <2>3, <2>7, <2>10, <2>11, Zenon DEF Alike
  <2> QED BY <2>12, <1>3, <1>5 DEF pu, qv
<1> QED BY <1>4, <1>5

\* AppendLog draws what a terminal shows, wherever the text before it ended:
\* the CR it ends with is what pendingCR remembers.
LEMMA DrawIsTerminal ==
  ASSUME log \in Seq(Bytes), said \in Seq(Bytes), NEW text \in Seq(Bytes),
         text # <<>>,
         pendingCR <=> said # <<>> /\ said[Len(said)] = CR,
         Alike(log, Terminal(said), truncated)
  PROVE  Alike(Draw(text), Terminal(said \o text), truncated)
<1> DEFINE n == Len(text)
           pre(k) == said \o SubSeq(text, 1, k)
           redraws(k) == IF k = 0 THEN pendingCR /\ text[1] # LF
                         ELSE k # n /\ text[k] = CR /\ text[k + 1] # LF
           seen(k) == IF redraws(k) THEN EraseLine(Terminal(pre(k)))
                      ELSE Terminal(pre(k))
<1>1. PICK d \in [0 .. n -> Seq(Bytes)] :
        /\ d[0] = Resume(text)
        /\ \A k \in 1 .. n : d[k] = Put(d[k - 1], text, k)
        /\ Draw(text) = d[n]
  BY DrawGoesThrough
<1>2. n \in Nat \ {0} /\ 1 \in 1 .. n /\ Head(text) = text[1]
  BY EmptySeq, HeadTailProperties
<1>3. pre(0) = said
  <2>1. SubSeq(text, 1, 0) = <<>>
    BY SubSeqEmpty
  <2> QED BY <2>1, ConcatEmptySeq
<1>4. pre(n) = said \o text
  BY SubSeqFull
<1>5. ASSUME NEW k \in 1 .. n
      PROVE  /\ SubSeq(text, 1, k) \in Seq(Bytes) /\ Len(SubSeq(text, 1, k)) = k
             /\ SubSeq(text, 1, k)[k] = text[k]
             /\ pre(k) = pre(k - 1) \o <<text[k]>>
  <2>1. \A i \in 1 .. k : text[i] \in Bytes
    BY <1>2
  <2>2. /\ SubSeq(text, 1, k) \in Seq(Bytes) /\ Len(SubSeq(text, 1, k)) = k
        /\ SubSeq(text, 1, k)[k] = text[k]
    BY <2>1, SubSeqProperties
  <2>3. SubSeq(text, 1, k) = SubSeq(text, 1, k - 1) \o <<text[k]>>
    <3>1. 1 \in 1 .. Len(text) /\ k \in 1 .. Len(text)
      BY <1>2
    <3> QED BY <3>1, SubSeqRecursiveSecond
  <2>4. SubSeq(text, 1, k - 1) \in Seq(Bytes) /\ <<text[k]>> \in Seq(Bytes)
    <3>1. \A i \in 1 .. k - 1 : text[i] \in Bytes
      BY <1>2
    <3>2. SubSeq(text, 1, k - 1) \in Seq(Bytes)
      BY <3>1, SubSeqProperties
    <3> QED BY <3>2, <2>1
  <2>5. (said \o SubSeq(text, 1, k - 1)) \o <<text[k]>>
          = said \o (SubSeq(text, 1, k - 1) \o <<text[k]>>)
    <3> DEFINE t == SubSeq(text, 1, k - 1)
               w == <<text[k]>>
    <3>1. said \in Seq(Bytes) /\ t \in Seq(Bytes) /\ w \in Seq(Bytes)
      BY <2>4
    <3> HIDE DEF t, w
    <3>2. (said \o t) \o w = said \o (t \o w)
      BY <3>1, TextConcat, ZenonT(60)
    <3> QED BY <3>2 DEF t, w
  <2> QED BY <2>2, <2>3, <2>5
<1>6. \A k \in 0 .. n : pre(k) \in Seq(Bytes)
  <2> TAKE k \in 0 .. n
  <2>1. k = 0 \/ k \in 1 .. n
    BY <1>2
  <2>2. ASSUME k \in 1 .. n PROVE pre(k) \in Seq(Bytes)
    BY <1>5, <2>2, ConcatProperties
  <2> QED BY <2>1, <2>2, <1>3
<1>7. ASSUME NEW k \in 0 .. n, k # n
      PROVE  (pre(k) # <<>> /\ pre(k)[Len(pre(k))] = CR /\ text[k + 1] # LF) <=> redraws(k)
  <2>1. CASE k = 0
    BY <2>1, <1>3
  <2>2. CASE k # 0
    <3>1. k \in 1 .. n
      BY <2>2, <1>2
    <3>2. /\ SubSeq(text, 1, k) \in Seq(Bytes) /\ Len(SubSeq(text, 1, k)) = k
          /\ SubSeq(text, 1, k)[k] = text[k]
      BY <1>5, <3>1
    <3>3. pre(k) # <<>> /\ pre(k)[Len(pre(k))] = text[k]
      <4> DEFINE t == SubSeq(text, 1, k)
      <4>1. t \in Seq(Bytes) /\ Len(t) = k /\ t[k] = text[k]
        BY <3>2
      <4> HIDE DEF t
      <4>2. /\ Len(said \o t) = Len(said) + Len(t) /\ Len(said) \in Nat
            /\ said \o t \in Seq(Bytes) /\ k \in Nat \ {0}
        <5>1. said \in Seq(Bytes) /\ k \in Nat \ {0}
          BY <3>1
        <5>2. said \o t \in Seq(Bytes) /\ Len(said \o t) = Len(said) + Len(t)
          BY <4>1, <5>1, TextConcat, Zenon
        <5>3. Len(said) \in Nat
          BY <5>1, LenProperties
        <5> QED BY <5>1, <5>2, <5>3
      <4>3. (said \o t)[Len(said) + k] = t[k]
        BY <4>1, <4>2
      <4>4. Len(said \o t) = Len(said) + k /\ Len(said) + k # 0
        BY <4>1, <4>2
      <4>5. said \o t # <<>> /\ (said \o t)[Len(said \o t)] = text[k]
        <5>1. said \o t # <<>>
          BY <4>2, <4>4, EmptySeq
        <5> QED BY <5>1, <4>1, <4>3, <4>4
      <4> QED BY <4>5 DEF t
    <3> QED BY <2>2, <1>7, <3>3
  <2> QED BY <2>1, <2>2
<1>8. ASSUME NEW k \in 1 .. n
      PROVE  Terminal(pre(k)) =
               seen(k - 1) \o (IF text[k] = CR THEN <<>> ELSE <<text[k]>>)
  <2> DEFINE j == k - 1
  <2>1. j \in 0 .. n /\ j # n /\ j + 1 = k
    BY <1>2
  <2>2. pre(j) \in Seq(Bytes) /\ text[k] \in Bytes
    BY <1>2, <1>6, <2>1
  <2>3. pre(k) = pre(j) \o <<text[k]>>
    BY <1>5
  <2>4. (pre(j) # <<>> /\ pre(j)[Len(pre(j))] = CR /\ text[k] # LF) <=> redraws(j)
    <3>1. (pre(j) # <<>> /\ pre(j)[Len(pre(j))] = CR /\ text[j + 1] # LF) <=> redraws(j)
      <4> HIDE DEF j, pre, redraws
      <4> QED BY <1>7, <2>1
    <3> QED BY <3>1, <2>1
  <2> HIDE DEF j, pre, redraws
  <2>5. Terminal(pre(j) \o <<text[k]>>) =
           (IF pre(j) # <<>> /\ pre(j)[Len(pre(j))] = CR /\ text[k] # LF
            THEN EraseLine(Terminal(pre(j))) ELSE Terminal(pre(j)))
             \o (IF text[k] = CR THEN <<>> ELSE <<text[k]>>)
    BY <2>2, TerminalStep
  <2>6. Terminal(pre(k)) = seen(j) \o (IF text[k] = CR THEN <<>> ELSE <<text[k]>>)
    BY <2>3, <2>4, <2>5, Zenon
  <2> QED BY <2>6 DEF j
<1> DEFINE R == {k \in 0 .. n : Alike(d[k], seen(k), truncated)}
<1>9. 0 \in R
  <2>1. d[0] = IF redraws(0) THEN EraseLine(log) ELSE log
    BY <1>1, <1>2 DEF Resume
  <2>2. seen(0) = IF redraws(0) THEN EraseLine(Terminal(said)) ELSE Terminal(said)
    BY <1>3
  <2>3. Alike(EraseLine(log), EraseLine(Terminal(said)), truncated)
    BY AlikeErased
  <2>4. 0 \in 0 .. n
    BY <1>2
  <2> HIDE DEF redraws, seen
  <2>5. Alike(d[0], seen(0), truncated)
    BY <2>1, <2>2, <2>3
  <2> QED BY <2>4, <2>5
<1>10. ASSUME NEW j \in 0 .. n - 1, Alike(d[j], seen(j), truncated)
       PROVE  Alike(d[j + 1], seen(j + 1), truncated)
  <2> DEFINE k == j + 1
  <2>1. k \in 1 .. n /\ k - 1 = j /\ k # 0 /\ j \in 0 .. n
    BY <1>2
  <2> HIDE DEF k
  <2>2. d[k] = Put(d[j], text, k)
    BY <1>1, <2>1
  <2>3. Terminal(pre(k)) = seen(j) \o (IF text[k] = CR THEN <<>> ELSE <<text[k]>>)
    <3> HIDE DEF seen, pre, redraws
    <3> QED BY <1>8, <2>1
  <2>4. text[k] \in Bytes /\ d[j] \in Seq(Bytes)
    <3>1. text[k] \in Bytes
      BY <2>1
    <3>2. d[j] \in Seq(Bytes)
      BY <1>1, <2>1
    <3> QED BY <3>1, <3>2
  <2>5. seen(j) \in Seq(Bytes)
    BY <1>10, AlikeType
  <2>6. CASE text[k] # CR
    <3>1. d[k] = d[j] \o <<text[k]>>
      BY <2>2, <2>4, <2>6, AppendIsConcat DEF Put
    <3>2. seen(k) = Terminal(pre(k))
      BY <2>1, <2>6
    <3>3. seen(k) = seen(j) \o <<text[k]>>
      <4> HIDE DEF seen, pre, redraws
      <4> QED BY <2>3, <2>6, <3>2
    <3> HIDE DEF seen, pre, redraws
    <3>4. Alike(d[j] \o <<text[k]>>, seen(j) \o <<text[k]>>, truncated)
      BY <1>10, <2>4, AlikeAppended
    <3> QED BY <3>1, <3>3, <3>4 DEF k
  <2>7. CASE text[k] = CR
    <3>1. Terminal(pre(k)) = seen(j)
      <4> HIDE DEF seen, pre, redraws
      <4> QED BY <2>3, <2>5, <2>7, ConcatEmptySeq
    <3>2. CASE k = n \/ text[k + 1] = LF
      <4>1. d[k] = d[j]
        BY <2>2, <2>7, <3>2 DEF Put
      <4>2. seen(k) = Terminal(pre(k))
        BY <2>1, <3>2
      <4> HIDE DEF seen, pre, redraws
      <4> QED BY <3>1, <4>1, <4>2, <1>10 DEF k
    <3>3. CASE ~ (k = n \/ text[k + 1] = LF)
      <4>1. d[k] = EraseLine(d[j])
        BY <2>2, <2>7, <3>3 DEF Put
      <4>2. seen(k) = EraseLine(Terminal(pre(k)))
        BY <2>1, <2>7, <3>3
      <4> HIDE DEF seen, pre, redraws
      <4>3. Alike(EraseLine(d[j]), EraseLine(seen(j)), truncated)
        BY <1>10, AlikeErased
      <4> QED BY <3>1, <4>1, <4>2, <4>3 DEF k
    <3> QED BY <3>2, <3>3
  <2> QED BY <2>6, <2>7
<1> HIDE DEF seen, pre, redraws
<1>11. \A j \in 0 .. n - 1 : j \in R => j + 1 \in R
  <2> TAKE j \in 0 .. n - 1
  <2>1. j + 1 \in 0 .. n
    BY <1>2
  <2> QED BY <2>1, <1>10
<1> HIDE DEF R
<1>12. 0 .. n \subseteq R
  BY <1>2, <1>9, <1>11, HandedOn
<1>13. n \in R
  <2>1. n \in 0 .. n
    BY <1>2
  <2> QED BY <2>1, <1>12, Zenon
<1>14. Alike(d[n], seen(n), truncated)
  BY <1>13 DEF R
<1>15. seen(n) = Terminal(pre(n))
  BY <1>2 DEF seen, redraws
<1> QED BY <1>1, <1>4, <1>14, <1>15

-----------------------------------------------------------------------------
(* Cutting a text into lines                                               *)

Words  == Seq(HelperBytes \ Breaks)
Parts  == [lines : Seq(Words), rest : Words]

\* Nothing read yet
NoPart == [lines |-> <<>>, rest |-> <<>>]

\* What one more byte does
CutByte(c, b) ==
  IF b \notin Breaks THEN [c EXCEPT !.rest = Append(@, b)]
  ELSE IF c.rest = <<>> THEN c
  ELSE [lines |-> Append(c.lines, c.rest), rest |-> <<>>]

\* One more byte leaves lines and a rest, ...
LEMMA CutByteType ==
  ASSUME NEW c \in Parts, NEW b \in HelperBytes
  PROVE  CutByte(c, b) \in Parts
<1>1. c.lines \in Seq(Words) /\ c.rest \in Words /\ <<>> \in Words
  BY DEF Parts, Words
<1>2. CASE b \notin Breaks
  <2>1. Append(c.rest, b) \in Words
    BY <1>1, <1>2 DEF Words
  <2> QED BY <2>1, <1>2 DEF CutByte, Parts
<1>3. CASE b \in Breaks
  <2> HIDE DEF Words
  <2>1. Append(c.lines, c.rest) \in Seq(Words)
    BY <1>1
  <2>2. [lines |-> Append(c.lines, c.rest), rest |-> <<>>] \in Parts
    BY <1>1, <2>1 DEF Parts
  <2> QED BY <1>3, <2>2 DEF CutByte
<1> QED BY <1>2, <1>3

\* Cut takes one byte after the other.
LEMMA CutGoesThrough ==
  ASSUME NEW text \in Seq(HelperBytes)
  PROVE  \E d \in [0 .. Len(text) -> Parts] :
           /\ d[0] = NoPart
           /\ \A k \in 1 .. Len(text) : d[k] = CutByte(d[k - 1], text[k])
           /\ Cut(text) = d[Len(text)]
<1> DEFINE n    == Len(text)
           step == [p \in Parts \X (1 .. n) |-> CutByte(p[1], text[p[2]])]
           Fold(g) == g = [s \in SUBSET (DOMAIN text) |->
                             IF s = {} THEN NoPart
                             ELSE CutByte(g[s \ {Max(s)}], text[Max(s)])]
           all  == CHOOSE g : Fold(g)
           d    == [k \in 0 .. n |-> all[1 .. k]]
<1>1. Cut(text) = all[DOMAIN text]
  BY DEF Cut, FoldLeft, MapThenFoldSet, CutByte, NoPart
<1>2. n \in Nat /\ DOMAIN text = 1 .. n /\ \A k \in 1 .. n : text[k] \in HelperBytes
  OBVIOUS
<1>2a. NoPart \in Parts
  BY DEF NoPart, Parts, Words
<1>3. step \in [Parts \X (1 .. n) -> Parts]
  <2> SUFFICES ASSUME NEW c \in Parts, NEW k \in 1 .. n
               PROVE  CutByte(c, text[k]) \in Parts
    OBVIOUS
  <2> QED BY <1>2, CutByteType
<1>4. PICK g \in [SUBSET (1 .. n) -> Parts] : IsFold(g, n, NoPart, step)
  <2> HIDE DEF step, n
  <2> QED BY <1>2, <1>2a, <1>3, FoldExists
<1>5. \A s \in SUBSET (1 .. n) : s # {} => Max(s) \in 1 .. n /\ s \ {Max(s)} \in SUBSET (1 .. n)
  BY <1>2, LargestPosition
<1>6. Fold(g)
  <2> SUFFICES ASSUME NEW s \in SUBSET (1 .. n)
               PROVE  g[s] = IF s = {} THEN NoPart ELSE CutByte(g[s \ {Max(s)}], text[Max(s)])
    BY <1>2
  <2>1. CASE s # {}
    <3>1. <<g[s \ {Max(s)}], Max(s)>> \in Parts \X (1 .. n)
      BY <1>5, <2>1
    <3>2. step[<<g[s \ {Max(s)}], Max(s)>>] = CutByte(g[s \ {Max(s)}], text[Max(s)])
      BY <3>1
    <3> HIDE DEF step
    <3> QED BY <3>2, <1>2, <1>4, <1>5, <2>1 DEF IsFold
  <2>2. CASE s = {}
    BY <2>2, <1>4 DEF IsFold
  <2> QED BY <2>1, <2>2
<1>7. Fold(all)
  <2> HIDE DEF Fold
  <2> QED BY <1>6
<1>8. d[0] = NoPart
  <2>1. 1 .. 0 = {} /\ {} \in SUBSET (DOMAIN text)
    OBVIOUS
  <2> HIDE DEF all
  <2> QED BY <2>1, <1>2, <1>7
<1>9. ASSUME NEW k \in 1 .. n PROVE d[k] = CutByte(d[k - 1], text[k])
  <2>1. 1 .. k # {} /\ Max(1 .. k) = k /\ (1 .. k) \ {k} = 1 .. (k - 1)
    <3>1. k \in Nat \ {0}
      BY <1>2
    <3> QED BY <3>1, LastPosition
  <2>2. 1 .. k \in SUBSET (DOMAIN text)
    BY <1>2
  <2> HIDE DEF all
  <2>3. all[1 .. k] = CutByte(all[1 .. (k - 1)], text[k])
    BY <2>1, <2>2, <1>2, <1>7
  <2> QED BY <2>3, <1>2
<1>10. \A k \in 0 .. n : d[k] \in Parts
  <2> DEFINE S == {k \in 0 .. n : d[k] \in Parts}
  <2>1. 0 \in S
    BY <1>2, <1>2a, <1>8
  <2>2. \A k \in 0 .. n - 1 : k \in S => k + 1 \in S
    <3> TAKE k \in 0 .. n - 1
    <3>1. k + 1 \in 1 .. n /\ k + 1 - 1 = k
      BY <1>2
    <3> HIDE DEF d
    <3>2. d[k + 1] = CutByte(d[k], text[k + 1]) /\ text[k + 1] \in HelperBytes
      BY <3>1, <1>2, <1>9
    <3> QED BY <3>1, <3>2, CutByteType
  <2> HIDE DEF S
  <2>3. 0 .. n \subseteq S
    BY <1>2, <2>1, <2>2, HandedOn
  <2> QED BY <2>3 DEF S
<1>11. Cut(text) = d[n]
  <2> HIDE DEF all
  <2> QED BY <1>1, <1>2
<1>12. d \in [0 .. n -> Parts]
  BY <1>10
<1> HIDE DEF d
<1> QED BY <1>8, <1>9, <1>11, <1>12

\* ... and so does a text.
LEMMA CutType ==
  ASSUME NEW text \in Seq(HelperBytes)
  PROVE  Cut(text) \in Parts
<1>1. PICK d \in [0 .. Len(text) -> Parts] : Cut(text) = d[Len(text)]
  BY CutGoesThrough
<1>2. Len(text) \in 0 .. Len(text)
  OBVIOUS
<1> QED BY <1>1, <1>2

\* Nothing is cut into nothing, ...
LEMMA CutEmpty == Cut(<<>>) = NoPart
<1>1. <<>> \in Seq(HelperBytes) /\ Len(<<>>) = 0
  OBVIOUS
<1>2. PICK d \in [0 .. 0 -> Parts] : d[0] = NoPart /\ Cut(<<>>) = d[0]
  BY <1>1, CutGoesThrough
<1> QED BY <1>2

\* ... and one more byte does what CutByte says.
LEMMA CutAppend ==
  ASSUME NEW text \in Seq(HelperBytes), NEW b \in HelperBytes
  PROVE  Cut(Append(text, b)) = CutByte(Cut(text), b)
<1> DEFINE n == Len(text)
           more == Append(text, b)
<1>1. /\ more \in Seq(HelperBytes) /\ Len(more) = n + 1 /\ n \in Nat
      /\ (\A k \in 1 .. n : more[k] = text[k]) /\ more[n + 1] = b
  BY AppendProperties
<1> HIDE DEF more
<1>2. PICK d \in [0 .. n -> Parts] :
        /\ d[0] = NoPart
        /\ \A k \in 1 .. n : d[k] = CutByte(d[k - 1], text[k])
        /\ Cut(text) = d[n]
  BY CutGoesThrough
<1>3. PICK e \in [0 .. Len(more) -> Parts] :
        /\ e[0] = NoPart
        /\ \A k \in 1 .. Len(more) : e[k] = CutByte(e[k - 1], more[k])
        /\ Cut(more) = e[Len(more)]
  BY <1>1, CutGoesThrough
<1> HIDE DEF n
<1> DEFINE R == {k \in 0 .. n : d[k] = e[k]}
<1>4. 0 \in R
  BY <1>1, <1>2, <1>3
<1>5. ASSUME NEW k \in 0 .. n - 1, d[k] = e[k] PROVE d[k + 1] = e[k + 1]
  <2> DEFINE j == k + 1
  <2>1. j \in 1 .. n /\ j \in 1 .. Len(more) /\ j - 1 = k
    BY <1>1
  <2> HIDE DEF j
  <2>2. d[j] = CutByte(d[k], text[j]) /\ e[j] = CutByte(e[k], text[j])
    BY <2>1, <1>1, <1>2, <1>3
  <2> QED BY <2>2, <1>5 DEF j
<1>6. \A k \in 0 .. n - 1 : k \in R => k + 1 \in R
  <2> TAKE k \in 0 .. n - 1
  <2>1. k + 1 \in 0 .. n
    BY <1>1
  <2> QED BY <2>1, <1>5
<1> HIDE DEF R
<1>7. 0 .. n \subseteq R
  BY <1>1, <1>4, <1>6, HandedOn
<1>8. d[n] = e[n]
  <2>1. n \in 0 .. n
    BY <1>1
  <2>2. n \in R
    BY <2>1, <1>7, Zenon
  <2> QED BY <2>2 DEF R
<1>9. e[n + 1] = CutByte(e[n], b)
  <2> DEFINE j == n + 1
  <2>1. j \in 1 .. Len(more) /\ j - 1 = n /\ more[j] = b
    BY <1>1
  <2> HIDE DEF j
  <2>2. e[j] = CutByte(e[n], b)
    BY <2>1, <1>3
  <2> QED BY <2>2 DEF j
<1>10. Cut(more) = CutByte(Cut(text), b)
  BY <1>1, <1>2, <1>3, <1>8, <1>9
<1> QED BY <1>10 DEF more

\* Text without a break is no line yet.
LEMMA CutWord ==
  ASSUME NEW w \in Words
  PROVE  w \in Seq(HelperBytes) /\ Cut(w) = [lines |-> <<>>, rest |-> w]
<1> DEFINE P == {t \in Words : Cut(t) = [lines |-> <<>>, rest |-> t]}
<1>1. <<>> \in P
  BY CutEmpty DEF NoPart, Words
<1>2. ASSUME NEW t \in Words, NEW b \in HelperBytes \ Breaks, t \in P
      PROVE  Append(t, b) \in P
  <2>1. t \in Seq(HelperBytes) /\ Append(t, b) \in Words
    BY DEF Words
  <2>2. Cut(Append(t, b)) = CutByte(Cut(t), b)
    BY <2>1, CutAppend
  <2>3. CutByte([lines |-> <<>>, rest |-> t], b) = [lines |-> <<>>, rest |-> Append(t, b)]
    BY DEF CutByte
  <2> QED BY <2>1, <2>2, <2>3, <1>2
<1>3. Words \subseteq P
  <2> HIDE DEF P
  <2> QED BY <1>1, <1>2, OneMoreElement DEF Words
<1>4. w \in Seq(HelperBytes)
  BY DEF Words
<1> QED BY <1>3, <1>4

\* One more line behind two lists of lines
LEMMA LinesBehind ==
  \A h, l \in Seq(Words), w \in Words :
    /\ h \o l \in Seq(Words) /\ Append(l, w) = l \o <<w>>
    /\ (h \o l) \o <<w>> = h \o (l \o <<w>>)
<1> DEFINE W == Words
<1> HIDE DEF W
<1>1. ASSUME NEW h \in Seq(W), NEW l \in Seq(W), NEW w \in W
      PROVE  /\ h \o l \in Seq(W) /\ Append(l, w) = l \o <<w>>
             /\ (h \o l) \o <<w>> = h \o (l \o <<w>>)
  <2>1. <<w>> \in Seq(W)
    OBVIOUS
  <2> QED BY <2>1, ConcatProperties, AppendIsConcat, ConcatAssociative
<1> QED BY <1>1 DEF W

\* It does not matter where the text is divided, as long as the unfinished
\* line of the first part goes before the second.
LEMMA CutConcat ==
  ASSUME NEW p \in Seq(HelperBytes), NEW q \in Seq(HelperBytes)
  PROVE  /\ Cut(p).rest \o q \in Seq(HelperBytes)
         /\ Cut(p \o q).rest = Cut(Cut(p).rest \o q).rest
         /\ Cut(p \o q).lines = Cut(p).lines \o Cut(Cut(p).rest \o q).lines
<1> DEFINE r == Cut(p).rest
           h == Cut(p).lines
           Same(t) == /\ Cut(p \o t).rest = Cut(r \o t).rest
                      /\ Cut(p \o t).lines = h \o Cut(r \o t).lines
           P == {t \in Seq(HelperBytes) : Same(t)}
<1>0. r \in Words /\ r \in Seq(HelperBytes) /\ h \in Seq(Words)
  <2>1. Cut(p) \in Parts
    BY CutType
  <2>2. r \in Words /\ h \in Seq(Words)
    BY <2>1 DEF Parts
  <2> HIDE DEF r
  <2> QED BY <2>2, CutWord
<1> HIDE DEF r, h
<1>1. <<>> \in P
  <2>1. p \o <<>> = p /\ r \o <<>> = r /\ h \o <<>> = h
    BY <1>0, ConcatEmptySeq
  <2>2. Cut(r) = [lines |-> <<>>, rest |-> r]
    BY <1>0, CutWord
  <2>3. <<>> \in Seq(HelperBytes)
    OBVIOUS
  <2>4. Cut(p).rest = r /\ Cut(p).lines = h
    BY DEF r, h
  <2>4a. Cut(r).rest = r /\ Cut(r).lines = <<>>
    BY <2>2
  <2>5. Cut(p \o <<>>).rest = Cut(r \o <<>>).rest
    BY <2>1, <2>4, <2>4a, Zenon
  <2>6. Cut(p \o <<>>).lines = h \o Cut(r \o <<>>).lines
    BY <2>1, <2>4, <2>4a, Zenon
  <2> QED BY <2>3, <2>5, <2>6
<1>2. ASSUME NEW t \in Seq(HelperBytes), NEW b \in HelperBytes, t \in P
      PROVE  Append(t, b) \in P
  <2>1. <<b>> \in Seq(HelperBytes) /\ Append(t, b) \in Seq(HelperBytes)
    OBVIOUS
  <2>2. p \o t \in Seq(HelperBytes) /\ r \o t \in Seq(HelperBytes)
    BY <1>0, ConcatProperties
  <2>3. p \o Append(t, b) = Append(p \o t, b)
    BY AppendBehind
  <2>4. r \o Append(t, b) = Append(r \o t, b)
    BY <1>0, AppendBehind, SMTT(30)
  <2> DEFINE a == Cut(p \o t)
             c == Cut(r \o t)
  <2>5. Cut(p \o Append(t, b)) = CutByte(a, b) /\ Cut(r \o Append(t, b)) = CutByte(c, b)
    BY <2>2, <2>3, <2>4, CutAppend
  <2>6. a \in Parts /\ c \in Parts /\ a.rest = c.rest /\ a.lines = h \o c.lines
    BY <2>2, <1>2, CutType
  <2> HIDE DEF a, c
  <2>7. CutByte(a, b).rest = CutByte(c, b).rest
    BY <2>6 DEF CutByte, Parts
  <2>8. CutByte(a, b).lines = h \o CutByte(c, b).lines
    <3>1. c.lines \in Seq(Words) /\ c.rest \in Words
      BY <2>6 DEF Parts
    <3>2. Append(h \o c.lines, c.rest) = h \o Append(c.lines, c.rest)
      <4> DEFINE k == h \o c.lines
                 w == c.rest
      <4>1. w \in Words /\ c.lines \in Seq(Words)
        BY <3>1
      <4>2. k \in Seq(Words)
        BY <4>1, <1>0, LinesBehind, Zenon
      <4>3. k \o <<w>> = h \o (c.lines \o <<w>>)
        BY <4>1, <1>0, LinesBehind, Zenon
      <4>4. Append(c.lines, w) = c.lines \o <<w>>
        BY <4>1, LinesBehind, ZenonT(60)
      <4> HIDE DEF k, w
      <4>5. Append(k, w) = k \o <<w>>
        BY <4>1, <4>2, LinesBehind, ZenonT(60)
      <4> HIDE DEF c
      <4>6. Append(k, w) = h \o Append(c.lines, w)
        BY <4>3, <4>4, <4>5
      <4> QED BY <4>6 DEF k, w
    <3>3. CASE b \notin Breaks
      BY <3>3, <2>6 DEF CutByte, Parts
    <3>4. CASE b \in Breaks /\ c.rest = <<>>
      BY <3>4, <2>6 DEF CutByte, Parts
    <3>5. CASE b \in Breaks /\ c.rest # <<>>
      BY <3>5, <3>2, <2>6 DEF CutByte
    <3> QED BY <3>3, <3>4, <3>5
  <2> QED BY <2>1, <2>5, <2>7, <2>8
<1>3. Seq(HelperBytes) \subseteq P
  <2> HIDE DEF P
  <2> QED BY <1>1, <1>2, OneMoreElement
<1>4. Same(q)
  <2> HIDE DEF Same
  <2> QED BY <1>3
<1>5. r \o q \in Seq(HelperBytes)
  BY <1>0, ConcatProperties
<1> QED BY <1>4, <1>5 DEF r, h

-----------------------------------------------------------------------------
(* Type correctness                                                        *)

\* What helpers write are bytes.
LEMMA BytesOfHelpers == HelperBytes \subseteq Bytes /\ Seq(HelperBytes) \subseteq Seq(Bytes)
BY SeqMonotonic DEF Bytes

\* Truncate keeps the log within its limit.
LEMMA TruncateType ==
  ASSUME NEW s \in Seq(Bytes)
  PROVE  Truncate(s) \in Seq(Bytes) /\ Len(Truncate(s)) <= MaxLog
<1>1. MaxLog \in Nat /\ Len(s) \in Nat
  BY BoundsAssumption
<1>2. CASE Len(s) > MaxLog
  <2> DEFINE m == Len(s) - MaxLog + 1
  <2>1. m \in Int /\ Len(s) \in Int /\ (m <= Len(s) => Len(s) - m + 1 = MaxLog) /\ 1 <= m
    BY <1>1, <1>2
  <2>2. \A i \in m .. Len(s) : s[i] \in Bytes
    BY <2>1
  <2> HIDE DEF m
  <2>3. /\ SubSeq(s, m, Len(s)) \in Seq(Bytes)
        /\ Len(SubSeq(s, m, Len(s))) = IF m <= Len(s) THEN Len(s) - m + 1 ELSE 0
    BY <2>1, <2>2, SubSeqProperties
  <2>4. Truncate(s) = SubSeq(s, m, Len(s))
    BY <1>2 DEF Truncate, m
  <2> QED BY <2>1, <2>3, <2>4, <1>1
<1>3. CASE ~ (Len(s) > MaxLog)
  BY <1>1, <1>3 DEF Truncate
<1> QED BY <1>2, <1>3

\* What AppendLog leaves behind
LEMMA AppendLogType ==
  ASSUME log \in Seq(Bytes), said \in Seq(Bytes), truncated \in BOOLEAN,
         NEW text \in Seq(Bytes), AppendLog(text)
  PROVE  /\ log' \in Seq(Bytes) /\ Len(log') <= MaxLog
         /\ said' \in Seq(Bytes) /\ pendingCR' \in BOOLEAN /\ truncated' \in BOOLEAN
<1>1. Clean(Draw(text)) \in Seq(Bytes)
  BY DrawType, CleanType
<1>2. /\ log' = Truncate(Clean(Draw(text))) /\ said' = said \o text
      /\ pendingCR' \in BOOLEAN /\ truncated' \in BOOLEAN
  BY DEF AppendLog
<1>3. said \o text \in Seq(Bytes)
  BY TextConcat
<1> QED BY <1>1, <1>2, <1>3, TruncateType

\* A chunk and what stays in the pipe
LEMMA ChunkType ==
  ASSUME pipe \in Seq(HelperBytes), pipe # <<>>,
         NEW n, n = Min({ChunkSize, Len(pipe)})
  PROVE  /\ n \in 1 .. Len(pipe)
         /\ SubSeq(pipe, 1, n) \in Seq(HelperBytes) /\ SubSeq(pipe, 1, n) # <<>>
         /\ SubSeq(pipe, n + 1, Len(pipe)) \in Seq(HelperBytes)
         /\ pipe = SubSeq(pipe, 1, n) \o SubSeq(pipe, n + 1, Len(pipe))
<1>1. ChunkSize \in Nat \ {0} /\ Len(pipe) \in Nat \ {0}
  BY BoundsAssumption, EmptySeq
<1>2. n \in 1 .. Len(pipe)
  <2>1. \E x \in {ChunkSize, Len(pipe)} : \A y \in {ChunkSize, Len(pipe)} : x <= y
    BY <1>1
  <2>2. n \in {ChunkSize, Len(pipe)} /\ \A y \in {ChunkSize, Len(pipe)} : n <= y
    BY <2>1 DEF Min
  <2> QED BY <1>1, <2>2
<1>3. \A i \in 1 .. Len(pipe) : pipe[i] \in HelperBytes
  OBVIOUS
<1>4. SubSeq(pipe, 1, n) \in Seq(HelperBytes) /\ Len(SubSeq(pipe, 1, n)) = n
  <2>1. \A i \in 1 .. n : pipe[i] \in HelperBytes
    BY <1>1, <1>2, <1>3
  <2>2. n \in Int /\ 1 \in Int /\ 1 <= n /\ n - 1 + 1 = n
    BY <1>2
  <2> QED BY <2>1, <2>2, SubSeqProperties, ZenonT(60)
<1>5. SubSeq(pipe, n + 1, Len(pipe)) \in Seq(HelperBytes)
  <2>1. \A i \in n + 1 .. Len(pipe) : pipe[i] \in HelperBytes
    BY <1>1, <1>2, <1>3
  <2>2. n + 1 \in Int /\ Len(pipe) \in Int
    BY <1>1, <1>2
  <2> QED BY <2>1, <2>2, SubSeqProperties
<1>6. pipe = SubSeq(pipe, 1, n) \o SubSeq(pipe, n + 1, Len(pipe))
  <2>1. n \in 0 .. Len(pipe)
    BY <1>1, <1>2
  <2> QED BY <2>1, Divided
<1>7. SubSeq(pipe, 1, n) # <<>>
  BY <1>2, <1>4
<1> QED BY <1>2, <1>4, <1>5, <1>6, <1>7

\* The lines of a text and the rest of it, added to those there were
LEMMA EmitLinesType ==
  ASSUME lines \in Seq(Words), pendingLine \in Words,
         NEW chunk \in Seq(HelperBytes), EmitLines(chunk)
  PROVE  lines' \in Seq(Words) /\ pendingLine' \in Words
<1> DEFINE c == Cut(pendingLine \o chunk)
<1>1. pendingLine \o chunk \in Seq(HelperBytes)
  <2>1. pendingLine \in Seq(HelperBytes)
    BY CutWord
  <2> QED BY <2>1, ConcatProperties
<1>2. c.lines \in Seq(Words) /\ c.rest \in Words
  BY <1>1, CutType DEF Parts
<1>3. lines' = lines \o c.lines /\ pendingLine' = c.rest
  BY DEF EmitLines
<1> HIDE DEF c
<1>4. lines \o c.lines \in Seq(Words)
  BY <1>2, LinesBehind, Zenon
<1> QED BY <1>2, <1>3, <1>4

\* The types hold initially, ...
LEMMA InitType == Init => TypeOK
<1> SUFFICES ASSUME Init PROVE TypeOK
  OBVIOUS
<1>1. \A S : <<>> \in Seq(S)
  BY EmptySeq
<1>2. Len(<<>>) <= MaxLog /\ 0 \in 0 .. MaxHelpers
  BY BoundsAssumption
<1> QED BY <1>1, <1>2 DEF Init, TypeOK

\* ... when the log is cleared, ...
LEMMA ClearType ==
  ClearLog => /\ log' \in Seq(Bytes) /\ Len(log') <= MaxLog
              /\ said' \in Seq(Bytes) /\ pendingCR' \in BOOLEAN /\ truncated' \in BOOLEAN
<1> SUFFICES ASSUME ClearLog
             PROVE  /\ log' \in Seq(Bytes) /\ Len(log') <= MaxLog
                    /\ said' \in Seq(Bytes) /\ pendingCR' \in BOOLEAN
                    /\ truncated' \in BOOLEAN
  OBVIOUS
<1>1. <<>> \in Seq(Bytes) /\ Len(<<>>) <= MaxLog
  BY BoundsAssumption, EmptySeq
<1> QED BY <1>1 DEF ClearLog

\* (the messages of the engine are texts)
LEMMA Messages ==
  /\ <<"note", CR, LF>> \in Seq(Bytes)
  /\ <<CR, LF, "error", CR, LF>> \in Seq(Bytes)
BY DEF Bytes, HelperBytes, EngineBytes, Breaks

\* ... and after every step.
LEMMA NextType == TypeOK /\ [Next]_vars => TypeOK'
<1> SUFFICES ASSUME TypeOK, [Next]_vars PROVE TypeOK'
  OBVIOUS
<1>0. /\ log \in Seq(Bytes) /\ said \in Seq(Bytes) /\ truncated \in BOOLEAN
      /\ pipe \in Seq(HelperBytes) /\ lines \in Seq(Words) /\ pendingLine \in Words
      /\ sent \in Seq(HelperBytes) /\ helpers \in 0 .. MaxHelpers
  BY DEF TypeOK, Words
<1>1. CASE StartHelper
  BY <1>1, BoundsAssumption DEF StartHelper, TypeOK, screen
<1>2. CASE HelperWrites
  <2>1. PICK b \in HelperBytes : pipe' = Append(pipe, b) /\ sent' = Append(sent, b)
    BY <1>2 DEF HelperWrites
  <2>2. pipe' \in Seq(HelperBytes) /\ sent' \in Seq(HelperBytes)
    BY <2>1, <1>0, AppendProperties
  <2> QED BY <1>2, <2>2 DEF HelperWrites, TypeOK, screen
<1>3. CASE HelperExits
  BY <1>3 DEF HelperExits, TypeOK, screen
<1>4. CASE ReadChunk
  <2> DEFINE n == Min({ChunkSize, Len(pipe)})
             chunk == SubSeq(pipe, 1, n)
  <2>1. /\ pipe # <<>> /\ pipe' = SubSeq(pipe, n + 1, Len(pipe))
        /\ AppendLog(chunk) /\ EmitLines(chunk)
        /\ UNCHANGED <<busy, stage, helpers, running, sent>>
    BY <1>4, Zenon DEF ReadChunk
  <2>2. chunk \in Seq(HelperBytes) /\ SubSeq(pipe, n + 1, Len(pipe)) \in Seq(HelperBytes)
    BY <2>1, <1>0, ChunkType
  <2> HIDE DEF n, chunk
  <2>3. lines' \in Seq(Words) /\ pendingLine' \in Words
    BY <1>0, <2>1, <2>2, EmitLinesType
  <2>4. chunk \in Seq(Bytes)
    BY <2>2, BytesOfHelpers
  <2>5. /\ log' \in Seq(Bytes) /\ Len(log') <= MaxLog
        /\ said' \in Seq(Bytes) /\ pendingCR' \in BOOLEAN /\ truncated' \in BOOLEAN
    BY <1>0, <2>1, <2>4, AppendLogType
  <2> QED BY <2>1, <2>2, <2>3, <2>5 DEF TypeOK, Words
<1>5. CASE EndOfOutput
  <2>1. lines' \in Seq(Words) /\ pendingLine' \in Words
    <3>1. <<>> \in Words /\ pendingLine' = <<>>
      BY <1>5 DEF EndOfOutput, Words
    <3> DEFINE W == Words
    <3>2. lines \in Seq(W) /\ pendingLine \in W
      BY <1>0
    <3> HIDE DEF W
    <3>3. Append(lines, pendingLine) \in Seq(W)
      BY <3>2, AppendProperties
    <3>4. lines' \in Seq(W)
      BY <1>5, <3>2, <3>3 DEF EndOfOutput
    <3> QED BY <3>1, <3>4 DEF W
  <2> QED BY <1>5, <2>1 DEF EndOfOutput, TypeOK, Words, screen
<1>6. CASE Note
  <2>1. /\ log' \in Seq(Bytes) /\ Len(log') <= MaxLog
        /\ said' \in Seq(Bytes) /\ pendingCR' \in BOOLEAN /\ truncated' \in BOOLEAN
    BY <1>0, <1>6, Messages, AppendLogType DEF Note
  <2> QED BY <1>6, <2>1 DEF Note, TypeOK, io
<1>7. CASE Fail
  <2>1. /\ log' \in Seq(Bytes) /\ Len(log') <= MaxLog
        /\ said' \in Seq(Bytes) /\ pendingCR' \in BOOLEAN /\ truncated' \in BOOLEAN
    BY <1>0, <1>7, Messages, AppendLogType DEF Fail
  <2> QED BY <1>7, <2>1 DEF Fail, TypeOK, io
<1>8. CASE Failed
  BY <1>8 DEF Failed, TypeOK, io, screen
<1>9. CASE Succeed
  BY <1>9 DEF Succeed, TypeOK, io, screen
<1>10. CASE Start
  <2>1. /\ log' \in Seq(Bytes) /\ Len(log') <= MaxLog
        /\ said' \in Seq(Bytes) /\ pendingCR' \in BOOLEAN /\ truncated' \in BOOLEAN
    BY <1>10, ClearType DEF Start
  <2> QED BY <1>10, <2>1, BoundsAssumption DEF Start, TypeOK, io
<1>11. CASE Reset
  <2>1. /\ log' \in Seq(Bytes) /\ Len(log') <= MaxLog
        /\ said' \in Seq(Bytes) /\ pendingCR' \in BOOLEAN /\ truncated' \in BOOLEAN
    BY <1>11, ClearType DEF Reset
  <2> QED BY <1>11, <2>1 DEF Reset, TypeOK, io
<1>12. CASE UNCHANGED vars
  BY <1>12 DEF vars, io, screen, TypeOK
<1> QED BY <1>1, <1>2, <1>3, <1>4, <1>5, <1>6, <1>7, <1>8, <1>9, <1>10, <1>11,
           <1>12 DEF Next, Worker

\* Every variable keeps its type, however the output is cut, and the log its
\* limit (AppendLog, kMaximumLogBytes).
THEOREM TypeCorrect == Spec => []TypeOK
<1>1. Init => TypeOK
  BY InitType
<1>2. TypeOK /\ [Next]_vars => TypeOK'
  BY NextType
<1> QED BY <1>1, <1>2, PTL DEF Spec

-----------------------------------------------------------------------------
(* Whole lines                                                             *)

\* All the lines of what a helper wrote
AllLines(text) ==
  IF Cut(text).rest = <<>> THEN Cut(text).lines
  ELSE Append(Cut(text).lines, Cut(text).rest)

\* While a helper runs, onLine has seen the lines of what was read, which with
\* the pipe is what was sent; before and after, all of them.
LinesInv ==
  /\ running => stage = "running"
  /\ busy <=> stage \in {"between", "running", "failing"}
  /\ stage = "running" =>
       \E read \in Seq(HelperBytes) :
         /\ sent = read \o pipe
         /\ lines = Cut(read).lines /\ pendingLine = Cut(read).rest
  /\ stage # "running" => pipe = <<>> /\ lines = AllLines(sent)

\* The invariant on lines holds initially, ...
LEMMA LinesInit == Init => LinesInv
<1> SUFFICES ASSUME Init PROVE LinesInv
  OBVIOUS
<1>1. AllLines(<<>>) = <<>>
  BY CutEmpty DEF AllLines, NoPart
<1> QED BY <1>1 DEF Init, LinesInv

\* ... after every step, ...
LEMMA LinesNext == TypeOK /\ LinesInv /\ [Next]_vars => LinesInv'
<1> SUFFICES ASSUME TypeOK, LinesInv, [Next]_vars PROVE LinesInv'
  OBVIOUS
<1>0. pipe \in Seq(HelperBytes) /\ sent \in Seq(HelperBytes)
  BY DEF TypeOK
<1>1. CASE StartHelper
  <2>1. stage' = "running" /\ sent' = <<>> /\ pipe' = <<>> /\ lines' = <<>> /\ pendingLine' = <<>>
    BY <1>1 DEF StartHelper
  <2>2. <<>> \in Seq(HelperBytes) /\ <<>> = <<>> \o <<>>
    BY EmptySeq, ConcatEmptySeq
  <2>3. Cut(<<>>).lines = <<>> /\ Cut(<<>>).rest = <<>>
    BY CutEmpty DEF NoPart
  <2>4. busy' <=> stage' \in {"between", "running", "failing"}
    BY <1>1 DEF StartHelper, LinesInv
  <2> QED BY <2>1, <2>2, <2>3, <2>4 DEF LinesInv
<1>2. CASE HelperWrites
  <2>1. PICK b \in HelperBytes : pipe' = Append(pipe, b) /\ sent' = Append(sent, b)
    BY <1>2 DEF HelperWrites
  <2>2. running /\ stage = "running" /\ UNCHANGED <<stage, running, lines, pendingLine>>
    BY <1>2 DEF HelperWrites, LinesInv
  <2>3. PICK read \in Seq(HelperBytes) :
          /\ sent = read \o pipe
          /\ lines = Cut(read).lines /\ pendingLine = Cut(read).rest
    BY <2>2 DEF LinesInv
  <2>4. sent' = read \o pipe'
    <3>1. <<b>> \in Seq(HelperBytes) /\ pipe' = pipe \o <<b>> /\ sent' = sent \o <<b>>
      BY <1>0, <2>1, AppendIsConcat
    <3>2. (read \o pipe) \o <<b>> = read \o (pipe \o <<b>>)
      BY <1>0, <3>1, ConcatAssociative, SMTT(30)
    <3> QED BY <2>3, <3>1, <3>2, Zenon
  <2>5. busy' <=> stage' \in {"between", "running", "failing"}
    BY <1>2 DEF HelperWrites, LinesInv
  <2> QED BY <2>2, <2>3, <2>4, <2>5 DEF LinesInv
<1>3. CASE HelperExits
  BY <1>3 DEF HelperExits, LinesInv
<1>4. CASE ReadChunk
  <2> DEFINE n == Min({ChunkSize, Len(pipe)})
             chunk == SubSeq(pipe, 1, n)
  <2>1. /\ stage = "running" /\ pipe # <<>> /\ pipe' = SubSeq(pipe, n + 1, Len(pipe))
        /\ EmitLines(chunk) /\ UNCHANGED <<stage, running, sent>>
    BY <1>4, Zenon DEF ReadChunk
  <2>2. chunk \in Seq(HelperBytes) /\ pipe' \in Seq(HelperBytes) /\ pipe = chunk \o pipe'
    BY <2>1, <1>0, ChunkType
  <2> HIDE DEF n, chunk
  <2>3. PICK read \in Seq(HelperBytes) :
          /\ sent = read \o pipe
          /\ lines = Cut(read).lines /\ pendingLine = Cut(read).rest
    BY <2>1 DEF LinesInv
  <2>4. read \o chunk \in Seq(HelperBytes) /\ sent = (read \o chunk) \o pipe'
    <3>1. (read \o chunk) \o pipe' = read \o (chunk \o pipe')
      BY <2>2, ConcatAssociative, SMTT(30)
    <3>2. read \o chunk \in Seq(HelperBytes)
      BY <2>2, ConcatProperties
    <3> QED BY <2>2, <2>3, <3>1, <3>2
  <2>5. /\ lines' = lines \o Cut(pendingLine \o chunk).lines
        /\ pendingLine' = Cut(pendingLine \o chunk).rest
    BY <2>1 DEF EmitLines
  <2>6. /\ Cut(read \o chunk).rest = pendingLine'
        /\ Cut(read \o chunk).lines = lines'
    BY <2>2, <2>3, <2>5, CutConcat
  <2>7. busy' <=> stage' \in {"between", "running", "failing"}
    BY <1>4 DEF ReadChunk, LinesInv
  <2> QED BY <2>1, <2>4, <2>6, <2>7 DEF LinesInv
<1>5. CASE EndOfOutput
  <2>1. /\ stage = "running" /\ pipe = <<>> /\ ~running
        /\ lines' = IF pendingLine = <<>> THEN lines ELSE Append(lines, pendingLine)
        /\ stage' = "between" /\ UNCHANGED <<running, pipe, sent>>
    BY <1>5 DEF EndOfOutput
  <2>2. PICK read \in Seq(HelperBytes) :
          /\ sent = read \o pipe
          /\ lines = Cut(read).lines /\ pendingLine = Cut(read).rest
    BY <2>1 DEF LinesInv
  <2>3. sent = read
    BY <2>1, <2>2, ConcatEmptySeq
  <2>4. lines' = AllLines(sent')
    BY <2>1, <2>2, <2>3 DEF AllLines
  <2>5. busy' <=> stage' \in {"between", "running", "failing"}
    BY <1>5 DEF EndOfOutput, LinesInv
  <2> QED BY <2>1, <2>4, <2>5 DEF LinesInv
<1>6. CASE Note
  BY <1>6 DEF Note, LinesInv, io
<1>7. CASE Fail
  BY <1>7 DEF Fail, LinesInv, io
<1>8. CASE Failed
  BY <1>8 DEF Failed, LinesInv, io
<1>9. CASE Succeed
  BY <1>9 DEF Succeed, LinesInv, io
<1>10. CASE Start
  BY <1>10 DEF Start, LinesInv, io
<1>11. CASE Reset
  BY <1>11 DEF Reset, LinesInv, io
<1>12. CASE UNCHANGED vars
  BY <1>12 DEF vars, io, LinesInv
<1> QED BY <1>1, <1>2, <1>3, <1>4, <1>5, <1>6, <1>7, <1>8, <1>9, <1>10, <1>11,
           <1>12 DEF Next, Worker

\* ... and is more than the property.
LEMMA LinesImplied == TypeOK /\ LinesInv => LinesAreWhole
<1> SUFFICES ASSUME TypeOK, LinesInv PROVE LinesAreWhole
  OBVIOUS
<1> DEFINE c == Cut(sent)
           all == IF c.rest = <<>> THEN c.lines ELSE Append(c.lines, c.rest)
<1>1. sent \in Seq(HelperBytes) /\ pipe \in Seq(HelperBytes) /\ lines \in Seq(Words)
  BY DEF TypeOK, Words
<1>2. c.lines \in Seq(Words) /\ c.rest \in Words
  BY <1>1, CutType DEF Parts
<1>3. all = AllLines(sent)
  BY DEF AllLines
<1>4. ASSUME NEW p \in Seq(Words), NEW q \in Seq(Words)
      PROVE  IsPrefix(p, p \o q) /\ p \o q \in Seq(Words) /\ Len(p) <= Len(p \o q)
  <2> DEFINE W == Words
  <2>1. p \in Seq(W) /\ q \in Seq(W)
    OBVIOUS
  <2> HIDE DEF W
  <2>2. IsPrefix(p, p \o q) /\ p \o q \in Seq(W)
    BY <2>1, PrefixOfConcat, ConcatProperties
  <2>3. Len(p \o q) = Len(p) + Len(q) /\ Len(p) \in Nat /\ Len(q) \in Nat
    BY <2>1, ConcatProperties
  <2> QED BY <2>2, <2>3 DEF W
<1>5. CASE stage = "running"
  <2>1. PICK read \in Seq(HelperBytes) :
          sent = read \o pipe /\ lines = Cut(read).lines
    BY <1>5 DEF LinesInv
  <2>2. c.lines = lines \o Cut(Cut(read).rest \o pipe).lines
    BY <1>1, <2>1, CutConcat
  <2> DEFINE more == Cut(Cut(read).rest \o pipe).lines
  <2>3. more \in Seq(Words)
    <3>1. Cut(read).rest \o pipe \in Seq(HelperBytes)
      BY <1>1, CutConcat
    <3> QED BY <3>1, CutType DEF Parts
  <2> HIDE DEF more
  <2>4. c.lines = lines \o more
    BY <2>2 DEF more
  <2>5. Len(lines) <= Len(c.lines) /\ IsPrefix(lines, c.lines)
    BY <1>1, <1>4, <2>3, <2>4
  <2>6. IsPrefix(lines, all)
    <3>1. CASE c.rest = <<>>
      BY <2>5, <3>1
    <3>2. CASE c.rest # <<>>
      <4> DEFINE w == c.rest
                 k == c.lines
      <4>1. all = Append(k, w)
        BY <3>2
      <4>2. w \in Words /\ k \in Seq(Words) /\ k = lines \o more
        BY <1>2, <2>4
      <4> HIDE DEF w, k
      <4>3. Append(k, w) = k \o <<w>>
        BY <4>2, LinesBehind, ZenonT(60)
      <4>4. (lines \o more) \o <<w>> = lines \o (more \o <<w>>)
        BY <1>1, <2>3, <4>2, LinesBehind, Zenon
      <4>5. more \o <<w>> \in Seq(Words)
        <5>1. <<w>> \in Seq(Words)
          BY <4>2
        <5> QED BY <2>3, <5>1, <1>4
      <4>6. IsPrefix(lines, lines \o (more \o <<w>>))
        BY <1>1, <1>4, <4>5
      <4> HIDE DEF all
      <4> QED BY <4>1, <4>2, <4>3, <4>4, <4>6
    <3> QED BY <3>1, <3>2
  <2> QED BY <1>5, <2>5, <2>6 DEF LinesAreWhole
<1>6. CASE stage # "running"
  <2>1. lines = all
    BY <1>3, <1>6 DEF LinesInv
  <2>2. lines \o <<>> = lines
    <3> DEFINE W == Words
    <3>1. lines \in Seq(W)
      BY <1>1
    <3> HIDE DEF W
    <3> QED BY <3>1, ConcatEmptySeq
  <2>3. <<>> \in Seq(Words)
    BY EmptySeq
  <2>4. IsPrefix(lines, lines)
    BY <1>1, <1>4, <2>2, <2>3
  <2> HIDE DEF all
  <2>5. IsPrefix(lines, all)
    BY <2>1, <2>4
  <2> QED BY <1>6, <2>1, <2>5 DEF LinesAreWhole, all
<1> QED BY <1>5, <1>6

\* The progress callback gets each line of a helper once, whole and in order,
\* however its output was cut into chunks (RunHiddenProcess, pendingLine).
THEOREM LinesWhole == Spec => []LinesAreWhole
<1>1. Init => TypeOK /\ LinesInv
  BY InitType, LinesInit
<1>2. TypeOK /\ LinesInv /\ [Next]_vars => (TypeOK /\ LinesInv)'
  BY NextType, LinesNext
<1>3. TypeOK /\ LinesInv => LinesAreWhole
  BY LinesImplied
<1> QED BY <1>1, <1>2, <1>3, PTL DEF Spec

-----------------------------------------------------------------------------
(* The end of a failed job                                                 *)

\* Truncate takes from the beginning: an end that is not too long stays.
CutFrom(c, t) ==
  \E p, q \in Seq(Bytes) :
    /\ c = p \o q /\ Truncate(c \o t) = q \o t
    /\ Len(c \o t) <= MaxLog => p = <<>>

\* The end of a text that fits is kept.
LEMMA TruncateKeeps ==
  ASSUME NEW c \in Seq(Bytes), NEW t \in Seq(Bytes), Len(t) <= MaxLog
  PROVE  CutFrom(c, t)
<1> DEFINE s == c \o t
           k == Len(s) - MaxLog
<1>1. /\ Len(s) = Len(c) + Len(t) /\ MaxLog \in Nat /\ Len(c) \in Nat
      /\ Len(t) \in Nat
  BY BoundsAssumption, TextConcat
<1>2. CASE Len(s) > MaxLog
  <2>1. k \in 0 .. Len(c) /\ Len(s) - MaxLog + 1 = k + 1 /\ ~ (Len(s) <= MaxLog)
    BY <1>1, <1>2
  <2>2. Truncate(s) = SubSeq(s, k + 1, Len(s))
    BY <1>2, <2>1 DEF Truncate
  <2> HIDE DEF k
  <2>3. \E p, q \in Seq(Bytes) :
          c = p \o q /\ SubSeq(c \o t, k + 1, Len(c \o t)) = q \o t
    <3>1. EndKept(Bytes, c, t, k)
      BY <2>1, EndIsKept
    <3> QED BY <3>1, Zenon DEF EndKept
  <2> QED BY <2>1, <2>2, <2>3 DEF CutFrom
<1>3. CASE ~ (Len(s) > MaxLog)
  <2>1. Truncate(s) = s
    BY <1>3 DEF Truncate
  <2>2. c = <<>> \o c /\ <<>> \in Seq(Bytes)
    BY EmptySeq, ConcatEmptySeq
  <2> QED BY <2>1, <2>2 DEF CutFrom
<1> QED BY <1>2, <1>3

\* SetFailure writes on a line of its own, whatever the line before it was.
LEMMA FailureDrawn ==
  ASSUME log \in Seq(Bytes)
  PROVE  \E z \in Closed :
           Draw(<<CR, LF, "error", CR, LF>>) = z \o <<"error", LF>>
<1> DEFINE text == <<CR, LF, "error", CR, LF>>
<1>1. /\ text \in Seq(Bytes) /\ Len(text) = 5
      /\ text[1] = CR /\ text[2] = LF /\ text[3] = "error"
      /\ text[4] = CR /\ text[5] = LF
  BY Messages
<1> HIDE DEF text
<1>2. PICK d \in [0 .. 5 -> Seq(Bytes)] :
        /\ d[0] = Resume(text)
        /\ \A k \in 1 .. 5 : d[k] = Put(d[k - 1], text, k)
        /\ Draw(text) = d[5]
  BY <1>1, DrawGoesThrough
<1>3. d[0] \in Seq(Bytes)
  BY <1>2
<1>4. d[1] = d[0]
  <2>1. d[1] = Put(d[0], text, 1)
    BY <1>2
  <2> QED BY <1>1, <2>1 DEF Put
<1>5. d[2] = Append(d[0], LF)
  <2>1. d[2] = Put(d[1], text, 2)
    BY <1>2
  <2> QED BY <1>1, <1>4, <2>1, BytesApart DEF Put
<1>6. d[3] = Append(d[2], "error")
  <2>1. d[3] = Put(d[2], text, 3)
    BY <1>2
  <2> QED BY <1>1, <2>1, BytesApart DEF Put
<1>7. d[4] = d[3]
  <2>1. d[4] = Put(d[3], text, 4)
    BY <1>2
  <2> QED BY <1>1, <2>1 DEF Put
<1>8. d[5] = Append(d[3], LF)
  <2>1. d[5] = Put(d[4], text, 5)
    BY <1>2
  <2> QED BY <1>1, <1>7, <2>1, BytesApart DEF Put
<1> DEFINE z == d[0] \o <<LF>>
<1>9. d[2] = z /\ z \in Closed
  BY <1>3, <1>5, BytesApart, AppendIsConcat, ClosedByBreak
<1>10. d[5] = z \o <<"error", LF>>
  <2> HIDE DEF z
  <2>0. z \in Seq(Bytes) /\ <<"error">> \in Seq(Bytes) /\ <<LF>> \in Seq(Bytes)
    BY <1>9, BytesApart DEF Closed
  <2>1. d[3] = z \o <<"error">>
    BY <1>6, <1>9, <2>0, BytesApart, AppendIsConcat
  <2>2. d[3] \in Seq(Bytes)
    BY <1>2
  <2>3. d[5] = d[3] \o <<LF>>
    BY <1>8, <2>2, BytesApart, AppendIsConcat
  <2> DEFINE e == <<"error">>
             l == <<LF>>
  <2>4. z \in Seq(Bytes) /\ e \in Seq(Bytes) /\ l \in Seq(Bytes)
    BY <2>0
  <2>7. d[5] = (z \o e) \o l
    BY <2>1, <2>3
  <2>5. e \o l = <<"error", LF>>
    BY BytesApart, Pair
  <2> HIDE DEF e, l
  <2>6. (z \o e) \o l = z \o (e \o l)
    BY <2>4, TextAssociative, ZenonT(60)
  <2> QED BY <2>5, <2>6, <2>7
<1> QED BY <1>2, <1>9, <1>10 DEF text

\* From SetFailure on the log ends with its message.
ErrorInv ==
  stage \in {"failing", "failed"} =>
    \E c \in Seq(Bytes) : log = c \o <<"error", LF>>

\* Nothing is written behind that message before the next job clears the log.
LEMMA ErrorNext == TypeOK /\ LinesInv /\ ErrorInv /\ [Next]_vars => ErrorInv'
<1> SUFFICES ASSUME TypeOK, LinesInv, ErrorInv, [Next]_vars PROVE ErrorInv'
  OBVIOUS
<1>1. CASE StartHelper
  BY <1>1 DEF StartHelper, ErrorInv
<1>2. CASE HelperWrites
  BY <1>2 DEF HelperWrites, ErrorInv, screen
<1>3. CASE HelperExits
  BY <1>3 DEF HelperExits, ErrorInv, screen
<1>4. CASE ReadChunk
  BY <1>4 DEF ReadChunk, ErrorInv
<1>5. CASE EndOfOutput
  BY <1>5 DEF EndOfOutput, ErrorInv
<1>6. CASE Note
  BY <1>6 DEF Note, ErrorInv
<1>7. CASE Fail
  <2> DEFINE text == <<CR, LF, "error", CR, LF>>
             tail == <<"error", LF>>
  <2>1. log' = Truncate(Clean(Draw(text)))
    BY <1>7 DEF Fail, AppendLog
  <2>2. PICK z \in Closed : Draw(text) = z \o tail
    BY FailureDrawn DEF TypeOK
  <2>3. tail \in Seq(Bytes) /\ Clean(tail) = tail /\ Len(tail) <= MaxLog
    <3>1. tail \in Seq(Bytes \ Dirt)
      BY BytesApart
    <3>2. Len(tail) = 2 /\ 2 <= MaxLog
      BY BoundsAssumption
    <3> HIDE DEF tail
    <3>3. tail \in Seq(Bytes) /\ Clean(tail) = tail
      BY <3>1, CleanTidy
    <3> QED BY <3>2, <3>3
  <2>4. z \in Seq(Bytes) /\ Clean(z) \in Seq(Bytes)
    BY CleanType DEF Closed
  <2> HIDE DEF text, tail
  <2>5. Clean(Draw(text)) = Clean(z) \o tail
    BY <2>2, <2>3, CleanSplit
  <2>6. \E p, q \in Seq(Bytes) : Truncate(Clean(z) \o tail) = q \o tail
    <3>1. CutFrom(Clean(z), tail)
      BY <2>3, <2>4, TruncateKeeps
    <3> QED BY <3>1, Zenon DEF CutFrom
  <2>7. \E q \in Seq(Bytes) : log' = q \o tail
    BY <2>1, <2>5, <2>6
  <2> QED BY <2>7 DEF ErrorInv, tail
<1>8. CASE Failed
  BY <1>8 DEF Failed, ErrorInv, screen
<1>9. CASE Succeed
  BY <1>9 DEF Succeed, ErrorInv
<1>10. CASE Start
  BY <1>10 DEF Start, ErrorInv
<1>11. CASE Reset
  BY <1>11 DEF Reset, ErrorInv
<1>12. CASE UNCHANGED vars
  BY <1>12 DEF vars, screen, ErrorInv
<1> QED BY <1>1, <1>2, <1>3, <1>4, <1>5, <1>6, <1>7, <1>8, <1>9, <1>10, <1>11,
           <1>12 DEF Next, Worker

\* When a job has failed, the last line of the log says why: neither an
\* unfinished line of a helper nor a CR it left behind, neither noise nor the
\* limit of the log takes it away (SetFailure, AppendLog).
THEOREM ErrorShown == Spec => []ErrorIsShown
<1>1. Init => TypeOK /\ LinesInv /\ ErrorInv
  BY InitType, LinesInit DEF Init, ErrorInv
<1>2. TypeOK /\ LinesInv /\ ErrorInv /\ [Next]_vars => (TypeOK /\ LinesInv /\ ErrorInv)'
  BY NextType, LinesNext, ErrorNext
<1>3. ErrorInv => ErrorIsShown
  <2>1. <<"error", LF>> \in Seq(Bytes)
    BY BytesApart
  <2> QED BY <2>1, SuffixOfConcat DEF ErrorInv, ErrorIsShown
<1> QED BY <1>1, <1>2, <1>3, PTL DEF Spec

-----------------------------------------------------------------------------
(* The log is what a terminal shows                                        *)

\* No line is too long for the log: what lies between two breaks is never more
\* than a line of a helper and a message behind it, ...
ShortLines(s) ==
  \A i, j \in 1 .. Len(s) :
    i <= j /\ (\A k \in i .. j : s[k] \notin Breaks) => j - i <= MaxLine

\* ... and the line that may yet go on is a line of a helper.
ShortLastLine(s) ==
  \A i \in 1 .. Len(s) :
    (\A k \in i .. Len(s) : s[k] \notin Breaks) => Len(s) - i < MaxLine

\* One more byte
LEMMA ShortAppend ==
  ASSUME NEW s \in Seq(Bytes), NEW b \in Bytes, ShortLines(s),
         ShortLastLine(s) \/ b \in Breaks
  PROVE  /\ s \o <<b>> \in Seq(Bytes) /\ ShortLines(s \o <<b>>)
         /\ b \in Breaks => ShortLastLine(s \o <<b>>)
<1> DEFINE n == Len(s)
           r == s \o <<b>>
<1>1. /\ r \in Seq(Bytes) /\ Len(r) = n + 1 /\ n \in Nat
      /\ (\A i \in 1 .. n : r[i] = s[i]) /\ r[n + 1] = b
  BY AppendProperties, AppendIsConcat
<1>2. MaxLine \in Nat
  BY BoundsAssumption
<1> HIDE DEF r
<1>3. ShortLines(r)
  <2> SUFFICES ASSUME NEW i \in 1 .. n + 1, NEW j \in 1 .. n + 1, i <= j,
                      \A k \in i .. j : r[k] \notin Breaks
               PROVE  j - i <= MaxLine
    BY <1>1 DEF ShortLines
  <2>1. CASE j \in 1 .. n
    <3>1. i \in 1 .. n /\ \A k \in i .. j : k \in 1 .. n /\ s[k] \notin Breaks
      BY <1>1, <2>1
    <3> QED BY <2>1, <3>1 DEF ShortLines
  <2>2. CASE j = n + 1
    <3>1. b \notin Breaks
      BY <1>1, <2>2
    <3>2. CASE i = j
      BY <1>2, <3>2
    <3>3. CASE i # j
      <4>1. i \in 1 .. n /\ \A k \in i .. n : k \in 1 .. n /\ s[k] \notin Breaks
        BY <1>1, <2>2, <3>3
      <4>2. n - i < MaxLine
        BY <3>1, <4>1 DEF ShortLastLine
      <4> QED BY <1>1, <1>2, <2>2, <4>2
    <3> QED BY <3>2, <3>3
  <2> QED BY <1>1, <2>1, <2>2
<1>4. ASSUME b \in Breaks PROVE ShortLastLine(r)
  <2> SUFFICES ASSUME NEW i \in 1 .. n + 1, \A k \in i .. n + 1 : r[k] \notin Breaks
               PROVE  FALSE
    BY <1>1 DEF ShortLastLine
  <2> QED BY <1>1, <1>4
<1> QED BY <1>1, <1>3, <1>4 DEF r

\* Part of a text has no longer lines.
LEMMA ShortPart ==
  ASSUME NEW s \in Seq(Bytes), NEW t \in Seq(Bytes), ShortLines(s \o t)
  PROVE  ShortLines(s)
<1>1. /\ Len(s \o t) = Len(s) + Len(t) /\ Len(s) \in Nat /\ Len(t) \in Nat
      /\ \A i \in 1 .. Len(s) : (s \o t)[i] = s[i]
  BY ConcatProperties
<1> DEFINE r == s \o t
<1> HIDE DEF r
<1>2. SUFFICES ASSUME NEW i \in 1 .. Len(s), NEW j \in 1 .. Len(s), i <= j,
                      \A k \in i .. j : s[k] \notin Breaks
               PROVE  j - i <= MaxLine
  BY DEF ShortLines
<1>3. i \in 1 .. Len(r) /\ j \in 1 .. Len(r)
  BY <1>1 DEF r
<1>4. \A k \in i .. j : r[k] \notin Breaks
  BY <1>1, <1>2 DEF r
<1> QED BY <1>2, <1>3, <1>4 DEF ShortLines, r

\* What a helper may write keeps its lines short.
LEMMA ShortWritten ==
  ASSUME NEW s \in Seq(Bytes), NEW b \in Bytes, ShortLines(s), ShortLastLine(s),
         b \notin Breaks => LineLength(s) < MaxLine
  PROVE  ShortLines(s \o <<b>>) /\ ShortLastLine(s \o <<b>>)
<1> DEFINE n == Len(s)
           r == s \o <<b>>
           ends == {0} \union {i \in DOMAIN s : s[i] \in Breaks}
<1>1. /\ r \in Seq(Bytes) /\ Len(r) = n + 1 /\ n \in Nat
      /\ (\A i \in 1 .. n : r[i] = s[i]) /\ r[n + 1] = b
  BY AppendProperties, AppendIsConcat
<1>2. ShortLines(r) /\ (b \in Breaks => ShortLastLine(r))
  BY ShortAppend
<1> HIDE DEF r
<1>3. ASSUME b \notin Breaks PROVE ShortLastLine(r)
  <2>1. n - Max(ends) < MaxLine
    BY <1>3 DEF LineLength
  <2>2. ends \subseteq 0 .. n /\ 0 \in ends
    BY <1>1
  <2>3. DOMAIN s = 1 .. n
    BY <1>1
  <2>4. \A k \in ends : k = 0 \/ s[k] \in Breaks
    OBVIOUS
  <2> HIDE DEF ends
  <2>5. Max(ends) \in ends /\ \A k \in ends : k <= Max(ends)
    BY <1>1, <2>2, LargestNumber
  <2> SUFFICES ASSUME NEW i \in 1 .. n + 1, \A k \in i .. n + 1 : r[k] \notin Breaks
               PROVE  n + 1 - i < MaxLine
    BY <1>1 DEF ShortLastLine
  <2>6. Max(ends) \in 0 .. n
    BY <2>2, <2>5
  <2>7. Max(ends) < i
    <3> SUFFICES ASSUME ~ (Max(ends) < i) PROVE FALSE
      OBVIOUS
    <3>1. Max(ends) \in i .. n + 1 /\ Max(ends) \in 1 .. n
      BY <1>1, <2>6
    <3> QED BY <1>1, <2>4, <2>5, <3>1
  <2> QED BY <1>1, <2>1, <2>6, <2>7, BoundsAssumption
<1> QED BY <1>2, <1>3 DEF r

\* How long the last, unfinished line is
Rest(s) == Len(s) - Len(EraseLine(s))

\* It is what follows the whole lines.
LEMMA RestOf ==
  ASSUME NEW a \in Closed, NEW u \in Open
  PROVE  Rest(a \o u) = Len(u)
<1>1. a \in Seq(Bytes) /\ u \in Seq(Bytes)
  BY OpenIsText DEF Closed
<1>2. Len(a \o u) = Len(a) + Len(u) /\ Len(a) \in Nat /\ Len(u) \in Nat
  BY <1>1, ConcatProperties
<1>3. EraseLine(a \o u) = a
  BY EraseRest
<1> DEFINE s == a \o u
<1> HIDE DEF s
<1>4. Rest(s) = Len(s) - Len(EraseLine(s))
  BY DEF Rest
<1> QED BY <1>2, <1>3, <1>4 DEF s

\* The last e bytes of a text that are not a CR that waits, and that the line
\* which a terminal leaves unfinished comes from
Behind(s) == IF s # <<>> /\ s[Len(s)] = CR THEN Len(s) - 1 ELSE Len(s)

FromOneLine(s) ==
  \E i \in 1 .. Behind(s) + 1 :
    /\ \A k \in i .. Behind(s) : s[k] \notin Breaks
    /\ Rest(Terminal(s)) <= Behind(s) + 1 - i

\* A terminal that leaves a line unfinished has been given it in one piece.
LEMMA RestComesFromOneLine ==
  ASSUME NEW s \in Seq(Bytes)
  PROVE  FromOneLine(s)
<1> DEFINE P == {t \in Seq(Bytes) : FromOneLine(t)}
<1>1. <<>> \in P
  <2>1. Rest(<<>>) = 0
    <3>1. <<>> \o <<>> = <<>> /\ Len(<<>>) = 0
      BY EmptySeq, ConcatEmptySeq
    <3> QED BY <3>1, OpenIsText, RestOf
  <2>2. Behind(<<>>) = 0
    BY DEF Behind
  <2>3. 1 \in 1 .. 0 + 1 /\ \A k \in 1 .. 0 : FALSE
    OBVIOUS
  <2>4. Rest(Terminal(<<>>)) = 0
    BY <2>1, TerminalEmpty
  <2>5. FromOneLine(<<>>)
    BY <2>2, <2>3, <2>4 DEF FromOneLine
  <2> QED BY <2>5, EmptySeq
<1>2. ASSUME NEW t \in Seq(Bytes), NEW x \in Bytes, t \in P PROVE Append(t, x) \in P
  <2> DEFINE r == t \o <<x>>
             n == Len(t)
             waits == t # <<>> /\ t[n] = CR
  <2>1. /\ r \in Seq(Bytes) /\ Len(r) = n + 1 /\ n \in Nat
        /\ (\A i \in 1 .. n : r[i] = t[i]) /\ r[n + 1] = x
        /\ Append(t, x) = r
    BY AppendProperties, AppendIsConcat
  <2>2. Terminal(r) = (IF waits /\ x # LF THEN EraseLine(Terminal(t)) ELSE Terminal(t))
                        \o (IF x = CR THEN <<>> ELSE <<x>>)
    BY TerminalStep
  <2> DEFINE e == EraseLine(Terminal(t))
  <2>3. /\ Terminal(t) \in Seq(Bytes) /\ e \in Closed /\ e \in Seq(Bytes)
        /\ \E v \in Open : Terminal(t) = e \o v
    BY TerminalType, LineSplit DEF Closed
  <2>4. PICK v \in Open : Terminal(t) = e \o v
    BY <2>3
  <2> HIDE DEF e, r
  <2>5. v \in Seq(Bytes) /\ Len(v) \in Nat /\ Rest(Terminal(t)) = Len(v)
    BY <2>3, <2>4, RestOf, OpenIsText
  <2>6. PICK i \in 1 .. Behind(t) + 1 :
          /\ \A k \in i .. Behind(t) : t[k] \notin Breaks
          /\ Len(v) <= Behind(t) + 1 - i
    BY <1>2, <2>5 DEF FromOneLine
  <2>7. r # <<>> /\ CR # LF
    BY <2>1, BytesApart, EmptySeq
  <2>8. CASE x = CR
    <3>1. Behind(r) = n
      BY <2>1, <2>7, <2>8 DEF Behind
    <3>2. CASE waits
      <4>1. Terminal(r) = e \o <<>>
        BY <2>2, <2>7, <2>8, <3>2 DEF e
      <4>2. Rest(Terminal(r)) = 0
        BY <2>3, <4>1, OpenIsText, RestOf, EmptySeq
      <4>3. n + 1 \in 1 .. n + 1 /\ \A k \in n + 1 .. n : FALSE
        BY <2>1
      <4>4. FromOneLine(r)
        BY <2>1, <3>1, <4>2, <4>3, SMTT(30) DEF FromOneLine
      <4> QED BY <2>1, <4>4
    <3>3. CASE ~ waits
      <4>1. Behind(t) = n
        BY <3>3 DEF Behind
      <4>2. Terminal(r) = Terminal(t)
        BY <2>2, <2>3, <2>8, <3>3, ConcatEmptySeq
      <4>3. \A k \in i .. n : r[k] \notin Breaks
        BY <2>1, <2>6, <4>1
      <4>4. FromOneLine(r)
        BY <2>1, <2>5, <2>6, <3>1, <4>1, <4>2, <4>3 DEF FromOneLine
      <4> QED BY <2>1, <4>4
    <3> QED BY <3>2, <3>3
  <2>9. CASE x = LF
    <3>1. Behind(r) = n + 1
      BY <2>1, <2>7, <2>9 DEF Behind
    <3>2. Terminal(r) = Terminal(t) \o <<LF>>
      BY <2>2, <2>7, <2>9
    <3>3. Terminal(r) \in Closed /\ Terminal(r) \in Seq(Bytes)
      BY <2>3, <3>2, ClosedByBreak DEF Closed
    <3>4. Terminal(r) = Terminal(r) \o <<>>
      BY <3>3, ConcatEmptySeq
    <3>5. Rest(Terminal(r)) = 0
      <4> DEFINE z == Terminal(r)
      <4> HIDE DEF z
      <4>1. Rest(z \o <<>>) = 0
        BY <3>3, OpenIsText, RestOf, EmptySeq DEF z
      <4> QED BY <3>4, <4>1 DEF z
    <3>6. n + 2 \in 1 .. n + 1 + 1 /\ \A k \in n + 2 .. n + 1 : FALSE
      BY <2>1
    <3>7. FromOneLine(r)
      BY <2>1, <3>1, <3>5, <3>6 DEF FromOneLine
    <3> QED BY <2>1, <3>7
  <2>10. CASE x # CR /\ x # LF
    <3>1. Behind(r) = n + 1 /\ x \notin Breaks
      BY <2>1, <2>10 DEF Behind, Breaks
    <3>0. <<x>> \in Open /\ <<x>> \in Seq(Bytes) /\ Len(<<x>>) = 1
      BY <2>10 DEF Open
    <3>2. CASE waits
      <4>1. Terminal(r) = e \o <<x>>
        BY <2>2, <2>10, <3>2 DEF e
      <4>2. Rest(Terminal(r)) = 1
        BY <2>3, <3>0, <4>1, RestOf
      <4>3. n + 1 \in 1 .. n + 1 + 1 /\ \A k \in n + 1 .. n + 1 : r[k] \notin Breaks
        BY <2>1, <3>1
      <4>4. FromOneLine(r)
        BY <2>1, <3>1, <4>2, <4>3 DEF FromOneLine
      <4> QED BY <2>1, <4>4
    <3>3. CASE ~ waits
      <4>1. Behind(t) = n
        BY <3>3 DEF Behind
      <4>2. Terminal(r) = (e \o v) \o <<x>>
        BY <2>2, <2>4, <2>10, <3>3
      <4>3. (e \o v) \o <<x>> = e \o (v \o <<x>>)
        BY <2>3, <2>5, <3>0, TextAssociative, ZenonT(60)
      <4>4. v \o <<x>> \in Open /\ Len(v \o <<x>>) = Len(v) + 1
        BY <2>5, <3>0, OpenConcat, ConcatProperties
      <4>5. Rest(Terminal(r)) = Len(v) + 1
        <5> DEFINE z == v \o <<x>>
        <5>1. Rest(e \o z) = Len(z)
          BY <2>3, <4>4, RestOf
        <5>2. Terminal(r) = e \o z /\ Len(z) = Len(v) + 1
          BY <4>2, <4>3, <4>4
        <5> HIDE DEF z
        <5> QED BY <5>1, <5>2
      <4>6. \A k \in i .. n + 1 : r[k] \notin Breaks
        BY <2>1, <2>6, <3>1, <4>1
      <4>7. i \in 1 .. n + 2 /\ Len(v) <= n + 1 - i
        BY <2>1, <2>6, <4>1
      <4>8. i \in 1 .. Behind(r) + 1 /\ Rest(Terminal(r)) <= Behind(r) + 1 - i
        BY <2>1, <2>5, <3>1, <4>5, <4>7
      <4>9. FromOneLine(r)
        BY <3>1, <4>6, <4>8 DEF FromOneLine
      <4> QED BY <2>1, <4>9
    <3> QED BY <3>2, <3>3
  <2> QED BY <2>8, <2>9, <2>10
<1>3. Seq(Bytes) \subseteq P
  <2> HIDE DEF P
  <2> QED BY <1>1, <1>2, OneMoreElement
<1> QED BY <1>3

\* So the line that a terminal leaves unfinished fits into the log.
LEMMA RestIsShort ==
  ASSUME NEW s \in Seq(Bytes), ShortLines(s)
  PROVE  Rest(Terminal(s)) <= MaxLog
<1>1. PICK i \in 1 .. Behind(s) + 1 :
        /\ \A k \in i .. Behind(s) : s[k] \notin Breaks
        /\ Rest(Terminal(s)) <= Behind(s) + 1 - i
  BY RestComesFromOneLine DEF FromOneLine
<1>2. Behind(s) \in Int /\ Behind(s) <= Len(s) /\ Len(s) \in Nat /\ MaxLine < MaxLog
      /\ MaxLine \in Nat /\ MaxLog \in Nat
  BY BoundsAssumption DEF Behind
<1>3. Rest(Terminal(s)) \in Int
  <2>1. Terminal(s) \in Seq(Bytes) /\ EraseLine(Terminal(s)) \in Seq(Bytes)
    BY TerminalType, LineSplit DEF Closed
  <2> QED BY <2>1 DEF Rest
<1>4. CASE i <= Behind(s)
  <2>1. i \in 1 .. Len(s) /\ Behind(s) \in 1 .. Len(s)
    BY <1>2, <1>4
  <2>2. Behind(s) - i <= MaxLine
    BY <1>1, <1>4, <2>1 DEF ShortLines
  <2> QED BY <1>1, <1>2, <1>3, <2>2
<1>5. CASE ~ (i <= Behind(s))
  BY <1>1, <1>2, <1>3, <1>5
<1> QED BY <1>4, <1>5

\* What the log, x, is to what a terminal shows, y: it ends with the same
\* unfinished line without its backspaces; and its finished lines are the last
\* of the clean ones there, all of them unless some were lost.
Matches(x, y, lost) ==
  \E a, b \in Closed : \E v \in Open :
    /\ x = a \o Clean(v) /\ y = b \o v
    /\ \E c \in Seq(Bytes) : Clean(b) = c \o a /\ (~lost => c = <<>>)

\* A clean line that is cleaned again stays as it is.
LEMMA MatchesAlike ==
  ASSUME NEW x, NEW y, NEW lost, Matches(x, y, lost)
  PROVE  Alike(x, y, lost)
<1>1. PICK a \in Closed, b \in Closed, v \in Open :
        /\ x = a \o Clean(v) /\ y = b \o v
        /\ \E c \in Seq(Bytes) : Clean(b) = c \o a /\ (~lost => c = <<>>)
  BY DEF Matches
<1>2. PICK c \in Seq(Bytes) : Clean(b) = c \o a /\ (~lost => c = <<>>)
  BY <1>1
<1>3. a \in Seq(Bytes) /\ Clean(b) \in Seq(Bytes \ Dirt)
  BY CleanClosed DEF Closed
<1>4. a \in Seq(Bytes \ Dirt)
  <2>1. /\ Len(c \o a) = Len(c) + Len(a) /\ Len(c) \in Nat /\ Len(a) \in Nat
        /\ \A i \in 1 .. Len(a) : (c \o a)[Len(c) + i] = a[i]
    BY <1>3, ConcatProperties
  <2> DEFINE z == c \o a
  <2>2. z \in Seq(Bytes \ Dirt) /\ Len(z) = Len(c) + Len(a)
    BY <1>2, <1>3, <2>1
  <2>3. \A i \in 1 .. Len(a) : z[Len(c) + i] = a[i]
    BY <2>1
  <2> HIDE DEF z
  <2>4. \A i \in 1 .. Len(a) : a[i] \in Bytes \ Dirt
    BY <2>1, <2>2, <2>3
  <2> QED BY <1>3, <2>4
<1>5. Clean(a) = a
  BY <1>4, CleanTidy
<1>6. Clean(v) \in Open /\ Clean(Clean(v)) = Clean(v)
  BY CleanOpenType, CleanTwice
<1>7. Clean(b) = c \o Clean(a) /\ (~lost => c = <<>>)
  BY <1>2, <1>5
<1> DEFINE u == Clean(v)
<1>8. u \in Open /\ Clean(u) = Clean(v) /\ x = a \o u
  BY <1>1, <1>6
<1> HIDE DEF u
<1> QED BY <1>1, <1>7, <1>8, Zenon DEF Alike

\* What is drawn is cleaned and cut to the limit.  The unfinished line is never
\* cut, so that what comes later still finds its beginning.
LEMMA AlikeMatches ==
  ASSUME NEW x, NEW y, NEW lost, Alike(x, y, lost), Rest(y) <= MaxLog
  PROVE  Matches(Truncate(Clean(x)), y, lost \/ Len(Clean(x)) > MaxLog)
<1> DEFINE s == Clean(x)
           more == lost \/ Len(s) > MaxLog
<1>1. PICK a \in Closed, b \in Closed, u \in Open, v \in Open :
        /\ x = a \o u /\ y = b \o v
        /\ Clean(u) = Clean(v)
        /\ \E c \in Seq(Bytes) : Clean(b) = c \o Clean(a) /\ (~lost => c = <<>>)
  BY DEF Alike
<1>2. PICK c \in Seq(Bytes) : Clean(b) = c \o Clean(a) /\ (~lost => c = <<>>)
  BY <1>1
<1> DEFINE w == Clean(v)
           f == Clean(a)
<1>3. /\ u \in Seq(Bytes) /\ v \in Seq(Bytes) /\ a \in Seq(Bytes)
      /\ f \in Closed /\ f \in Seq(Bytes) /\ w \in Open /\ w \in Seq(Bytes)
      /\ Len(w) <= Len(v) /\ Len(w) \in Nat /\ Len(v) \in Nat
  BY OpenIsText, CleanClosed, CleanOpenType DEF Closed
<1>4. Rest(y) = Len(v)
  BY <1>1, RestOf
<1>5. s = f \o w
  BY <1>1, <1>3, CleanSplit
<1>6. Len(w) <= MaxLog
  BY <1>3, <1>4, BoundsAssumption
<1> HIDE DEF w, f, s
<1>7. PICK p, q \in Seq(Bytes) :
        /\ f = p \o q /\ Truncate(f \o w) = q \o w
        /\ Len(f \o w) <= MaxLog => p = <<>>
  <2>1. CutFrom(f, w)
    BY <1>3, <1>6, TruncateKeeps
  <2> QED BY <2>1, Zenon DEF CutFrom
<1>8. q \in Closed
  <2>1. /\ Len(p \o q) = Len(p) + Len(q) /\ Len(p) \in Nat /\ Len(q) \in Nat
        /\ q # <<>> => Len(q) \in 1 .. Len(q) /\ (p \o q)[Len(p) + Len(q)] = q[Len(q)]
    BY ConcatProperties, EmptySeq
  <2>2. f # <<>> => f[Len(f)] = LF
    BY <1>3 DEF Closed
  <2>3. q # <<>> => Len(f) = Len(p) + Len(q) /\ f # <<>> /\ f[Len(p) + Len(q)] = q[Len(q)]
    <3>1. q # <<>> => Len(p \o q) # 0
      BY <2>1
    <3> DEFINE z == p \o q
    <3>2. f = z /\ (q # <<>> => Len(z) # 0) /\ Len(z) = Len(p) + Len(q)
          /\ (q # <<>> => z[Len(p) + Len(q)] = q[Len(q)])
      BY <1>7, <2>1, <3>1
    <3> HIDE DEF z
    <3> QED BY <3>2, EmptySeq
  <2> QED BY <2>2, <2>3 DEF Closed
<1> DEFINE e == c \o p
<1>9. Clean(b) = e \o q /\ e \in Seq(Bytes)
  <2>1. c \o (p \o q) = (c \o p) \o q
    BY TextAssociative, Zenon
  <2>2. e \in Seq(Bytes)
    BY ConcatProperties
  <2> QED BY <1>2, <1>7, <2>1, <2>2 DEF f
<1>10. ~ more => e = <<>>
  <2> SUFFICES ASSUME ~ more PROVE e = <<>>
    OBVIOUS
  <2>0. Len(s) \in Nat /\ MaxLog \in Nat
    BY <1>3, <1>5, ConcatProperties, BoundsAssumption
  <2>1. c = <<>> /\ p = <<>>
    BY <1>2, <1>5, <1>7, <2>0
  <2> QED BY <2>1, EmptySeq, ConcatEmptySeq
<1> HIDE DEF e, more
<1>11. Truncate(s) = q \o Clean(v)
  BY <1>5, <1>7 DEF w
<1>12. Matches(Truncate(s), y, more)
  BY <1>1, <1>8, <1>9, <1>10, <1>11, Zenon DEF Matches
<1> QED BY <1>12 DEF s, more

-----------------------------------------------------------------------------
(* The invariant of the log                                                *)

\* The log matches the terminal; the CR that waits is the last byte said; and
\* no line of what was said or is on its way in the pipe is too long.
ScreenInv ==
  /\ Matches(log, Terminal(said), truncated)
  /\ pendingCR <=> said # <<>> /\ said[Len(said)] = CR
  /\ ShortLines(said \o pipe)
  /\ ShortLastLine(said \o pipe)

\* One call of AppendLog, whatever the text and wherever the one before ended
LEMMA AppendLogMatches ==
  ASSUME TypeOK, Matches(log, Terminal(said), truncated),
         pendingCR <=> said # <<>> /\ said[Len(said)] = CR,
         NEW text \in Seq(Bytes), text # <<>>, ShortLines(said \o text),
         AppendLog(text)
  PROVE  /\ Matches(log', Terminal(said'), truncated')
         /\ pendingCR' <=> said' # <<>> /\ said'[Len(said')] = CR
<1> DEFINE x == Draw(text)
           y == Terminal(said \o text)
<1>0. log \in Seq(Bytes) /\ said \in Seq(Bytes) /\ said \o text \in Seq(Bytes)
  BY ConcatProperties DEF TypeOK
<1>1. Alike(log, Terminal(said), truncated)
  BY MatchesAlike
<1>2. Alike(x, y, truncated)
  BY <1>0, <1>1, DrawIsTerminal
<1>3. Rest(y) <= MaxLog
  BY <1>0, RestIsShort
<1>4. /\ log' = Truncate(Clean(x)) /\ said' = said \o text
      /\ truncated' = (truncated \/ Len(Clean(x)) > MaxLog)
      /\ pendingCR' = (Last(text) = CR)
  BY DEF AppendLog
<1> HIDE DEF x, y
<1>5. Matches(Truncate(Clean(x)), y, truncated \/ Len(Clean(x)) > MaxLog)
  BY <1>2, <1>3, AlikeMatches
<1>6. Matches(log', Terminal(said'), truncated')
  BY <1>4, <1>5 DEF y
<1>7. pendingCR' <=> said' # <<>> /\ said'[Len(said')] = CR
  <2>1. Len(text) \in Nat \ {0} /\ Last(text) = text[Len(text)]
    BY EmptySeq DEF Last
  <2> DEFINE r == said \o text
  <2>2. Len(r) = Len(said) + Len(text) /\ Len(said) \in Nat
    BY <1>0, ConcatProperties
  <2>3. r[Len(said) + Len(text)] = text[Len(text)]
    BY <1>0, <2>1, ConcatProperties
  <2> HIDE DEF r
  <2>4. r # <<>> /\ r[Len(r)] = text[Len(text)]
    BY <2>1, <2>2, <2>3, EmptySeq
  <2> QED BY <1>4, <2>1, <2>4 DEF r
<1> QED BY <1>6, <1>7

\* When nothing is said, nothing matches nothing.
LEMMA NothingMatches ==
  ASSUME NEW lost
  PROVE  /\ Matches(<<>>, Terminal(<<>>), lost)
         /\ ShortLines(<<>>) /\ ShortLastLine(<<>>) /\ <<>> \o <<>> = <<>>
<1> DEFINE e == <<>>
<1>1. e \in Closed /\ e \in Open /\ e \in Seq(Bytes) /\ e = e \o e /\ Clean(e) = e
      /\ Terminal(e) = e
  <2>1. e \in Seq(Bytes \ Dirt)
    OBVIOUS
  <2> QED BY <2>1, CleanTidy, OpenIsText, EmptySeq, ConcatEmptySeq, TerminalEmpty
<1>2. Len(e) = 0
  OBVIOUS
<1>3. ShortLines(e) /\ ShortLastLine(e)
  <2> HIDE DEF e
  <2>1. \A i \in 1 .. Len(e) : FALSE
    BY <1>2
  <2> QED BY <2>1 DEF ShortLines, ShortLastLine
<1>4. e = e \o Clean(e) /\ Clean(e) = e \o e /\ e = <<>>
  BY <1>1
<1> HIDE DEF e
<1>5. Matches(e, Terminal(e), lost)
  BY <1>1, <1>4, Zenon DEF Matches
<1> QED BY <1>1, <1>3, <1>5 DEF e

\* The invariant on the log holds initially, ...
LEMMA ScreenInit == Init => ScreenInv
<1> SUFFICES ASSUME Init PROVE ScreenInv
  OBVIOUS
<1>1. log = <<>> /\ said = <<>> /\ pipe = <<>> /\ pendingCR = FALSE
  BY DEF Init
<1> QED BY <1>1, NothingMatches DEF ScreenInv

\* Messages byte by byte
LEMMA Spelled ==
  ASSUME NEW a \in Bytes, NEW b \in Bytes, NEW c \in Bytes
  PROVE  /\ <<a, b, c>> = (<<a>> \o <<b>>) \o <<c>>
         /\ <<a, b, c, a, b>> = (((<<a>> \o <<b>>) \o <<c>>) \o <<a>>) \o <<b>>
<1> DEFINE s2 == <<a, b>>
           s3 == <<a, b, c>>
           s4 == <<a, b, c, a>>
           s5 == <<a, b, c, a, b>>
           More(s, x) ==
             \E z \in Seq(Bytes) :
               /\ s \o <<x>> = z /\ Len(z) = Len(s) + 1 /\ z[Len(s) + 1] = x
               /\ \A i \in 1 .. Len(s) : z[i] = s[i]
<1>1. <<a>> \o <<b>> = s2
  BY Pair
<1>2. s2 \in Seq(Bytes) /\ s3 \in Seq(Bytes) /\ s4 \in Seq(Bytes) /\ s5 \in Seq(Bytes)
  OBVIOUS
<1>3. /\ Len(s2) = 2 /\ s2[1] = a /\ s2[2] = b
      /\ Len(s3) = 3 /\ s3[1] = a /\ s3[2] = b /\ s3[3] = c
      /\ Len(s4) = 4 /\ s4[1] = a /\ s4[2] = b /\ s4[3] = c /\ s4[4] = a
      /\ Len(s5) = 5 /\ s5[1] = a /\ s5[2] = b /\ s5[3] = c /\ s5[4] = a /\ s5[5] = b
  OBVIOUS
<1> HIDE DEF s2, s3, s4, s5
<1>4. ASSUME NEW s \in Seq(Bytes), NEW x \in Bytes PROVE More(s, x)
  <2>1. s \o <<x>> \in Seq(Bytes)
    BY AppendIsConcat, AppendProperties
  <2>2. Len(s \o <<x>>) = Len(s) + 1
    BY AppendIsConcat, AppendProperties
  <2>3. (s \o <<x>>)[Len(s) + 1] = x
    BY AppendIsConcat, AppendProperties
  <2>4. \A i \in 1 .. Len(s) : (s \o <<x>>)[i] = s[i]
    BY AppendIsConcat, AppendProperties
  <2> QED BY <2>1, <2>2, <2>3, <2>4, Zenon DEF More
<1> HIDE DEF More
<1>5. s2 \o <<c>> = s3
  <2>1. More(s2, c)
    BY <1>2, <1>4
  <2>2. PICK z \in Seq(Bytes) :
          /\ s2 \o <<c>> = z /\ Len(z) = Len(s2) + 1 /\ z[Len(s2) + 1] = c
          /\ \A i \in 1 .. Len(s2) : z[i] = s2[i]
    BY <2>1, Zenon DEF More
  <2>3. Len(z) = 3 /\ \A i \in 1 .. 3 : z[i] = s3[i]
    BY <1>3, <2>2
  <2> QED BY <1>2, <1>3, <2>2, <2>3, SeqEqual, SMTT(30)
<1>6. s3 \o <<a>> = s4
  <2>1. More(s3, a)
    BY <1>2, <1>4
  <2>2. PICK z \in Seq(Bytes) :
          /\ s3 \o <<a>> = z /\ Len(z) = Len(s3) + 1 /\ z[Len(s3) + 1] = a
          /\ \A i \in 1 .. Len(s3) : z[i] = s3[i]
    BY <2>1, Zenon DEF More
  <2>3. Len(z) = 4 /\ \A i \in 1 .. 4 : z[i] = s4[i]
    BY <1>3, <2>2
  <2> QED BY <1>2, <1>3, <2>2, <2>3, SeqEqual
<1>7. s4 \o <<b>> = s5
  <2>1. More(s4, b)
    BY <1>2, <1>4
  <2>2. PICK z \in Seq(Bytes) :
          /\ s4 \o <<b>> = z /\ Len(z) = Len(s4) + 1 /\ z[Len(s4) + 1] = b
          /\ \A i \in 1 .. Len(s4) : z[i] = s4[i]
    BY <2>1, Zenon DEF More
  <2>3. Len(z) = 5 /\ \A i \in 1 .. 5 : z[i] = s5[i]
    BY <1>3, <2>2
  <2> QED BY <1>2, <1>3, <2>2, <2>3, SeqEqual
<1> QED BY <1>1, <1>5, <1>6, <1>7, Zenon DEF s3, s5

\* Where the brackets are
Together(s, x, y, l) == s \o ((x \o y) \o l) = ((s \o x) \o y) \o l

\* They do not matter.
LEMMA FourTogether ==
  ASSUME NEW s \in Seq(Bytes), NEW x \in Seq(Bytes), NEW y \in Seq(Bytes),
         NEW l \in Seq(Bytes)
  PROVE  Together(s, x, y, l)
<1>1. x \o y \in Seq(Bytes)
  BY TextConcat
<1>2. (s \o (x \o y)) \o l = s \o ((x \o y) \o l)
  BY <1>1, TextAssociative, ZenonT(60)
<1>3. (s \o x) \o y = s \o (x \o y)
  BY TextAssociative, ZenonT(60)
<1> QED BY <1>2, <1>3, Zenon DEF Together

\* The engine writes its own messages when no helper runs: the pipe is empty.
\* Such a message may come behind a line that a helper has not ended.
LEMMA MessagesAreShort ==
  ASSUME NEW s \in Seq(Bytes), ShortLines(s), ShortLastLine(s)
  PROVE  /\ ShortLines(s \o <<"note", CR, LF>>)
         /\ ShortLastLine(s \o <<"note", CR, LF>>)
         /\ ShortLines(s \o <<CR, LF, "error", CR, LF>>)
         /\ ShortLastLine(s \o <<CR, LF, "error", CR, LF>>)
<1> DEFINE c == <<CR>>
           l == <<LF>>
           n == <<"note">>
           e == <<"error">>
<1>1. CR \in Bytes /\ LF \in Bytes /\ "note" \in Bytes /\ "error" \in Bytes
      /\ CR \in Breaks /\ LF \in Breaks
  BY DEF Bytes, HelperBytes, EngineBytes, Breaks
<1>2. c \in Seq(Bytes) /\ l \in Seq(Bytes) /\ n \in Seq(Bytes) /\ e \in Seq(Bytes)
  BY <1>1
<1>3. ASSUME NEW t \in Seq(Bytes), ShortLines(t)
      PROVE  /\ (t \o c) \o l \in Seq(Bytes)
             /\ ShortLines((t \o c) \o l) /\ ShortLastLine((t \o c) \o l)
  <2>1. t \o c \in Seq(Bytes) /\ ShortLines(t \o c) /\ ShortLastLine(t \o c)
    BY <1>1, <1>3, ShortAppend
  <2> DEFINE z == t \o c
  <2> HIDE DEF z
  <2>2. z \o l \in Seq(Bytes) /\ ShortLines(z \o l) /\ ShortLastLine(z \o l)
    BY <1>1, <2>1, ShortAppend DEF z
  <2> QED BY <2>2 DEF z
<1>4. s \o n \in Seq(Bytes) /\ ShortLines(s \o n)
  BY <1>1, ShortAppend
<1>5. /\ ShortLines(((s \o n) \o c) \o l)
      /\ ShortLastLine(((s \o n) \o c) \o l)
  <2> DEFINE z == s \o n
  <2> HIDE DEF z
  <2>1. ShortLines((z \o c) \o l) /\ ShortLastLine((z \o c) \o l)
    BY <1>3, <1>4 DEF z
  <2> QED BY <2>1 DEF z
<1> DEFINE y == (s \o c) \o l
<1>6. y \in Seq(Bytes) /\ ShortLines(y) /\ ShortLastLine(y)
  BY <1>3
<1> HIDE DEF y
<1>7. y \o e \in Seq(Bytes) /\ ShortLines(y \o e)
  BY <1>1, <1>6, ShortAppend
<1>8. ShortLines(((y \o e) \o c) \o l) /\ ShortLastLine(((y \o e) \o c) \o l)
  <2> DEFINE z == y \o e
  <2> HIDE DEF z
  <2>1. ShortLines((z \o c) \o l) /\ ShortLastLine((z \o c) \o l)
    BY <1>3, <1>7 DEF z
  <2> QED BY <2>1 DEF z
<1>9. <<"note", CR, LF>> = (n \o c) \o l
  BY <1>1, Spelled, ZenonT(60)
<1>10. <<CR, LF, "error", CR, LF>> = (((c \o l) \o e) \o c) \o l
  BY <1>1, Spelled, ZenonT(60)
<1> HIDE DEF c, l, n, e
<1>11. s \o ((n \o c) \o l) = ((s \o n) \o c) \o l
  <2>1. Together(s, n, c, l)
    BY <1>2, FourTogether
  <2> QED BY <2>1, Zenon DEF Together
<1>12. s \o ((((c \o l) \o e) \o c) \o l) = ((y \o e) \o c) \o l
  <2> DEFINE x == (c \o l) \o e
  <2>1. x \in Seq(Bytes)
    BY <1>2, TextConcat
  <2>2. s \o x = y \o e
    <3>1. Together(s, c, l, e)
      BY <1>2, FourTogether
    <3> QED BY <3>1, Zenon DEF Together, y
  <2> HIDE DEF x
  <2>3. Together(s, x, c, l)
    BY <1>2, <2>1, FourTogether
  <2> QED BY <2>2, <2>3, Zenon DEF Together, x
<1> QED BY <1>5, <1>8, <1>9, <1>10, <1>11, <1>12

\* ... after every step, ...
LEMMA ScreenNext == TypeOK /\ LinesInv /\ ScreenInv /\ [Next]_vars => ScreenInv'
<1> SUFFICES ASSUME TypeOK, LinesInv, ScreenInv, [Next]_vars PROVE ScreenInv'
  OBVIOUS
<1>0. /\ said \in Seq(Bytes) /\ log \in Seq(Bytes) /\ pipe \in Seq(HelperBytes)
      /\ pipe \in Seq(Bytes) /\ said \o pipe \in Seq(Bytes)
  <2>1. said \in Seq(Bytes) /\ log \in Seq(Bytes) /\ pipe \in Seq(HelperBytes)
    BY DEF TypeOK
  <2>2. pipe \in Seq(Bytes)
    BY <2>1, BytesOfHelpers
  <2> QED BY <2>1, <2>2, TextConcat
<1>a. /\ Matches(log, Terminal(said), truncated)
      /\ pendingCR <=> said # <<>> /\ said[Len(said)] = CR
      /\ ShortLines(said \o pipe) /\ ShortLastLine(said \o pipe)
  BY DEF ScreenInv
\* What changes neither the log nor the pipe, and no pipe when no helper runs
<1>b. ASSUME UNCHANGED screen, pipe' = pipe PROVE ScreenInv'
  <2>1. log' = log /\ said' = said /\ truncated' = truncated /\ pendingCR' = pendingCR
    BY <1>b DEF screen
  <2> QED BY <1>a, <1>b, <2>1 DEF ScreenInv
<1>c. stage # "running" => pipe = <<>>
  BY DEF LinesInv
<1>d. ASSUME ClearLog, pipe' = <<>> PROVE ScreenInv'
  <2>1. log' = <<>> /\ said' = <<>> /\ pendingCR' = FALSE
    BY <1>d DEF ClearLog
  <2>2. Matches(log', Terminal(said'), truncated')
    BY <2>1, NothingMatches
  <2>3. ShortLines(said' \o pipe') /\ ShortLastLine(said' \o pipe')
    BY <1>d, <2>1, NothingMatches
  <2> QED BY <2>1, <2>2, <2>3 DEF ScreenInv
<1>1. CASE StartHelper
  <2>1. UNCHANGED screen /\ pipe' = <<>> /\ pipe = <<>>
    BY <1>1, <1>c DEF StartHelper
  <2> QED BY <1>b, <2>1
<1>2. CASE HelperWrites
  <2>1. PICK x \in HelperBytes :
          /\ x \notin Breaks => LineLength(said \o pipe) < MaxLine
          /\ pipe' = Append(pipe, x)
    BY <1>2 DEF HelperWrites
  <2>2. UNCHANGED screen
    BY <1>2 DEF HelperWrites
  <2>3. x \in Bytes /\ <<x>> \in Seq(Bytes)
    BY DEF Bytes
  <2>4. pipe' = pipe \o <<x>>
    BY <1>0, <2>1, <2>3, AppendIsConcat
  <2> DEFINE z == said \o pipe
  <2>5. said \o pipe' = z \o <<x>>
    <3>1. (said \o pipe) \o <<x>> = said \o (pipe \o <<x>>)
      BY <1>0, <2>3, TextAssociative, ZenonT(60)
    <3> QED BY <2>4, <3>1, Zenon
  <2>6. z \in Seq(Bytes) /\ ShortLines(z) /\ ShortLastLine(z)
        /\ (x \notin Breaks => LineLength(z) < MaxLine)
    BY <1>0, <1>a, <2>1
  <2> HIDE DEF z
  <2>7. ShortLines(z \o <<x>>) /\ ShortLastLine(z \o <<x>>)
    BY <2>3, <2>6, ShortWritten
  <2>8. log' = log /\ said' = said /\ truncated' = truncated /\ pendingCR' = pendingCR
    BY <2>2 DEF screen
  <2> QED BY <1>a, <2>5, <2>7, <2>8 DEF ScreenInv
<1>3. CASE HelperExits
  BY <1>3, <1>b DEF HelperExits
<1>4. CASE ReadChunk
  <2> DEFINE n     == Min({ChunkSize, Len(pipe)})
             chunk == SubSeq(pipe, 1, n)
             rest  == SubSeq(pipe, n + 1, Len(pipe))
  <2>1. pipe # <<>> /\ pipe' = rest /\ AppendLog(chunk)
    BY <1>4 DEF ReadChunk
  <2>2. /\ chunk \in Seq(HelperBytes) /\ chunk # <<>> /\ rest \in Seq(HelperBytes)
        /\ pipe = chunk \o rest
    BY <1>0, <2>1, ChunkType
  <2> HIDE DEF chunk, rest
  <2>3. chunk \in Seq(Bytes) /\ rest \in Seq(Bytes)
    BY <2>2, BytesOfHelpers
  <2> DEFINE z == said \o chunk
  <2>4. z \in Seq(Bytes)
    BY <1>0, <2>3, TextConcat
  <2>5. said \o pipe = z \o rest
    <3>1. (said \o chunk) \o rest = said \o (chunk \o rest)
      BY <1>0, <2>3, TextAssociative, ZenonT(60)
    <3> QED BY <2>2, <3>1, Zenon
  <2>6. said' = z
    BY <2>1 DEF AppendLog
  <2> HIDE DEF z
  <2>7. ShortLines(z \o rest) /\ ShortLastLine(z \o rest)
    BY <1>a, <2>5
  <2>8. ShortLines(z)
    BY <2>3, <2>4, <2>7, ShortPart
  <2>9. /\ Matches(log', Terminal(said'), truncated')
        /\ pendingCR' <=> said' # <<>> /\ said'[Len(said')] = CR
    BY <1>a, <2>1, <2>2, <2>3, <2>8, AppendLogMatches DEF z
  <2>10. ShortLines(said' \o pipe') /\ ShortLastLine(said' \o pipe')
    BY <2>1, <2>6, <2>7
  <2> QED BY <2>9, <2>10 DEF ScreenInv
<1>5. CASE EndOfOutput
  <2>1. UNCHANGED screen /\ pipe' = pipe
    BY <1>5 DEF EndOfOutput
  <2> QED BY <1>b, <2>1
\* The engine's own messages
<1>e. ASSUME NEW text \in Seq(Bytes), text # <<>>, AppendLog(text), UNCHANGED io,
             stage = "between",
             ShortLines(said \o text), ShortLastLine(said \o text)
      PROVE  ScreenInv'
  <2>1. pipe' = <<>>
    BY <1>c, <1>e DEF io
  <2>2. /\ Matches(log', Terminal(said'), truncated')
        /\ pendingCR' <=> said' # <<>> /\ said'[Len(said')] = CR
    BY <1>a, <1>e, AppendLogMatches
  <2> DEFINE z == said \o text
  <2>3. said' = z /\ z \in Seq(Bytes) /\ ShortLines(z) /\ ShortLastLine(z)
    BY <1>0, <1>e, TextConcat DEF AppendLog
  <2> HIDE DEF z
  <2>4. said' \o pipe' = z
    BY <2>1, <2>3, ConcatEmptySeq
  <2> QED BY <2>2, <2>3, <2>4 DEF ScreenInv
<1>f. ASSUME stage = "between"
      PROVE  /\ ShortLines(said \o <<"note", CR, LF>>)
             /\ ShortLastLine(said \o <<"note", CR, LF>>)
             /\ ShortLines(said \o <<CR, LF, "error", CR, LF>>)
             /\ ShortLastLine(said \o <<CR, LF, "error", CR, LF>>)
  <2>1. said \o pipe = said
    BY <1>0, <1>c, <1>f, ConcatEmptySeq
  <2>2. ShortLines(said) /\ ShortLastLine(said)
    BY <1>a, <2>1
  <2> QED BY <1>0, <2>2, MessagesAreShort
<1>6. CASE Note
  <2> DEFINE text == <<"note", CR, LF>>
  <2>1. text \in Seq(Bytes) /\ text # <<>>
    BY Messages
  <2>2. AppendLog(text) /\ UNCHANGED io /\ stage = "between"
    BY <1>6 DEF Note
  <2>3. ShortLines(said \o text) /\ ShortLastLine(said \o text)
    BY <1>f, <2>2
  <2> HIDE DEF text
  <2> QED BY <1>e, <2>1, <2>2, <2>3
<1>7. CASE Fail
  <2> DEFINE text == <<CR, LF, "error", CR, LF>>
  <2>1. text \in Seq(Bytes) /\ text # <<>>
    BY Messages
  <2>2. AppendLog(text) /\ UNCHANGED io /\ stage = "between"
    BY <1>7 DEF Fail
  <2>3. ShortLines(said \o text) /\ ShortLastLine(said \o text)
    BY <1>f, <2>2
  <2> HIDE DEF text
  <2> QED BY <1>e, <2>1, <2>2, <2>3
<1>8. CASE Failed
  BY <1>8, <1>b DEF Failed, io
<1>9. CASE Succeed
  BY <1>9, <1>b DEF Succeed, io
<1>10. CASE Start
  <2>1. stage # "running"
    BY <1>10 DEF Start, LinesInv
  <2> QED BY <1>10, <1>c, <1>d, <2>1 DEF Start, io
<1>11. CASE Reset
  <2>1. stage # "running"
    BY <1>11 DEF Reset, LinesInv
  <2> QED BY <1>11, <1>c, <1>d, <2>1 DEF Reset, io
<1>12. CASE UNCHANGED vars
  BY <1>12, <1>b DEF vars, io
<1> QED BY <1>1, <1>2, <1>3, <1>4, <1>5, <1>6, <1>7, <1>8, <1>9, <1>10, <1>11,
           <1>12 DEF Next, Worker

\* ... and is more than the property.
LEMMA ScreenImplied == TypeOK /\ ScreenInv => LogIsTerminal
<1> SUFFICES ASSUME TypeOK, ScreenInv PROVE LogIsTerminal
  OBVIOUS
<1> DEFINE y == Terminal(said)
<1>1. Matches(log, y, truncated)
  BY DEF ScreenInv
<1> HIDE DEF y
<1>2. PICK a \in Closed, b \in Closed, v \in Open :
        /\ log = a \o Clean(v) /\ y = b \o v
        /\ \E c \in Seq(Bytes) : Clean(b) = c \o a /\ (~truncated => c = <<>>)
  BY <1>1, Zenon DEF Matches
<1>3. PICK c \in Seq(Bytes) : Clean(b) = c \o a /\ (~truncated => c = <<>>)
  BY <1>2
<1> DEFINE w == Clean(v)
<1>4. /\ a \in Seq(Bytes) /\ b \in Seq(Bytes) /\ v \in Seq(Bytes) /\ w \in Seq(Bytes)
      /\ log \in Seq(Bytes)
  BY OpenIsText, CleanType DEF Closed, TypeOK
<1>5. Clean(y) = Clean(b) \o w
  BY <1>2, <1>4, CleanSplit
<1> HIDE DEF w
<1>6. (c \o a) \o w = c \o (a \o w)
  BY <1>4, TextAssociative, ZenonT(60)
<1>7. Clean(y) = c \o log
  BY <1>2, <1>3, <1>5, <1>6 DEF w
<1>8. IsSuffix(log, Clean(y))
  <2>1. IsSuffix(log, c \o log)
    BY <1>4, SuffixOfConcat
  <2> QED BY <1>7, <2>1
<1>9. ~truncated => log = Clean(y)
  <2>1. <<>> \o log = log
    BY <1>4, ConcatEmptySeq
  <2> QED BY <1>3, <1>7, <2>1
<1> QED BY <1>8, <1>9 DEF LogIsTerminal, y

\* However the reads cut the output of the helpers and whatever the engine
\* wrote in between, the log is what a terminal would show of all of it in one
\* piece, without the noise and from a later beginning when there is too much
\* (AppendLog, for any size of a chunk and any limit that a line fits into).
THEOREM LogShown == Spec => []LogIsTerminal
<1>1. Init => TypeOK /\ LinesInv /\ ScreenInv
  BY InitType, LinesInit, ScreenInit
<1>2. TypeOK /\ LinesInv /\ ScreenInv /\ [Next]_vars
        => (TypeOK /\ LinesInv /\ ScreenInv)'
  BY NextType, LinesNext, ScreenNext
<1>3. TypeOK /\ ScreenInv => LogIsTerminal
  BY ScreenImplied
<1> QED BY <1>1, <1>2, <1>3, PTL DEF Spec

=============================================================================
