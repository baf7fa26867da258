---------------------------- MODULE FilesProofs ----------------------------
(* What is proved of files and directories (Files), for every directory,    *)
(* every length of its names, and every buffer.                             *)
EXTENDS Files, SequenceTheorems, FiniteSetTheorems, WellFoundedInduction, TLAPS

-----------------------------------------------------------------------------
(* The entries in a buffer. *)

LEMMA LeastNumber ==
    ASSUME NEW T, T \subseteq Nat, T # {}
    PROVE  \E x \in T : \A y \in T : x <= y
<1> DEFINE R == {p \in Nat \X Nat : p[1] < p[2]}
<1>1. IsWellFoundedOn(R, Nat)
  BY NatLessThanWellFounded DEF OpToRel
<1>2. PICK x \in T : \A y \in T : <<y, x>> \notin R
  BY <1>1, WFMin
<1>3. ASSUME NEW y \in T PROVE x <= y
  <2>1. x \in Nat /\ y \in Nat /\ <<y, x>> \notin R
    BY <1>2
  <2>2. ~ (y < x)
    BY <2>1
  <2> QED
    BY <2>1, <2>2
<1> QED
  BY <1>3

\* Entries that take room.
Take(names) == Len(names) \in Nat /\ \A k \in 1 .. Len(names) : EntryLen(names[k]) \in Nat \ {0}

\* The recursion that says where the entries end has a solution: that for the
\* entries before one gives that for those up to it.
LEMMA EndsAre ==
    ASSUME NEW names, Take(names)
    PROVE  /\ Ends(names)[0] = 0
           /\ \A k \in 1 .. Len(names) : Ends(names)[k] = Ends(names)[k - 1] + EntryLen(names[k])
           /\ \A k \in 0 .. Len(names) : Ends(names)[k] \in Nat
<1> DEFINE n == Len(names)
           Body(m, f) == [k \in 0 .. m |-> IF k = 0 THEN 0 ELSE f[k - 1] + EntryLen(names[k])]
           Solved(m) == \E f : f = Body(m, f)
           Bad == {m \in 0 .. n : ~Solved(m)}
<1>1. n \in Nat
  BY DEF Take
<1>2. Bad = {}
  <2> SUFFICES ASSUME Bad # {} PROVE FALSE
    OBVIOUS
  <2>1. PICK m \in Bad : \A y \in Bad : m <= y
    <3>1. Bad \subseteq Nat
      BY <1>1
    <3> HIDE DEF Bad
    <3> QED
      BY <3>1, LeastNumber
  <2>2. CASE m = 0
    <3>1. [k \in 0 .. 0 |-> 0] = Body(0, [k \in 0 .. 0 |-> 0])
      OBVIOUS
    <3> QED
      BY <2>1, <2>2, <3>1
  <2>3. CASE m # 0
    <3>1. m \in 1 .. n /\ m - 1 \in 0 .. n /\ m - 1 \notin Bad
      BY <1>1, <2>1, <2>3
    <3>2. PICK f : f = Body(m - 1, f)
      BY <3>1
    <3> DEFINE g == [k \in 0 .. m |-> IF k = m THEN f[m - 1] + EntryLen(names[m]) ELSE f[k]]
    <3>3. ASSUME NEW k \in 0 .. m PROVE g[k] = Body(m, g)[k]
      <4>1. CASE k = 0
        <5>1. g[0] = f[0] /\ f[0] = 0
          BY <1>1, <3>1, <3>2
        <5> QED
          BY <4>1, <5>1
      <4>2. CASE k \in 1 .. m - 1
        <5>1. g[k] = f[k] /\ g[k - 1] = f[k - 1]
          BY <1>1, <3>1, <4>2
        <5>2. f[k] = f[k - 1] + EntryLen(names[k])
          BY <1>1, <3>1, <3>2, <4>2
        <5> HIDE DEF g
        <5> QED
          BY <1>1, <3>1, <4>2, <5>1, <5>2
      <4>3. CASE k = m
        <5>1. g[m - 1] = f[m - 1] /\ g[m] = f[m - 1] + EntryLen(names[m])
          BY <1>1, <3>1
        <5> HIDE DEF g
        <5> QED
          BY <1>1, <3>1, <4>3, <5>1
      <4> QED
        BY <1>1, <3>1, <4>1, <4>2, <4>3
    <3>4. g = Body(m, g)
      BY <3>3
    <3> QED
      BY <2>1, <3>4
  <2> QED
    BY <2>2, <2>3
<1>3. Solved(n)
  BY <1>1, <1>2
<1>4. Ends(names) = CHOOSE f : f = Body(n, f)
  BY DEF Ends
<1>5. Ends(names) = Body(n, Ends(names))
  BY <1>3, <1>4
<1>6. Ends(names)[0] = 0
  BY <1>1, <1>5
<1>7. \A k \in 1 .. n : Ends(names)[k] = Ends(names)[k - 1] + EntryLen(names[k])
  BY <1>1, <1>5
<1>8. \A k \in 0 .. n : Ends(names)[k] \in Nat
  <2> DEFINE Odd == {m \in 0 .. n : Ends(names)[m] \notin Nat}
  <2> SUFFICES ASSUME Odd # {} PROVE FALSE
    OBVIOUS
  <2>1. PICK m \in Odd : \A y \in Odd : m <= y
    <3>1. Odd \subseteq Nat
      BY <1>1
    <3> HIDE DEF Odd
    <3> QED
      BY <3>1, LeastNumber
  <2>2. m \in 1 .. n /\ m - 1 \in 0 .. n /\ m - 1 \notin Odd
    BY <1>1, <1>6, <2>1
  <2>3. Ends(names)[m - 1] \in Nat /\ EntryLen(names[m]) \in Nat
    BY <2>2 DEF Take
  <2> QED
    BY <1>7, <2>1, <2>2, <2>3
<1> QED
  BY <1>6, <1>7, <1>8

\* Each entry ends before all of them do.
LEMMA EndsGrow ==
    ASSUME NEW names, Take(names), NEW k \in 0 .. Len(names)
    PROVE  Ends(names)[k] <= Bytes(names)
<1> DEFINE n == Len(names)
           Bad == {d \in 0 .. n : ~ (Ends(names)[n - d] <= Ends(names)[n])}
<1>1. n \in Nat
  BY DEF Take
<1>2. Bad = {}
  <2> SUFFICES ASSUME Bad # {} PROVE FALSE
    OBVIOUS
  <2>1. PICK d \in Bad : \A y \in Bad : d <= y
    <3>1. Bad \subseteq Nat
      BY <1>1
    <3> HIDE DEF Bad
    <3> QED
      BY <3>1, LeastNumber
  <2>2. d # 0
    BY <1>1, <2>1, EndsAre
  <2>3. PICK j : j = n - d + 1
    OBVIOUS
  <2>4. d - 1 \in 0 .. n /\ d - 1 \notin Bad /\ j \in 1 .. n /\ n - (d - 1) = j /\ j - 1 = n - d
    BY <1>1, <2>1, <2>2, <2>3, SMTT(20)
  <2>5. Ends(names)[j] <= Ends(names)[n]
    BY <2>4
  <2>6. Ends(names)[j] = Ends(names)[j - 1] + EntryLen(names[j])
    BY <2>4, EndsAre
  <2>7. j - 1 \in 0 .. n /\ j \in 0 .. n /\ n \in 0 .. n
    BY <1>1, <2>4
  <2>8. Ends(names)[j - 1] \in Nat /\ Ends(names)[j] \in Nat /\ Ends(names)[n] \in Nat
    BY <2>7, EndsAre
  <2>9. EntryLen(names[j]) \in Nat
    BY <2>4 DEF Take
  <2>10. Ends(names)[j - 1] <= Ends(names)[n]
    BY <2>5, <2>6, <2>8, <2>9
  <2> QED
    BY <2>1, <2>4, <2>10
<1>3. n - k \in 0 .. n /\ n - (n - k) = k
  BY <1>1
<1> QED
  BY <1>2, <1>3 DEF Bytes

\* A buffer takes a number of entries whole, and all if there is room for them.
LEMMA FittingIs ==
    ASSUME NEW names, Take(names), NEW len \in Nat
    PROVE  /\ Fitting(names, len) \in 0 .. Len(names)
           /\ Bytes(names) <= len => Fitting(names, len) = Len(names)
<1> DEFINE n == Len(names)
           Full(k) == k < n => Ends(names)[k + 1] > len
           Stops == {k \in 0 .. n : Full(k)}
<1>1. n \in Nat
  BY DEF Take
<1>2. PICK m \in Stops : \A y \in Stops : m <= y
  <2>1. Stops \subseteq Nat /\ n \in Stops
    BY <1>1
  <2> HIDE DEF Stops
  <2> QED
    BY <2>1, LeastNumber
<1>3. Ends(names)[m] <= len
  <2>1. CASE m = 0
    BY <2>1, EndsAre
  <2>2. CASE m # 0
    <3>1. m - 1 \in 0 .. n /\ m - 1 + 1 = m /\ m \in 0 .. n /\ ~ (m <= m - 1)
      BY <1>1, <1>2, <2>2
    <3>2. ~ (Ends(names)[m] > len)
      <4>1. m - 1 \notin Stops
        BY <1>2, <3>1
      <4> QED
        BY <3>1, <4>1
    <3>3. Ends(names)[m] \in Nat
      BY <3>1, EndsAre
    <3> QED
      BY <3>2, <3>3
  <2> QED
    BY <2>1, <2>2
<1>4. \E k \in 0 .. n : Ends(names)[k] <= len /\ Full(k)
  BY <1>2, <1>3
<1> DEFINE fit == CHOOSE k \in 0 .. n : Ends(names)[k] <= len /\ Full(k)
<1>5. fit \in 0 .. n /\ Ends(names)[fit] <= len /\ Full(fit)
  BY <1>4
<1>6. Fitting(names, len) = fit
  BY DEF Fitting
<1> HIDE DEF fit
<1>7. ASSUME Bytes(names) <= len, fit < n PROVE FALSE
  <2>1. fit + 1 \in 0 .. n /\ n \in 0 .. n
    BY <1>1, <1>5, <1>7
  <2>2. Ends(names)[fit + 1] <= Bytes(names)
    BY <2>1, EndsGrow
  <2>3. Ends(names)[fit + 1] > len
    BY <1>5, <1>7
  <2>4. Ends(names)[fit + 1] \in Nat /\ Bytes(names) \in Nat
    BY <2>1, EndsAre DEF Bytes
  <2> QED
    BY <1>7, <2>2, <2>3, <2>4
<1> QED
  BY <1>1, <1>5, <1>6, <1>7

-----------------------------------------------------------------------------
(* Sequences that have each element once. *)

LEMMA InsertIs ==
    ASSUME NEW S, NEW s \in Seq(S), IsInjective(s), NEW n \in S, n \notin ToSet(s),
           NEW i \in 1 .. Len(s) + 1
    PROVE  /\ InsertAt(s, i, n) \in Seq(S) /\ IsInjective(InsertAt(s, i, n))
           /\ ToSet(InsertAt(s, i, n)) = ToSet(s) \cup {n}
           /\ \A j \in 1 .. Len(InsertAt(s, i, n)) :
                 \/ InsertAt(s, i, n)[j] = n
                 \/ \E k \in 1 .. Len(s) : k <= j /\ InsertAt(s, i, n)[j] = s[k]
<1> DEFINE left == SubSeq(s, 1, i - 1)
           right == SubSeq(s, i, Len(s))
           t == InsertAt(s, i, n)
<1>1. /\ Len(s) \in Nat /\ i \in Nat /\ DOMAIN s = 1 .. Len(s)
      /\ \A j \in 1 .. Len(s) : s[j] \in S
  BY LenProperties, ElementOfSeq
<1>2. /\ left \in Seq(S) /\ Len(left) = i - 1
      /\ \A j \in 1 .. i - 1 : left[j] = s[j]
  <2>1. 1 \in Int /\ i - 1 \in Int /\ \A j \in 1 .. i - 1 : s[j] \in S
    BY <1>1
  <2>2. /\ left \in Seq(S) /\ Len(left) = IF 1 <= i - 1 THEN i - 1 - 1 + 1 ELSE 0
        /\ \A j \in 1 .. i - 1 - 1 + 1 : left[j] = s[1 + j - 1]
    BY <2>1, SubSeqProperties
  <2> HIDE DEF left
  <2>3. Len(left) = i - 1
    BY <1>1, <2>2
  <2>4. \A j \in 1 .. i - 1 : j \in 1 .. i - 1 - 1 + 1 /\ 1 + j - 1 = j
    BY <1>1
  <2> QED
    BY <2>2, <2>3, <2>4
<1>3. /\ right \in Seq(S) /\ Len(right) = Len(s) + 1 - i
      /\ \A j \in 1 .. Len(s) + 1 - i : right[j] = s[i + j - 1]
  <2>1. i \in Int /\ Len(s) \in Int /\ \A j \in i .. Len(s) : s[j] \in S
    BY <1>1
  <2>2. /\ right \in Seq(S) /\ Len(right) = IF i <= Len(s) THEN Len(s) - i + 1 ELSE 0
        /\ \A j \in 1 .. Len(s) - i + 1 : right[j] = s[i + j - 1]
    BY <2>1, SubSeqProperties
  <2> HIDE DEF right
  <2>3. Len(right) = Len(s) + 1 - i
    BY <1>1, <2>2
  <2>4. \A j \in 1 .. Len(s) + 1 - i : j \in 1 .. Len(s) - i + 1
    BY <1>1
  <2> QED
    BY <2>2, <2>3, <2>4
<1>4. t = left \o <<n>> \o right
  BY DEF InsertAt
<1> HIDE DEF left, right, t
<1>5. /\ left \o <<n>> \in Seq(S) /\ Len(left \o <<n>>) = i
      /\ \A j \in 1 .. i - 1 : (left \o <<n>>)[j] = s[j]
      /\ (left \o <<n>>)[i] = n
  <2>1. <<n>> \in Seq(S) /\ Len(<<n>>) = 1 /\ <<n>>[1] = n
    OBVIOUS
  <2>2. /\ left \o <<n>> \in Seq(S) /\ Len(left \o <<n>>) = i - 1 + 1
        /\ \A j \in 1 .. i - 1 : (left \o <<n>>)[j] = left[j]
        /\ \A j \in i - 1 + 1 .. i - 1 + 1 : (left \o <<n>>)[j] = <<n>>[j - (i - 1)]
    BY <1>2, <2>1, ConcatProperties
  <2>3. i - 1 + 1 = i /\ i - (i - 1) = 1 /\ i \in i - 1 + 1 .. i - 1 + 1
    BY <1>1
  <2> QED
    BY <1>2, <2>1, <2>2, <2>3
<1>6. /\ t \in Seq(S) /\ Len(t) = Len(s) + 1
      /\ \A j \in 1 .. i - 1 : t[j] = s[j]
      /\ t[i] = n
      /\ \A j \in i + 1 .. Len(s) + 1 : t[j] = s[j - 1]
  <2>1. /\ t \in Seq(S) /\ Len(t) = i + (Len(s) + 1 - i)
        /\ \A j \in 1 .. i : t[j] = (left \o <<n>>)[j]
        /\ \A j \in i + 1 .. i + (Len(s) + 1 - i) : t[j] = right[j - i]
    <3>1. PICK head : head = left \o <<n>>
      OBVIOUS
    <3>2. head \in Seq(S) /\ Len(head) = i /\ t = head \o right
      BY <1>4, <1>5, <3>1
    <3>3. /\ t \in Seq(S) /\ Len(t) = i + Len(right)
          /\ \A j \in 1 .. i + Len(right) : t[j] = IF j <= i THEN head[j] ELSE right[j - i]
      BY <1>3, <3>2, ConcatProperties, ZenonT(30)
    <3>4. /\ \A j \in 1 .. i : j \in 1 .. i + Len(right) /\ j <= i
          /\ \A j \in i + 1 .. i + Len(right) : j \in 1 .. i + Len(right) /\ ~ (j <= i)
      BY <1>1, <1>3
    <3> QED
      BY <1>3, <3>1, <3>3, <3>4
  <2>2. i + (Len(s) + 1 - i) = Len(s) + 1
    BY <1>1
  <2>3. \A j \in i + 1 .. Len(s) + 1 : j - i \in 1 .. Len(s) + 1 - i /\ i + (j - i) - 1 = j - 1
    BY <1>1
  <2>4. \A j \in 1 .. i - 1 : j \in 1 .. i
    BY <1>1
  <2>5. i \in 1 .. i
    BY <1>1
  <2> QED
    BY <1>3, <1>5, <2>1, <2>2, <2>3, <2>4, <2>5
<1>7. DOMAIN t = 1 .. Len(s) + 1
  BY <1>6, LenProperties
\* Where an element that was there is now, and where it was.
<1> DEFINE Now(k) == IF k < i THEN k ELSE k + 1
           Was(j) == IF j < i THEN j ELSE j - 1
<1>8. \A k \in 1 .. Len(s) : Now(k) \in 1 .. Len(s) + 1 /\ t[Now(k)] = s[k]
  <2> SUFFICES ASSUME NEW k \in 1 .. Len(s) PROVE Now(k) \in 1 .. Len(s) + 1 /\ t[Now(k)] = s[k]
    OBVIOUS
  <2>1. CASE k < i
    BY <1>1, <1>6, <2>1
  <2>2. CASE ~ (k < i)
    <3>1. k + 1 \in i + 1 .. Len(s) + 1 /\ k + 1 - 1 = k
      BY <1>1, <2>2
    <3> QED
      BY <1>1, <1>6, <2>2, <3>1
  <2> QED
    BY <2>1, <2>2
<1>9. \A j \in 1 .. Len(s) + 1 : j # i => Was(j) \in 1 .. Len(s) /\ Was(j) <= j /\ t[j] = s[Was(j)]
  <2> SUFFICES ASSUME NEW j \in 1 .. Len(s) + 1, j # i
               PROVE  Was(j) \in 1 .. Len(s) /\ Was(j) <= j /\ t[j] = s[Was(j)]
    OBVIOUS
  <2>1. CASE j < i
    BY <1>1, <1>6, <2>1
  <2>2. CASE ~ (j < i)
    <3>1. j \in i + 1 .. Len(s) + 1
      BY <1>1, <2>2
    <3> QED
      BY <1>1, <1>6, <2>2, <3>1
  <2> QED
    BY <2>1, <2>2
<1>10. \A j, k \in 1 .. Len(s) + 1 : j # i /\ k # i /\ Was(j) = Was(k) => j = k
  BY <1>1
<1> HIDE DEF Now, Was
<1>11. IsInjective(t)
  <2> SUFFICES ASSUME NEW j \in 1 .. Len(s) + 1, NEW k \in 1 .. Len(s) + 1, t[j] = t[k]
               PROVE  j = k
    BY <1>7 DEF IsInjective
  <2>1. \A m \in 1 .. Len(s) : s[m] # n
    BY <1>1 DEF ToSet
  <2>2. CASE j # i /\ k # i
    BY <1>1, <1>9, <1>10, <2>2 DEF IsInjective
  <2>3. CASE j = i \/ k = i
    BY <1>6, <1>9, <2>1, <2>3
  <2> QED
    BY <2>2, <2>3
<1>12. ToSet(t) = ToSet(s) \cup {n}
  <2>1. n \in ToSet(t)
    BY <1>1, <1>6, <1>7 DEF ToSet
  <2>2. ToSet(s) \subseteq ToSet(t)
    BY <1>1, <1>7, <1>8 DEF ToSet
  <2>3. ToSet(t) \subseteq ToSet(s) \cup {n}
    BY <1>1, <1>6, <1>7, <1>9 DEF ToSet
  <2> QED
    BY <2>1, <2>2, <2>3
<1>13. \A j \in 1 .. Len(s) + 1 : t[j] = n \/ \E k \in 1 .. Len(s) : k <= j /\ t[j] = s[k]
  BY <1>6, <1>9
<1> QED
  BY <1>6, <1>11, <1>12, <1>13 DEF t

LEMMA RemoveIs ==
    ASSUME NEW S, NEW s \in Seq(S), IsInjective(s), NEW e
    PROVE  /\ RemoveFirst(s, e) \in Seq(S) /\ IsInjective(RemoveFirst(s, e))
           /\ ToSet(RemoveFirst(s, e)) = ToSet(s) \ {e}
           /\ \A j \in 1 .. Len(RemoveFirst(s, e)) :
                 \E k \in 1 .. Len(s) : j <= k /\ RemoveFirst(s, e)[j] = s[k]
<1>1. /\ Len(s) \in Nat /\ DOMAIN s = 1 .. Len(s)
      /\ \A j \in 1 .. Len(s) : s[j] \in S
  BY LenProperties, ElementOfSeq
<1> DEFINE At == {i \in 1 .. Len(s) : s[i] = e}
           first == CHOOSE x \in At : \A y \in At : x =< y
           t == RemoveFirst(s, e)
<1>2. CASE At = {}
  <2>1. t = s /\ e \notin ToSet(s)
    BY <1>1, <1>2 DEF RemoveFirst, ToSet
  <2> HIDE DEF t, At
  <2>2. ToSet(t) = ToSet(s) \ {e}
    BY <2>1
  <2>3. \A j \in 1 .. Len(s) : j <= j
    BY <1>1
  <2> QED
    BY <1>1, <2>1, <2>2, <2>3 DEF t
<1>3. CASE At # {}
  <2>1. first \in At
    <3>1. At \subseteq Nat
      BY <1>1
    <3> HIDE DEF At
    <3> QED
      BY <1>3, <3>1, LeastNumber
  <2>2. t = RemoveAt(s, first)
    <3>1. SelectInSeq(s, LAMBDA v : v = e) = first
      BY <1>3 DEF SelectInSeq, Min
    <3>2. \E i \in 1 .. Len(s) : s[i] = e
      BY <1>3
    <3> HIDE DEF first, At
    <3> QED
      BY <3>1, <3>2 DEF RemoveFirst
  <2>3. PICK p : p = first
    OBVIOUS
  <2>4. p \in 1 .. Len(s) /\ s[p] = e
    BY <2>1, <2>3
  <2> DEFINE left == SubSeq(s, 1, p - 1)
             right == SubSeq(s, p + 1, Len(s))
  <2>5. t = left \o right
    BY <2>2, <2>3 DEF RemoveAt
  <2> HIDE DEF t, first, At
  <2>6. /\ left \in Seq(S) /\ Len(left) = p - 1
        /\ \A j \in 1 .. p - 1 : left[j] = s[j]
    <3>1. 1 \in Int /\ p - 1 \in Int /\ \A j \in 1 .. p - 1 : s[j] \in S
      BY <1>1, <2>4
    <3>2. /\ left \in Seq(S) /\ Len(left) = IF 1 <= p - 1 THEN p - 1 - 1 + 1 ELSE 0
          /\ \A j \in 1 .. p - 1 - 1 + 1 : left[j] = s[1 + j - 1]
      BY <3>1, SubSeqProperties
    <3> HIDE DEF left
    <3>3. Len(left) = p - 1
      BY <1>1, <2>4, <3>2
    <3>4. \A j \in 1 .. p - 1 : j \in 1 .. p - 1 - 1 + 1 /\ 1 + j - 1 = j
      BY <1>1, <2>4
    <3> QED
      BY <3>2, <3>3, <3>4
  <2>7. /\ right \in Seq(S) /\ Len(right) = Len(s) - p
        /\ \A j \in 1 .. Len(s) - p : right[j] = s[p + j]
    <3>1. p + 1 \in Int /\ Len(s) \in Int /\ \A j \in p + 1 .. Len(s) : s[j] \in S
      BY <1>1, <2>4
    <3>2. /\ right \in Seq(S) /\ Len(right) = IF p + 1 <= Len(s) THEN Len(s) - (p + 1) + 1 ELSE 0
          /\ \A j \in 1 .. Len(s) - (p + 1) + 1 : right[j] = s[p + 1 + j - 1]
      BY <3>1, SubSeqProperties
    <3> HIDE DEF right
    <3>3. Len(right) = Len(s) - p
      <4>1. CASE p + 1 <= Len(s)
        BY <1>1, <2>4, <3>2, <4>1
      <4>2. CASE ~ (p + 1 <= Len(s))
        <5>1. Len(s) \in Nat /\ p \in Nat /\ p <= Len(s) /\ ~ (p + 1 <= Len(s))
          BY <1>1, <2>4, <4>2
        <5>2. Len(s) - p = 0
          BY <5>1
        <5> QED
          BY <3>2, <4>2, <5>2
      <4> QED
        BY <4>1, <4>2
    <3>4. \A j \in 1 .. Len(s) - p : j \in 1 .. Len(s) - (p + 1) + 1 /\ p + 1 + j - 1 = p + j
      BY <1>1, <2>4
    <3> QED
      BY <3>2, <3>3, <3>4
  <2> HIDE DEF left, right
  <2>8. /\ t \in Seq(S) /\ Len(t) = Len(s) - 1
        /\ \A j \in 1 .. Len(s) - 1 : t[j] = IF j < p THEN s[j] ELSE s[j + 1]
    <3>1. /\ t \in Seq(S) /\ Len(t) = Len(left) + Len(right)
          /\ \A j \in 1 .. Len(left) + Len(right) : t[j] = IF j <= Len(left) THEN left[j] ELSE right[j - Len(left)]
      BY <2>5, <2>6, <2>7, ConcatProperties
    <3>2. p - 1 + (Len(s) - p) = Len(s) - 1
      BY <1>1, <2>4
    <3>3. Len(t) = Len(s) - 1
      BY <2>6, <2>7, <3>1, <3>2
    <3>4. ASSUME NEW j \in 1 .. Len(s) - 1 PROVE t[j] = IF j < p THEN s[j] ELSE s[j + 1]
      <4>1. t[j] = IF j <= p - 1 THEN left[j] ELSE right[j - (p - 1)]
        BY <2>6, <2>7, <3>1, <3>2
      <4>2. CASE j < p
        <5>1. j \in 1 .. p - 1 /\ j <= p - 1
          BY <1>1, <2>4, <4>2
        <5> QED
          BY <2>6, <4>1, <4>2, <5>1
      <4>3. CASE ~ (j < p)
        <5>1. ~ (j <= p - 1) /\ j - (p - 1) \in 1 .. Len(s) - p /\ p + (j - (p - 1)) = j + 1
          BY <1>1, <2>4, <4>3
        <5> QED
          BY <2>7, <4>1, <4>3, <5>1
      <4> QED
        BY <4>2, <4>3
    <3> QED
      BY <3>1, <3>3, <3>4
  <2>9. DOMAIN t = 1 .. Len(s) - 1
    BY <2>8, LenProperties
  <2> DEFINE Was(j) == IF j < p THEN j ELSE j + 1
  <2>10. \A j \in 1 .. Len(s) - 1 : /\ Was(j) \in 1 .. Len(s) /\ j <= Was(j) /\ Was(j) # p
                                    /\ t[j] = s[Was(j)]
    <3> SUFFICES ASSUME NEW j \in 1 .. Len(s) - 1
                 PROVE  /\ Was(j) \in 1 .. Len(s) /\ j <= Was(j) /\ Was(j) # p
                        /\ t[j] = s[Was(j)]
      OBVIOUS
    <3>1. CASE j < p
      BY <1>1, <2>4, <2>8, <3>1
    <3>2. CASE ~ (j < p)
      BY <1>1, <2>4, <2>8, <3>2
    <3> QED
      BY <3>1, <3>2
  <2>11. \A j, k \in 1 .. Len(s) - 1 : Was(j) = Was(k) => j = k
    BY <1>1, <2>4
  <2>12. \A k \in 1 .. Len(s) : k # p => \E j \in 1 .. Len(s) - 1 : Was(j) = k
    <3> SUFFICES ASSUME NEW k \in 1 .. Len(s), k # p PROVE \E j \in 1 .. Len(s) - 1 : Was(j) = k
      OBVIOUS
    <3>1. CASE k < p
      <4>1. k \in 1 .. Len(s) - 1 /\ Was(k) = k
        BY <1>1, <2>4, <3>1
      <4> QED
        BY <4>1
    <3>2. CASE ~ (k < p)
      <4>1. k - 1 \in 1 .. Len(s) - 1 /\ Was(k - 1) = k
        BY <1>1, <2>4, <3>2
      <4> QED
        BY <4>1
    <3> QED
      BY <3>1, <3>2
  <2> HIDE DEF Was
  <2>13. IsInjective(t)
    <3> SUFFICES ASSUME NEW j \in 1 .. Len(s) - 1, NEW k \in 1 .. Len(s) - 1, t[j] = t[k] PROVE j = k
      BY <2>9 DEF IsInjective
    <3>1. Was(j) = Was(k)
      BY <1>1, <2>10 DEF IsInjective
    <3> QED
      BY <2>11, <3>1
  <2>14. ToSet(t) = ToSet(s) \ {e}
    <3>1. ASSUME NEW j \in 1 .. Len(s) - 1 PROVE t[j] \in ToSet(s) /\ t[j] # e
      BY <1>1, <2>4, <2>10 DEF IsInjective, ToSet
    <3>2. ASSUME NEW k \in 1 .. Len(s), s[k] # e PROVE s[k] \in ToSet(t)
      BY <2>4, <2>9, <2>10, <2>12, <3>2 DEF ToSet
    <3> QED
      BY <1>1, <2>9, <3>1, <3>2 DEF ToSet
  <2>15. \A j \in 1 .. Len(s) - 1 : \E k \in 1 .. Len(s) : j <= k /\ t[j] = s[k]
    BY <2>10
  <2> QED
    BY <2>8, <2>13, <2>14, <2>15 DEF t
<1> QED
  BY <1>2, <1>3

LEMMA CountOnce ==
    ASSUME NEW S, NEW s \in Seq(S), IsInjective(s)
    PROVE  Cardinality(ToSet(s)) = Len(s)
<1>1. Len(s) \in Nat /\ DOMAIN s = 1 .. Len(s)
  BY LenProperties
<1>2. s \in [1 .. Len(s) -> ToSet(s)]
  BY <1>1 DEF ToSet
<1>3. s \in Injection(1 .. Len(s), ToSet(s)) /\ s \in Surjection(1 .. Len(s), ToSet(s))
  BY <1>1, <1>2 DEF Injection, Surjection, IsInjective, ToSet
<1>4. ExistsBijection(1 .. Len(s), ToSet(s))
  BY <1>3 DEF ExistsBijection, Bijection
<1> QED
  BY <1>1, <1>4, FS_CountingElements

-----------------------------------------------------------------------------
(* What the calls do to files and descriptors. *)

FileTypes ==
    /\ node \in [Names -> Nodes \cup {NoNode}]
    /\ kind \in [Nodes -> {"none", "file", "dir"}]
    /\ size \in [Nodes -> 0 .. MaxSize]
    /\ fds \in [Fds -> Descriptors \cup {NoDescriptor}]
    /\ last \in Answers
    /\ calls \in 0 .. MaxCalls

LEMMA CallIs ==
    ASSUME FileTypes, NEW op \in Ops, NEW f \in Fds \cup {0}, NEW result \in Results, Call(op, f, result)
    PROVE  last' \in Answers /\ calls' \in 0 .. MaxCalls
           /\ last'.op = op /\ last'.fd = f /\ last'.result = result
BY FilesAssumption DEF Call, FileTypes, Answers

\* A descriptor of a file: what each call may change of it.
LEMMA OpenIs ==
    ASSUME FileTypes, NEW f \in Fds, Open(f)
    PROVE  /\ fds[f] \in Descriptors /\ fds[f].node \in Nodes /\ fds[f].pos \in Nat
           /\ size[fds[f].node] \in 0 .. MaxSize
           /\ \A k \in Nat : [fds[f] EXCEPT !.pos = k] \in Descriptors
           /\ \A b \in BOOLEAN : [fds[f] EXCEPT !.append = b] \in Descriptors
<1>1. fds[f] \in Descriptors
  BY DEF FileTypes, Open
<1> QED
  BY <1>1 DEF FileTypes, Descriptors

LEMMA PathOpenTypes ==
    ASSUME FileTypes, PathOpen
    PROVE  /\ kind' \in [Nodes -> {"none", "file", "dir"}]
           /\ size' \in [Nodes -> 0 .. MaxSize]
           /\ fds' \in [Fds -> Descriptors \cup {NoDescriptor}]
           /\ last' \in Answers /\ calls' \in 0 .. MaxCalls
<1>1. PICK q \in Requests, n \in Names : OpenFails(q, n) \/ OpenFile(q, n) \/ OpenDir(q, n)
  BY DEF PathOpen
<1>2. CASE OpenFails(q, n)
  BY <1>2, CallIs DEF OpenFails, FileTypes, Ops, Results
<1>3. CASE OpenDir(q, n)
  BY <1>3, CallIs DEF OpenDir, FileTypes, Ops, Results
<1>4. CASE OpenFile(q, n)
  <2>1. PICK x \in Nodes :
          /\ IF Exists(n) THEN UNCHANGED kind ELSE kind' = [kind EXCEPT ![x] = "file"]
          /\ size' = IF Exists(n) /\ ~Truncates(q) THEN size ELSE [size EXCEPT ![x] = 0]
          /\ \/ Call("open", 0, "Err") /\ UNCHANGED fds
             \/ Call("open", 0, "NonBlock") /\ UNCHANGED fds
             \/ \E f \in Fds : fds' = [fds EXCEPT ![f] = Descriptor(q, x)] /\ Call("open", f, "Ok")
    BY <1>4 DEF OpenFile
  <2>2. kind' \in [Nodes -> {"none", "file", "dir"}] /\ size' \in [Nodes -> 0 .. MaxSize]
    BY <2>1, FilesAssumption DEF FileTypes
  <2>3. Descriptor(q, x) \in Descriptors
    BY FilesAssumption DEF Descriptor, Descriptors, Writes, Creates, Appends
  <2>4. fds' \in [Fds -> Descriptors \cup {NoDescriptor}]
    BY <2>1, <2>3 DEF FileTypes
  <2>5. last' \in Answers /\ calls' \in 0 .. MaxCalls
    BY <2>1, CallIs DEF Ops, Results
  <2> QED
    BY <2>2, <2>4, <2>5
<1> QED
  BY <1>1, <1>2, <1>3, <1>4

LEMMA FdStepTypes ==
    ASSUME FileTypes, NEW f \in Fds, FdStep(f)
    PROVE  /\ UNCHANGED <<order, node, scan, kind>>
           /\ size' \in [Nodes -> 0 .. MaxSize]
           /\ fds' \in [Fds -> Descriptors \cup {NoDescriptor}]
           /\ last' \in Answers /\ calls' \in 0 .. MaxCalls
<1>1. CASE Close(f)
  BY <1>1, CallIs DEF Close, FileTypes, Ops, Results, directory
<1>2. ASSUME NEW n \in 0 .. MaxSize, NEW at \in BOOLEAN, Read(f, n, at)
      PROVE  /\ UNCHANGED <<order, node, scan, kind>>
             /\ size' \in [Nodes -> 0 .. MaxSize]
             /\ fds' \in [Fds -> Descriptors \cup {NoDescriptor}]
             /\ last' \in Answers /\ calls' \in 0 .. MaxCalls
  <2> DEFINE x == fds[f].node
             left == IF fds[f].pos < size[x] THEN size[x] - fds[f].pos ELSE 0
             more == IF n < left THEN n ELSE left
  <2>1. /\ Open(f) /\ UNCHANGED <<order, node, scan, kind, size>>
        /\ \E result \in {"Ok", "Err"} : Call("read", f, result)
        /\ fds' = fds \/ fds' = [fds EXCEPT ![f].pos = fds[f].pos + more]
    BY <1>2, OpenIs DEF Read, directory, FileTypes
  <2>2. fds[f].pos + more \in Nat
    <3>1. fds[f].pos \in Nat /\ size[x] \in Nat /\ n \in Nat
      BY <2>1, OpenIs, FilesAssumption
    <3> HIDE DEF x
    <3>2. left \in Nat
      BY <3>1
    <3> HIDE DEF left
    <3> QED
      BY <3>1, <3>2
  <2> HIDE DEF more
  <2>3. fds' \in [Fds -> Descriptors \cup {NoDescriptor}]
    BY <2>1, <2>2, OpenIs DEF FileTypes
  <2> QED
    BY <2>1, <2>3, CallIs DEF FileTypes, Ops, Results
<1>3. ASSUME NEW n \in 0 .. MaxSize, NEW at \in BOOLEAN, NEW offset \in 0 .. MaxSize,
             WriteBytes(f, n, offset, at)
      PROVE  /\ UNCHANGED <<order, node, scan, kind>>
             /\ size' \in [Nodes -> 0 .. MaxSize]
             /\ fds' \in [Fds -> Descriptors \cup {NoDescriptor}]
             /\ last' \in Answers /\ calls' \in 0 .. MaxCalls
  <2> DEFINE x == fds[f].node
             from == IF fds[f].append THEN size[x] ELSE IF at THEN offset ELSE fds[f].pos
             to == IF n = 0 THEN size[x] ELSE Larger(size[x], from + n)
  <2>1. /\ Open(f) /\ UNCHANGED <<order, node, scan, kind>>
        /\ \E result \in {"Ok", "Err"} : Call("write", f, result)
        /\ \/ UNCHANGED <<size, fds>>
           \/ /\ to <= MaxSize /\ size' = [size EXCEPT ![x] = to]
              /\ fds' = fds \/ fds' = [fds EXCEPT ![f].pos = from + n]
    BY <1>3 DEF WriteBytes, directory
  <2>2. from + n \in Nat /\ to \in Nat
    <3>1. fds[f].pos \in Nat /\ size[x] \in Nat /\ n \in Nat /\ offset \in Nat
      BY <2>1, OpenIs, FilesAssumption
    <3> HIDE DEF x
    <3>2. from \in Nat
      BY <3>1
    <3> HIDE DEF from
    <3> QED
      BY <3>1, <3>2 DEF Larger
  <2>3. x \in Nodes
    BY <2>1, OpenIs
  <2> HIDE DEF from, to
  <2>4. size' \in [Nodes -> 0 .. MaxSize]
    <3>1. CASE UNCHANGED size
      BY <3>1 DEF FileTypes
    <3>2. CASE to <= MaxSize /\ size' = [size EXCEPT ![x] = to]
      <4>1. to \in 0 .. MaxSize
        BY <2>2, <3>2, FilesAssumption
      <4> QED
        BY <2>3, <3>2, <4>1 DEF FileTypes
    <3> QED
      BY <2>1, <3>1, <3>2
  <2>5. fds' \in [Fds -> Descriptors \cup {NoDescriptor}]
    BY <2>1, <2>2, OpenIs DEF FileTypes
  <2> QED
    BY <2>1, <2>4, <2>5, CallIs DEF Ops, Results
<1>4. ASSUME NEW n \in 0 .. MaxSize, SetSize(f, n)
      PROVE  /\ UNCHANGED <<order, node, scan, kind>>
             /\ size' \in [Nodes -> 0 .. MaxSize]
             /\ fds' \in [Fds -> Descriptors \cup {NoDescriptor}]
             /\ last' \in Answers /\ calls' \in 0 .. MaxCalls
  BY <1>4, OpenIs, CallIs DEF SetSize, directory, FileTypes, Ops, Results
<1>5. ASSUME NEW n \in 0 .. MaxSize, Seek(f, n)
      PROVE  /\ UNCHANGED <<order, node, scan, kind>>
             /\ size' \in [Nodes -> 0 .. MaxSize]
             /\ fds' \in [Fds -> Descriptors \cup {NoDescriptor}]
             /\ last' \in Answers /\ calls' \in 0 .. MaxCalls
  <2>1. n \in Nat
    BY FilesAssumption
  <2> QED
    BY <1>5, <2>1, OpenIs, CallIs DEF Seek, directory, FileTypes, Ops, Results
<1>6. ASSUME NEW append \in BOOLEAN, SetFlags(f, append)
      PROVE  /\ UNCHANGED <<order, node, scan, kind>>
             /\ size' \in [Nodes -> 0 .. MaxSize]
             /\ fds' \in [Fds -> Descriptors \cup {NoDescriptor}]
             /\ last' \in Answers /\ calls' \in 0 .. MaxCalls
  BY <1>6, OpenIs, CallIs DEF SetFlags, directory, FileTypes, Ops, Results
<1> QED
  BY <1>1, <1>2, <1>3, <1>4, <1>5, <1>6 DEF FdStep

LEMMA PathStepTypes ==
    ASSUME FileTypes, NEW n \in Names, PathStep(n)
    PROVE  /\ kind' \in [Nodes -> {"none", "file", "dir"}]
           /\ UNCHANGED <<size, fds>>
           /\ last' \in Answers /\ calls' \in 0 .. MaxCalls
<1>1. CASE CreateDirectory(n)
  BY <1>1, CallIs DEF CreateDirectory, FileTypes, Ops, Results
<1>2. ASSUME NEW k \in {"file", "dir"}, Delete(n, k)
      PROVE  UNCHANGED <<kind, size, fds>> /\ last' \in Answers /\ calls' \in 0 .. MaxCalls
  BY <1>2, CallIs DEF Delete, Ops, Results
<1>3. ASSUME NEW to \in Names, Rename(n, to)
      PROVE  UNCHANGED <<kind, size, fds>> /\ last' \in Answers /\ calls' \in 0 .. MaxCalls
  BY <1>3, CallIs DEF Rename, Ops, Results
<1>4. ASSUME NEW to \in Names, NEW follow \in BOOLEAN, Link(n, to, follow)
      PROVE  UNCHANGED <<kind, size, fds>> /\ last' \in Answers /\ calls' \in 0 .. MaxCalls
  BY <1>4, CallIs DEF Link, Ops, Results
<1> QED
  BY <1>1, <1>2, <1>3, <1>4 DEF PathStep, FileTypes

-----------------------------------------------------------------------------
(* What the calls do to the directory. *)

Took(len) ==
    LET names == Entries(scan.cookie)
        k == Fitting(names, len)
    IN  scan' = [scan EXCEPT !.got = @ \o SubSeq(names, 1, k), !.cookie = @ + k,
                             !.end = Used(names, len) < len]

Moved(from, to) ==
    /\ from # to /\ Exists(from)
    /\ LET without == RemoveFirst(RemoveFirst(order, from), to)
       IN  \E i \in 1 .. Len(without) + 1 : order' = InsertAt(without, i, to)
    /\ node' = [node EXCEPT ![to] = node[from], ![from] = NoNode]
    /\ scan' = [scan EXCEPT !.kept = @ \ {from, to}, !.removed = TRUE, !.added = TRUE]

\* A name comes, leaves or is moved, the listing goes on or begins again, or
\* nothing of them changes.
LEMMA DirectorySteps ==
    ASSUME FileTypes, [Next]_vars
    PROVE  \/ UNCHANGED <<order, node, scan>>
           \/ \E n \in Names, x \in Nodes : ~Exists(n) /\ Enter(n, x)
           \/ \E n \in Names : Exists(n) /\ Leave(n)
           \/ \E from, to \in Names : Moved(from, to)
           \/ UNCHANGED <<order, node>> /\ \E len \in Buffers : ~scan.end /\ Took(len)
           \/ UNCHANGED <<order, node>> /\ scan' = NewScan(Present)
<1>1. CASE UNCHANGED vars
  BY <1>1 DEF vars
<1>2. CASE PathOpen
  <2>1. PICK q \in Requests, n \in Names : OpenFails(q, n) \/ OpenFile(q, n) \/ OpenDir(q, n)
    BY <1>2 DEF PathOpen
  <2>2. CASE OpenFails(q, n) \/ OpenDir(q, n)
    BY <2>2 DEF OpenFails, OpenDir, directory
  <2>3. CASE OpenFile(q, n)
    BY <2>3 DEF OpenFile, directory
  <2> QED
    BY <2>1, <2>2, <2>3
<1>3. ASSUME NEW f \in Fds, FdStep(f) PROVE UNCHANGED <<order, node, scan>>
  BY <1>3, FdStepTypes
<1>4. ASSUME NEW n \in Names, CreateDirectory(n)
      PROVE  UNCHANGED <<order, node, scan>> \/ \E x \in Nodes : ~Exists(n) /\ Enter(n, x)
  BY <1>4 DEF CreateDirectory, directory
<1>5. ASSUME NEW n \in Names, NEW k, Delete(n, k)
      PROVE  UNCHANGED <<order, node, scan>> \/ (Exists(n) /\ Leave(n))
  <2>1. CASE Exists(n) /\ kind[node[n]] = k
    BY <1>5, <2>1 DEF Delete
  <2>2. CASE ~ (Exists(n) /\ kind[node[n]] = k)
    BY <1>5, <2>2 DEF Delete, directory
  <2> QED
    BY <2>1, <2>2
<1>6. ASSUME NEW from \in Names, NEW to \in Names, NEW follow, Link(from, to, follow)
      PROVE  UNCHANGED <<order, node, scan>> \/ \E x \in Nodes : ~Exists(to) /\ Enter(to, x)
  <2>1. Exists(from) => node[from] \in Nodes
    BY DEF FileTypes, Exists
  <2> QED
    BY <1>6, <2>1 DEF Link, directory
<1>7. ASSUME NEW from \in Names, NEW to \in Names, Rename(from, to)
      PROVE  UNCHANGED <<order, node, scan>> \/ Moved(from, to)
  BY <1>7 DEF Rename, Moved, directory
<1>8. CASE Rewind
  BY <1>8 DEF Rewind
<1>9. ASSUME NEW len \in Buffers, ReadDir(len)
      PROVE  UNCHANGED <<order, node>> /\ (UNCHANGED scan \/ (~scan.end /\ Took(len)))
  BY <1>9 DEF ReadDir, Took
<1>10. ASSUME NEW n \in Names, PathStep(n)
       PROVE  \/ UNCHANGED <<order, node, scan>>
              \/ \E m \in Names, x \in Nodes : ~Exists(m) /\ Enter(m, x)
              \/ \E m \in Names : Exists(m) /\ Leave(m)
              \/ \E from, to \in Names : Moved(from, to)
  <2>1. CASE CreateDirectory(n)
    BY <1>4, <2>1
  <2>2. CASE \E k \in {"file", "dir"} : Delete(n, k)
    BY <1>5, <2>2
  <2>3. CASE \E to \in Names : Rename(n, to)
    BY <1>7, <2>3
  <2>4. CASE \E to \in Names, follow \in BOOLEAN : Link(n, to, follow)
    BY <1>6, <2>4
  <2> QED
    BY <1>10, <2>1, <2>2, <2>3, <2>4 DEF PathStep
<1> QED
  BY <1>1, <1>2, <1>3, <1>8, <1>9, <1>10 DEF Next

\* A call that fails has changed no file and no name.
LEMMA FailedStep ==
    ASSUME Next
    PROVE  /\ last'.result = "Err" => UNCHANGED <<order, node, kind, size>>
           /\ size' # size /\ last'.op = "write" => "WRITE" \in fds[last'.fd].access
           /\ size' # size => last'.op \in {"open", "write", "resize"}
<1> DEFINE Kept == UNCHANGED <<order, node, kind, size>>
           Goal == /\ last'.result = "Err" => Kept
                   /\ size' # size /\ last'.op = "write" => "WRITE" \in fds[last'.fd].access
                   /\ size' # size => last'.op \in {"open", "write", "resize"}
<1>1. ASSUME NEW op, NEW f, NEW result, Call(op, f, result)
      PROVE  last'.op = op /\ last'.fd = f /\ last'.result = result
  BY <1>1 DEF Call
<1>2. ASSUME NEW q \in Requests, NEW n \in Names, OpenFails(q, n) \/ OpenDir(q, n) PROVE Goal
  BY <1>1, <1>2 DEF OpenFails, OpenDir, directory
<1>3. ASSUME NEW q \in Requests, NEW n \in Names, OpenFile(q, n) PROVE Goal
  <2>1. ~Refused(q) /\ ~Denied(q, n)
    BY <1>3 DEF OpenFile
  <2>2. CASE "DIRECTORY" \in q.o
    <3>1. Exists(n) /\ ~Truncates(q)
      BY <2>1, <2>2 DEF Refused, Denied, Creates, Truncates
    <3>2. Kept
      BY <1>3, <3>1 DEF OpenFile, directory
    <3> QED
      BY <3>2
  <2>3. CASE "DIRECTORY" \notin q.o
    <3>1. last'.op = "open" /\ last'.result # "Err"
      BY <1>1, <1>3, <2>3 DEF OpenFile
    <3> QED
      BY <3>1
  <2> QED
    BY <2>2, <2>3
<1>4. ASSUME NEW f \in Fds, FdStep(f) PROVE Goal
  <2>1. CASE Close(f)
    BY <1>1, <2>1 DEF Close, directory
  <2>2. ASSUME NEW n \in 0 .. MaxSize, NEW at \in BOOLEAN, Read(f, n, at) PROVE Goal
    BY <2>2 DEF Read, directory
  <2>3. ASSUME NEW n, NEW at, NEW offset, WriteBytes(f, n, offset, at) PROVE Goal
    <3>1. CASE MayWrite(f)
      <4>1. /\ last'.op = "write" /\ last'.fd = f /\ last'.result = "Ok"
            /\ "WRITE" \in fds[f].access
        BY <1>1, <2>3, <3>1 DEF WriteBytes, MayWrite
      <4> QED
        BY <4>1
    <3>2. CASE ~MayWrite(f)
      BY <2>3, <3>2 DEF WriteBytes, directory
    <3> QED
      BY <3>1, <3>2
  <2>4. ASSUME NEW n, SetSize(f, n) PROVE Goal
    <3>1. CASE fds[f].writable
      <4>1. last'.op = "resize" /\ last'.result = "Ok"
        BY <1>1, <2>4, <3>1 DEF SetSize
      <4> QED
        BY <4>1
    <3>2. CASE ~fds[f].writable
      BY <2>4, <3>2 DEF SetSize, directory
    <3> QED
      BY <3>1, <3>2
  <2>5. ASSUME NEW n, Seek(f, n) PROVE Goal
    BY <2>5 DEF Seek, directory
  <2>6. ASSUME NEW append, SetFlags(f, append) PROVE Goal
    BY <2>6 DEF SetFlags, directory
  <2> QED
    BY <1>4, <2>1, <2>2, <2>3, <2>4, <2>5, <2>6 DEF FdStep
<1>5. ASSUME NEW n \in Names, PathStep(n) PROVE Goal
  <2>1. UNCHANGED size
    BY <1>5 DEF PathStep, CreateDirectory, Delete, Link, Rename
  <2>2. last'.result = "Err" => Kept
    <3>1. CASE CreateDirectory(n)
      BY <1>1, <3>1 DEF CreateDirectory, directory
    <3>2. ASSUME NEW k, Delete(n, k) PROVE last'.result = "Err" => Kept
      BY <1>1, <3>2 DEF Delete, directory
    <3>3. ASSUME NEW to, NEW follow, Link(n, to, follow) PROVE last'.result = "Err" => Kept
      BY <1>1, <3>3 DEF Link, directory
    <3>4. ASSUME NEW to, Rename(n, to) PROVE last'.result = "Err" => Kept
      BY <1>1, <3>4 DEF Rename, directory
    <3> QED
      BY <1>5, <3>1, <3>2, <3>3, <3>4 DEF PathStep
  <2> QED
    BY <2>1, <2>2
<1>6. Rewind => Goal
  BY DEF Rewind
<1>7. ASSUME NEW len, ReadDir(len) PROVE Goal
  BY <1>7 DEF ReadDir
<1> HIDE DEF Goal
<1>8. PathOpen => Goal
  BY <1>2, <1>3 DEF PathOpen
<1>9. Goal
  BY <1>4, <1>5, <1>6, <1>7, <1>8 DEF Next
<1> QED
  BY <1>9 DEF Goal

\* Whatever is asked of the directory: a call that fails has changed no file and
\* no name, except a path_open that could not set NONBLOCK; and only an open, a
\* write with the right to write, and a resize change a file (path_open, fd_write,
\* fd_filestat_set_size and the path calls).
THEOREM FailuresKeep == Spec => FailureKeeps
<1>1. [Next]_vars => [/\ last'.result = "Err" => UNCHANGED <<order, node, kind, size>>
                      /\ size' # size /\ last'.op = "write" => "WRITE" \in fds[last'.fd].access
                      /\ size' # size => last'.op \in {"open", "write", "resize"}]_vars
  BY FailedStep
<1> QED
  BY <1>1, PTL DEF Spec, FailureKeeps

-----------------------------------------------------------------------------
(* The directory is enumerated once, and what a listing of it has given. *)

Listing(names) == <<".", "..">> \o names

\* The system enumerates each name of the directory once.
Listed ==
    /\ order \in Seq(Names) /\ IsInjective(order)
    /\ ToSet(order) = Present

\* A name that was there from the beginning is behind the cookie, or the guest has
\* got it, as long as none is removed; and as long as none is added, what is behind
\* the cookie is what the guest has not got.
Scanned ==
    /\ scan \in Scans
    /\ scan.kept \subseteq Present
    /\ Len(scan.got) = scan.cookie
    /\ ~scan.removed =>
          \A i \in 1 .. Len(order) :
             order[i] \in scan.kept /\ i + 2 <= scan.cookie => order[i] \in ToSet(scan.got)
    /\ scan.end /\ ~scan.removed => scan.kept \subseteq ToSet(scan.got)
    /\ ~scan.added =>
          /\ IsInjective(scan.got)
          /\ \A i \in 1 .. Len(order) + 2 :
                i > scan.cookie => Listing(order)[i] \notin ToSet(scan.got)

FilesInv == FileTypes /\ Listed /\ Scanned

LEMMA ListingIs ==
    ASSUME NEW names \in Seq(Names)
    PROVE  /\ Listing(names) \in Seq(Names \cup {".", ".."})
           /\ Len(Listing(names)) = Len(names) + 2
           /\ Listing(names)[1] = "." /\ Listing(names)[2] = ".."
           /\ \A i \in 1 .. Len(names) : Listing(names)[i + 2] = names[i]
           /\ \A i \in 3 .. Len(names) + 2 : i - 2 \in 1 .. Len(names) /\ Listing(names)[i] = names[i - 2]
           /\ IsInjective(names) => \A i, j \in 1 .. Len(names) + 2 : Listing(names)[i] = Listing(names)[j] => i = j
<1>1. /\ Len(names) \in Nat /\ DOMAIN names = 1 .. Len(names)
      /\ \A i \in 1 .. Len(names) : names[i] \in Names
  BY LenProperties, ElementOfSeq
<1> DEFINE dots == <<".", "..">>
           S == Names \cup {".", ".."}
           all == Listing(names)
<1>2. dots \in Seq(S) /\ Len(dots) = 2 /\ dots[1] = "." /\ dots[2] = ".."
  OBVIOUS
<1>3. names \in Seq(S)
  OBVIOUS
<1>4. all = dots \o names
  BY DEF Listing
<1> HIDE DEF dots, S, all
<1>5. /\ all \in Seq(S) /\ Len(all) = 2 + Len(names)
      /\ \A i \in 1 .. 2 + Len(names) : all[i] = IF i <= 2 THEN dots[i] ELSE names[i - 2]
  <2>1. /\ all \in Seq(S) /\ Len(all) = Len(dots) + Len(names)
        /\ \A i \in 1 .. Len(dots) + Len(names) : all[i] = IF i <= Len(dots) THEN dots[i] ELSE names[i - Len(dots)]
    BY <1>2, <1>3, <1>4, ConcatProperties
  <2> QED
    BY <1>2, <2>1
<1>6. Len(all) = Len(names) + 2 /\ all[1] = "." /\ all[2] = ".."
  BY <1>1, <1>2, <1>5
<1>7. ASSUME NEW i \in 1 .. Len(names) PROVE all[i + 2] = names[i]
  <2>1. i + 2 \in 1 .. 2 + Len(names) /\ ~ (i + 2 <= 2) /\ i + 2 - 2 = i
    BY <1>1
  <2> QED
    BY <1>5, <2>1
<1>8. ASSUME NEW i \in 3 .. Len(names) + 2 PROVE i - 2 \in 1 .. Len(names) /\ all[i] = names[i - 2]
  <2>1. i \in 1 .. 2 + Len(names) /\ ~ (i <= 2) /\ i - 2 \in 1 .. Len(names)
    BY <1>1
  <2> QED
    BY <1>5, <2>1
<1>9. ASSUME IsInjective(names), NEW i \in 1 .. Len(names) + 2, NEW j \in 1 .. Len(names) + 2, all[i] = all[j]
      PROVE  i = j
  <2>1. "." \notin Names /\ ".." \notin Names
    BY FilesAssumption
  <2>2. \A k \in 1 .. Len(names) + 2 : k = 1 \/ k = 2 \/ k \in 3 .. Len(names) + 2
    BY <1>1
  <2>3. \A k \in 3 .. Len(names) + 2 : all[k] \in Names
    BY <1>1, <1>8
  <2>4. CASE i \in 3 .. Len(names) + 2 /\ j \in 3 .. Len(names) + 2
    <3>1. i - 2 \in 1 .. Len(names) /\ j - 2 \in 1 .. Len(names) /\ names[i - 2] = names[j - 2]
      BY <1>8, <1>9, <2>4
    <3>2. i - 2 = j - 2
      BY <1>1, <1>9, <3>1 DEF IsInjective
    <3> QED
      BY <1>1, <3>2
  <2> QED
    BY <1>6, <1>9, <2>1, <2>2, <2>3, <2>4
<1> QED
  BY <1>5, <1>6, <1>7, <1>8, <1>9 DEF all, S

\* What one call of fd_readdir gives: entries from the cookie on, and all of them
\* when the buffer is not full.
LEMMA TookIs ==
    ASSUME Listed, scan \in Scans, NEW len \in Buffers, Took(len)
    PROVE  \E k \in Nat : \E piece \in Seq(Names \cup {".", ".."}) : \E end \in BOOLEAN :
              /\ Len(piece) = k
              /\ scan' = [scan EXCEPT !.got = scan.got \o piece, !.cookie = scan.cookie + k, !.end = end]
              /\ \A i \in 1 .. k : /\ scan.cookie + i \in 1 .. Len(order) + 2
                                   /\ piece[i] = Listing(order)[scan.cookie + i]
              /\ end => Len(order) + 2 <= scan.cookie + k
<1>1. PICK names, k, piece, end :
         /\ names = Entries(scan.cookie) /\ k = Fitting(names, len)
         /\ piece = SubSeq(names, 1, k) /\ end = (Used(names, len) < len)
  OBVIOUS
<1>2. scan' = [scan EXCEPT !.got = scan.got \o piece, !.cookie = scan.cookie + k, !.end = end]
  BY <1>1 DEF Took, Scans
<1> DEFINE S == Names \cup {".", ".."}
           all == Listing(order)
           total == Len(order) + 2
           c == scan.cookie
<1>3. /\ order \in Seq(Names) /\ c \in Nat /\ len \in Nat
  BY FilesAssumption DEF Listed, Scans
<1>4. /\ all \in Seq(S) /\ Len(all) = total /\ total \in Nat
      /\ \A i \in 1 .. total : all[i] \in S
  <2>1. all \in Seq(S) /\ Len(all) = total
    BY <1>3, ListingIs
  <2> HIDE DEF all, S
  <2> QED
    BY <1>3, <2>1, LenProperties, ElementOfSeq
<1>5. names = SubSeq(all, c + 1, total)
  BY <1>1 DEF Entries, Listing
<1> HIDE DEF all, total, c, S
<1>6. /\ names \in Seq(S) /\ Len(names) = IF c + 1 <= total THEN total - (c + 1) + 1 ELSE 0
      /\ \A i \in 1 .. total - (c + 1) + 1 : names[i] = all[c + 1 + i - 1]
  <2>1. c + 1 \in Int /\ total \in Int /\ \A i \in c + 1 .. total : all[i] \in S
    BY <1>3, <1>4
  <2> QED
    BY <1>5, <2>1, SubSeqProperties
<1>7. /\ Len(names) \in Nat /\ total <= c + Len(names)
      /\ \A i \in 1 .. Len(names) : c + i \in 1 .. total /\ names[i] = all[c + i]
  <2>1. CASE c + 1 <= total
    <3>1. Len(names) = total - c /\ total - (c + 1) + 1 = total - c
      BY <1>3, <1>4, <1>6, <2>1
    <3>2. \A i \in 1 .. total - c : c + i \in 1 .. total /\ c + 1 + i - 1 = c + i
      BY <1>3, <1>4
    <3>3. Len(names) \in Nat /\ total <= c + Len(names)
      BY <1>3, <1>4, <2>1, <3>1
    <3> QED
      BY <1>6, <3>1, <3>2, <3>3
  <2>2. CASE ~ (c + 1 <= total)
    <3>1. Len(names) = 0
      BY <1>6, <2>2
    <3> QED
      BY <1>3, <1>4, <2>2, <3>1
  <2> QED
    BY <2>1, <2>2
<1>8. Take(names)
  <2>1. \A i \in 1 .. Len(names) : names[i] \in S
    BY <1>6, ElementOfSeq
  <2>2. \A x \in S : EntryLen(x) \in Nat \ {0}
    BY FilesAssumption DEF EntryLen, S
  <2> QED
    BY <1>7, <2>1, <2>2 DEF Take
<1>9. k \in 0 .. Len(names) /\ (Bytes(names) <= len => k = Len(names))
  BY <1>1, <1>3, <1>8, FittingIs
<1>10. end => k = Len(names)
  <2>1. SUFFICES ASSUME Used(names, len) < len PROVE Bytes(names) <= len
    BY <1>1, <1>9
  <2>2. CASE ~ (Bytes(names) <= len)
    <3>1. Used(names, len) = len
      BY <2>2 DEF Used
    <3> QED
      BY <1>3, <2>1, <3>1
  <2> QED
    BY <2>2
<1>11. piece \in Seq(S) /\ Len(piece) = k /\ \A i \in 1 .. k : piece[i] = names[i]
  <2>1. 1 \in Int /\ k \in Int /\ \A i \in 1 .. k : names[i] \in S
    BY <1>6, <1>7, <1>9, ElementOfSeq
  <2>2. /\ SubSeq(names, 1, k) \in Seq(S) /\ Len(SubSeq(names, 1, k)) = IF 1 <= k THEN k - 1 + 1 ELSE 0
        /\ \A i \in 1 .. k - 1 + 1 : SubSeq(names, 1, k)[i] = names[1 + i - 1]
    BY <2>1, SubSeqProperties
  <2>3. k \in Nat /\ k - 1 + 1 = k /\ (IF 1 <= k THEN k ELSE 0) = k /\ \A i \in 1 .. k : 1 + i - 1 = i
    BY <1>7, <1>9
  <2> QED
    BY <1>1, <2>2, <2>3
<1>12. \A i \in 1 .. k : c + i \in 1 .. total /\ piece[i] = all[c + i]
  <2>1. \A i \in 1 .. k : i \in 1 .. Len(names)
    BY <1>7, <1>9
  <2> QED
    BY <1>7, <1>11, <2>1
<1>13. k \in Nat /\ end \in BOOLEAN
  BY <1>1, <1>7, <1>9
<1>14. end => total <= c + k
  BY <1>7, <1>10
<1> QED
  BY <1>2, <1>11, <1>12, <1>13, <1>14 DEF all, total, c, S

\* A name comes into the directory: what was behind the cookie stays there.
LEMMA EnterKeeps ==
    ASSUME FilesInv, NEW n \in Names, NEW x \in Nodes, ~Exists(n), Enter(n, x)
    PROVE  node' \in [Names -> Nodes \cup {NoNode}] /\ Listed' /\ Scanned'
<1>1. PICK i \in 1 .. Len(order) + 1 : order' = InsertAt(order, i, n)
  BY DEF Enter
<1>2. /\ node' = [node EXCEPT ![n] = x] /\ scan' = [scan EXCEPT !.added = TRUE]
      /\ node \in [Names -> Nodes \cup {NoNode}]
  BY DEF Enter, FilesInv, FileTypes
<1>3. order \in Seq(Names) /\ IsInjective(order) /\ ToSet(order) = Present
  BY DEF FilesInv, Listed
<1>4. n \notin Present /\ Present' = Present \cup {n}
  BY <1>2, FilesAssumption DEF Present, Exists
<1>5. /\ order' \in Seq(Names) /\ IsInjective(order') /\ ToSet(order') = ToSet(order) \cup {n}
      /\ \A j \in 1 .. Len(order') :
            order'[j] = n \/ \E k \in 1 .. Len(order) : k <= j /\ order'[j] = order[k]
  BY <1>1, <1>3, <1>4, InsertIs
<1>6. Listed'
  BY <1>3, <1>4, <1>5 DEF Listed
<1>7. Scanned
  BY DEF FilesInv
<1>8. /\ scan' \in Scans /\ scan'.kept = scan.kept /\ scan'.got = scan.got /\ scan'.cookie = scan.cookie
      /\ scan'.removed = scan.removed /\ scan'.end = scan.end /\ scan'.added = TRUE
  BY <1>2, <1>7 DEF Scanned, Scans
<1>9. ASSUME ~scan.removed, NEW j \in 1 .. Len(order'), order'[j] \in scan.kept, j + 2 <= scan.cookie
      PROVE  order'[j] \in ToSet(scan.got)
  <2>1. order'[j] # n
    BY <1>4, <1>7, <1>9 DEF Scanned
  <2>2. PICK k \in 1 .. Len(order) : k <= j /\ order'[j] = order[k]
    BY <1>5, <2>1
  <2>3. k + 2 <= scan.cookie
    <3>1. scan.cookie \in Nat /\ j \in Nat /\ k \in Nat
      BY <1>3, <1>5, <1>7, LenProperties DEF Scanned, Scans
    <3> QED
      BY <1>9, <2>2, <3>1
  <2> QED
    BY <1>7, <1>9, <2>2, <2>3 DEF Scanned
<1>10. Scanned'
  BY <1>4, <1>7, <1>8, <1>9 DEF Scanned
<1> QED
  BY <1>2, <1>6, <1>10

\* A name leaves the directory, perhaps for another one: what is behind the cookie
\* was there before.
LEMMA LeaveKeeps ==
    ASSUME FilesInv, NEW n \in Names, Exists(n), Leave(n)
    PROVE  node' \in [Names -> Nodes \cup {NoNode}] /\ Listed' /\ Scanned'
<1>1. /\ order' = RemoveFirst(order, n) /\ node' = [node EXCEPT ![n] = NoNode]
      /\ scan' = [scan EXCEPT !.kept = scan.kept \ {n}, !.removed = TRUE]
      /\ node \in [Names -> Nodes \cup {NoNode}]
  BY DEF Leave, FilesInv, FileTypes, Scanned, Scans
<1>2. order \in Seq(Names) /\ IsInjective(order) /\ ToSet(order) = Present
  BY DEF FilesInv, Listed
<1>3. Present' = Present \ {n}
  BY <1>1 DEF Present, Exists
<1>4. /\ order' \in Seq(Names) /\ IsInjective(order') /\ ToSet(order') = ToSet(order) \ {n}
      /\ \A j \in 1 .. Len(order') : \E k \in 1 .. Len(order) : j <= k /\ order'[j] = order[k]
  BY <1>1, <1>2, RemoveIs
<1>5. Listed'
  BY <1>2, <1>3, <1>4 DEF Listed
<1>6. Scanned
  BY DEF FilesInv
<1>7. /\ scan' \in Scans /\ scan'.kept = scan.kept \ {n} /\ scan'.got = scan.got /\ scan'.cookie = scan.cookie
      /\ scan'.removed = TRUE /\ scan'.end = scan.end /\ scan'.added = scan.added
  BY <1>1, <1>6 DEF Scanned, Scans
<1>8. ASSUME ~scan.added, NEW j \in 1 .. Len(order') + 2, j > scan.cookie
      PROVE  Listing(order')[j] \notin ToSet(scan.got)
  <2>1. scan.cookie \in Nat /\ Len(order') \in Nat /\ Len(order) \in Nat
    BY <1>2, <1>4, <1>6, LenProperties DEF Scanned, Scans
  <2>2. CASE j \in 3 .. Len(order') + 2
    <3>1. j - 2 \in 1 .. Len(order') /\ Listing(order')[j] = order'[j - 2]
      BY <1>4, <2>2, ListingIs
    <3>2. PICK k \in 1 .. Len(order) : j - 2 <= k /\ order'[j - 2] = order[k]
      BY <1>4, <3>1
    <3>3. k + 2 \in 1 .. Len(order) + 2 /\ k + 2 > scan.cookie /\ Listing(order)[k + 2] = order[k]
      <4>1. Listing(order)[k + 2] = order[k]
        BY <1>2, ListingIs
      <4>2. k + 2 \in 1 .. Len(order) + 2 /\ k + 2 > scan.cookie
        BY <1>8, <2>1, <3>2
      <4> QED
        BY <4>1, <4>2
    <3> QED
      BY <1>6, <1>8, <3>1, <3>2, <3>3 DEF Scanned
  <2>3. CASE j \in {1, 2}
    <3>1. Listing(order')[j] = Listing(order)[j]
      BY <1>2, <1>4, <2>3, ListingIs
    <3>2. j \in 1 .. Len(order) + 2
      BY <2>1, <2>3
    <3> QED
      BY <1>6, <1>8, <3>1, <3>2 DEF Scanned
  <2>4. j \in {1, 2} \/ j \in 3 .. Len(order') + 2
    BY <2>1
  <2> QED
    BY <2>2, <2>3, <2>4
<1>9. scan'.kept \subseteq Present'
  BY <1>3, <1>6, <1>7 DEF Scanned
<1>10. Scanned'
  BY <1>6, <1>7, <1>8, <1>9 DEF Scanned
<1> QED
  BY <1>1, <1>5, <1>10

LEMMA MovedKeeps ==
    ASSUME FilesInv, NEW from \in Names, NEW to \in Names, Moved(from, to)
    PROVE  node' \in [Names -> Nodes \cup {NoNode}] /\ Listed' /\ Scanned'
<1>1. /\ from # to /\ Exists(from) /\ node \in [Names -> Nodes \cup {NoNode}]
      /\ node' = [node EXCEPT ![to] = node[from], ![from] = NoNode]
      /\ scan' = [scan EXCEPT !.kept = scan.kept \ {from, to}, !.removed = TRUE, !.added = TRUE]
  BY DEF Moved, FilesInv, FileTypes, Scanned, Scans
<1>2. PICK some, without : some = RemoveFirst(order, from) /\ without = RemoveFirst(some, to)
  OBVIOUS
<1>3. PICK i \in 1 .. Len(without) + 1 : order' = InsertAt(without, i, to)
  BY <1>2 DEF Moved
<1>4. order \in Seq(Names) /\ IsInjective(order) /\ ToSet(order) = Present
  BY DEF FilesInv, Listed
<1>5. some \in Seq(Names) /\ IsInjective(some) /\ ToSet(some) = Present \ {from}
  BY <1>2, <1>4, RemoveIs
<1>6. without \in Seq(Names) /\ IsInjective(without) /\ ToSet(without) = (Present \ {from}) \ {to}
  <2>1. without \in Seq(Names) /\ IsInjective(without) /\ ToSet(without) = ToSet(some) \ {to}
    BY <1>2, <1>5, RemoveIs
  <2> QED
    BY <1>5, <2>1
<1>7. order' \in Seq(Names) /\ IsInjective(order') /\ ToSet(order') = ((Present \ {from}) \ {to}) \cup {to}
  <2>1. to \in Names /\ to \notin ToSet(without)
    BY <1>6
  <2>2. /\ InsertAt(without, i, to) \in Seq(Names) /\ IsInjective(InsertAt(without, i, to))
        /\ ToSet(InsertAt(without, i, to)) = ToSet(without) \cup {to}
    BY <1>6, <2>1, InsertIs
  <2> QED
    BY <1>3, <1>6, <2>2
<1>8. Present' = (Present \ {from}) \cup {to}
  BY <1>1 DEF Present, Exists
<1>9. Listed'
  BY <1>1, <1>7, <1>8 DEF Listed
<1>10. Scanned
  BY DEF FilesInv
<1>11. /\ scan' \in Scans /\ scan'.kept = scan.kept \ {from, to} /\ scan'.got = scan.got
       /\ scan'.cookie = scan.cookie /\ scan'.removed = TRUE /\ scan'.added = TRUE
  BY <1>1, <1>10 DEF Scanned, Scans
<1>12. Scanned'
  BY <1>8, <1>10, <1>11 DEF Scanned
<1>13. node' \in [Names -> Nodes \cup {NoNode}]
  BY <1>1
<1> QED
  BY <1>9, <1>12, <1>13

\* The guest takes entries: those up to the cookie are the ones it has got.
LEMMA TookKeeps ==
    ASSUME FilesInv, NEW len \in Buffers, UNCHANGED <<order, node>>, Took(len)
    PROVE  Listed' /\ Scanned'
<1>1. Listed /\ Scanned /\ Present' = Present
  BY DEF FilesInv, Present, Exists
<1>2. Listed'
  BY <1>1 DEF Listed
<1> DEFINE S == Names \cup {".", ".."}
<1>3. PICK k \in Nat, piece \in Seq(S), end \in BOOLEAN :
         /\ Len(piece) = k
         /\ scan' = [scan EXCEPT !.got = scan.got \o piece, !.cookie = scan.cookie + k, !.end = end]
         /\ \A i \in 1 .. k : /\ scan.cookie + i \in 1 .. Len(order) + 2
                              /\ piece[i] = Listing(order)[scan.cookie + i]
         /\ end => Len(order) + 2 <= scan.cookie + k
  BY <1>1, TookIs DEF Scanned
<1>4. PICK got, c, all, both, total :
         /\ got = scan.got /\ c = scan.cookie /\ all = Listing(order) /\ both = scan.got \o piece
         /\ total = Len(order) + 2
  OBVIOUS
<1>5. /\ got \in Seq(S) /\ c \in Nat /\ Len(got) = c
      /\ order \in Seq(Names) /\ IsInjective(order) /\ ToSet(order) = Present
  BY <1>1, <1>4 DEF Scanned, Scans, Listed
<1>6. total \in Nat /\ Len(order) \in Nat /\ DOMAIN order = 1 .. Len(order) /\ DOMAIN got = 1 .. c
  BY <1>4, <1>5, LenProperties
<1> HIDE DEF S
<1>7. /\ both \in Seq(S) /\ Len(both) = c + k
      /\ \A i \in 1 .. c : both[i] = got[i]
      /\ \A i \in c + 1 .. c + k : i \in 1 .. total /\ both[i] = all[i]
  <2>1. /\ both \in Seq(S) /\ Len(both) = c + k
        /\ \A i \in 1 .. c + k : both[i] = IF i <= c THEN got[i] ELSE piece[i - c]
    <3>1. both = got \o piece
      BY <1>4
    <3>2. /\ both \in Seq(S) /\ Len(both) = Len(got) + Len(piece)
          /\ \A i \in 1 .. Len(got) + Len(piece) :
                both[i] = IF i <= Len(got) THEN got[i] ELSE piece[i - Len(got)]
      BY <1>5, <3>1, ConcatProperties
    <3> QED
      BY <1>3, <1>5, <3>2
  <2>2. \A i \in 1 .. c : i \in 1 .. c + k /\ i <= c
    BY <1>5
  <2>3. \A i \in c + 1 .. c + k : i \in 1 .. c + k /\ ~ (i <= c) /\ i - c \in 1 .. k /\ c + (i - c) = i
    BY <1>5
  <2>4. \A i \in 1 .. k : c + i \in 1 .. total /\ piece[i] = all[c + i]
    BY <1>3, <1>4
  <2> QED
    BY <2>1, <2>2, <2>3, <2>4
<1>8. DOMAIN both = 1 .. c + k /\ \A i \in 1 .. c + k : i \in 1 .. c \/ i \in c + 1 .. c + k
  BY <1>5, <1>7, LenProperties
<1>9. /\ scan' \in Scans /\ scan'.got = both /\ scan'.cookie = c + k /\ scan'.end = end
      /\ scan'.kept = scan.kept /\ scan'.removed = scan.removed /\ scan'.added = scan.added
  <2>1. both \in Seq(Names \cup {".", ".."}) /\ c + k \in Nat
    BY <1>5, <1>7 DEF S
  <2> QED
    BY <1>1, <1>3, <1>4, <2>1 DEF Scanned, Scans
<1>10. ASSUME ~scan.removed, NEW i \in 1 .. Len(order), order[i] \in scan.kept, i + 2 <= c + k
       PROVE  order[i] \in ToSet(both)
  <2>1. CASE i + 2 <= c
    <3>1. order[i] \in ToSet(got)
      BY <1>1, <1>4, <1>10, <2>1 DEF Scanned
    <3>2. PICK j \in 1 .. c : got[j] = order[i]
      BY <1>6, <3>1 DEF ToSet
    <3>3. j \in 1 .. c + k
      BY <1>5
    <3> QED
      BY <1>7, <1>8, <3>2, <3>3 DEF ToSet
  <2>2. CASE ~ (i + 2 <= c)
    <3>1. i + 2 \in c + 1 .. c + k /\ i + 2 \in 1 .. c + k
      BY <1>5, <1>6, <1>10, <2>2
    <3>2. both[i + 2] = order[i]
      BY <1>4, <1>5, <1>7, <3>1, ListingIs
    <3> QED
      BY <1>8, <3>1, <3>2 DEF ToSet
  <2> QED
    BY <2>1, <2>2
<1>11. ASSUME end, ~scan.removed, NEW n \in scan.kept PROVE n \in ToSet(both)
  <2>1. PICK i \in 1 .. Len(order) : order[i] = n
    BY <1>1, <1>5, <1>6 DEF Scanned, ToSet
  <2>2. i + 2 <= c + k
    BY <1>3, <1>4, <1>5, <1>6, <1>11
  <2> QED
    BY <1>10, <1>11, <2>1, <2>2
<1>12. ASSUME ~scan.added
       PROVE  /\ IsInjective(both)
              /\ \A i \in 1 .. Len(order) + 2 : i > c + k => all[i] \notin ToSet(both)
  <2>1. IsInjective(got) /\ \A i \in 1 .. total : i > c => all[i] \notin ToSet(got)
    BY <1>1, <1>4, <1>12 DEF Scanned
  <2>2. \A i, j \in 1 .. total : all[i] = all[j] => i = j
    BY <1>4, <1>5, ListingIs
  <2>3. \A i \in c + 1 .. c + k : i > c
    BY <1>5
  <2>4. \A i \in 1 .. c : both[i] \in ToSet(got)
    BY <1>6, <1>7 DEF ToSet
  <2>5. ASSUME NEW i \in 1 .. c + k, NEW j \in 1 .. c + k, both[i] = both[j] PROVE i = j
    <3>1. CASE i \in 1 .. c /\ j \in 1 .. c
      BY <1>6, <1>7, <2>1, <2>5, <3>1 DEF IsInjective
    <3>2. CASE i \in 1 .. c /\ j \in c + 1 .. c + k
      BY <1>7, <2>1, <2>3, <2>4, <2>5, <3>2
    <3>3. CASE i \in c + 1 .. c + k /\ j \in 1 .. c
      BY <1>7, <2>1, <2>3, <2>4, <2>5, <3>3
    <3>4. CASE i \in c + 1 .. c + k /\ j \in c + 1 .. c + k
      BY <1>7, <2>2, <2>5, <3>4
    <3> QED
      BY <1>8, <3>1, <3>2, <3>3, <3>4
  <2>6. IsInjective(both)
    BY <1>8, <2>5 DEF IsInjective
  <2>7. ASSUME NEW i \in 1 .. total, i > c + k, all[i] \in ToSet(both) PROVE FALSE
    <3>1. PICK j \in 1 .. c + k : both[j] = all[i]
      BY <1>8, <2>7 DEF ToSet
    <3>2. i > c /\ i # j
      BY <1>5, <1>6, <2>7
    <3>3. CASE j \in 1 .. c
      BY <2>1, <2>4, <3>1, <3>2, <3>3
    <3>4. CASE j \in c + 1 .. c + k
      BY <1>7, <2>2, <3>1, <3>2, <3>4
    <3> QED
      BY <1>8, <3>3, <3>4
  <2> QED
    BY <1>4, <2>6, <2>7
<1>13. Len(order') = Len(order) /\ order' = order /\ Listing(order') = all
  BY <1>4
<1>14. scan'.kept \subseteq Present'
  BY <1>1, <1>9 DEF Scanned
<1>15. Scanned'
  BY <1>7, <1>9, <1>10, <1>11, <1>12, <1>13, <1>14 DEF Scanned
<1> QED
  BY <1>2, <1>15

\* A listing that begins: nothing is got, and every name is behind the cookie.
LEMMA NewScanIs ==
    ASSUME NEW names, names \subseteq Names
    PROVE  /\ NewScan(names) \in Scans
           /\ NewScan(names).cookie = 0 /\ NewScan(names).got = <<>> /\ NewScan(names).end = FALSE
           /\ NewScan(names).kept = names
           /\ NewScan(names).removed = FALSE /\ NewScan(names).added = FALSE
<1>1. <<>> \in Seq(Names \cup {".", ".."}) /\ 0 \in Nat
  OBVIOUS
<1> QED
  BY <1>1 DEF NewScan, Scans

LEMMA NothingGot == Len(<<>>) = 0 /\ ToSet(<<>>) = {} /\ IsInjective(<<>>)
BY DEF ToSet, IsInjective

\* The host's directory, whatever it has.
LEMMA FilesInit == Init => FilesInv
<1> SUFFICES ASSUME Init PROVE FilesInv
  OBVIOUS
<1>1. FileTypes
  <2>1. node \in [Names -> Nodes \cup {NoNode}]
    BY DEF Init
  <2>2. kind \in [Nodes -> {"none", "file", "dir"}]
    BY DEF Init
  <2>3. size \in [Nodes -> 0 .. MaxSize] /\ calls \in 0 .. MaxCalls
    BY FilesAssumption DEF Init
  <2>4. fds \in [Fds -> Descriptors \cup {NoDescriptor}] /\ last \in Answers
    BY DEF Init, Answers, Ops, Results
  <2> QED
    BY <2>1, <2>2, <2>3, <2>4 DEF FileTypes
<1>2. Present \subseteq Names /\ IsFiniteSet(Present)
  BY FilesAssumption, FS_Subset DEF Present
<1>3. PICK k \in Nat : k = Cardinality(Present)
  BY <1>2, FS_CardinalityType
<1>4. order \in [1 .. k -> Present] /\ \A i, j \in 1 .. k : i # j => order[i] # order[j]
  BY <1>3 DEF Init, SetToSeqs, IsInjective
<1>5. order \in Seq(Names) /\ Len(order) = k /\ DOMAIN order = 1 .. k
  BY <1>2, <1>4
<1>6. IsInjective(order)
  BY <1>4, <1>5 DEF IsInjective
<1>7. ToSet(order) = Present
  <2>1. ToSet(order) \subseteq Present
    BY <1>4, <1>5 DEF ToSet
  <2>2. Cardinality(ToSet(order)) = Cardinality(Present)
    BY <1>3, <1>5, <1>6, CountOnce
  <2> QED
    BY <1>2, <2>1, <2>2, FS_Subset
<1>8. Scanned
  <2>1. scan = NewScan(Present)
    BY DEF Init
  <2>2. Len(order) \in Nat /\ \A i \in 1 .. Len(order) : ~ (i + 2 <= 0)
    BY <1>3, <1>5
  <2> QED
    BY <1>2, <2>1, <2>2, NewScanIs, NothingGot DEF Scanned
<1> QED
  BY <1>1, <1>5, <1>6, <1>7, <1>8 DEF FilesInv, Listed

LEMMA RewindKeeps ==
    ASSUME FilesInv, UNCHANGED <<order, node>>, scan' = NewScan(Present)
    PROVE  Listed' /\ Scanned'
<1>1. Listed /\ Present' = Present /\ Present \subseteq Names
  BY DEF FilesInv, Present, Exists
<1>2. Len(order) \in Nat /\ \A i \in 1 .. Len(order) : ~ (i + 2 <= 0)
  BY <1>1, LenProperties DEF Listed
<1> QED
  BY <1>1, <1>2, NewScanIs, NothingGot, ZenonT(30) DEF Listed, Scanned

LEMMA FilesNext == FilesInv /\ [Next]_vars => FilesInv'
<1> SUFFICES ASSUME FilesInv, [Next]_vars PROVE FilesInv'
  OBVIOUS
<1>1. FileTypes /\ Listed /\ Scanned
  BY DEF FilesInv
<1>2. /\ kind' \in [Nodes -> {"none", "file", "dir"}] /\ size' \in [Nodes -> 0 .. MaxSize]
      /\ fds' \in [Fds -> Descriptors \cup {NoDescriptor}]
      /\ last' \in Answers /\ calls' \in 0 .. MaxCalls
  <2>1. CASE UNCHANGED vars
    BY <1>1, <2>1 DEF FileTypes, vars
  <2>2. CASE PathOpen
    BY <1>1, <2>2, PathOpenTypes
  <2>3. ASSUME NEW f \in Fds, FdStep(f)
        PROVE  /\ kind' \in [Nodes -> {"none", "file", "dir"}] /\ size' \in [Nodes -> 0 .. MaxSize]
               /\ fds' \in [Fds -> Descriptors \cup {NoDescriptor}]
               /\ last' \in Answers /\ calls' \in 0 .. MaxCalls
    BY <1>1, <2>3, FdStepTypes DEF FileTypes
  <2>4. ASSUME NEW n \in Names, PathStep(n)
        PROVE  /\ kind' \in [Nodes -> {"none", "file", "dir"}] /\ size' \in [Nodes -> 0 .. MaxSize]
               /\ fds' \in [Fds -> Descriptors \cup {NoDescriptor}]
               /\ last' \in Answers /\ calls' \in 0 .. MaxCalls
    BY <1>1, <2>4, PathStepTypes DEF FileTypes
  <2>5. CASE Rewind
    BY <1>1, <2>5, CallIs DEF Rewind, FileTypes, Ops, Results
  <2>6. ASSUME NEW len \in Buffers, ReadDir(len)
        PROVE  /\ kind' \in [Nodes -> {"none", "file", "dir"}] /\ size' \in [Nodes -> 0 .. MaxSize]
               /\ fds' \in [Fds -> Descriptors \cup {NoDescriptor}]
               /\ last' \in Answers /\ calls' \in 0 .. MaxCalls
    <3>1. UNCHANGED <<kind, size, fds>> /\ \E result \in {"Ok", "Err"} : Call("readdir", 0, result)
      BY <2>6 DEF ReadDir
    <3> QED
      BY <1>1, <3>1, CallIs DEF FileTypes, Ops, Results
  <2> QED
    BY <2>1, <2>2, <2>3, <2>4, <2>5, <2>6 DEF Next
<1>3. node' \in [Names -> Nodes \cup {NoNode}] /\ Listed' /\ Scanned'
  <2>1. CASE UNCHANGED <<order, node, scan>>
    BY <1>1, <2>1 DEF FileTypes, Listed, Scanned, Present, Exists
  <2>2. CASE \E n \in Names, x \in Nodes : ~Exists(n) /\ Enter(n, x)
    BY <2>2, EnterKeeps
  <2>3. CASE \E n \in Names : Exists(n) /\ Leave(n)
    BY <2>3, LeaveKeeps
  <2>4. CASE \E from, to \in Names : Moved(from, to)
    BY <2>4, MovedKeeps
  <2>5. CASE UNCHANGED <<order, node>> /\ \E len \in Buffers : ~scan.end /\ Took(len)
    BY <1>1, <2>5, TookKeeps DEF FileTypes
  <2>6. CASE UNCHANGED <<order, node>> /\ scan' = NewScan(Present)
    BY <1>1, <2>6, RewindKeeps DEF FileTypes
  <2> QED
    BY <1>1, <2>1, <2>2, <2>3, <2>4, <2>5, <2>6, DirectorySteps
<1> QED
  BY <1>2, <1>3 DEF FilesInv, FileTypes

LEMMA FilesInvariant == Spec => []FilesInv
BY FilesInit, FilesNext, PTL DEF Spec

\* Whatever guests and other processes do to a directory: its enumeration has each
\* of its names once, and files, descriptors and listings are what they are
\* declared to be (path_open, the path calls, fd_readdir).
THEOREM FilesTypes == Spec => []TypeOK
<1>1. FilesInv => TypeOK
  BY CountOnce DEF FilesInv, FileTypes, Listed, Scanned, TypeOK
<1> QED
  BY <1>1, FilesInvariant, PTL

\* A listing in several calls, of a directory with any names, with buffers of any
\* size, while names come and go: the guest ends with every name that was there
\* all the time unless one was removed, and gets none twice unless one was added
\* (fd_readdir and the cookie of ReadDirCookie).
THEOREM ListingComplete == Spec => []ScanComplete
<1>1. FilesInv => ScanComplete
  BY DEF FilesInv, Scanned, ScanComplete, IsInjective
<1> QED
  BY <1>1, FilesInvariant, PTL

=============================================================================
