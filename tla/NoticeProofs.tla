---------------------------- MODULE NoticeProofs ----------------------------
(***************************************************************************)
(* Theorems about what users are told: by the notifier of the bot          *)
(* (Notifier.tla) and by the live view of the Mini App (Live.tla), for all *)
(* sets of users, invoices, tasks, games and stories, and for any number   *)
(* of calls, switches, failures and crashes.                               *)
(*                                                                         *)
(* The notifier.  A message may be told later than it was decided on: it   *)
(* waits in the loop, in the queue and at a sender task.  The invariant    *)
(* counts all of them (Load), and bounds the sum by what allows a message: *)
(* a switch turned on, the win that is not yet marked, the marker of the   *)
(* live topic, the acknowledgement of a notice.  A poll may repeat nothing *)
(* because the sum reaches its bound only for what the cursor, the mark or *)
(* the acknowledgement has passed.                                         *)
(*                                                                         *)
(* The live view.  A poll, a tick and a push may bring the same win, each  *)
(* with a cursor read at another time; what keeps it from being announced  *)
(* twice is the memory of the browser, which outlasts the page and knows   *)
(* every win that was announced.  The types need more than themselves:     *)
(* what waits for the snapshot of a game knows which game, and a purchase  *)
(* under way has a game selected (Coherent).                               *)
(***************************************************************************)
EXTENDS Notifier, Live,
        FiniteSetTheorems, SequenceTheorems, NaturalsInduction, WellFoundedInduction, TLAPS

-----------------------------------------------------------------------------
(* The notifier: how often something waits in a queue *)

At(s, x) == {k \in DOMAIN s : s[k] = x}
Count(s, x) == Cardinality(At(s, x))

\* How often something waits is a number.
LEMMA CountFinite ==
    ASSUME NEW T, NEW s \in Seq(T), NEW x
    PROVE  IsFiniteSet(At(s, x)) /\ Count(s, x) \in Nat
  <1>1. DOMAIN s = 1 .. Len(s) /\ Len(s) \in Nat
    BY LenProperties
  <1>2. IsFiniteSet(1 .. Len(s))
    BY <1>1, FS_Interval
  <1>3. At(s, x) \in SUBSET (1 .. Len(s))
    BY <1>1 DEF At
  <1>4. IsFiniteSet(At(s, x))
    BY <1>2, <1>3, FS_Subset
  <1>5. QED
    BY <1>4, FS_CardinalityType DEF Count

\* In an empty queue nothing waits.
LEMMA CountEmpty == ASSUME NEW x PROVE Count(<<>>, x) = 0
  <1>1. At(<<>>, x) = {}
    BY DEF At
  <1>2. QED
    BY <1>1, FS_EmptySet DEF Count

\* What is appended waits once more (Put).
LEMMA CountAppend ==
    ASSUME NEW T, NEW s \in Seq(T), NEW e \in T, NEW x
    PROVE  Count(Append(s, e), x) = Count(s, x) + (IF e = x THEN 1 ELSE 0)
  <1> DEFINE n == Len(s) + 1
  <1>1. DOMAIN s = 1 .. Len(s) /\ Len(s) \in Nat
    BY LenProperties
  <1>2. /\ DOMAIN Append(s, e) = 1 .. n
        /\ \A k \in 1 .. n : Append(s, e)[k] = IF k = n THEN e ELSE s[k]
    BY <1>1
  <1>3. CASE e = x
    <2>1. At(Append(s, e), x) = At(s, x) \cup {n} /\ n \notin At(s, x)
      BY <1>1, <1>2, <1>3 DEF At
    <2>2. QED
      BY <1>3, <2>1, CountFinite, FS_AddElement DEF Count
  <1>4. CASE e # x
    <2>1. At(Append(s, e), x) = At(s, x)
      BY <1>1, <1>2, <1>4 DEF At
    <2>2. QED
      BY <1>4, <2>1, CountFinite DEF Count
  <1>5. QED
    BY <1>3, <1>4

\* What is taken from the head waits once less (Take).
LEMMA CountTail ==
    ASSUME NEW T, NEW s \in Seq(T), s # <<>>, NEW x
    PROVE  Count(s, x) = Count(Tail(s), x) + (IF Head(s) = x THEN 1 ELSE 0)
  <1> DEFINE t == Tail(s)
             A == At(s, x) \ {1}
             f == [k \in At(t, x) |-> k + 1]
  <1>1. DOMAIN s = 1 .. Len(s) /\ Len(s) \in Nat \ {0} /\ Head(s) = s[1]
    BY LenProperties, EmptySeq
  <1>2. t \in Seq(T) /\ Len(t) = Len(s) - 1 /\ \A k \in 1 .. Len(t) : t[k] = s[k + 1]
    BY HeadTailProperties
  <1>3. DOMAIN t = 1 .. Len(t)
    BY <1>2, LenProperties
  <1> HIDE DEF t
  <1>4. f \in Bijection(At(t, x), A)
    <2>1. \A k \in At(t, x) : k \in Nat /\ k + 1 \in A
      BY <1>1, <1>2, <1>3 DEF At
    <2>2. ASSUME NEW k \in A PROVE \E m \in At(t, x) : f[m] = k
      <3>1. k \in 2 .. Len(s) /\ s[k] = x
        BY <1>1 DEF At
      <3>2. k - 1 \in 1 .. Len(t) /\ t[k - 1] = s[(k - 1) + 1]
        BY <1>1, <1>2, <3>1
      <3>3. (k - 1) + 1 = k
        BY <3>1
      <3>4. k - 1 \in At(t, x)
        BY <1>3, <3>1, <3>2, <3>3 DEF At
      <3>5. QED
        BY <3>3, <3>4
    <2>3. QED
      BY <2>1, <2>2 DEF Bijection, Injection, Surjection, IsInjective
  <1>5. IsFiniteSet(At(t, x)) /\ Count(t, x) \in Nat /\ IsFiniteSet(At(s, x))
    BY <1>2, CountFinite
  <1>6. Cardinality(A) = Count(t, x)
    BY <1>4, <1>5, FS_Bijection DEF ExistsBijection, Count
  <1>7. Cardinality(A) = IF 1 \in At(s, x) THEN Count(s, x) - 1 ELSE Count(s, x)
    BY <1>5, FS_RemoveElement DEF Count
  <1>8. 1 \in At(s, x) <=> Head(s) = x
    BY <1>1 DEF At
  <1>9. Count(s, x) \in Nat
    BY CountFinite
  <1>10. QED
    BY <1>6, <1>7, <1>8, <1>9, <1>5 DEF t

\* What occurs once at most.
LEMMA CountOnce ==
    ASSUME NEW T, NEW s \in Seq(T), IsInjective(s), NEW x
    PROVE  /\ Count(s, x) <= 1
           /\ (\A k \in DOMAIN s : s[k] # x) => Count(s, x) = 0
  <1>1. CASE \E k \in DOMAIN s : s[k] = x
    <2>1. PICK k \in DOMAIN s : s[k] = x
      BY <1>1
    <2>2. At(s, x) = {k}
      BY <2>1 DEF At, IsInjective
    <2>3. Count(s, x) = 1
      BY <2>2, FS_Singleton DEF Count
    <2>4. QED
      BY <2>1, <2>3
  <1>2. CASE \A k \in DOMAIN s : s[k] # x
    <2>1. At(s, x) = {}
      BY <1>2 DEF At
    <2>2. QED
      BY <2>1, FS_EmptySet DEF Count
  <1>3. QED
    BY <1>1, <1>2

-----------------------------------------------------------------------------
(* Sequences put together *)

\* Induction over the naturals, in first-order form.
LEMMA Upwards ==
    ASSUME NEW S, 0 \in S, \A n \in Nat : n \in S => n + 1 \in S
    PROVE  Nat \subseteq S
  <1> DEFINE T == Nat \ S
  <1>1. ASSUME T # {} PROVE FALSE
    <2>1. PICK n \in T : \A m \in T : ~ (<<m, n>> \in OpToRel(<, Nat))
      <3>1. T \subseteq Nat
        OBVIOUS
      <3> HIDE DEF T
      <3>2. QED
        BY <1>1, <3>1, NatLessThanWellFounded, WFMin
    <2>2. \A m \in T : ~ (m < n)
      BY <2>1 DEF OpToRel
    <2>3. n # 0 /\ n \in Nat
      OBVIOUS
    <2>4. n - 1 \in Nat /\ n - 1 \notin T /\ (n - 1) + 1 = n
      BY <2>2, <2>3
    <2>5. QED
      BY <2>4
  <1>2. QED
    BY <1>1

\* Two sequences without repetition that share nothing make one without repetition.
LEMMA Concatenated ==
    ASSUME NEW T, NEW s \in Seq(T), NEW t \in Seq(T), IsInjective(s), IsInjective(t),
           Range(s) \cap Range(t) = {}
    PROVE  /\ s \o t \in Seq(T)
           /\ IsInjective(s \o t)
           /\ Range(s \o t) = Range(s) \cup Range(t)
  <1> DEFINE st == s \o t
             m == Len(s)
             n == Len(t)
  <1>1. /\ m \in Nat /\ n \in Nat /\ DOMAIN s = 1 .. m /\ DOMAIN t = 1 .. n
        /\ st \in Seq(T) /\ Len(st) = m + n
        /\ \A i \in 1 .. m + n : st[i] = IF i <= m THEN s[i] ELSE t[i - m]
    BY LenProperties, ConcatProperties
  <1>2. DOMAIN st = 1 .. m + n
    BY <1>1, LenProperties
  <1> HIDE DEF st, m, n
  <1>3. \A i \in 1 .. m + n : i <= m => i \in DOMAIN s /\ st[i] = s[i]
    BY <1>1
  <1>4. \A i \in 1 .. m + n : ~ (i <= m) => i - m \in DOMAIN t /\ st[i] = t[i - m]
    BY <1>1
  <1>5. ASSUME NEW i \in DOMAIN st, NEW j \in DOMAIN st, st[i] = st[j]
        PROVE  i = j
    <2>1. CASE i <= m /\ j <= m
      BY <2>1, <1>2, <1>3, <1>5 DEF IsInjective
    <2>2. CASE ~ (i <= m) /\ ~ (j <= m)
      <3>1. i - m = j - m
        BY <2>2, <1>2, <1>4, <1>5 DEF IsInjective
      <3>2. QED
        BY <3>1, <1>1, <1>2
    <2>3. CASE i <= m /\ ~ (j <= m)
      BY SMTT(30), <2>3, <1>2, <1>3, <1>4, <1>5 DEF Range
    <2>4. CASE ~ (i <= m) /\ j <= m
      BY <2>4, <1>2, <1>3, <1>4, <1>5 DEF Range
    <2>5. QED
      BY <2>1, <2>2, <2>3, <2>4
  <1>6. Range(st) \subseteq Range(s) \cup Range(t)
    BY <1>2, <1>3, <1>4 DEF Range
  <1>7. ASSUME NEW x \in Range(s) PROVE x \in Range(st)
    <2>1. PICK i \in 1 .. m : s[i] = x
      BY <1>1 DEF Range
    <2>2. i \in DOMAIN st /\ st[i] = s[i]
      BY <1>1, <1>2, <1>3
    <2>3. QED
      BY <2>1, <2>2 DEF Range
  <1>8. ASSUME NEW x \in Range(t) PROVE x \in Range(st)
    <2>1. PICK i \in 1 .. n : t[i] = x
      BY <1>1 DEF Range
    <2>2. m + i \in 1 .. m + n /\ ~ (m + i <= m) /\ (m + i) - m = i
      BY <1>1
    <2>3. m + i \in DOMAIN st /\ st[m + i] = t[i]
      BY <2>2, <1>2, <1>4
    <2>4. QED
      BY <2>1, <2>3 DEF Range
  <1>9. QED
    BY <1>1, <1>5, <1>6, <1>7, <1>8 DEF IsInjective, st

\* What FlattenSeq defines.
IsFlat(g, seqs) ==
    g = [i \in 1 .. Len(seqs) |-> IF i = 1 THEN seqs[i] ELSE g[i - 1] \o seqs[i]]

\* The function FlattenSeq chooses exists.
LEMMA FlatExists ==
    ASSUME NEW T, NEW seqs \in Seq(T)
    PROVE  \E g : IsFlat(g, seqs)
  <1> DEFINE Joins(g, n) == \A i \in 1 .. n : g[i] = IF i = 1 THEN seqs[i] ELSE g[i - 1] \o seqs[i]
             P == {n \in Nat : \E g : Joins(g, n)}
  <1>1. 0 \in P
    OBVIOUS
  <1>2. ASSUME NEW n \in Nat, n \in P PROVE n + 1 \in P
    <2>1. PICK g : Joins(g, n)
      BY <1>2
    <2> DEFINE last == IF n + 1 = 1 THEN seqs[n + 1] ELSE g[n] \o seqs[n + 1]
               h == [i \in 1 .. n + 1 |-> IF i = n + 1 THEN last ELSE g[i]]
    <2>2. h[n + 1] = last /\ \A i \in 1 .. n : h[i] = g[i]
      <3> HIDE DEF last
      <3>1. QED
        OBVIOUS
    <2>3. ASSUME NEW i \in 1 .. n + 1
          PROVE  h[i] = IF i = 1 THEN seqs[i] ELSE h[i - 1] \o seqs[i]
      <3>1. CASE i = n + 1
        <4>1. CASE n = 0
          BY <3>1, <4>1, <2>2
        <4>2. CASE n # 0
          <5>1. i - 1 = n /\ n \in 1 .. n /\ i # 1
            BY <3>1, <4>2
          <5>2. h[n] = g[n]
            BY <5>1, <2>2
          <5>3. last = g[n] \o seqs[n + 1]
            BY <5>1, <3>1
          <5> HIDE DEF h, last
          <5>4. QED
            BY <5>1, <5>2, <5>3, <3>1, <2>2
        <4>3. QED
          BY <4>1, <4>2
      <3>2. CASE i # n + 1
        <4>1. i \in 1 .. n
          BY <3>2
        <4>2. i # 1 => i - 1 \in 1 .. n
          BY <4>1
        <4>3. h[i] = g[i] /\ (i # 1 => h[i - 1] = g[i - 1])
          BY <4>1, <4>2, <2>2
        <4>4. g[i] = IF i = 1 THEN seqs[i] ELSE g[i - 1] \o seqs[i]
          BY <4>1, <2>1
        <4> HIDE DEF h
        <4>5. QED
          BY <4>3, <4>4
      <3>3. QED
        BY <3>1, <3>2
    <2>4. Joins(h, n + 1)
      BY <2>3
    <2> HIDE DEF Joins, h
    <2>5. QED
      BY <2>4
  <1>3. Len(seqs) \in P
    <2>1. Nat \subseteq P
      <3> HIDE DEF P
      <3>1. QED
        BY <1>1, <1>2, Upwards
    <2>2. QED
      BY <2>1, LenProperties
  <1>4. PICK g : Joins(g, Len(seqs))
    BY <1>3
  <1> DEFINE h == [i \in 1 .. Len(seqs) |-> g[i]]
  <1>5. ASSUME NEW i \in 1 .. Len(seqs)
        PROVE  h[i] = IF i = 1 THEN seqs[i] ELSE h[i - 1] \o seqs[i]
    <2>1. Len(seqs) \in Nat
      BY LenProperties
    <2>2. i # 1 => i - 1 \in 1 .. Len(seqs)
      BY <2>1
    <2>3. QED
      BY <1>4, <2>2
  <1>6. IsFlat(h, seqs)
    <2>1. h = [i \in 1 .. Len(seqs) |-> h[i]]
      OBVIOUS
    <2> HIDE DEF h
    <2>2. QED
      BY <1>5, <2>1 DEF IsFlat
  <1>7. QED
    BY <1>6

\* Sequences without repetition that share nothing, flattened, repeat nothing and keep
\* what is in them.
LEMMA Flattened ==
    ASSUME NEW T, NEW seqs \in Seq(Seq(T)),
           \A j \in DOMAIN seqs : IsInjective(seqs[j]),
           \A j, k \in DOMAIN seqs : j # k => Range(seqs[j]) \cap Range(seqs[k]) = {}
    PROVE  /\ FlattenSeq(seqs) \in Seq(T)
           /\ IsInjective(FlattenSeq(seqs))
           /\ Range(FlattenSeq(seqs)) = UNION {Range(seqs[j]) : j \in DOMAIN seqs}
  <1> DEFINE flat == CHOOSE g : g =
             [i \in 1 .. Len(seqs) |-> IF i = 1 THEN seqs[i] ELSE g[i - 1] \o seqs[i]]
             n == Len(seqs)
             Parts(i) == UNION {Range(seqs[j]) : j \in 1 .. i}
  <1>1. DOMAIN seqs = 1 .. n /\ n \in Nat /\ \A j \in 1 .. n : seqs[j] \in Seq(T)
    BY LenProperties, ElementOfSeq
  <1>2. CASE n = 0
    <2>1. seqs = <<>> /\ FlattenSeq(seqs) = <<>>
      BY <1>2, EmptySeq DEF FlattenSeq
    <2>2. DOMAIN seqs = {} /\ <<>> \in Seq(T)
      BY <2>1, EmptySeq
    <2>3. QED
      BY <2>1, <2>2 DEF IsInjective, Range
  <1>3. CASE n # 0
    <2>1. PICK g : IsFlat(g, seqs)
      BY FlatExists
    <2>2. flat = [i \in 1 .. Len(seqs) |-> IF i = 1 THEN seqs[i] ELSE flat[i - 1] \o seqs[i]]
      BY <2>1 DEF IsFlat
    <2>3. FlattenSeq(seqs) = flat[n]
      BY <1>3 DEF FlattenSeq
    <2> DEFINE Good(i) == flat[i] \in Seq(T) /\ IsInjective(flat[i]) /\ Range(flat[i]) = Parts(i)
               P == {i \in Nat : i + 1 \in 1 .. n => Good(i + 1)}
    <2>4. \A i \in 1 .. n : flat[i] = IF i = 1 THEN seqs[i] ELSE flat[i - 1] \o seqs[i]
      <3> HIDE DEF flat
      <3>1. QED
        BY <2>2
    <2> HIDE DEF flat
    <2>5. 0 \in P
      <3>1. flat[1] = seqs[1] /\ Parts(1) = Range(seqs[1]) /\ 1 \in 1 .. n
        BY <1>1, <1>3, <2>4
      <3>2. QED
        BY <3>1, <1>1
    <2>6. ASSUME NEW i \in Nat, i \in P, (i + 1) + 1 \in 1 .. n PROVE Good((i + 1) + 1)
      <3> DEFINE j == i + 1
                 k == (i + 1) + 1
      <3>1. j \in 1 .. n /\ k \in 1 .. n /\ k # 1 /\ k - 1 = j /\ k \notin 1 .. j
        BY <2>6, <1>1
      <3>2. Good(j)
        BY <2>6, <3>1
      <3> HIDE DEF Good
      <3>3. flat[k] = flat[j] \o seqs[k]
        BY <2>4, <3>1
      <3>4. 1 .. k = (1 .. j) \cup {k}
        BY <3>1
      <3>5. Parts(k) = Parts(j) \cup Range(seqs[k])
        <4> HIDE DEF j, k
        <4>1. QED
          BY <3>4
      <3>6. \A m \in 1 .. j : m \in 1 .. n /\ m # k
        BY <3>1
      <3> HIDE DEF j, k
      <3>7. \A m \in 1 .. j : Range(seqs[m]) \cap Range(seqs[k]) = {}
        BY <3>6, <3>1, <1>1
      <3>8. Parts(j) \cap Range(seqs[k]) = {}
        BY <3>7
      <3>9. flat[j] \in Seq(T) /\ IsInjective(flat[j]) /\ Range(flat[j]) = Parts(j)
        BY <3>2 DEF Good
      <3>10. seqs[k] \in Seq(T) /\ IsInjective(seqs[k])
        BY <1>1, <3>1
      <3> HIDE DEF Parts
      <3>11. Good(k)
        BY <3>3, <3>5, <3>8, <3>9, <3>10, Concatenated DEF Good
      <3>12. QED
        BY <3>11 DEF k
    <2>7. n - 1 \in P
      <3>1. ASSUME NEW i \in Nat, i \in P PROVE i + 1 \in P
        <4> HIDE DEF Good
        <4>1. i + 1 \in Nat /\ ((i + 1) + 1 \in 1 .. n => Good((i + 1) + 1))
          <5> HIDE DEF P
          <5>1. QED
            BY <2>6, <3>1
        <4>2. QED
          BY <4>1
      <3>2. Nat \subseteq P
        <4> HIDE DEF P
        <4>1. QED
          BY <2>5, <3>1, Upwards
      <3>3. n - 1 \in Nat
        BY <1>1, <1>3
      <3> HIDE DEF P
      <3>4. QED
        BY <3>2, <3>3
    <2>8. Good(n)
      <3>1. (n - 1) + 1 = n /\ n \in 1 .. n
        BY <1>1, <1>3
      <3> HIDE DEF Good
      <3>2. QED
        BY <2>7, <3>1
    <2>9. QED
      BY <2>3, <2>8, <1>1
  <1>4. QED
    BY <1>2, <1>3

-----------------------------------------------------------------------------
(* What is put into the queue and what is listed *)

\* SetToSeq lists every element of a finite set once.
LEMMA InOrder ==
    ASSUME NEW S, IsFiniteSet(S)
    PROVE  /\ SetToSeq(S) \in Seq(S)
           /\ IsInjective(SetToSeq(S))
           /\ Range(SetToSeq(S)) = S
  <1> DEFINE n == Cardinality(S)
  <1>1. n \in Nat /\ ExistsBijection(1 .. n, S)
    BY FS_CardinalityType
  <1>2. PICK f \in Bijection(1 .. n, S) : TRUE
    BY <1>1 DEF ExistsBijection
  <1>3. f \in [1 .. n -> S] /\ IsInjective(f)
    BY <1>2 DEF Bijection, Injection, IsInjective
  <1>4. SetToSeq(S) \in [1 .. n -> S] /\ IsInjective(SetToSeq(S))
    BY <1>3 DEF SetToSeq
  <1>5. IsFiniteSet(1 .. n) /\ Cardinality(1 .. n) = n
    BY <1>1, FS_Interval
  <1>6. SetToSeq(S) \in Surjection(1 .. n, S)
    <2>1. SetToSeq(S) \in Injection(1 .. n, S)
      BY <1>4 DEF Injection, IsInjective
    <2>2. QED
      BY <2>1, <1>5, FS_Injection
  <1>7. Range(SetToSeq(S)) = S
    BY <1>4, <1>6 DEF Range, Surjection
  <1>8. SetToSeq(S) \in Seq(S)
    BY <1>1, <1>4
  <1>9. QED
    BY <1>4, <1>7, <1>8

\* A poll makes one message for each subscriber and each call (notifier_loop).
LEMMA JobsForAre ==
    ASSUME NEW calls \in Seq(Calls), IsInjective(calls), NEW users \in SUBSET Users
    PROVE  /\ JobsFor(calls, users) \in Seq(Jobs)
           /\ IsInjective(JobsFor(calls, users))
           /\ Range(JobsFor(calls, users)) =
              {[user |-> u, item |-> c] : u \in users, c \in Range(calls)}
  <1> DEFINE order == SetToSeq(users)
             Row(c) == [k \in DOMAIN order |-> [user |-> order[k], item |-> calls[c]]]
             rows == [c \in DOMAIN calls |-> Row(c)]
  <1>1. IsFiniteSet(users)
    BY NotifierAssumption, FS_Subset
  <1>2. order \in Seq(users) /\ IsInjective(order) /\ Range(order) = users
    BY <1>1, InOrder
  <1>3. DOMAIN order = 1 .. Len(order) /\ Len(order) \in Nat /\
        \A k \in DOMAIN order : order[k] \in users
    BY <1>2, LenProperties, ElementOfSeq
  <1>4. DOMAIN calls = 1 .. Len(calls) /\ Len(calls) \in Nat /\
        \A c \in DOMAIN calls : calls[c] \in Calls
    BY LenProperties, ElementOfSeq
  <1>5. JobsFor(calls, users) = FlattenSeq(rows)
    BY DEF JobsFor
  <1> HIDE DEF order
  <1>6. ASSUME NEW c \in DOMAIN calls
        PROVE  /\ Row(c) \in Seq(Jobs)
               /\ IsInjective(Row(c))
               /\ Range(Row(c)) = {[user |-> u, item |-> calls[c]] : u \in users}
    <2>1. \A k \in DOMAIN order : [user |-> order[k], item |-> calls[c]] \in Jobs
      BY <1>3, <1>4 DEF Jobs, Items
    <2>2. Row(c) \in [1 .. Len(order) -> Jobs]
      BY <1>3, <2>1
    <2>3. Row(c) \in Seq(Jobs)
      BY <1>3, <2>2
    <2>4. IsInjective(Row(c))
      BY <1>2 DEF IsInjective
    <2>5. \A u \in users : \E k \in DOMAIN order : order[k] = u
      BY <1>2 DEF Range
    <2>6. Range(Row(c)) = {[user |-> u, item |-> calls[c]] : u \in users}
      BY <1>3, <2>5 DEF Range
    <2>7. QED
      BY <2>3, <2>4, <2>6
  <1> DEFINE jobs(c) == {[user |-> u, item |-> calls[c]] : u \in users}
  <1> HIDE DEF Row
  <1>7. rows \in Seq(Seq(Jobs)) /\ DOMAIN rows = DOMAIN calls /\
        \A c \in DOMAIN calls : rows[c] = Row(c)
    <2>1. rows \in [1 .. Len(calls) -> Seq(Jobs)]
      BY <1>4, <1>6
    <2>2. QED
      BY <1>4, <2>1
  <1> HIDE DEF rows
  <1>8. \A j, k \in DOMAIN calls : j # k => jobs(j) \cap jobs(k) = {}
    BY DEF IsInjective
  <1>9. \A j, k \in DOMAIN rows : j # k => Range(rows[j]) \cap Range(rows[k]) = {}
    BY <1>6, <1>7, <1>8
  <1>10. \A j \in DOMAIN rows : IsInjective(rows[j])
    BY <1>6, <1>7
  <1>11. /\ FlattenSeq(rows) \in Seq(Jobs) /\ IsInjective(FlattenSeq(rows))
         /\ Range(FlattenSeq(rows)) = UNION {Range(rows[j]) : j \in DOMAIN rows}
    BY <1>7, <1>9, <1>10, Flattened
  <1>12. UNION {Range(rows[j]) : j \in DOMAIN rows} = UNION {jobs(c) : c \in DOMAIN calls}
    BY <1>6, <1>7
  <1>13. UNION {jobs(c) : c \in DOMAIN calls} =
         {[user |-> u, item |-> c] : u \in users, c \in Range(calls)}
    BY DEF Range
  <1>14. QED
    BY <1>5, <1>11, <1>12, <1>13

\* A set of numbers that is finite and not empty has a largest one.
LEMMA Largest ==
    ASSUME NEW S \in SUBSET Nat, IsFiniteSet(S), S # {}
    PROVE  Max(S) \in S /\ \A y \in S : Max(S) >= y
  <1> DEFINE HasMax(s) == \E x \in s : \A y \in s : x >= y
             T == {s \in SUBSET S : s # {} /\ ~ HasMax(s)}
             R == StrictSubsetOrdering(S)
  <1>1. ASSUME T # {} PROVE FALSE
    <2>1. IsWellFoundedOn(R, SUBSET S)
      BY FS_StrictSubsetOrderingWellFounded, FS_FiniteSubsetsOfFinite
    <2>2. PICK s \in T : \A t \in T : ~ (<<t, s>> \in R)
      <3>1. T \subseteq SUBSET S
        OBVIOUS
      <3> HIDE DEF R, T
      <3>2. QED
        BY <1>1, <2>1, <3>1, WFMin
    <2>3. PICK x \in s : TRUE
      OBVIOUS
    <2> DEFINE u == s \ {x}
    <2>4. u \notin T
      BY <2>2, <2>3 DEF StrictSubsetOrdering
    <2>5. CASE u = {}
      <3>1. \A y \in s : x >= y
        BY <2>5
      <3>2. QED
        BY <3>1
    <2>6. CASE HasMax(u)
      <3>1. PICK m \in u : \A y \in u : m >= y
        BY <2>6
      <3>2. m \in Nat /\ x \in Nat /\ s \subseteq Nat
        OBVIOUS
      <3>3. CASE m >= x
        <4>1. \A y \in s : m >= y
          BY <3>1, <3>3
        <4>2. QED
          BY <4>1
      <3>4. CASE ~ (m >= x)
        <4>1. \A y \in s : x >= y
          BY <3>1, <3>2, <3>4
        <4>2. QED
          BY <4>1
      <3>5. QED
        BY <3>3, <3>4
    <2>7. QED
      BY <2>4, <2>5, <2>6
  <1>2. HasMax(S)
    BY <1>1
  <1>3. QED
    BY <1>2 DEF Max

\* A finite set of numbers can be put into their order.
LEMMA SortedExists ==
    ASSUME NEW S \in SUBSET Nat, IsFiniteSet(S)
    PROVE  \E f \in [1 .. Cardinality(S) -> S] : \A j, k \in DOMAIN f : j < k => f[j] < f[k]
  <1> DEFINE Sorts(f, s) == \A j, k \in DOMAIN f : j < k => f[j] < f[k]
             Has(s) == \E f \in [1 .. Cardinality(s) -> s] : Sorts(f, s)
             R == StrictSubsetOrdering(S)
             T == {s \in SUBSET S : ~ Has(s)}
  <1>1. ASSUME T # {} PROVE FALSE
    <2>1. IsWellFoundedOn(R, SUBSET S)
      BY FS_StrictSubsetOrderingWellFounded, FS_FiniteSubsetsOfFinite
    <2>2. PICK s \in T : \A t \in T : ~ (<<t, s>> \in R)
      <3>1. T \subseteq SUBSET S
        OBVIOUS
      <3> HIDE DEF R, T
      <3>2. QED
        BY <1>1, <2>1, <3>1, WFMin
    <2>3. IsFiniteSet(s) /\ s \in SUBSET Nat
      BY FS_Subset
    <2>4. CASE s = {}
      <3>1. <<>> \in [1 .. Cardinality(s) -> s] /\ Sorts(<<>>, s)
        BY <2>4, FS_EmptySet
      <3>2. QED
        BY <3>1
    <2>5. CASE s # {}
      <3>1. PICK m \in s : \A y \in s : m >= y
        BY <2>3, <2>5, Largest, Zenon
      <3> DEFINE u == s \ {m}
                 n == Cardinality(u)
      <3>2. u \in SUBSET S /\ <<u, s>> \in R
        BY <3>1 DEF StrictSubsetOrdering
      <3>3. PICK f \in [1 .. n -> u] : Sorts(f, u)
        BY <2>2, <3>2
      <3>4. Cardinality(s) = n + 1 /\ n \in Nat
        <4>1. Cardinality(u) = Cardinality(s) - 1
          BY <2>3, FS_RemoveElement
        <4>2. IsFiniteSet(u) /\ Cardinality(s) \in Nat
          BY <2>3, FS_RemoveElement, FS_CardinalityType
        <4>3. Cardinality(u) \in Nat
          BY <4>2, FS_CardinalityType
        <4>4. QED
          BY <4>1, <4>2, <4>3
      <3> DEFINE g == [k \in 1 .. n + 1 |-> IF k = n + 1 THEN m ELSE f[k]]
      <3> HIDE DEF n
      <3>5. g \in [1 .. n + 1 -> s]
        BY <3>3, <3>4
      <3>6. ASSUME NEW j \in 1 .. n + 1, NEW k \in 1 .. n + 1, j < k PROVE g[j] < g[k]
        <4>1. j \in 1 .. n /\ g[j] = f[j] /\ f[j] \in u
          BY <3>3, <3>4, <3>6
        <4>2. CASE k = n + 1
          <5>1. g[k] = m /\ m \in Nat /\ f[j] \in Nat /\ m >= f[j] /\ m # f[j]
            BY <2>3, <3>1, <4>1, <4>2
          <5>2. QED
            BY <4>1, <5>1
        <4>3. CASE k # n + 1
          <5>1. k \in 1 .. n /\ g[k] = f[k]
            BY <3>4, <4>3
          <5>2. QED
            BY <3>3, <3>6, <4>1, <5>1
        <4>4. QED
          BY <4>2, <4>3
      <3>7. Has(s)
        BY <3>4, <3>5, <3>6
      <3>8. QED
        BY <3>7
    <2>6. QED
      BY <2>4, <2>5
  <1>2. QED
    BY <1>1

\* The page of an audience holds invoices its flag is not set for, each once
\* (bot_crypto_notifications).
LEMMA PageIs ==
    ASSUME NEW a
    PROVE  Page(a) \in Seq(Invoices) /\ IsInjective(Page(a)) /\ Range(Page(a)) \subseteq Untold(a)
  <1> DEFINE first == {i \in Untold(a) : Cardinality({k \in Untold(a) : k < i}) < Limit}
             n == Cardinality(first)
             Sorted(f) == \A j, k \in DOMAIN f : j < k => f[j] < f[k]
  <1>1. first \in SUBSET Invoices /\ first \in SUBSET Nat /\ IsFiniteSet(Invoices)
    BY NotifierAssumption DEF Untold
  <1>2. IsFiniteSet(first)
    BY <1>1, FS_Subset
  <1>3. n \in Nat
    BY <1>2, FS_CardinalityType
  <1>4. Page(a) = CHOOSE f \in [1 .. n -> first] : Sorted(f)
    BY DEF Page
  <1>5. first \subseteq Untold(a)
    OBVIOUS
  <1> HIDE DEF first
  <1>6. \E f \in [1 .. n -> first] : Sorted(f)
    BY <1>1, <1>2, SortedExists
  <1>7. Page(a) \in [1 .. n -> first] /\ Sorted(Page(a))
    BY <1>4, <1>6
  <1>8. ASSUME NEW j \in 1 .. n, NEW k \in 1 .. n, Page(a)[j] = Page(a)[k] PROVE j = k
    <2>1. Page(a)[j] \in Nat
      BY <1>1, <1>7
    <2>2. ~ (j < k) /\ ~ (k < j)
      BY <1>7, <1>8, <2>1
    <2>3. QED
      BY <1>3, <2>2
  <1> HIDE DEF n
  <1>9. IsInjective(Page(a))
    BY <1>7, <1>8 DEF IsInjective
  <1>10. Page(a) \in [1 .. n -> Invoices]
    BY <1>1, <1>7
  <1>11. Page(a) \in Seq(Invoices)
    BY <1>3, <1>10
  <1>12. Range(Page(a)) \subseteq Untold(a)
    BY <1>5, <1>7 DEF Range
  <1>13. QED
    BY <1>9, <1>11, <1>12

\* So does what the endpoint answers, for all the audiences.
LEMMA ListingIs ==
    /\ Listing \in Seq(Notices)
    /\ IsInjective(Listing)
    /\ \A n \in Range(Listing) : n[1] \notin invoice[n[2]].flagged
  <1> DEFINE Row(a) == [k \in DOMAIN Page(Audiences[a]) |-> <<Audiences[a], Page(Audiences[a])[k]>>]
             rows == [a \in DOMAIN Audiences |-> Row(a)]
  <1>1. Listing = FlattenSeq(rows)
    BY DEF Listing
  <1>2. DOMAIN Audiences = 1 .. Len(Audiences) /\ Len(Audiences) \in Nat /\ IsInjective(Audiences)
    BY NotifierAssumption, LenProperties
  <1>3. ASSUME NEW a \in DOMAIN Audiences
        PROVE  /\ Row(a) \in Seq(Notices)
               /\ IsInjective(Row(a))
               /\ \A n \in Range(Row(a)) : n[1] = Audiences[a] /\ n[2] \in Untold(Audiences[a])
    <2> DEFINE ids == Page(Audiences[a])
    <2>1. ids \in Seq(Invoices) /\ IsInjective(ids) /\ Range(ids) \subseteq Untold(Audiences[a])
      BY PageIs
    <2> HIDE DEF ids
    <2>2. DOMAIN ids = 1 .. Len(ids) /\ Len(ids) \in Nat /\
          \A k \in DOMAIN ids : ids[k] \in Invoices
      BY <2>1, LenProperties, ElementOfSeq
    <2>3. Audiences[a] \in Range(Audiences)
      BY DEF Range
    <2> DEFINE row == [k \in DOMAIN ids |-> <<Audiences[a], ids[k]>>]
    <2>4. \A k \in DOMAIN ids : <<Audiences[a], ids[k]>> \in Notices
      BY <2>2, <2>3 DEF Notices
    <2>5. row \in Seq(Notices)
      BY <2>2, <2>4
    <2>6. IsInjective(row)
      BY <2>1 DEF IsInjective
    <2>7. \A n \in Range(row) : n[1] = Audiences[a] /\ n[2] \in Untold(Audiences[a])
      BY <2>1 DEF Range
    <2>8. Row(a) = row
      BY DEF ids
    <2> HIDE DEF Row, row
    <2>9. QED
      BY <2>5, <2>6, <2>7, <2>8
  <1> HIDE DEF Row
  <1>4. rows \in Seq(Seq(Notices)) /\ DOMAIN rows = DOMAIN Audiences /\
        \A a \in DOMAIN Audiences : rows[a] = Row(a)
    <2>1. rows \in [1 .. Len(Audiences) -> Seq(Notices)]
      BY <1>2, <1>3
    <2>2. QED
      BY <1>2, <2>1
  <1> HIDE DEF rows
  <1>5. \A j \in DOMAIN rows : IsInjective(rows[j])
    BY <1>3, <1>4
  <1>6. ASSUME NEW j \in DOMAIN rows, NEW k \in DOMAIN rows, j # k
        PROVE  Range(rows[j]) \cap Range(rows[k]) = {}
    <2>1. Audiences[j] # Audiences[k]
      BY <1>2, <1>4, <1>6 DEF IsInjective
    <2>2. QED
      BY <1>3, <1>4, <2>1
  <1>7. /\ FlattenSeq(rows) \in Seq(Notices) /\ IsInjective(FlattenSeq(rows))
        /\ Range(FlattenSeq(rows)) = UNION {Range(rows[j]) : j \in DOMAIN rows}
    BY <1>4, <1>5, <1>6, Flattened
  <1>8. ASSUME NEW n \in Range(FlattenSeq(rows))
        PROVE  n[1] \notin invoice[n[2]].flagged
    <2>1. PICK a \in DOMAIN Audiences : n \in Range(Row(a))
      BY <1>4, <1>7
    <2>2. n[1] = Audiences[a] /\ n[2] \in Untold(Audiences[a])
      BY <1>3, <2>1
    <2>3. QED
      BY <2>2 DEF Untold
  <1>9. QED
    BY <1>1, <1>7, <1>8

-----------------------------------------------------------------------------
(* Types *)

LoopRecord ==
    [pc : Places, batch : SUBSET Users, seen : Seq(Calls), won : BOOLEAN,
     winner : Users \cup {None}, out : Seq(Jobs), todo : Seq(Calls), notices : Seq(Notices)]

\* A step that takes from a sequence finds something in it.
Ready(l) ==
    /\ l.pc = "state" => l.batch # {}
    /\ l.pc \in {"put", "winner"} => l.out # <<>>
    /\ l.pc \in {"notice", "ack"} => l.notices # <<>>

GameTyped ==
    /\ game \in [board : Seq(Calls), made : 0 .. MaxCalls, undos : 0 .. MaxMoves,
                 winner : Users \cup {None}, won : BOOLEAN, recent : BOOLEAN]
    /\ Len(game.board) <= game.made
InvoiceTyped == invoice \in [Invoices -> [status : Statuses, flagged : SUBSET Range(Audiences)]]
FileTyped ==
    file \in [subs : SUBSET Users, seen : 0 .. MaxCalls, live : 0 .. MaxCalls \cup {None},
              prize : BOOLEAN, ended : BOOLEAN]
MemTyped ==
    /\ mem \in [warm : BOOLEAN, reports : BOOLEAN, fails : [Users -> Nat], unacked : SUBSET Notices]
    /\ \A u \in Users : u \in Blocked => mem.fails[u] < Threshold
    /\ \A u \in Users : u \notin Blocked => mem.fails[u] <= faults
LoopTyped == loop \in LoopRecord /\ Len(loop.seen) <= MaxCalls /\ Ready(loop)
QueueTyped == queue \in Seq(Jobs) /\ Len(queue) <= QueueSize
WorkTyped == work \in [Workers -> Jobs \cup {Idle}]
AskedTyped == asked \in [Users -> 0 .. MaxCalls \cup {Idle}]
Tally(S) == [S -> Nat]
ToldTyped ==
    told \in [job : Tally(Users \X Items), live : Tally(Calls), ended : Nat,
              notice : Tally(Notices), lost : Tally(Notices), ons : Nat, crashes : Nat,
              quick : Nat]
Bounded ==
    game.undos + told.ons <= MaxMoves /\ told.crashes <= faults /\ told.quick <= told.crashes
OwedTyped == owed \in SUBSET (Users \X Items)
FaultsTyped == faults \in 0 .. MaxFaults

Typed ==
    /\ GameTyped /\ InvoiceTyped /\ FileTyped /\ MemTyped /\ LoopTyped /\ QueueTyped /\ WorkTyped
    /\ AskedTyped /\ ToldTyped /\ Bounded /\ OwedTyped /\ FaultsTyped

\* The typing the proof carries is that of the model.
LEMMA TypedIsTypeOK == ASSUME Typed PROVE TypeOK
  <1>1. MaxMoves \in Nat /\ MaxFaults \in Nat /\ Threshold \in Nat \ {0}
    BY NotifierAssumption
  <1>2. game.undos \in 0 .. MaxMoves /\ told.ons \in Nat /\ told.crashes \in Nat /\
        told.quick \in Nat /\ faults \in 0 .. MaxFaults
    BY DEF Typed, GameTyped, ToldTyped, FaultsTyped
  <1>3. told.ons \in 0 .. MaxMoves /\ told.crashes \in 0 .. MaxFaults /\
        told.quick \in 0 .. MaxFaults
    BY <1>1, <1>2 DEF Typed, Bounded
  <1>4. told \in [job : [Users \X Items -> Nat], live : [Calls -> Nat], ended : Nat,
                  notice : [Notices -> Nat], lost : [Notices -> Nat], ons : 0 .. MaxMoves,
                  crashes : 0 .. MaxFaults, quick : 0 .. MaxFaults]
    BY <1>3 DEF Typed, ToldTyped, Tally
  <1>5. mem.fails \in [Users -> 0 .. Threshold + MaxFaults]
    <2>1. \A u \in Users : mem.fails[u] \in Nat /\ mem.fails[u] <= Threshold + MaxFaults
      BY <1>1, <1>2 DEF Typed, MemTyped
    <2>2. \A u \in Users : mem.fails[u] \in 0 .. Threshold + MaxFaults
      BY <1>1, <2>1
    <2>3. mem.fails = [u \in Users |-> mem.fails[u]]
      BY DEF Typed, MemTyped
    <2>4. QED
      BY <2>2, <2>3
  <1>6. mem \in [warm : BOOLEAN, reports : BOOLEAN, fails : [Users -> 0 .. Threshold + MaxFaults],
                 unacked : SUBSET Notices]
    BY <1>5 DEF Typed, MemTyped
  <1>7. QED
    BY <1>4, <1>6
    DEF TypeOK, Typed, GameTyped, InvoiceTyped, FileTyped, LoopTyped, LoopRecord, QueueTyped,
        WorkTyped, AskedTyped, OwedTyped, FaultsTyped

\* A fault is counted within the bound.
LEMMA FewFaults == ASSUME FaultsTyped, Fault PROVE FaultsTyped' /\ faults' = faults + 1
  BY NotifierAssumption DEF FaultsTyped, Fault

\* A place of the loop that keeps nothing.
LEMMA GotoTyped ==
    ASSUME NEW pc \in Places, pc \notin {"state", "put", "winner", "notice", "ack"},
           loop' = Goto(pc)
    PROVE  LoopTyped'
  <1>1. <<>> \in Seq(Calls) /\ <<>> \in Seq(Jobs) /\ <<>> \in Seq(Notices) /\ Len(<<>>) = 0
    BY EmptySeq
  <1>2. QED
    BY <1>1, NotifierAssumption DEF LoopTyped, LoopRecord, Goto, Ready

\* A place of the loop with what it keeps.
LEMMA LoopAt ==
    ASSUME NEW pc \in Places, NEW batch \in SUBSET Users, NEW calls \in Seq(Calls),
           Len(calls) <= MaxCalls,
           NEW won \in BOOLEAN, NEW winner \in Users \cup {None}, NEW out \in Seq(Jobs),
           NEW todo \in Seq(Calls), NEW notices \in Seq(Notices),
           loop' = [pc |-> pc, batch |-> batch, seen |-> calls, won |-> won, winner |-> winner,
                    out |-> out, todo |-> todo, notices |-> notices],
           pc = "state" => batch # {},
           pc \in {"put", "winner"} => out # <<>>,
           pc \in {"notice", "ack"} => notices # <<>>
    PROVE  LoopTyped'
  BY DEF LoopTyped, LoopRecord, Ready

\* The empty sequences of a new place.
LEMMA Nothing ==
    <<>> \in Seq(Calls) /\ <<>> \in Seq(Jobs) /\ <<>> \in Seq(Notices) /\ Len(<<>>) = 0 /\
    Len(<<>>) <= MaxCalls
  BY EmptySeq, NotifierAssumption

\* The initial states have their types.
LEMMA InitTyped == ASSUME Init PROVE Typed
  <1>1. GameTyped
    <2>1. <<>> \in Seq(Calls) /\ Len(<<>>) = 0 /\ MaxCalls \in Nat /\ MaxMoves \in Nat
      BY EmptySeq, NotifierAssumption
    <2>2. CASE GameAhead
      BY <2>1, <2>2 DEF GameAhead, GameTyped
    <2>3. CASE InvoicesAhead
      BY <2>1, <2>3 DEF InvoicesAhead, GameTyped
    <2>4. QED
      BY <2>2, <2>3 DEF Init
  <1>2. InvoiceTyped
    BY DEF Init, GameAhead, InvoicesAhead, InvoiceTyped, Statuses
  <1>3. FileTyped /\ FaultsTyped /\ OwedTyped
    BY NotifierAssumption DEF Init, FileTyped, Emptied, FaultsTyped, OwedTyped
  <1>4. MemTyped
    BY NotifierAssumption DEF Init, MemTyped, Fresh
  <1>5. LoopTyped
    <2>1. <<>> \in Seq(Calls) /\ <<>> \in Seq(Jobs) /\ <<>> \in Seq(Notices) /\ Len(<<>>) = 0
      BY EmptySeq
    <2>2. QED
      BY <2>1, NotifierAssumption DEF Init, LoopTyped, LoopRecord, Goto, Ready, Places
  <1>6. QueueTyped
    BY NotifierAssumption, EmptySeq DEF Init, QueueTyped
  <1>7. WorkTyped /\ AskedTyped /\ ToldTyped
    BY DEF Init, WorkTyped, AskedTyped, ToldTyped, Tally
  <1>8. Bounded
    BY NotifierAssumption DEF Init, Bounded, GameAhead, InvoicesAhead
  <1>9. QED
    BY <1>1, <1>2, <1>3, <1>4, <1>5, <1>6, <1>7, <1>8 DEF Typed

\* What a step leaves alone keeps its type.
LEMMA SameGame == ASSUME GameTyped, UNCHANGED game PROVE GameTyped'
  BY DEF GameTyped
LEMMA SameInvoice == ASSUME InvoiceTyped, UNCHANGED invoice PROVE InvoiceTyped'
  BY DEF InvoiceTyped
LEMMA SameFile == ASSUME FileTyped, UNCHANGED file PROVE FileTyped'
  BY DEF FileTyped
LEMMA SameMem == ASSUME MemTyped, UNCHANGED <<mem, faults>> PROVE MemTyped'
  BY DEF MemTyped
LEMMA LaterMem == ASSUME MemTyped, FaultsTyped, UNCHANGED mem, faults' = faults + 1 PROVE MemTyped'
  BY DEF MemTyped, FaultsTyped
LEMMA SameLoop == ASSUME LoopTyped, UNCHANGED loop PROVE LoopTyped'
  BY DEF LoopTyped
LEMMA SameQueue == ASSUME QueueTyped, UNCHANGED queue PROVE QueueTyped'
  BY DEF QueueTyped
LEMMA SameWork == ASSUME WorkTyped, UNCHANGED work PROVE WorkTyped'
  BY DEF WorkTyped
LEMMA SameAsked == ASSUME AskedTyped, UNCHANGED asked PROVE AskedTyped'
  BY DEF AskedTyped
LEMMA SameTold == ASSUME ToldTyped, UNCHANGED told PROVE ToldTyped'
  BY DEF ToldTyped
LEMMA SameOwed == ASSUME OwedTyped, UNCHANGED owed PROVE OwedTyped'
  BY DEF OwedTyped
LEMMA SameFaults == ASSUME FaultsTyped, UNCHANGED faults PROVE FaultsTyped'
  BY DEF FaultsTyped
LEMMA SameBounds ==
    ASSUME Bounded, told'.ons = told.ons, told'.crashes = told.crashes,
           told'.quick = told.quick, game'.undos = game.undos,
           UNCHANGED faults \/ (FaultsTyped /\ ToldTyped /\ faults' = faults + 1)
    PROVE  Bounded'
  BY DEF Bounded, FaultsTyped, ToldTyped

\* The steps, one by one.

\* A number is called, which may complete the row of a user (call_number).
LEMMA CallTyped == ASSUME NEW winner \in Users \cup {None}, Typed, Call(winner) PROVE Typed'
  <1>1. GameTyped'
    <2> DEFINE c == game.made + 1
    <2>1. c \in Calls /\ c \in 0 .. MaxCalls
      BY NotifierAssumption DEF Typed, GameTyped, Call, Calls
    <2>2. Append(game.board, c) \in Seq(Calls) /\ Len(Append(game.board, c)) = Len(game.board) + 1
      BY <2>1, AppendProperties DEF Typed, GameTyped
    <2>3. Len(game.board) + 1 <= c
      BY LenProperties, NotifierAssumption DEF Typed, GameTyped
    <2>4. game' = [game EXCEPT !.made = c, !.board = Append(@, c), !.winner = winner,
                              !.won = @ \/ winner # None,
                              !.recent = @ \/ (winner # None /\ ~ game.won)]
      BY DEF Call
    <2>5. (game.won \/ winner # None) \in BOOLEAN /\
          (game.recent \/ (winner # None /\ ~ game.won)) \in BOOLEAN
      OBVIOUS
    <2> HIDE DEF c
    <2>6. QED
      BY <2>1, <2>2, <2>3, <2>4, <2>5 DEF Typed, GameTyped
  <1>2. Bounded'
    BY SameBounds DEF Typed, Call, GameTyped
  <1>3. OwedTyped'
    <2>1. game.made + 1 \in Items /\ Win \in Items
      BY NotifierAssumption DEF Typed, GameTyped, Call, Calls, Items
    <2>2. winner # None => winner \in Users
      OBVIOUS
    <2>3. QED
      BY <2>1, <2>2 DEF Typed, OwedTyped, Call
  <1>4. InvoiceTyped' /\ FileTyped' /\ MemTyped' /\ LoopTyped' /\ QueueTyped' /\ WorkTyped' /\
        AskedTyped' /\ ToldTyped' /\ FaultsTyped'
    BY SameInvoice, SameFile, SameMem, SameLoop, SameQueue, SameWork, SameAsked, SameTold,
       SameFaults DEF Typed, Call
  <1>5. QED
    BY <1>1, <1>2, <1>3, <1>4 DEF Typed

\* The last call is undone (undo_last_call).
LEMMA UndoTyped == ASSUME Typed, Undo PROVE Typed'
  <1>1. GameTyped'
    <2>1. Front(game.board) \in Seq(Calls) /\ Len(Front(game.board)) = Len(game.board) - 1
      <3>1. game.board \in Seq(Calls) /\ game.board # <<>>
        BY DEF Typed, GameTyped, Undo
      <3>2. Len(game.board) \in Nat \ {0} /\ \A i \in 1 .. Len(game.board) : game.board[i] \in Calls
        BY <3>1, EmptySeq, ElementOfSeq
      <3>3. QED
        BY <3>1, <3>2, SubSeqProperties DEF Front
    <2>2. Len(game.board) \in Nat /\ game.made \in Nat /\ told.ons \in Nat /\ game.undos \in Nat
      BY LenProperties, NotifierAssumption DEF Typed, GameTyped, ToldTyped
    <2>3. game.undos + 1 \in 0 .. MaxMoves
      <3>1. game.undos + told.ons < MaxMoves
        BY DEF Undo
      <3>2. QED
        BY <2>2, <3>1, NotifierAssumption
    <2>4. game' = [game EXCEPT !.board = Front(@), !.winner = None, !.undos = @ + 1]
      BY DEF Undo
    <2>5. Len(Front(game.board)) <= game.made
      BY <2>1, <2>2 DEF Typed, GameTyped
    <2>6. game'.board = Front(game.board) /\ game'.made = game.made
      BY <2>4 DEF Typed, GameTyped
    <2>7. game' \in [board : Seq(Calls), made : 0 .. MaxCalls, undos : 0 .. MaxMoves,
                    winner : Users \cup {None}, won : BOOLEAN, recent : BOOLEAN]
      BY <2>1, <2>3, <2>4 DEF Typed, GameTyped
    <2>8. QED
      BY <2>5, <2>6, <2>7 DEF GameTyped
  <1>2. Bounded'
    BY SMTT(30), NotifierAssumption DEF Typed, Bounded, Undo, GameTyped, ToldTyped
  <1>3. OwedTyped'
    BY DEF OwedTyped, Undo
  <1>4. InvoiceTyped' /\ FileTyped' /\ MemTyped' /\ LoopTyped' /\ QueueTyped' /\ WorkTyped' /\
        AskedTyped' /\ ToldTyped' /\ FaultsTyped'
    BY SameInvoice, SameFile, SameMem, SameLoop, SameQueue, SameWork, SameAsked, SameTold,
       SameFaults DEF Typed, Undo
  <1>5. QED
    BY <1>1, <1>2, <1>3, <1>4 DEF Typed

\* The worker sees the transfer of an invoice.
LEMMA DetectTyped ==
    ASSUME NEW i \in Invoices, NEW status \in Statuses, Typed, Detect(i, status)
    PROVE  Typed'
  <1>1. InvoiceTyped'
    BY DEF Typed, InvoiceTyped, Detect
  <1>2. GameTyped' /\ FileTyped' /\ MemTyped' /\ LoopTyped' /\ QueueTyped' /\ WorkTyped' /\
        AskedTyped' /\ ToldTyped' /\ Bounded' /\ OwedTyped' /\ FaultsTyped'
    BY SameGame, SameFile, SameMem, SameLoop, SameQueue, SameWork, SameAsked, SameTold, SameBounds,
       SameOwed, SameFaults DEF Typed, Detect
  <1>3. QED
    BY <1>1, <1>2 DEF Typed

\* An administrator decides on an invoice.
LEMMA DecideTyped ==
    ASSUME NEW i \in Invoices, NEW status \in Statuses, Typed, Decide(i, status)
    PROVE  Typed'
  <1>1. InvoiceTyped'
    BY NotifierAssumption DEF Typed, InvoiceTyped, Decide
  <1>2. GameTyped' /\ FileTyped' /\ MemTyped' /\ LoopTyped' /\ QueueTyped' /\ WorkTyped' /\
        AskedTyped' /\ ToldTyped' /\ Bounded' /\ OwedTyped' /\ FaultsTyped'
    BY SameGame, SameFile, SameMem, SameLoop, SameQueue, SameWork, SameAsked, SameTold, SameBounds,
       SameOwed, SameFaults DEF Typed, Decide
  <1>3. QED
    BY <1>1, <1>2 DEF Typed

\* A user turns the switch on: the calls so far are read (notif_on).
LEMMA AskOnTyped == ASSUME NEW u \in Users, Typed, AskOn(u) PROVE Typed'
  <1>1. AskedTyped'
    <2>1. Len(game.board) \in 0 .. MaxCalls
      BY LenProperties, NotifierAssumption DEF Typed, GameTyped
    <2>2. QED
      BY <2>1 DEF Typed, AskedTyped, AskOn
  <1>2. ToldTyped'
    BY DEF Typed, ToldTyped, AskOn
  <1>3. Bounded'
    BY SMTT(30), NotifierAssumption DEF Typed, Bounded, AskOn, GameTyped, ToldTyped
  <1>4. GameTyped' /\ InvoiceTyped' /\ FileTyped' /\ MemTyped' /\ LoopTyped' /\ QueueTyped' /\
        WorkTyped' /\ OwedTyped' /\ FaultsTyped'
    BY SameGame, SameInvoice, SameFile, SameMem, SameLoop, SameQueue, SameWork, SameOwed,
       SameFaults DEF Typed, AskOn
  <1>5. QED
    BY <1>1, <1>2, <1>3, <1>4 DEF Typed

\* The user is subscribed, with what has been read.
LEMMA SwitchOnTyped == ASSUME NEW u \in Users, Typed, SwitchOn(u) PROVE Typed'
  <1>1. FileTyped'
    <2>1. asked[u] \in 0 .. MaxCalls
      BY DEF Typed, AskedTyped, SwitchOn
    <2>2. QED
      BY <2>1 DEF Typed, FileTyped, SwitchOn
  <1>2. AskedTyped'
    BY DEF Typed, AskedTyped, SwitchOn
  <1>3. Bounded'
    BY SameBounds DEF Typed, SwitchOn
  <1>4. GameTyped' /\ InvoiceTyped' /\ MemTyped' /\ LoopTyped' /\ QueueTyped' /\ WorkTyped' /\
        ToldTyped' /\ OwedTyped' /\ FaultsTyped'
    BY SameGame, SameInvoice, SameMem, SameLoop, SameQueue, SameWork, SameTold, SameOwed,
       SameFaults DEF Typed, SwitchOn
  <1>5. QED
    BY <1>1, <1>2, <1>3, <1>4 DEF Typed

\* A user turns the switch off (notif_off).
LEMMA SwitchOffTyped == ASSUME NEW u \in Users, Typed, SwitchOff(u) PROVE Typed'
  <1>1. FileTyped'
    BY DEF Typed, FileTyped, SwitchOff
  <1>2. Bounded'
    BY SameBounds DEF Typed, SwitchOff
  <1>3. OwedTyped'
    BY DEF Typed, OwedTyped, SwitchOff
  <1>4. GameTyped' /\ InvoiceTyped' /\ MemTyped' /\ LoopTyped' /\ QueueTyped' /\ WorkTyped' /\
        AskedTyped' /\ ToldTyped' /\ FaultsTyped'
    BY SameGame, SameInvoice, SameMem, SameLoop, SameQueue, SameWork, SameAsked, SameTold,
       SameFaults DEF Typed, SwitchOff
  <1>5. QED
    BY <1>1, <1>2, <1>3, <1>4 DEF Typed

\* The subscribers are captured and the state of the game is asked for.
LEMMA PollTyped == ASSUME Typed, Poll PROVE Typed'
  <1>1. LoopTyped'
    <2>1. CASE file.subs = {}
      BY <2>1, GotoTyped DEF Typed, Poll, Places
    <2>2. CASE file.subs # {}
      <3>1. loop' = [pc |-> "state", batch |-> file.subs, seen |-> <<>>, won |-> FALSE,
                     winner |-> None, out |-> <<>>, todo |-> <<>>, notices |-> <<>>]
        BY <2>2 DEF Poll, Goto
      <3>2. file.subs \in SUBSET Users
        BY DEF Typed, FileTyped
      <3>3. "state" \in Places /\ FALSE \in BOOLEAN /\ None \in Users \cup {None}
        BY DEF Places
      <3>4. QED
        BY <2>2, <3>1, <3>2, <3>3, Nothing, LoopAt
    <2>3. QED
      BY <2>1, <2>2
  <1>2. Bounded'
    BY SameBounds DEF Typed, Poll
  <1>3. GameTyped' /\ InvoiceTyped' /\ FileTyped' /\ MemTyped' /\ QueueTyped' /\ WorkTyped' /\
        AskedTyped' /\ ToldTyped' /\ OwedTyped' /\ FaultsTyped'
    BY SameGame, SameInvoice, SameFile, SameMem, SameQueue, SameWork, SameAsked, SameTold, SameOwed,
       SameFaults DEF Typed, Poll
  <1>4. QED
    BY <1>1, <1>2, <1>3 DEF Typed

\* The state arrives; the messages for the new calls are made.
LEMMA StateTyped ==
    ASSUME Typed, State,
           JobsFor(Added, loop.batch) \in Seq(Jobs),
           Added # <<>> => JobsFor(Added, loop.batch) # <<>>
    PROVE  Typed'
  <1>1. Len(game.board) \in 0 .. MaxCalls
    BY LenProperties, NotifierAssumption DEF Typed, GameTyped
  <1>2. CASE game.board = <<>>
    <2>1. LoopTyped'
      BY <1>2, GotoTyped DEF State, Places
    <2>2. /\ GameTyped' /\ InvoiceTyped' /\ FileTyped' /\ MemTyped' /\ QueueTyped' /\ WorkTyped'
          /\ AskedTyped' /\ ToldTyped' /\ Bounded' /\ OwedTyped' /\ FaultsTyped'
      BY <1>2, SameGame, SameInvoice, SameFile, SameMem, SameQueue, SameWork, SameAsked, SameTold,
         SameBounds,
         SameOwed, SameFaults DEF Typed, State
    <2>3. QED
      BY <2>1, <2>2 DEF Typed
  <1>3. CASE game.board # <<>>
    <2>1. LoopTyped'
      <3>1. loop' = [pc |-> IF Added = <<>> THEN "report" ELSE "put", batch |-> {}, seen |-> <<>>,
                     won |-> FALSE, winner |-> None,
                     out |-> JobsFor(Added, loop.batch), todo |-> <<>>,
                     notices |-> <<>>]
        BY <1>3 DEF State, Goto
      <3>2. "report" \in Places /\ "put" \in Places /\ FALSE \in BOOLEAN /\
            None \in Users \cup {None}
            /\ {} \in SUBSET Users
        BY DEF Places
      <3>3. CASE Added = <<>>
        BY ZenonT(30), <3>1, <3>2, <3>3, Nothing, LoopAt
      <3>4. CASE Added # <<>>
        BY ZenonT(30), <3>1, <3>2, <3>4, Nothing, LoopAt
      <3>5. QED
        BY <3>3, <3>4
    <2>2. FileTyped'
      BY <1>1, <1>3 DEF Typed, FileTyped, State
    <2>3. MemTyped'
      BY <1>3 DEF Typed, MemTyped, State
    <2>4. GameTyped' /\ InvoiceTyped' /\ QueueTyped' /\ WorkTyped' /\ AskedTyped' /\ ToldTyped' /\
          OwedTyped' /\ FaultsTyped' /\ Bounded'
      BY SameGame, SameInvoice, SameQueue, SameWork, SameAsked, SameTold, SameBounds,
         SameOwed, SameFaults DEF Typed, State
    <2>5. QED
      BY <2>1, <2>2, <2>3, <2>4 DEF Typed
  <1>4. QED
    BY <1>2, <1>3

\* The state does not arrive.
LEMMA StateFailsTyped == ASSUME Typed, StateFails PROVE Typed'
  <1>1. MemTyped'
    BY SameMem, LaterMem, FewFaults DEF Typed, StateFails, Sound
  <1>2. LoopTyped'
    BY GotoTyped DEF StateFails, Places
  <1>3. Bounded'
    BY SameBounds, FewFaults DEF Typed, StateFails, Sound
  <1>4. FaultsTyped'
    BY FewFaults, SameFaults DEF Typed, StateFails, Sound
  <1>5. GameTyped' /\ InvoiceTyped' /\ FileTyped' /\ QueueTyped' /\ WorkTyped' /\ AskedTyped' /\
        ToldTyped' /\ OwedTyped'
    BY SameGame, SameInvoice, SameFile, SameQueue, SameWork, SameAsked, SameTold,
       SameOwed DEF Typed, StateFails
  <1>6. QED
    BY <1>1, <1>2, <1>3, <1>4, <1>5 DEF Typed

\* The report of the game does not arrive.
LEMMA ReportFailsTyped == ASSUME Typed, ReportFails PROVE Typed'
  <1>1. MemTyped'
    BY SameMem, LaterMem, FewFaults DEF Typed, ReportFails, Sound
  <1>2. LoopTyped'
    BY GotoTyped DEF ReportFails, Places
  <1>3. Bounded'
    BY SameBounds, FewFaults DEF Typed, ReportFails, Sound
  <1>4. FaultsTyped'
    BY FewFaults, SameFaults DEF Typed, ReportFails, Sound
  <1>5. GameTyped' /\ InvoiceTyped' /\ FileTyped' /\ QueueTyped' /\ WorkTyped' /\ AskedTyped' /\
        ToldTyped' /\ OwedTyped'
    BY SameGame, SameInvoice, SameFile, SameQueue, SameWork, SameAsked, SameTold,
       SameOwed DEF Typed, ReportFails
  <1>6. QED
    BY <1>1, <1>2, <1>3, <1>4, <1>5 DEF Typed

\* The crypto notices do not arrive.
LEMMA FetchFailsTyped == ASSUME Typed, FetchFails PROVE Typed'
  <1>1. MemTyped'
    BY SameMem, LaterMem, FewFaults DEF Typed, FetchFails, Sound
  <1>2. LoopTyped'
    BY GotoTyped DEF FetchFails, Places
  <1>3. Bounded'
    BY SameBounds, FewFaults DEF Typed, FetchFails, Sound
  <1>4. FaultsTyped'
    BY FewFaults, SameFaults DEF Typed, FetchFails, Sound
  <1>5. GameTyped' /\ InvoiceTyped' /\ FileTyped' /\ QueueTyped' /\ WorkTyped' /\ AskedTyped' /\
        ToldTyped' /\ OwedTyped'
    BY SameGame, SameInvoice, SameFile, SameQueue, SameWork, SameAsked, SameTold,
       SameOwed DEF Typed, FetchFails
  <1>6. QED
    BY <1>1, <1>2, <1>3, <1>4, <1>5 DEF Typed

\* A message is put into the queue.
LEMMA PutTyped ==
    ASSUME NEW pc \in {"put", "winner"}, NEW next \in {"report", "marked"}, Typed, Put(pc, next)
    PROVE  Typed'
  <1>1. /\ loop.out \in Seq(Jobs) /\ loop.out # <<>> /\ queue \in Seq(Jobs) /\
           Len(queue) < QueueSize
        /\ loop \in LoopRecord /\ Len(loop.seen) <= MaxCalls /\ next \in Places /\ pc \in Places
    BY DEF Typed, LoopTyped, LoopRecord, Ready, QueueTyped, Put, Room, Places
  <1>2. /\ Head(loop.out) \in Jobs /\ Tail(loop.out) \in Seq(Jobs) /\
           Len(Tail(loop.out)) = Len(loop.out) - 1
        /\ Len(loop.out) \in Nat \ {0}
    BY <1>1, HeadTailProperties, EmptySeq
  <1>3. QueueTyped'
    <2>1. queue' = Append(queue, Head(loop.out))
      BY DEF Put
    <2>2. Append(queue, Head(loop.out)) \in Seq(Jobs) /\
          Len(Append(queue, Head(loop.out))) = Len(queue) + 1
      BY <1>1, <1>2, AppendProperties
    <2>3. Len(queue) \in Nat
      BY <1>1, LenProperties
    <2>4. QED
      BY <1>1, <2>1, <2>2, <2>3, NotifierAssumption DEF QueueTyped
  <1>4. LoopTyped'
    <2>1. CASE Len(loop.out) = 1
      <3>1. loop' = [loop EXCEPT !.pc = next, !.out = <<>>]
        BY <2>1 DEF Put
      <3>2. QED
        BY <1>1, <3>1, Nothing DEF LoopTyped, LoopRecord, Ready
    <2>2. CASE Len(loop.out) # 1
      <3>1. loop' = [loop EXCEPT !.out = Tail(@)] /\ loop.pc = pc
        BY <2>2 DEF Put
      <3>2. Tail(loop.out) # <<>>
        <4>1. Len(<<>>) = 0
          BY EmptySeq
        <4>2. Len(Tail(loop.out)) # 0
          BY <1>2, <2>2
        <4>3. QED
          BY <4>1, <4>2
      <3>3. QED
        BY <1>1, <1>2, <3>1, <3>2 DEF LoopTyped, LoopRecord, Ready
    <2>3. QED
      BY <2>1, <2>2
  <1>5. /\ GameTyped' /\ InvoiceTyped' /\ FileTyped' /\ MemTyped' /\ WorkTyped'
        /\ AskedTyped' /\ ToldTyped' /\ Bounded' /\ OwedTyped' /\ FaultsTyped'
    BY SameGame, SameInvoice, SameFile, SameMem, SameWork, SameAsked, SameTold, SameBounds,
       SameOwed, SameFaults DEF Typed, Put
  <1>6. QED
    BY <1>3, <1>4, <1>5 DEF Typed

\* The report of the game arrives.
LEMMA ReportTyped == ASSUME Typed, Report PROVE Typed'
  <1>1. LoopTyped'
    <2>1. loop' = [pc |-> "live", batch |-> {}, seen |-> game.board, won |-> game.won,
                   winner |-> game.winner,
                   out |-> <<>>, todo |-> <<>>, notices |-> <<>>]
      BY DEF Report, Goto
    <2>2. /\ game.board \in Seq(Calls) /\ Len(game.board) <= MaxCalls /\ game.won \in BOOLEAN
          /\ game.winner \in Users \cup {None} /\ {} \in SUBSET Users /\ "live" \in Places
      BY LenProperties, NotifierAssumption DEF Typed, GameTyped, Places
    <2>3. QED
      BY <2>1, <2>2, Nothing DEF LoopTyped, LoopRecord, Ready
  <1>2. Bounded'
    BY SameBounds DEF Typed, Report
  <1>3. GameTyped' /\ InvoiceTyped' /\ FileTyped' /\ MemTyped' /\ QueueTyped' /\ WorkTyped' /\
        AskedTyped' /\ ToldTyped' /\ OwedTyped' /\ FaultsTyped'
    BY SameGame, SameInvoice, SameFile, SameMem, SameQueue, SameWork, SameAsked, SameTold, SameOwed,
       SameFaults DEF Typed, Report
  <1>4. QED
    BY <1>1, <1>2, <1>3 DEF Typed

\* What the live topic has not had: the board behind the marker.
LEMMA LiveAddedIs ==
    ASSUME Typed
    PROVE  /\ LiveAdded \in Seq(Calls)
           /\ file.live = None => LiveAdded = <<>>
           /\ file.live # None =>
                 /\ Len(LiveAdded) = IF file.live < Len(loop.seen) THEN Len(loop.seen) - file.live
                    ELSE 0
                 /\ \A i \in 1 .. Len(loop.seen) - file.live :
                       i + file.live \in DOMAIN loop.seen /\ LiveAdded[i] = loop.seen[i + file.live]
  <1> DEFINE m == file.live
             n == Len(loop.seen)
  <1>1. n \in Nat /\ DOMAIN loop.seen = 1 .. n /\ \A i \in 1 .. n : loop.seen[i] \in Calls
    BY NotifierAssumption, LenProperties, ElementOfSeq DEF Typed, LoopTyped, LoopRecord
  <1>2. CASE m = None
    BY <1>2, EmptySeq DEF LiveAdded
  <1>3. CASE m # None
    <2>0. m \in Nat
      BY <1>3, NotifierAssumption DEF Typed, FileTyped
    <2>1. LiveAdded = SubSeq(loop.seen, m + 1, n)
      BY <1>3 DEF LiveAdded
    <2>2. m + 1 \in Int /\ n \in Int /\ \A i \in m + 1 .. n : loop.seen[i] \in Calls
      BY <1>1, <2>0
    <2> HIDE DEF m, n
    <2>3. /\ SubSeq(loop.seen, m + 1, n) \in Seq(Calls)
          /\ Len(SubSeq(loop.seen, m + 1, n)) = IF m + 1 <= n THEN n - (m + 1) + 1 ELSE 0
          /\ \A i \in 1 .. n - (m + 1) + 1 : SubSeq(loop.seen, m + 1, n)[i] =
             loop.seen[m + 1 + i - 1]
      BY <2>2, SubSeqProperties
    <2>4. n - (m + 1) + 1 = n - m /\ (m + 1 <= n <=> m < n)
      BY <1>1, <2>0
    <2>5. \A i \in 1 .. n - m : m + 1 + i - 1 = i + m /\ i + m \in 1 .. n
      BY <1>1, <2>0
    <2>6. QED
      BY <1>1, <1>3, <2>1, <2>3, <2>4, <2>5 DEF m, n
  <1>4. QED
    BY <1>2, <1>3

\* The report is compared with the marker of the live topic.
LEMMA LiveTyped == ASSUME Typed, Live PROVE Typed'
  <1>1. FileTyped'
    <2>1. Len(loop.seen) \in 0 .. MaxCalls
      BY LenProperties, NotifierAssumption DEF Typed, LoopTyped, LoopRecord
    <2>2. QED
      BY <2>1 DEF Typed, FileTyped, Live
  <1>2. LoopTyped'
    <2>1. LiveAdded \in Seq(Calls)
      BY LiveAddedIs
    <2>2. \/ loop' = [loop EXCEPT !.pc = "prize"]
          \/ LiveAdded # <<>> /\ loop' = [loop EXCEPT !.pc = "topic", !.todo = LiveAdded]
      BY DEF Live
    <2> HIDE DEF LiveAdded
    <2>3. QED
      BY ZenonT(30), <2>1, <2>2 DEF Typed, LoopTyped, LoopRecord, Ready, Places
  <1>3. Bounded'
    BY SameBounds DEF Typed, Live
  <1>4. GameTyped' /\ InvoiceTyped' /\ MemTyped' /\ QueueTyped' /\ WorkTyped' /\ AskedTyped' /\
        ToldTyped' /\ OwedTyped' /\ FaultsTyped'
    BY SameGame, SameInvoice, SameMem, SameQueue, SameWork, SameAsked, SameTold, SameOwed,
       SameFaults DEF Typed, Live
  <1>5. QED
    BY <1>1, <1>2, <1>3, <1>4 DEF Typed

\* A call is posted in the live topic.
LEMMA LiveSendTyped == ASSUME NEW reached \in BOOLEAN, Typed, LiveSend(reached) PROVE Typed'
  <1>1. MemTyped'
    BY SameMem, LaterMem, FewFaults DEF Typed, LiveSend, Sound
  <1>2. loop.todo \in Seq(Calls) /\ loop.todo # <<>>
    BY DEF Typed, LoopTyped, LoopRecord, LiveSend
  <1>3. Head(loop.todo) \in Calls /\ Tail(loop.todo) \in Seq(Calls)
    BY <1>2, HeadTailProperties
  <1>4. LoopTyped'
    BY <1>3 DEF Typed, LoopTyped, LoopRecord, Ready, LiveSend
  <1>5. ToldTyped'
    <2>1. CASE UNCHANGED told
      BY <2>1, SameTold DEF Typed
    <2>2. CASE told' = [told EXCEPT !.live[Head(loop.todo)] = @ + 1]
      <3>1. [told.live EXCEPT ![Head(loop.todo)] = @ + 1] \in Tally(Calls)
        BY <1>3 DEF Typed, ToldTyped, Tally
      <3>2. told' = [told EXCEPT !.live = [told.live EXCEPT ![Head(loop.todo)] = @ + 1]]
        BY <2>2
      <3>3. QED
        BY <3>1, <3>2 DEF Typed, ToldTyped
    <2>3. QED
      BY <2>1, <2>2 DEF LiveSend
  <1>6. Bounded'
    <2>1. told'.ons = told.ons /\ told'.crashes = told.crashes /\ told'.quick = told.quick
      BY DEF Typed, ToldTyped, LiveSend
    <2>2. game' = game
      BY DEF LiveSend
    <2>3. UNCHANGED faults \/ faults' = faults + 1
      BY FewFaults DEF Typed, LiveSend, Sound
    <2>4. QED
      BY <2>1, <2>2, <2>3, SameBounds DEF Typed
  <1>7. FaultsTyped'
    BY FewFaults, SameFaults DEF Typed, LiveSend, Sound
  <1>8. GameTyped' /\ InvoiceTyped' /\ FileTyped' /\ QueueTyped' /\ WorkTyped' /\ AskedTyped' /\
        OwedTyped'
    BY SameGame, SameInvoice, SameFile, SameQueue, SameWork, SameAsked, SameOwed
    DEF Typed, LiveSend
  <1>9. QED
    BY <1>1, <1>4, <1>5, <1>6, <1>7, <1>8 DEF Typed

\* The marker of the live topic is set when all calls are posted.
LEMMA LiveMarkTyped == ASSUME Typed, LiveMark PROVE Typed'
  <1>1. FileTyped'
    <2>1. Len(loop.seen) \in 0 .. MaxCalls
      BY LenProperties, NotifierAssumption DEF Typed, LoopTyped, LoopRecord
    <2>2. QED
      BY <2>1 DEF Typed, FileTyped, LiveMark
  <1>2. LoopTyped'
    BY DEF Typed, LoopTyped, LoopRecord, Ready, Places, LiveMark
  <1>3. Bounded'
    BY SameBounds DEF Typed, LiveMark
  <1>4. GameTyped' /\ InvoiceTyped' /\ MemTyped' /\ QueueTyped' /\ WorkTyped' /\ AskedTyped' /\
        ToldTyped' /\ OwedTyped' /\ FaultsTyped'
    BY SameGame, SameInvoice, SameMem, SameQueue, SameWork, SameAsked, SameTold, SameOwed,
       SameFaults DEF Typed, LiveMark
  <1>5. QED
    BY <1>1, <1>2, <1>3, <1>4 DEF Typed

\* A win is seen in the report: the message to the winner is made, or the mark set.
LEMMA PrizeTyped == ASSUME Typed, Prize PROVE Typed'
  <1>1. FileTyped'
    <2>1. loop.won \in BOOLEAN /\ file.prize \in BOOLEAN
      BY DEF Typed, LoopTyped, LoopRecord, FileTyped
    <2>2. UNCHANGED file \/ file' = [file EXCEPT !.prize = @ \/ loop.won]
      BY DEF Prize, Marked
    <2>3. (file.prize \/ loop.won) \in BOOLEAN
      OBVIOUS
    <2>4. QED
      BY <2>2, <2>3 DEF Typed, FileTyped
  <1>2. LoopTyped'
    <2>1. CASE loop' = [loop EXCEPT !.pc = "ended"]
      BY <2>1 DEF Typed, LoopTyped, LoopRecord, Ready, Places
    <2>2. CASE loop.winner # None /\
               loop' = [loop EXCEPT !.pc = "winner",
                                    !.out = <<[user |-> loop.winner, item |-> Win]>>]
      <3>1. [user |-> loop.winner, item |-> Win] \in Jobs
        BY <2>2 DEF Typed, LoopTyped, LoopRecord, Jobs, Items
      <3>2. <<[user |-> loop.winner, item |-> Win]>> \in Seq(Jobs) /\
            <<[user |-> loop.winner, item |-> Win]>> # <<>>
        BY <3>1
      <3>3. QED
        BY <2>2, <3>2 DEF Typed, LoopTyped, LoopRecord, Ready, Places
    <2>3. QED
      BY <2>1, <2>2 DEF Prize
  <1>3. Bounded'
    BY SameBounds DEF Typed, Prize
  <1>4. GameTyped' /\ InvoiceTyped' /\ MemTyped' /\ QueueTyped' /\ WorkTyped' /\ AskedTyped' /\
        ToldTyped' /\ OwedTyped' /\ FaultsTyped'
    BY SameGame, SameInvoice, SameMem, SameQueue, SameWork, SameAsked, SameTold, SameOwed,
       SameFaults DEF Typed, Prize
  <1>5. QED
    BY <1>1, <1>2, <1>3, <1>4 DEF Typed

\* The win is marked once the message is in the queue.
LEMMA MarkPrizeTyped == ASSUME Typed, MarkPrize PROVE Typed'
  <1>1. FileTyped'
    <2>1. loop.won \in BOOLEAN /\ file.prize \in BOOLEAN
      BY DEF Typed, LoopTyped, LoopRecord, FileTyped
    <2>2. UNCHANGED file \/ file' = [file EXCEPT !.prize = @ \/ loop.won]
      BY DEF MarkPrize, Marked
    <2>3. (file.prize \/ loop.won) \in BOOLEAN
      OBVIOUS
    <2>4. QED
      BY <2>2, <2>3 DEF Typed, FileTyped
  <1>2. LoopTyped'
    BY DEF Typed, LoopTyped, LoopRecord, Ready, Places, MarkPrize
  <1>3. Bounded'
    BY SameBounds DEF Typed, MarkPrize
  <1>4. GameTyped' /\ InvoiceTyped' /\ MemTyped' /\ QueueTyped' /\ WorkTyped' /\ AskedTyped' /\
        ToldTyped' /\ OwedTyped' /\ FaultsTyped'
    BY SameGame, SameInvoice, SameMem, SameQueue, SameWork, SameAsked, SameTold, SameOwed,
       SameFaults DEF Typed, MarkPrize
  <1>5. QED
    BY <1>1, <1>2, <1>3, <1>4 DEF Typed

\* The end of the game is reported.
LEMMA EndNoticeTyped == ASSUME NEW reached \in BOOLEAN, Typed, EndNotice(reached) PROVE Typed'
  <1>1. MemTyped'
    BY SameMem, LaterMem, FewFaults DEF Typed, EndNotice, Sound
  <1>2. LoopTyped'
    BY DEF Typed, LoopTyped, LoopRecord, Ready, Places, EndNotice
  <1>3. ToldTyped'
    <2>1. UNCHANGED told \/ told' = [told EXCEPT !.ended = @ + 1]
      BY DEF EndNotice
    <2>2. QED
      BY <2>1 DEF Typed, ToldTyped
  <1>4. Bounded'
    <2>1. told'.ons = told.ons /\ told'.crashes = told.crashes /\ told'.quick = told.quick
      BY DEF Typed, ToldTyped, EndNotice
    <2>2. game' = game
      BY DEF EndNotice
    <2>3. UNCHANGED faults \/ faults' = faults + 1
      BY FewFaults DEF Typed, EndNotice, Sound
    <2>4. QED
      BY <2>1, <2>2, <2>3, SameBounds DEF Typed
  <1>5. FaultsTyped'
    BY FewFaults, SameFaults DEF Typed, EndNotice, Sound
  <1>6. GameTyped' /\ InvoiceTyped' /\ FileTyped' /\ QueueTyped' /\ WorkTyped' /\ AskedTyped' /\
        OwedTyped'
    BY SameGame, SameInvoice, SameFile, SameQueue, SameWork, SameAsked, SameOwed
    DEF Typed, EndNotice
  <1>7. QED
    BY <1>1, <1>2, <1>3, <1>4, <1>5, <1>6 DEF Typed

\* The marker of the end is set after its report (set_event_marker).
LEMMA MarkEndedTyped == ASSUME Typed, MarkEnded PROVE Typed'
  <1>1. FileTyped'
    <2>1. loop.won \in BOOLEAN /\ file.ended \in BOOLEAN
      BY DEF Typed, LoopTyped, LoopRecord, FileTyped
    <2>2. file' = [file EXCEPT !.ended = @ \/ loop.won]
      BY DEF MarkEnded, Marked
    <2>3. (file.ended \/ loop.won) \in BOOLEAN
      OBVIOUS
    <2>4. QED
      BY <2>2, <2>3 DEF Typed, FileTyped
  <1>2. MemTyped'
    BY DEF Typed, MemTyped, MarkEnded
  <1>3. LoopTyped'
    BY GotoTyped DEF MarkEnded, Places
  <1>4. Bounded'
    BY SameBounds DEF Typed, MarkEnded
  <1>5. GameTyped' /\ InvoiceTyped' /\ QueueTyped' /\ WorkTyped' /\ AskedTyped' /\ ToldTyped' /\
        OwedTyped' /\ FaultsTyped'
    BY SameGame, SameInvoice, SameQueue, SameWork, SameAsked, SameTold, SameOwed, SameFaults
    DEF Typed, MarkEnded
  <1>6. QED
    BY <1>1, <1>2, <1>3, <1>4, <1>5 DEF Typed

\* The crypto notices to be delivered arrive.
LEMMA FetchNoticesTyped == ASSUME Typed, FetchNotices PROVE Typed'
  <1>1. LoopTyped'
    <2>1. CASE Listing = <<>>
      BY <2>1, GotoTyped DEF FetchNotices, Places
    <2>2. CASE Listing # <<>>
      <3>1. loop' = [pc |-> "notice", batch |-> {}, seen |-> <<>>, won |-> FALSE,
                     winner |-> None, out |-> <<>>, todo |-> <<>>, notices |-> Listing]
        BY <2>2 DEF FetchNotices, Goto
      <3>2. "notice" \in Places /\ FALSE \in BOOLEAN /\ None \in Users \cup {None} /\
            {} \in SUBSET Users
        BY DEF Places
      <3>3. Listing \in Seq(Notices)
        BY ListingIs
      <3>4. QED
        BY <2>2, <3>1, <3>2, <3>3, Nothing, LoopAt
    <2>3. QED
      BY <2>1, <2>2
  <1>2. Bounded'
    BY SameBounds DEF Typed, FetchNotices
  <1>3. GameTyped' /\ InvoiceTyped' /\ FileTyped' /\ MemTyped' /\ QueueTyped' /\ WorkTyped' /\
        AskedTyped' /\ ToldTyped' /\ OwedTyped' /\ FaultsTyped'
    BY SameGame, SameInvoice, SameFile, SameMem, SameQueue, SameWork, SameAsked, SameTold, SameOwed,
       SameFaults DEF Typed, FetchNotices
  <1>4. QED
    BY <1>1, <1>2, <1>3 DEF Typed

\* While notices are delivered there is a first one.
LEMMA HeadNotice ==
    ASSUME Typed, loop.pc \in {"notice", "ack"}
    PROVE  /\ loop.notices \in Seq(Notices) /\ loop.notices # <<>> /\
              Len(loop.notices) \in Nat \ {0}
           /\ Head(loop.notices) \in Notices
           /\ Tail(loop.notices) \in Seq(Notices) /\ Len(Tail(loop.notices)) = Len(loop.notices) - 1
  <1>1. loop.notices \in Seq(Notices) /\ loop.notices # <<>>
    BY DEF Typed, LoopTyped, LoopRecord, Ready
  <1>2. QED
    BY <1>1, HeadTailProperties, EmptySeq

\* The loop goes on to the next notice, or to the numbers.
LEMMA NextNoticeTyped ==
    ASSUME Typed, loop.pc \in {"notice", "ack"}, loop' = NextNotice
    PROVE  LoopTyped'
  <1>1. CASE Len(loop.notices) = 1
    BY <1>1, GotoTyped DEF NextNotice, Places
  <1>2. CASE Len(loop.notices) # 1
    <2>1. Len(<<>>) = 0 /\ Len(Tail(loop.notices)) # 0
      BY <1>2, HeadNotice, EmptySeq
    <2>2. Tail(loop.notices) # <<>> /\ Tail(loop.notices) \in Seq(Notices)
      BY <2>1, HeadNotice
    <2>3. loop' = [loop EXCEPT !.pc = "notice", !.notices = Tail(@)]
      BY <1>2 DEF NextNotice
    <2>4. QED
      BY <2>2, <2>3 DEF Typed, LoopTyped, LoopRecord, Ready, Places
  <1>3. QED
    BY <1>1, <1>2

\* What an attempt to deliver a notice changes.
LEMMA AttemptIs ==
    ASSUME Typed, NEW n \in Notices, NEW outcome \in Outcomes, told' = Attempt(n, outcome)
    PROVE  /\ ToldTyped'
           /\ told'.job = told.job /\ told'.live = told.live /\ told'.ended = told.ended
           /\ told'.ons = told.ons /\ told'.crashes = told.crashes /\ told'.quick = told.quick
           /\ \A k \in Notices :
                 /\ told'.notice[k] = told.notice[k] + IF k = n /\ outcome # "failed" THEN 1 ELSE 0
                 /\ told'.lost[k] = told.lost[k] + IF k = n /\ outcome = "lost" THEN 1 ELSE 0
  <1> DEFINE more == [told.notice EXCEPT ![n] = @ + 1]
             gone == [told.lost EXCEPT ![n] = @ + 1]
  <1>1. told.notice \in Tally(Notices) /\ told.lost \in Tally(Notices)
    BY DEF Typed, ToldTyped
  <1>2. /\ more \in Tally(Notices) /\ gone \in Tally(Notices)
        /\ \A k \in Notices : /\ more[k] = told.notice[k] + IF k = n THEN 1 ELSE 0
                             /\ gone[k] = told.lost[k] + IF k = n THEN 1 ELSE 0
    BY <1>1 DEF Tally
  <1>3. CASE outcome = "sent"
    <2>1. told' = [told EXCEPT !.notice = more]
      BY <1>3 DEF Attempt
    <2> HIDE DEF more, gone
    <2>2. told'.notice = more /\ told'.lost = told.lost /\ ToldTyped'
      BY <1>2, <2>1 DEF Typed, ToldTyped
    <2>3. \A k \in Notices : told.lost[k] + 0 = told.lost[k]
      BY <1>1 DEF Tally
    <2>4. QED
      BY <1>2, <1>3, <2>1, <2>2, <2>3 DEF Typed, ToldTyped
  <1>4. CASE outcome = "lost"
    <2>1. told' = [told EXCEPT !.notice = more, !.lost = gone]
      BY <1>4 DEF Attempt
    <2> HIDE DEF more, gone
    <2>2. told'.notice = more /\ told'.lost = gone /\ ToldTyped'
      BY <1>2, <2>1 DEF Typed, ToldTyped
    <2>3. QED
      BY <1>2, <1>4, <2>1, <2>2 DEF Typed, ToldTyped
  <1>5. CASE outcome = "failed"
    <2>1. told' = told
      BY <1>5 DEF Attempt
    <2>2. \A k \in Notices : told.notice[k] + 0 = told.notice[k] /\ told.lost[k] + 0 = told.lost[k]
      BY <1>1 DEF Tally
    <2>3. QED
      BY <1>5, <2>1, <2>2, SameTold DEF Typed
  <1>6. QED
    BY <1>3, <1>4, <1>5 DEF Outcomes

\* What the delivery of a notice, or its failure, leaves of the tallies.
LEMMA NoticeTells ==
    ASSUME NEW outcome \in Outcomes, Typed, Notice(outcome)
    PROVE  /\ told'.job = told.job /\ told'.live = told.live /\ told'.ended = told.ended
           /\ told'.ons = told.ons /\ told'.crashes = told.crashes /\ told'.quick = told.quick
  <1>1. Head(loop.notices) \in Notices
    BY HeadNotice DEF Notice
  <1>2. CASE told' = Attempt(Head(loop.notices), outcome)
    BY <1>1, <1>2, AttemptIs
  <1>3. QED
    BY <1>2 DEF Notice

\* A crypto notice is delivered, or not.
LEMMA NoticeTyped == ASSUME NEW outcome \in Outcomes, Typed, Notice(outcome) PROVE Typed'
  <1>1. MemTyped'
    <2>1. CASE UNCHANGED mem
      BY <2>1, SameMem, LaterMem, FewFaults DEF Typed, Notice, Sound
    <2>2. CASE UNCHANGED faults /\ mem' = [mem EXCEPT !.unacked = @ \cup {Head(loop.notices)}]
      <3>1. Head(loop.notices) \in Notices
        BY HeadNotice DEF Notice
      <3>2. QED
        BY <2>2, <3>1 DEF Typed, MemTyped
    <2>3. QED
      BY <2>1, <2>2 DEF Notice, Sound
  <1>2. LoopTyped'
    <2>1. loop.pc = "notice" /\ (loop' = [loop EXCEPT !.pc = "ack"] \/ loop' = NextNotice)
      BY DEF Notice, AfterFailure
    <2>2. CASE loop' = [loop EXCEPT !.pc = "ack"]
      BY <2>1, <2>2 DEF Typed, LoopTyped, LoopRecord, Ready, Places
    <2>3. QED
      BY <2>1, <2>2, NextNoticeTyped
  <1>3. /\ ToldTyped'
        /\ told'.ons = told.ons /\ told'.crashes = told.crashes /\ told'.quick = told.quick
    <2>1. Head(loop.notices) \in Notices
      BY HeadNotice DEF Notice
    <2>2. CASE UNCHANGED told
      BY <2>2, SameTold DEF Typed
    <2>3. CASE told' = Attempt(Head(loop.notices), outcome)
      BY <2>1, <2>3, AttemptIs
    <2>4. QED
      BY <2>2, <2>3 DEF Notice
  <1>4. Bounded'
    <2>1. game' = game
      BY DEF Notice
    <2>2. UNCHANGED faults \/ faults' = faults + 1
      BY FewFaults DEF Typed, Notice, Sound
    <2>3. QED
      BY <1>3, <2>1, <2>2, SameBounds DEF Typed
  <1>5. FaultsTyped'
    BY FewFaults, SameFaults DEF Typed, Notice, Sound
  <1>6. GameTyped' /\ InvoiceTyped' /\ FileTyped' /\ QueueTyped' /\ WorkTyped' /\ AskedTyped' /\
        OwedTyped'
    BY SameGame, SameInvoice, SameFile, SameQueue, SameWork, SameAsked, SameOwed DEF Typed, Notice
  <1>7. QED
    BY <1>1, <1>2, <1>3, <1>4, <1>5, <1>6 DEF Typed

\* The delivery of a notice is acknowledged (bot_ack_crypto_notification).
LEMMA AckTyped == ASSUME NEW ok \in BOOLEAN, Typed, Ack(ok) PROVE Typed'
  <1>1. InvoiceTyped'
    <2> DEFINE n == Head(loop.notices)
    <2>1. n[1] \in Range(Audiences)
      BY HeadNotice DEF Ack, Notices
    <2>2. invoice' = [invoice EXCEPT ![n[2]].flagged = @ \cup {n[1]}]
      BY DEF Ack
    <2> HIDE DEF n
    <2>3. QED
      BY <2>1, <2>2 DEF Typed, InvoiceTyped
  <1>2. MemTyped'
    <2>1. CASE UNCHANGED mem
      BY <2>1, SameMem, LaterMem, FewFaults DEF Typed, Ack, Sound
    <2>2. CASE UNCHANGED faults /\ mem' = [mem EXCEPT !.unacked = @ \ {Head(loop.notices)}]
      BY <2>2 DEF Typed, MemTyped
    <2>3. QED
      BY <2>1, <2>2 DEF Ack, Sound
  <1>3. LoopTyped'
    BY NextNoticeTyped DEF Ack
  <1>4. Bounded'
    <2>1. game' = game /\ told' = told
      BY DEF Ack
    <2>2. UNCHANGED faults \/ faults' = faults + 1
      BY FewFaults DEF Typed, Ack, Sound
    <2>3. QED
      BY <2>1, <2>2, SameBounds DEF Typed
  <1>5. FaultsTyped'
    BY FewFaults, SameFaults DEF Typed, Ack, Sound
  <1>6. GameTyped' /\ FileTyped' /\ QueueTyped' /\ WorkTyped' /\ AskedTyped' /\ ToldTyped' /\
        OwedTyped'
    BY SameGame, SameFile, SameQueue, SameWork, SameAsked, SameTold, SameOwed DEF Typed, Ack
  <1>7. QED
    BY <1>1, <1>2, <1>3, <1>4, <1>5, <1>6 DEF Typed

\* The acknowledgement is lost on its way.
LEMMA AckFailsTyped == ASSUME Typed, AckFails PROVE Typed'
  <1>1. MemTyped'
    BY SameMem, LaterMem, FewFaults DEF Typed, AckFails, Sound
  <1>2. LoopTyped'
    BY NextNoticeTyped DEF AckFails
  <1>3. Bounded'
    BY SameBounds, FewFaults DEF Typed, AckFails, Sound
  <1>4. FaultsTyped'
    BY FewFaults, SameFaults DEF Typed, AckFails, Sound
  <1>5. GameTyped' /\ InvoiceTyped' /\ FileTyped' /\ QueueTyped' /\ WorkTyped' /\ AskedTyped' /\
        ToldTyped' /\ OwedTyped'
    BY SameGame, SameInvoice, SameFile, SameQueue, SameWork, SameAsked, SameTold,
       SameOwed DEF Typed, AckFails
  <1>6. QED
    BY <1>1, <1>2, <1>3, <1>4, <1>5 DEF Typed

\* A sender task takes a message.
LEMMA TakeTyped == ASSUME NEW w \in Workers, Typed, Take(w) PROVE Typed'
  <1>1. QueueTyped'
    <2>1. queue \in Seq(Jobs) /\ queue # <<>> /\ Len(queue) <= QueueSize /\ queue' = Tail(queue)
      BY DEF Typed, QueueTyped, Take
    <2>2. Tail(queue) \in Seq(Jobs) /\ Len(Tail(queue)) = Len(queue) - 1 /\ Len(queue) \in Nat
      BY <2>1, HeadTailProperties, LenProperties
    <2>3. QED
      BY <2>1, <2>2, NotifierAssumption DEF QueueTyped
  <1>2. WorkTyped'
    <2>1. Head(queue) \in Jobs
      BY HeadTailProperties DEF Typed, QueueTyped, Take
    <2>2. QED
      BY <2>1 DEF Typed, WorkTyped, Take
  <1>3. Bounded'
    BY SameBounds DEF Typed, Take
  <1>4. GameTyped' /\ InvoiceTyped' /\ FileTyped' /\ MemTyped' /\ LoopTyped' /\ AskedTyped' /\
        ToldTyped' /\ OwedTyped' /\ FaultsTyped'
    BY SameGame, SameInvoice, SameFile, SameMem, SameLoop, SameAsked, SameTold, SameOwed,
       SameFaults DEF Typed, Take
  <1>5. QED
    BY <1>1, <1>2, <1>3, <1>4 DEF Typed

\* The failures of a user are set, within what the threshold or the faults allow.
LEMMA FailsSet ==
    ASSUME MemTyped, FaultsTyped, NEW u \in Users, NEW k \in Nat,
           mem' = [mem EXCEPT !.fails[u] = k],
           faults' = faults \/ faults' = faults + 1,
           u \in Blocked => k < Threshold, u \notin Blocked => k <= faults'
    PROVE  MemTyped'
  <1> DEFINE fails == [mem.fails EXCEPT ![u] = k]
  <1>1. fails \in [Users -> Nat] /\ mem' = [mem EXCEPT !.fails = fails]
    BY DEF MemTyped
  <1>2. faults \in Nat /\ \A v \in Users : mem.fails[v] \in Nat /\
        (v # u => fails[v] = mem.fails[v])
    BY DEF MemTyped, FaultsTyped
  <1>3. fails[u] = k
    BY DEF MemTyped
  <1> HIDE DEF fails
  <1>4. /\ \A v \in Users : v \in Blocked => fails[v] < Threshold
        /\ \A v \in Users : v \notin Blocked => fails[v] <= faults'
    BY <1>2, <1>3 DEF MemTyped
  <1>5. mem' \in [warm : BOOLEAN, reports : BOOLEAN, fails : [Users -> Nat],
                  unacked : SUBSET Notices] /\ mem'.fails = fails
    BY <1>1 DEF MemTyped
  <1>6. QED
    BY <1>4, <1>5 DEF MemTyped

\* What a sender task that is not idle delivers.
LEMMA JobIs ==
    ASSUME Typed, NEW w \in Workers, work[w] # Idle
    PROVE  work[w] \in Jobs /\ work[w].user \in Users /\ work[w].item \in Items
  BY DEF Typed, WorkTyped, Jobs

\* What a message to a user leaves of the tallies.
Steadfast == /\ told'.live = told.live /\ told'.ended = told.ended /\ told'.notice = told.notice
             /\ told'.lost = told.lost /\ told'.ons = told.ons /\ told'.crashes = told.crashes
             /\ told'.quick = told.quick

\* The message of a sender task is counted (_send_with_retry).
LEMMA JobTold ==
    ASSUME Typed, NEW w \in Workers, work[w] # Idle,
           told' = [told EXCEPT !.job[<<work[w].user, work[w].item>>] = @ + 1]
    PROVE  ToldTyped' /\ Steadfast
  <1> DEFINE p == <<work[w].user, work[w].item>>
  <1>1. p \in Users \X Items
    BY JobIs
  <1>2. [told.job EXCEPT ![p] = @ + 1] \in Tally(Users \X Items)
    <2> HIDE DEF p
    <2>1. QED
      BY <1>1 DEF Typed, ToldTyped, Tally
  <1>3. told' = [told EXCEPT !.job = [told.job EXCEPT ![p] = @ + 1]]
    OBVIOUS
  <1> HIDE DEF p
  <1>4. QED
    BY <1>2, <1>3 DEF Typed, ToldTyped, Steadfast

\* A message is delivered.
LEMMA DeliverTyped == ASSUME NEW w \in Workers, Typed, Deliver(w) PROVE Typed'
  <1>1. MemTyped'
    <2>1. mem' = [mem EXCEPT !.fails[work[w].user] = 0] /\ UNCHANGED faults /\
          work[w].user \notin Blocked
      BY DEF Deliver
    <2>2. work[w].user \in Users /\ 0 \in Nat /\ 0 <= faults
      BY JobIs DEF Typed, Deliver, FaultsTyped
    <2>3. QED
      BY <2>1, <2>2, FailsSet DEF Typed
  <1>2. WorkTyped'
    BY DEF Typed, WorkTyped, Deliver, Finished
  <1>3. ToldTyped' /\ Steadfast
    BY JobTold DEF Deliver
  <1>4. Bounded'
    <2>1. told'.ons = told.ons /\ told'.crashes = told.crashes /\ told'.quick = told.quick
      BY <1>3 DEF Steadfast
    <2>2. game' = game
      BY DEF Deliver
    <2>3. UNCHANGED faults \/ faults' = faults + 1
      BY FewFaults DEF Typed, Deliver, Sound
    <2>4. QED
      BY <2>1, <2>2, <2>3, SameBounds DEF Typed
  <1>5. OwedTyped'
    BY DEF Typed, OwedTyped, Deliver, Finished
  <1>6. GameTyped' /\ InvoiceTyped' /\ FileTyped' /\ LoopTyped' /\ QueueTyped' /\ AskedTyped' /\
        FaultsTyped'
    BY SameGame, SameInvoice, SameFile, SameLoop, SameQueue, SameAsked, SameFaults DEF Typed,
       Deliver, Finished
  <1>7. QED
    BY <1>1, <1>2, <1>3, <1>4, <1>5, <1>6 DEF Typed

\* A delivery fails, or its answer is lost.
LEMMA DeliverFailsTyped ==
    ASSUME NEW w \in Workers, NEW reached \in BOOLEAN, Typed, DeliverFails(w, reached)
    PROVE  Typed'
  <1>1. MemTyped'
    <2>1. mem' = [mem EXCEPT !.fails[work[w].user] = @ + 1] /\ work[w].user \notin Blocked /\
          faults' = faults + 1
      BY FewFaults DEF Typed, DeliverFails
    <2>2. work[w].user \in Users /\ faults \in Nat
      BY JobIs DEF Typed, DeliverFails, FaultsTyped
    <2>3. mem.fails[work[w].user] + 1 \in Nat /\ mem.fails[work[w].user] + 1 <= faults'
      BY <2>1, <2>2 DEF Typed, MemTyped
    <2>4. QED
      BY <2>1, <2>2, <2>3, FailsSet DEF Typed
  <1>2. WorkTyped'
    BY DEF Typed, WorkTyped, DeliverFails, Finished
  <1>3. ToldTyped' /\ Steadfast
    <2>1. CASE reached
      BY <2>1, JobTold DEF DeliverFails
    <2>2. CASE ~ reached
      BY <2>2, SameTold DEF Typed, DeliverFails, Steadfast
    <2>3. QED
      BY <2>1, <2>2
  <1>4. Bounded'
    <2>1. told'.ons = told.ons /\ told'.crashes = told.crashes /\ told'.quick = told.quick
      BY <1>3 DEF Steadfast
    <2>2. game' = game
      BY DEF DeliverFails
    <2>3. faults' = faults + 1
      BY FewFaults DEF Typed, DeliverFails
    <2>4. QED
      BY <2>1, <2>2, <2>3, SameBounds DEF Typed
  <1>5. OwedTyped'
    BY DEF Typed, OwedTyped, DeliverFails, Finished
  <1>6. FaultsTyped'
    BY FewFaults DEF Typed, DeliverFails
  <1>7. GameTyped' /\ InvoiceTyped' /\ FileTyped' /\ LoopTyped' /\ QueueTyped' /\ AskedTyped'
    BY SameGame, SameInvoice, SameFile, SameLoop, SameQueue, SameAsked DEF Typed,
       DeliverFails, Finished
  <1>8. QED
    BY <1>1, <1>2, <1>3, <1>4, <1>5, <1>6, <1>7 DEF Typed

\* A user who cannot be reached loses the subscription at the threshold.
LEMMA DeadUserTyped == ASSUME NEW w \in Workers, Typed, DeadUser(w) PROVE Typed'
  <1>1. FileTyped'
    BY DEF Typed, FileTyped, DeadUser
  <1>2. MemTyped'
    <2> DEFINE u == work[w].user
               count == mem.fails[u] + 1
    <2>1. u \in Users /\ u \in Blocked
      BY JobIs DEF DeadUser
    <2>2. mem.fails[u] \in Nat
      BY <2>1 DEF Typed, MemTyped
    <2>3. \/ mem' = [mem EXCEPT !.fails[u] = 0]
          \/ count < Threshold /\ mem' = [mem EXCEPT !.fails[u] = count]
      BY <2>2, NotifierAssumption DEF DeadUser
    <2>4. UNCHANGED faults
      BY DEF DeadUser
    <2> HIDE DEF u
    <2>5. 0 \in Nat /\ 0 < Threshold /\ count \in Nat
      BY <2>2, NotifierAssumption
    <2> HIDE DEF count
    <2>6. QED
      BY <2>1, <2>3, <2>4, <2>5, FailsSet DEF Typed
  <1>3. WorkTyped'
    BY DEF Typed, WorkTyped, DeadUser, Finished
  <1>4. Bounded'
    BY SameBounds DEF Typed, DeadUser
  <1>5. OwedTyped'
    BY DEF Typed, OwedTyped, DeadUser
  <1>6. GameTyped' /\ InvoiceTyped' /\ LoopTyped' /\ QueueTyped' /\ AskedTyped' /\ ToldTyped' /\
        FaultsTyped'
    BY SameGame, SameInvoice, SameLoop, SameQueue, SameAsked, SameTold, SameFaults DEF Typed,
       DeadUser
  <1>7. QED
    BY <1>1, <1>2, <1>3, <1>4, <1>5, <1>6 DEF Typed

\* Scaling down cancels a sender task together with its message.
LEMMA CancelTaskTyped == ASSUME NEW w \in Workers, Typed, CancelTask(w) PROVE Typed'
  <1>1. MemTyped'
    BY SameMem, LaterMem, FewFaults DEF Typed, CancelTask, Sound
  <1>2. WorkTyped'
    BY DEF Typed, WorkTyped, CancelTask, Finished
  <1>3. Bounded'
    BY SameBounds, FewFaults DEF Typed, CancelTask, Sound
  <1>4. OwedTyped'
    BY DEF Typed, OwedTyped, CancelTask, Finished
  <1>5. FaultsTyped'
    BY FewFaults, SameFaults DEF Typed, CancelTask, Sound
  <1>6. GameTyped' /\ InvoiceTyped' /\ FileTyped' /\ LoopTyped' /\ QueueTyped' /\ AskedTyped' /\
        ToldTyped'
    BY SameGame, SameInvoice, SameFile, SameLoop, SameQueue, SameAsked, SameTold DEF Typed,
       CancelTask, Finished
  <1>7. QED
    BY <1>1, <1>2, <1>3, <1>4, <1>5, <1>6 DEF Typed

\* The bot stops and starts anew.
LEMMA CrashTyped ==
    ASSUME NEW wiped \in BOOLEAN, NEW quick \in BOOLEAN, Typed, Crash(wiped, quick)
    PROVE  Typed'
  <1>1. GameTyped'
    <2>1. game' = [game EXCEPT !.recent = quick]
      BY DEF Crash
    <2>2. QED
      BY <2>1 DEF Typed, GameTyped
  <1>2. FileTyped'
    BY NotifierAssumption DEF Typed, FileTyped, Crash, Emptied
  <1>3. MemTyped'
    <2>1. faults' \in Nat /\ mem' = Fresh
      BY FewFaults DEF Typed, Crash, FaultsTyped
    <2>2. QED
      BY <2>1, NotifierAssumption DEF MemTyped, Fresh
  <1>4. LoopTyped'
    BY GotoTyped DEF Crash, Places
  <1>5. QueueTyped'
    BY EmptySeq, NotifierAssumption DEF Crash, QueueTyped
  <1>6. WorkTyped'
    BY DEF Crash, WorkTyped
  <1>7. AskedTyped'
    BY DEF Crash, AskedTyped
  <1>8. ToldTyped'
    <2> DEFINE more == IF quick THEN 1 ELSE 0
    <2>1. told' = [told EXCEPT !.crashes = @ + 1, !.quick = @ + more] /\ more \in Nat
      BY DEF Crash
    <2>2. told.crashes + 1 \in Nat /\ told.quick + more \in Nat
      BY <2>1 DEF Typed, ToldTyped
    <2> HIDE DEF more
    <2>3. QED
      BY <2>1, <2>2 DEF Typed, ToldTyped
  <1>9. Bounded'
    <2>1. faults' = faults + 1 /\ told'.ons = told.ons /\ told'.crashes = told.crashes + 1 /\
          told'.quick \in {told.quick, told.quick + 1} /\ game'.undos = game.undos
      BY FewFaults DEF Typed, Crash, ToldTyped, GameTyped
    <2>2. QED
      BY <2>1 DEF Typed, Bounded, ToldTyped, FaultsTyped
  <1>10. OwedTyped'
    BY DEF Crash, OwedTyped
  <1>11. FaultsTyped'
    BY FewFaults DEF Typed, Crash
  <1>12. InvoiceTyped'
    BY SameInvoice DEF Typed, Crash
  <1>13. QED
    BY <1>1, <1>2, <1>3, <1>4, <1>5, <1>6, <1>7, <1>8, <1>9, <1>10, <1>11, <1>12 DEF Typed

\* Every step keeps the types, if the messages a poll makes are what they should be.
LEMMA StepTyped ==
    ASSUME Typed, [Next]_vars,
           State => /\ JobsFor(Added, loop.batch) \in Seq(Jobs)
                    /\ Added # <<>> => JobsFor(Added, loop.batch) # <<>>
    PROVE  Typed'
  <1>1. CASE Backend
    BY <1>1, CallTyped, UndoTyped, DetectTyped, DecideTyped DEF Backend
  <1>2. CASE Switches
    BY <1>2, AskOnTyped, SwitchOnTyped, SwitchOffTyped, NotifierAssumption DEF Switches
  <1>3. CASE Loop
    <2>1. CASE Poll \/ State \/ StateFails \/ Put("put", "report")
      BY <2>1, PollTyped, StateTyped, StateFailsTyped, PutTyped
    <2>2. CASE \/ Report \/ ReportFails \/ Live \/ LiveMark
               \/ Prize \/ Put("winner", "marked") \/ MarkPrize \/ MarkEnded
      BY <2>2, ReportTyped, ReportFailsTyped, LiveTyped, LiveMarkTyped, PrizeTyped, PutTyped,
         MarkPrizeTyped, MarkEndedTyped
    <2>3. CASE FetchNotices \/ FetchFails \/ AckFails
      BY <2>3, FetchNoticesTyped, FetchFailsTyped, AckFailsTyped
    <2>4. ASSUME NEW ok \in BOOLEAN, LiveSend(ok) \/ EndNotice(ok) \/ Ack(ok)
          PROVE  Typed'
      BY <2>4, LiveSendTyped, EndNoticeTyped, AckTyped
    <2>5. ASSUME NEW outcome \in Outcomes, Notice(outcome) PROVE Typed'
      BY <2>5, NoticeTyped
    <2>6. QED
      BY <1>3, <2>1, <2>2, <2>3, <2>4, <2>5 DEF Loop
  <1>4. ASSUME NEW w \in Workers, Sender(w) PROVE Typed'
    BY <1>4, TakeTyped, DeliverTyped, DeliverFailsTyped, DeadUserTyped, CancelTaskTyped DEF Sender
  <1>5. ASSUME NEW wiped \in BOOLEAN, NEW quick \in BOOLEAN, Crash(wiped, quick) PROVE Typed'
    BY <1>5, CrashTyped
  <1>6. CASE UNCHANGED vars
    BY <1>6, SameGame, SameInvoice, SameFile, SameMem, SameLoop, SameQueue, SameWork, SameAsked,
       SameTold,
       SameBounds, SameOwed, SameFaults DEF Typed, vars
  <1>7. QED
    BY <1>1, <1>2, <1>3, <1>4, <1>5, <1>6 DEF Next

-----------------------------------------------------------------------------
(* The messages on their way to a user *)

Job(u, i) == [user |-> u, item |-> i]
Carriers(x) == {w \in Workers : work[w] = x /\ work[w] # Idle}

\* How often a user has been told something, or is going to be.
Load(u, i) ==
    told.job[<<u, i>>] + Count(loop.out, Job(u, i)) + Count(queue, Job(u, i)) +
    Cardinality(Carriers(Job(u, i)))

Falls(S) == \A u \in Users, i \in S : Load(u, i)' <= Load(u, i)

\* Messages differ by user or by item.
LEMMA JobsDiffer ==
    ASSUME NEW u, NEW i, NEW v, NEW j
    PROVE  Job(u, i) = Job(v, j) <=> u = v /\ i = j
  BY DEF Job

\* The load of a user, and what it is the sum of, are numbers.
LEMMA LoadIs ==
    ASSUME Typed, NEW u \in Users, NEW i \in Items
    PROVE  /\ Job(u, i) \in Jobs
           /\ told.job[<<u, i>>] \in Nat
           /\ Count(loop.out, Job(u, i)) \in Nat
           /\ Count(queue, Job(u, i)) \in Nat
           /\ IsFiniteSet(Carriers(Job(u, i))) /\ Cardinality(Carriers(Job(u, i))) \in Nat
           /\ Load(u, i) \in Nat
  <1>1. Job(u, i) \in Jobs
    BY DEF Job, Jobs
  <1>2. told.job[<<u, i>>] \in Nat
    <2>1. told.job \in [Users \X Items -> Nat] /\ <<u, i>> \in Users \X Items
      BY DEF Typed, ToldTyped, Tally
    <2> DEFINE p == <<u, i>>
               S == Users \X Items
    <2> HIDE DEF p, S
    <2>2. told.job[p] \in Nat
      BY <2>1 DEF p, S
    <2>3. QED
      BY <2>2 DEF p
  <1>3. Count(loop.out, Job(u, i)) \in Nat /\ Count(queue, Job(u, i)) \in Nat
    BY CountFinite DEF Typed, LoopTyped, LoopRecord, QueueTyped
  <1>4. IsFiniteSet(Carriers(Job(u, i)))
    BY NotifierAssumption, FS_Subset DEF Carriers
  <1>5. Cardinality(Carriers(Job(u, i))) \in Nat
    BY <1>4, FS_CardinalityType
  <1>6. QED
    BY <1>1, <1>2, <1>3, <1>4, <1>5 DEF Load

\* The same after a step.
LEMMA LoadAfter ==
    ASSUME Typed', NEW u \in Users, NEW i \in Items
    PROVE  /\ told'.job[<<u, i>>] \in Nat
           /\ Count(loop'.out, Job(u, i)) \in Nat
           /\ Count(queue', Job(u, i)) \in Nat
           /\ IsFiniteSet(Carriers(Job(u, i))') /\ Cardinality(Carriers(Job(u, i))') \in Nat
           /\ Load(u, i)' \in Nat
  <1>2. told'.job[<<u, i>>] \in Nat
    <2>1. told'.job \in [Users \X Items -> Nat] /\ <<u, i>> \in Users \X Items
      BY DEF Typed, ToldTyped, Tally
    <2> DEFINE p == <<u, i>>
               S == Users \X Items
    <2> HIDE DEF p, S
    <2>2. told'.job[p] \in Nat
      BY <2>1 DEF p, S
    <2>3. QED
      BY <2>2 DEF p
  <1>3. Count(loop'.out, Job(u, i)) \in Nat /\ Count(queue', Job(u, i)) \in Nat
    BY CountFinite DEF Typed, LoopTyped, LoopRecord, QueueTyped
  <1>4. IsFiniteSet(Carriers(Job(u, i))')
    BY NotifierAssumption, FS_Subset DEF Carriers
  <1>5. Cardinality(Carriers(Job(u, i))') \in Nat
    BY <1>4, FS_CardinalityType
  <1>6. Load(u, i)' = told'.job[<<u, i>>] + Count(loop'.out, Job(u, i)) + Count(queue', Job(u, i))
                      + Cardinality(Carriers(Job(u, i))')
    BY DEF Load, Count, Job
  <1>7. QED
    BY <1>2, <1>3, <1>4, <1>5, <1>6

\* What is part of a load.
LEMMA LoadParts ==
    ASSUME NEW u, NEW i
    PROVE  /\ Load(u, i) = told.job[<<u, i>>] + Count(loop.out, Job(u, i)) + Count(queue, Job(u, i))
                           + Cardinality(Carriers(Job(u, i)))
           /\ Load(u, i)' = told'.job[<<u, i>>] + Count(loop'.out, Job(u, i)) +
              Count(queue', Job(u, i))
                            + Cardinality(Carriers(Job(u, i))')
  BY DEF Load, Count, Job, At

\* What the terms of a load come to.
LEMMA LoadFalls ==
    ASSUME Typed, Typed', NEW u \in Users, NEW i \in Items,
           NEW a \in Int, NEW b \in Int, NEW c \in Int, NEW d \in Int, NEW k \in Int,
           told'.job[<<u, i>>] <= told.job[<<u, i>>] + a,
           Count(loop'.out, Job(u, i)) <= Count(loop.out, Job(u, i)) + b,
           Count(queue', Job(u, i)) <= Count(queue, Job(u, i)) + c,
           Cardinality(Carriers(Job(u, i))') <= Cardinality(Carriers(Job(u, i))) + d,
           a + b + c + d <= k
    PROVE  Load(u, i)' <= Load(u, i) + k
  <1> DEFINE t1 == told.job[<<u, i>>]
             o1 == Count(loop.out, Job(u, i))
             q1 == Count(queue, Job(u, i))
             w1 == Cardinality(Carriers(Job(u, i)))
             t2 == told'.job[<<u, i>>]
             o2 == Count(loop'.out, Job(u, i))
             q2 == Count(queue', Job(u, i))
             w2 == Cardinality(Carriers(Job(u, i))')
  <1>1. t1 \in Nat /\ o1 \in Nat /\ q1 \in Nat /\ w1 \in Nat
    BY LoadIs
  <1>2. t2 \in Nat /\ o2 \in Nat /\ q2 \in Nat /\ w2 \in Nat
    BY LoadAfter
  <1>3. t2 <= t1 + a /\ o2 <= o1 + b /\ q2 <= q1 + c /\ w2 <= w1 + d
    OBVIOUS
  <1>4. Load(u, i) = t1 + o1 + q1 + w1 /\ Load(u, i)' = t2 + o2 + q2 + w2
    BY LoadParts
  <1> HIDE DEF t1, o1, q1, w1, t2, o2, q2, w2, Load
  <1>5. QED
    BY <1>1, <1>2, <1>3, <1>4

\* Most steps leave the messages alone, or forget those to be put into the queue.
LEMMA OthersFall ==
    ASSUME Typed, Typed', told'.job = told.job, UNCHANGED <<queue, work>>,
           loop'.out \in {loop.out, <<>>}
    PROVE  Falls(Items)
  <1>1. ASSUME NEW u \in Users, NEW i \in Items PROVE Load(u, i)' <= Load(u, i)
    <2> DEFINE x == Job(u, i)
    <2>1. Carriers(x)' = Carriers(x)
      BY DEF Carriers, Job
    <2>2. /\ told.job[<<u, i>>] \in Nat /\ Count(loop.out, x) \in Nat /\ Count(queue, x) \in Nat
          /\ Cardinality(Carriers(x)) \in Nat /\ Load(u, i) \in Nat /\ Load(u, i)' \in Nat
      BY LoadIs, LoadAfter
    <2>3. Count(loop'.out, x) <= Count(loop.out, x)
      <3>1. CASE loop'.out = loop.out
        BY <3>1, <2>2
      <3>2. CASE loop'.out = <<>>
        BY <3>2, <2>2, CountEmpty
      <3>3. QED
        BY <3>1, <3>2
    <2>4. told'.job[<<u, i>>] = told.job[<<u, i>>] /\ Count(queue', x) = Count(queue, x)
      OBVIOUS
    <2>5. Load(u, i)' <= Load(u, i) + 0
      <3> HIDE DEF Load, Count, Carriers, x
      <3>1. told'.job[<<u, i>>] <= told.job[<<u, i>>] + 0 /\
            Count(loop'.out, x) <= Count(loop.out, x) + 0
            /\ Count(queue', x) <= Count(queue, x) + 0
            /\ Cardinality(Carriers(x)') <= Cardinality(Carriers(x)) + 0
        BY <2>1, <2>2, <2>3, <2>4
      <3>2. QED
        BY <3>1, LoadFalls DEF x
    <2> HIDE DEF Load
    <2>6. QED
      BY <2>2, <2>5
  <1>2. QED
    BY <1>1 DEF Falls

\* A message enters the queue of the sender tasks.
LEMMA PutFalls ==
    ASSUME NEW pc \in {"put", "winner"}, NEW next \in {"report", "marked"}, Typed, Typed',
           Put(pc, next)
    PROVE  Falls(Items)
  <1>1. /\ loop.out \in Seq(Jobs) /\ loop.out # <<>> /\ queue \in Seq(Jobs) /\ loop \in LoopRecord
    BY DEF Typed, LoopTyped, LoopRecord, Ready, QueueTyped, Put
  <1>2. /\ Head(loop.out) \in Jobs /\ Tail(loop.out) \in Seq(Jobs) /\
           Len(Tail(loop.out)) = Len(loop.out) - 1
        /\ Len(loop.out) \in Nat \ {0}
    BY <1>1, HeadTailProperties, EmptySeq
  <1>3. loop'.out = Tail(loop.out)
    <2>1. CASE Len(loop.out) = 1
      <3>1. loop'.out = <<>>
        BY <1>1, <2>1 DEF Put, LoopRecord
      <3>2. Tail(loop.out) = <<>>
        <4>1. Len(Tail(loop.out)) = 0
          BY <1>2, <2>1
        <4>2. QED
          BY <1>2, <4>1, EmptySeq
      <3>3. QED
        BY <3>1, <3>2
    <2>2. CASE Len(loop.out) # 1
      BY <1>1, <2>2 DEF Put, LoopRecord
    <2>3. QED
      BY <2>1, <2>2
  <1>4. queue' = Append(queue, Head(loop.out)) /\ told' = told /\ work' = work
    BY DEF Put
  <1>5. ASSUME NEW u \in Users, NEW i \in Items PROVE Load(u, i)' <= Load(u, i)
    <2> DEFINE x == Job(u, i)
               k == IF Head(loop.out) = x THEN 1 ELSE 0
    <2>1. Count(loop.out, x) = Count(loop'.out, x) + k
      BY <1>1, <1>3, CountTail
    <2>2. Count(queue', x) = Count(queue, x) + k
      BY <1>1, <1>2, <1>4, CountAppend
    <2>3. Carriers(x)' = Carriers(x)
      BY <1>4 DEF Carriers, Job
    <2>4. /\ told.job[<<u, i>>] \in Nat /\ Count(loop.out, x) \in Nat /\ Count(queue, x) \in Nat
          /\ Cardinality(Carriers(x)) \in Nat /\ Load(u, i) \in Nat /\ Load(u, i)' \in Nat
          /\ Count(loop'.out, x) \in Nat
      BY LoadIs, LoadAfter
    <2>5. Load(u, i)' <= Load(u, i) + 0
      <3>0. 0 \in Int /\ k \in Int /\ 0 - k \in Int
        OBVIOUS
      <3> HIDE DEF Load, Count, Carriers, x, k
      <3>1. told'.job[<<u, i>>] <= told.job[<<u, i>>] + 0
        BY <1>4, <2>4
      <3>2. Count(loop'.out, x) <= Count(loop.out, x) + (0 - k)
        BY <2>1, <2>4, <3>0
      <3>3. Count(queue', x) <= Count(queue, x) + k
        BY <2>2, <2>4, <3>0
      <3>4. Cardinality(Carriers(x)') <= Cardinality(Carriers(x)) + 0
        BY <2>3, <2>4
      <3>5. 0 + (0 - k) + k + 0 <= 0
        BY <3>0
      <3>6. QED
        BY <3>0, <3>1, <3>2, <3>3, <3>4, <3>5, LoadFalls, Zenon DEF x
    <2> HIDE DEF Load
    <2>6. QED
      BY <2>4, <2>5
  <1>6. QED
    BY <1>5 DEF Falls

\* A sender task takes the first message of the queue.
LEMMA TakeFalls == ASSUME NEW w \in Workers, Typed, Typed', Take(w) PROVE Falls(Items)
  <1>1. queue \in Seq(Jobs) /\ queue # <<>> /\ queue' = Tail(queue) /\ told' = told /\ loop' = loop
    BY DEF Typed, QueueTyped, Take
  <1>2. work \in [Workers -> Jobs \cup {Idle}] /\ work[w] = Idle /\
        work' = [work EXCEPT ![w] = Head(queue)]
    BY DEF Typed, WorkTyped, Take
  <1>3. ASSUME NEW u \in Users, NEW i \in Items PROVE Load(u, i)' <= Load(u, i)
    <2> DEFINE x == Job(u, i)
               k == IF Head(queue) = x THEN 1 ELSE 0
    <2>1. Count(queue, x) = Count(queue', x) + k
      BY <1>1, CountTail
    <2>2. IsFiniteSet(Carriers(x)) /\ IsFiniteSet(Carriers(x)')
      BY LoadIs, LoadAfter
    <2>3. Carriers(x)' \subseteq Carriers(x) \cup (IF Head(queue) = x THEN {w} ELSE {}) /\
          w \notin Carriers(x)
      BY <1>2 DEF Carriers, Job
    <2>4. /\ told.job[<<u, i>>] \in Nat /\ Count(loop.out, x) \in Nat /\ Count(queue, x) \in Nat
          /\ Cardinality(Carriers(x)) \in Nat /\ Load(u, i) \in Nat /\ Load(u, i)' \in Nat
          /\ Count(queue', x) \in Nat /\ Cardinality(Carriers(x)') \in Nat
      BY LoadIs, LoadAfter
    <2>5. Cardinality(Carriers(x)') <= Cardinality(Carriers(x)) + k
      <3>1. CASE Head(queue) = x
        <4> DEFINE C == Carriers(x)
                   D == Carriers(x)'
        <4>1. D \subseteq C \cup {w} /\ w \notin C /\ IsFiniteSet(C)
          BY <2>2, <2>3, <3>1
        <4> HIDE DEF C, D
        <4>2. Cardinality(C \cup {w}) = Cardinality(C) + 1 /\ IsFiniteSet(C \cup {w})
          BY <4>1, FS_AddElement
        <4>3. Cardinality(D) <= Cardinality(C \cup {w})
          BY <4>1, <4>2, FS_Subset
        <4>4. QED
          BY <3>1, <4>2, <4>3 DEF C, D
      <3>2. CASE Head(queue) # x
        <4>1. Carriers(x)' \subseteq Carriers(x)
          BY <2>3, <3>2
        <4>2. Cardinality(Carriers(x)') <= Cardinality(Carriers(x))
          BY <2>2, <4>1, FS_Subset
        <4> HIDE DEF Carriers
        <4>3. QED
          BY <3>2, <4>2, <2>4
      <3>3. QED
        BY <3>1, <3>2
    <2>6. Load(u, i)' <= Load(u, i) + 0
      <3>0. 0 \in Int /\ k \in Int /\ 0 - k \in Int
        OBVIOUS
      <3> HIDE DEF Load, Count, Carriers, x, k
      <3>1. told'.job[<<u, i>>] <= told.job[<<u, i>>] + 0
        BY <1>1, <2>4
      <3>2. Count(loop'.out, x) <= Count(loop.out, x) + 0
        BY <1>1, <2>4
      <3>3. Count(queue', x) <= Count(queue, x) + (0 - k)
        BY <2>1, <2>4, <3>0
      <3>4. Cardinality(Carriers(x)') <= Cardinality(Carriers(x)) + k
        BY <2>5
      <3>5. 0 + 0 + (0 - k) + k <= 0
        BY <3>0
      <3>6. QED
        BY <3>0, <3>1, <3>2, <3>3, <3>4, <3>5, LoadFalls, Zenon DEF x
    <2> HIDE DEF Load
    <2>7. QED
      BY <2>4, <2>6
  <1>4. QED
    BY <1>3 DEF Falls

\* A message is delivered or given up.
LEMMA DoneFalls ==
    ASSUME NEW w \in Workers, Typed, Typed', work[w] # Idle, work' = [work EXCEPT ![w] = Idle],
           UNCHANGED queue, loop' = loop,
           \/ told'.job = told.job
           \/ told'.job = [told.job EXCEPT ![<<work[w].user, work[w].item>>] = @ + 1]
    PROVE  Falls(Items)
  <1>1. work \in [Workers -> Jobs \cup {Idle}] /\ work[w] \in Jobs
    BY JobIs DEF Typed, WorkTyped
  <1>2. work[w].user \in Users /\ work[w].item \in Items /\
        work[w] = Job(work[w].user, work[w].item)
    BY <1>1 DEF Jobs, Job
  <1>3. told.job \in [Users \X Items -> Nat]
    BY DEF Typed, ToldTyped, Tally
  <1>4. ASSUME NEW u \in Users, NEW i \in Items PROVE Load(u, i)' <= Load(u, i)
    <2> DEFINE x == Job(u, i)
               k == IF work[w] = x THEN 1 ELSE 0
    <2>1. IsFiniteSet(Carriers(x)) /\ IsFiniteSet(Carriers(x)')
      BY LoadIs, LoadAfter
    <2>2. Carriers(x)' = Carriers(x) \ {w} /\ (w \in Carriers(x) <=> work[w] = x)
      BY <1>1 DEF Carriers, Job
    <2>3. Cardinality(Carriers(x)') = Cardinality(Carriers(x)) - k
      <3> DEFINE C == Carriers(x)
                 D == Carriers(x)'
      <3>1. D = C \ {w} /\ (w \in C <=> work[w] = x) /\ IsFiniteSet(C)
        BY <2>1, <2>2
      <3> HIDE DEF C, D, x
      <3>2. Cardinality(C \ {w}) = (IF w \in C THEN Cardinality(C) - 1 ELSE Cardinality(C)) /\
            Cardinality(C) \in Nat
        BY <3>1, FS_RemoveElement, FS_CardinalityType
      <3>3. Cardinality(D) = Cardinality(C) - k
        BY <3>1, <3>2
      <3>4. QED
        BY <3>3 DEF C, D, x
    <2>4. told'.job[<<u, i>>] <= told.job[<<u, i>>] + k
      <3> DEFINE p == <<work[w].user, work[w].item>>
                 q == <<u, i>>
                 S == Users \X Items
      <3>1. told.job \in [S -> Nat] /\ p \in S /\ q \in S
        BY <1>2, <1>3
      <3>2. (p = q) => k = 1
        BY <1>2 DEF Job
      <3>3. k \in {0, 1} /\ (told'.job = told.job \/ told'.job = [told.job EXCEPT ![p] = @ + 1])
        OBVIOUS
      <3> HIDE DEF p, q, S, k
      <3>4. told'.job[q] <= told.job[q] + k
        BY <3>1, <3>2, <3>3
      <3>5. QED
        BY <3>4 DEF q
    <2>5. /\ told.job[<<u, i>>] \in Nat /\ Count(loop.out, x) \in Nat /\ Count(queue, x) \in Nat
          /\ Cardinality(Carriers(x)) \in Nat /\ Load(u, i) \in Nat /\ Load(u, i)' \in Nat
      BY LoadIs, LoadAfter
    <2>6. Load(u, i)' <= Load(u, i) + 0
      <3>0. 0 \in Int /\ k \in Int /\ 0 - k \in Int
        OBVIOUS
      <3> HIDE DEF Load, Count, Carriers, x, k
      <3>1. told'.job[<<u, i>>] <= told.job[<<u, i>>] + k /\
            Count(loop'.out, x) <= Count(loop.out, x) + 0
            /\ Count(queue', x) <= Count(queue, x) + 0
            /\ Cardinality(Carriers(x)') <= Cardinality(Carriers(x)) + (0 - k)
            /\ k + 0 + 0 + (0 - k) <= 0
        BY <2>3, <2>4, <2>5, <3>0
      <3>2. QED
        BY <3>0, <3>1, LoadFalls DEF x
    <2> HIDE DEF Load
    <2>7. QED
      BY <2>5, <2>6
  <1>5. QED
    BY <1>4 DEF Falls

\* A delivery turns a message on its way into one that was told.
LEMMA DeliverFalls == ASSUME NEW w \in Workers, Typed, Typed', Deliver(w) PROVE Falls(Items)
  <1>1. told'.job = [told.job EXCEPT ![<<work[w].user, work[w].item>>] = @ + 1]
    BY DEF Deliver, Typed, ToldTyped
  <1>2. QED
    BY <1>1, DoneFalls DEF Deliver, Finished

\* A message that is given up is on its way no more.
LEMMA LostFalls ==
    ASSUME NEW w \in Workers, Typed, Typed', DeadUser(w) \/ CancelTask(w)
    PROVE  Falls(Items)
  BY DoneFalls DEF DeadUser, CancelTask, Finished

\* A message whose delivery fails is given up, delivered or not.
LEMMA DeliverFailsFalls ==
    ASSUME NEW w \in Workers, NEW reached \in BOOLEAN, Typed, Typed', DeliverFails(w, reached)
    PROVE  Falls(Items)
  <1>1. \/ told'.job = told.job
        \/ told'.job = [told.job EXCEPT ![<<work[w].user, work[w].item>>] = @ + 1]
    BY DEF DeliverFails, Typed, ToldTyped
  <1>2. QED
    BY <1>1, DoneFalls DEF DeliverFails, Finished

\* A crash loses every message on its way.
LEMMA CrashFalls ==
    ASSUME NEW wiped \in BOOLEAN, NEW quick \in BOOLEAN, Typed, Typed', Crash(wiped, quick)
    PROVE  Falls(Items)
  <1>1. queue' = <<>> /\ loop'.out = <<>> /\ told'.job = told.job /\
        \A w \in Workers : work'[w] = Idle
    BY DEF Crash, Goto, Typed, ToldTyped
  <1>2. ASSUME NEW u \in Users, NEW i \in Items PROVE Load(u, i)' <= Load(u, i)
    <2> DEFINE x == Job(u, i)
    <2>1. Carriers(x)' = {}
      BY <1>1 DEF Carriers, Job
    <2>2. Cardinality(Carriers(x)') = 0
      BY <2>1, FS_EmptySet
    <2>3. Count(loop'.out, x) = 0 /\ Count(queue', x) = 0
      BY <1>1, CountEmpty
    <2>4. /\ told.job[<<u, i>>] \in Nat /\ Count(loop.out, x) \in Nat /\ Count(queue, x) \in Nat
          /\ Cardinality(Carriers(x)) \in Nat /\ Load(u, i) \in Nat /\ Load(u, i)' \in Nat
      BY LoadIs, LoadAfter
    <2>5. Load(u, i)' <= Load(u, i) + 0
      <3> HIDE DEF Load, Count, Carriers, x
      <3>1. told'.job[<<u, i>>] <= told.job[<<u, i>>] + 0 /\
            Count(loop'.out, x) <= Count(loop.out, x) + 0
            /\ Count(queue', x) <= Count(queue, x) + 0
            /\ Cardinality(Carriers(x)') <= Cardinality(Carriers(x)) + 0
        BY <1>1, <2>2, <2>3, <2>4
      <3>2. QED
        BY <3>1, LoadFalls DEF x
    <2> HIDE DEF Load
    <2>6. QED
      BY <2>4, <2>5
  <1>3. QED
    BY <1>2 DEF Falls

\* A step that sets what is to be put into the queue, each message once.
LEMMA OutGrows ==
    ASSUME Typed, Typed', told'.job = told.job, UNCHANGED <<queue, work>>, IsInjective(loop'.out)
    PROVE  \A u \in Users, i \in Items :
              /\ Load(u, i)' <= Load(u, i) + 1
              /\ Job(u, i) \notin Range(loop'.out) => Load(u, i)' <= Load(u, i)
  <1> SUFFICES ASSUME NEW u \in Users, NEW i \in Items
               PROVE  /\ Load(u, i)' <= Load(u, i) + 1
                      /\ Job(u, i) \notin Range(loop'.out) => Load(u, i)' <= Load(u, i)
    OBVIOUS
  <1> DEFINE x == Job(u, i)
             k == IF x \in Range(loop'.out) THEN 1 ELSE 0
  <1>1. Carriers(x)' = Carriers(x)
    BY DEF Carriers, Job
  <1>2. /\ told.job[<<u, i>>] \in Nat /\ Count(loop.out, x) \in Nat /\ Count(queue, x) \in Nat
        /\ Cardinality(Carriers(x)) \in Nat /\ Load(u, i) \in Nat /\ Load(u, i)' \in Nat
    BY LoadIs, LoadAfter
  <1>3. loop'.out \in Seq(Jobs)
    BY DEF Typed, LoopTyped, LoopRecord
  <1>4. Count(loop'.out, x) <= k
    <2>1. x \notin Range(loop'.out) => \A m \in DOMAIN loop'.out : loop'.out[m] # x
      BY DEF Range
    <2>2. QED
      BY <1>3, <2>1, CountOnce
  <1>5. Count(loop'.out, x) \in Nat
    BY LoadAfter
  <1>6. Load(u, i)' <= Load(u, i) + k
    <2>0. k \in Int
      OBVIOUS
    <2> HIDE DEF Load, Count, Carriers, x, k
    <2>1. told'.job[<<u, i>>] <= told.job[<<u, i>>] + 0 /\
          Count(loop'.out, x) <= Count(loop.out, x) + k
          /\ Count(queue', x) <= Count(queue, x) + 0
          /\ Cardinality(Carriers(x)') <= Cardinality(Carriers(x)) + 0
          /\ 0 + k + 0 + 0 <= k
      BY <1>1, <1>2, <1>4, <1>5, <2>0
    <2>2. QED
      BY <2>0, <2>1, LoadFalls DEF x
  <1> HIDE DEF Load
  <1>7. QED
    BY <1>2, <1>6

-----------------------------------------------------------------------------
(* The boards *)

Rising(s) == \A p, q \in DOMAIN s : p < q => s[p] < s[q]
Drawn(s) == Rising(s) /\ \A p \in DOMAIN s : s[p] <= game.made

\* The calls on a board are in the order they were drawn, and a call in both the
\* report of a poll and the game has the same place in both.
Boards ==
    /\ Drawn(game.board) /\ Drawn(loop.seen)
    /\ \A p \in DOMAIN loop.seen, q \in DOMAIN game.board : loop.seen[p] = game.board[q] => p = q

\* The elements of a sequence of calls are numbers.
LEMMA CallsAre ==
    ASSUME NEW s \in Seq(Calls)
    PROVE  \A p \in DOMAIN s : s[p] \in Calls /\ s[p] \in Nat
  <1>1. \A p \in DOMAIN s : s[p] \in Calls
    BY ElementOfSeq, LenProperties
  <1>2. QED
    BY <1>1, NotifierAssumption DEF Calls

\* The steps that leave the game alone and keep the report or forget it.
LEMMA BoardsKept ==
    ASSUME Typed, Boards, game'.board = game.board, game'.made = game.made,
           loop'.seen \in {loop.seen, <<>>}
    PROVE  Boards'
  <1>1. DOMAIN <<>> = {}
    OBVIOUS
  <1>2. Drawn(game.board)'
    BY DEF Boards, Drawn, Rising
  <1>3. CASE loop'.seen = loop.seen
    BY <1>2, <1>3 DEF Boards, Drawn, Rising
  <1>4. CASE loop'.seen = <<>>
    BY <1>1, <1>2, <1>4 DEF Boards, Drawn, Rising
  <1>5. QED
    BY <1>3, <1>4

\* A call is drawn after all the others (call_number).
LEMMA CallBoards == ASSUME NEW winner, Typed, Boards, Call(winner) PROVE Boards'
  <1> DEFINE c == game.made + 1
             n == Len(game.board) + 1
  <1>1. /\ game.board \in Seq(Calls) /\ game.made \in Nat /\
           DOMAIN game.board = 1 .. Len(game.board)
        /\ Len(game.board) \in Nat
    BY LenProperties DEF Typed, GameTyped
  <1>2. game'.board = Append(game.board, c) /\ game'.made = c /\ loop' = loop
    BY DEF Call, Typed, GameTyped
  <1>3. /\ DOMAIN Append(game.board, c) = 1 .. n
        /\ \A k \in 1 .. n : Append(game.board, c)[k] = IF k = n THEN c ELSE game.board[k]
    BY <1>1
  <1>4. \A q \in DOMAIN game'.board : (q = n /\ game'.board[q] = c)
                                      \/ (q < n /\ q \in DOMAIN game.board /\
                                         game'.board[q] = game.board[q])
    BY <1>1, <1>2, <1>3
  <1>5. \A q \in DOMAIN game.board : game.board[q] \in Nat /\ game.board[q] <= game.made
    BY <1>1, CallsAre DEF Boards, Drawn
  <1>6. \A p \in DOMAIN loop.seen : loop.seen[p] \in Nat /\ loop.seen[p] <= game.made
    BY CallsAre DEF Boards, Drawn, Typed, LoopTyped, LoopRecord
  <1>7. ASSUME NEW p \in DOMAIN game'.board, NEW q \in DOMAIN game'.board, p < q
        PROVE  game'.board[p] < game'.board[q]
    <2> HIDE DEF c
    <2>0. p \in Nat /\ q \in Nat /\ n \in Nat /\ p <= n /\ q <= n
      BY <1>1, <1>2, <1>3
    <2>1. p < n /\ p \in DOMAIN game.board /\ game'.board[p] = game.board[p]
      BY <1>4, <1>7, <2>0
    <2>2. CASE q = n /\ game'.board[q] = c
      BY <1>1, <1>5, <2>1, <2>2 DEF c
    <2>3. CASE q < n /\ q \in DOMAIN game.board /\ game'.board[q] = game.board[q]
      BY <2>1, <2>3, <1>7 DEF Boards, Drawn, Rising
    <2>4. QED
      BY <1>4, <2>2, <2>3
  <1>8. \A q \in DOMAIN game'.board : game'.board[q] <= game'.made
    BY <1>1, <1>2, <1>4, <1>5
  <1>9. Drawn(loop.seen)'
    <2>1. \A p \in DOMAIN loop.seen : loop.seen[p] <= c
      BY <1>1, <1>6
    <2>2. QED
      BY <1>2, <2>1 DEF Boards, Drawn, Rising
  <1>10. ASSUME NEW p \in DOMAIN loop'.seen, NEW q \in DOMAIN game'.board,
                loop'.seen[p] = game'.board[q]
         PROVE  p = q
    <2>1. p \in DOMAIN loop.seen /\ loop.seen[p] = game'.board[q] /\ game'.board[q] # c
      BY <1>1, <1>2, <1>6, <1>10
    <2>2. q \in DOMAIN game.board /\ game'.board[q] = game.board[q]
      BY <1>4, <2>1
    <2>3. QED
      BY <2>1, <2>2 DEF Boards
  <1>11. QED
    BY <1>7, <1>8, <1>9, <1>10 DEF Boards, Drawn, Rising

\* The board loses its last call (undo_last_call).
LEMMA UndoBoards == ASSUME Typed, Boards, Undo PROVE Boards'
  <1>1. game.board \in Seq(Calls) /\ game.board # <<>>
    BY DEF Typed, GameTyped, Undo
  <1>2. /\ Len(game.board) \in Nat \ {0} /\ DOMAIN game.board = 1 .. Len(game.board)
        /\ \A i \in 1 .. Len(game.board) : game.board[i] \in Calls
    BY <1>1, EmptySeq, ElementOfSeq, LenProperties
  <1>3. game'.board = Front(game.board) /\ game'.made = game.made /\ loop' = loop
    BY DEF Undo, Typed, GameTyped
  <1> DEFINE n == Len(game.board) - 1
  <1>4. /\ Front(game.board) \in Seq(Calls) /\ Len(Front(game.board)) = n
        /\ \A i \in 1 .. n : Front(game.board)[i] = game.board[i]
    <2>1. n \in Nat /\ Front(game.board) = SubSeq(game.board, 1, n)
      BY <1>2 DEF Front
    <2>2. QED
      BY <1>1, <1>2, <2>1, SubSeqProperties
  <1>5. DOMAIN game'.board = 1 .. n /\ \A q \in DOMAIN game'.board : q \in DOMAIN game.board /\
        game'.board[q] = game.board[q]
    BY <1>2, <1>3, <1>4, LenProperties
  <1>6. Drawn(game.board)'
    BY <1>3, <1>5 DEF Boards, Drawn, Rising
  <1>7. Drawn(loop.seen)'
    BY <1>3 DEF Boards, Drawn, Rising
  <1>8. QED
    BY <1>3, <1>5, <1>6, <1>7 DEF Boards

\* The report of a poll is the board.
LEMMA ReportBoards == ASSUME Typed, Boards, Report PROVE Boards'
  <1>1. game' = game /\ loop'.seen = game.board
    BY DEF Report, Goto
  <1>2. DOMAIN game.board = 1 .. Len(game.board) /\ Len(game.board) \in Nat
    BY LenProperties DEF Typed, GameTyped
  <1>3. \A p \in DOMAIN game.board : game.board[p] \in Nat
    BY CallsAre DEF Typed, GameTyped
  <1>4. ASSUME NEW p \in DOMAIN game.board, NEW q \in DOMAIN game.board,
               game.board[p] = game.board[q]
        PROVE  p = q
    <2>1. ~ (p < q) /\ ~ (q < p)
      BY <1>3, <1>4 DEF Boards, Drawn, Rising
    <2>2. QED
      BY <1>2, <2>1
  <1>5. QED
    BY <1>1, <1>4 DEF Boards, Drawn, Rising

\* Only the report changes what the poll knows of the board, or it is forgotten.
LEMMA SeenKept ==
    ASSUME Typed, [Next]_vars, ~ Report
    PROVE  loop'.seen \in {loop.seen, <<>>}
  <1>1. loop \in LoopRecord
    BY DEF Typed, LoopTyped
  <1>2. \A pc : Goto(pc).seen = <<>>
    BY DEF Goto
  <1>3. NextNotice.seen \in {loop.seen, <<>>}
    BY <1>1, <1>2 DEF NextNotice, LoopRecord
  <1>4. CASE Backend \/ Switches \/ UNCHANGED vars
    BY <1>4 DEF Backend, Call, Undo, Detect, Decide, Switches, AskOn, SwitchOn, SwitchOff, vars
  <1>5. CASE Poll \/ State \/ StateFails
    BY <1>2, <1>5 DEF Poll, State, StateFails, Goto
  <1>6. ASSUME NEW pc, NEW next, Put(pc, next) PROVE loop'.seen \in {loop.seen, <<>>}
    BY <1>1, <1>6 DEF Put, LoopRecord
  <1>7. CASE ReportFails \/ FetchNotices \/ FetchFails \/ AckFails
    BY <1>2, <1>3, <1>7 DEF ReportFails, FetchNotices, FetchFails, AckFails, Goto
  <1>8. CASE Live \/ LiveMark \/ Prize \/ MarkPrize \/ MarkEnded
    BY <1>1, <1>2, <1>8 DEF Live, LiveMark, Prize, MarkPrize, MarkEnded, LoopRecord
  <1>9. ASSUME NEW ok \in BOOLEAN, LiveSend(ok) \/ EndNotice(ok) \/ Ack(ok)
        PROVE  loop'.seen \in {loop.seen, <<>>}
    BY <1>1, <1>2, <1>3, <1>9 DEF LiveSend, EndNotice, Ack, LoopRecord
  <1>13. ASSUME NEW outcome \in Outcomes, Notice(outcome) PROVE loop'.seen \in {loop.seen, <<>>}
    BY <1>1, <1>2, <1>3, <1>13 DEF Notice, AfterFailure, LoopRecord
  <1>10. ASSUME NEW w \in Workers, Sender(w) PROVE loop' = loop
    BY <1>10 DEF Sender, Take, Deliver, DeliverFails, DeadUser, CancelTask
  <1>11. ASSUME NEW wiped \in BOOLEAN, NEW quick \in BOOLEAN, Crash(wiped, quick)
         PROVE  loop'.seen = <<>>
    BY <1>2, <1>11 DEF Crash
  <1>12. QED
    BY <1>4, <1>5, <1>6, <1>7, <1>8, <1>9, <1>10, <1>11, <1>13 DEF Next, Loop

\* The steps of the game itself.
GameMoves == Undo \/ \E winner \in Users \cup {None} : Call(winner)

\* Only the steps of the game change the board and the win, and only a crash makes a
\* recent win old.
LEMMA GameKept ==
    ASSUME Typed, [Next]_vars, ~ GameMoves
    PROVE  /\ game'.board = game.board /\ game'.made = game.made /\ game'.won = game.won
           /\ game'.recent = game.recent \/ game'.recent = FALSE
  <1>1. CASE Backend
    BY <1>1 DEF Backend, GameMoves, Detect, Decide
  <1>2. CASE Switches
    BY <1>2 DEF Switches, AskOn, SwitchOn, SwitchOff
  <1>3. CASE Loop
    BY <1>3 DEF Loop, Poll, State, StateFails, Put, Report, ReportFails, Live, LiveMark, Prize,
       MarkPrize, MarkEnded, FetchNotices, FetchFails, AckFails, LiveSend, EndNotice, Notice, Ack
  <1>4. ASSUME NEW w \in Workers, Sender(w) PROVE game' = game
    BY <1>4 DEF Sender, Take, Deliver, DeliverFails, DeadUser, CancelTask
  <1>5. ASSUME NEW wiped \in BOOLEAN, NEW quick \in BOOLEAN, Crash(wiped, quick)
        PROVE  /\ game'.board = game.board /\ game'.made = game.made /\ game'.won = game.won
               /\ game'.recent = game.recent \/ game'.recent = FALSE
    BY <1>5 DEF Crash, Typed, GameTyped
  <1>6. QED
    BY <1>1, <1>2, <1>3, <1>4, <1>5 DEF Next, vars

\* Every step keeps the boards.
LEMMA BoardsStep == ASSUME Typed, Boards, [Next]_vars PROVE Boards'
  <1>1. CASE GameMoves
    BY <1>1, CallBoards, UndoBoards DEF GameMoves
  <1>2. CASE Report
    BY <1>2, ReportBoards
  <1>3. CASE ~ GameMoves /\ ~ Report
    BY <1>3, SeenKept, GameKept, BoardsKept
  <1>4. QED
    BY <1>1, <1>2, <1>3

-----------------------------------------------------------------------------
(* The calls a poll adds *)

\* A call stands in one place of the board only.
LEMMA RisingOnce ==
    ASSUME NEW s \in Seq(Calls), Rising(s), NEW p \in DOMAIN s, NEW q \in DOMAIN s, s[p] = s[q]
    PROVE  p = q
  <1>1. s[p] \in Nat /\ s[q] \in Nat /\ p \in Nat /\ q \in Nat
    BY CallsAre, LenProperties
  <1>2. ~ (p < q) /\ ~ (q < p)
    BY <1>1 DEF Rising
  <1>3. QED
    BY <1>1, <1>2

\* A part of a board, from behind a marker to the end.
LEMMA RestIs ==
    ASSUME NEW s \in Seq(Calls), Rising(s), NEW m \in Nat
    PROVE  /\ SubSeq(s, m + 1, Len(s)) \in Seq(Calls) /\ IsInjective(SubSeq(s, m + 1, Len(s)))
           /\ \A c : c \in Range(SubSeq(s, m + 1, Len(s))) <=> \E p \in DOMAIN s : s[p] = c /\ p > m
  <1> DEFINE n == Len(s)
             t == SubSeq(s, m + 1, n)
  <1>1. n \in Nat /\ DOMAIN s = 1 .. n /\ \A i \in 1 .. n : s[i] \in Calls
    BY LenProperties, ElementOfSeq
  <1>2. m + 1 \in Int /\ n \in Int /\ \A i \in m + 1 .. n : s[i] \in Calls
    BY <1>1
  <1> HIDE DEF n
  <1>3. /\ t \in Seq(Calls)
        /\ Len(t) = IF m + 1 <= n THEN n - (m + 1) + 1 ELSE 0
        /\ \A i \in 1 .. n - (m + 1) + 1 : t[i] = s[m + 1 + i - 1]
    BY <1>2, SubSeqProperties
  <1> HIDE DEF t
  <1>4. DOMAIN t = 1 .. n - m /\ \A i \in 1 .. n - m : i + m \in DOMAIN s /\ i + m > m /\
        t[i] = s[i + m]
    <2>1. \A i \in 1 .. n - m : m + 1 + i - 1 = i + m /\ i + m \in 1 .. n /\ i + m > m
      BY <1>1
    <2>2. n - (m + 1) + 1 = n - m
      BY <1>1
    <2>3. DOMAIN t = 1 .. n - m
      <3>1. DOMAIN t = 1 .. Len(t)
        BY <1>3, LenProperties
      <3>2. Len(t) = IF m < n THEN n - m ELSE 0
        BY <1>1, <1>3
      <3>3. QED
        BY <3>1, <3>2, <1>1
    <2>4. QED
      BY <1>1, <1>3, <2>1, <2>2, <2>3
  <1>5. ASSUME NEW i \in DOMAIN t, NEW j \in DOMAIN t, t[i] = t[j] PROVE i = j
    <2>1. i \in Int /\ j \in Int /\ i + m \in DOMAIN s /\ j + m \in DOMAIN s /\ s[i + m] = s[j + m]
      BY <1>1, <1>4, <1>5
    <2>2. i + m = j + m
      BY <2>1, RisingOnce
    <2>3. QED
      BY <2>1, <2>2
  <1>6. ASSUME NEW p \in DOMAIN s, p > m PROVE s[p] \in Range(t)
    <2>1. p - m \in DOMAIN t /\ (p - m) + m = p
      BY <1>1, <1>4, <1>6
    <2>2. t[p - m] = s[p]
      BY <1>4, <2>1
    <2>3. QED
      BY <2>1, <2>2 DEF Range
  <1>7. ASSUME NEW c \in Range(t) PROVE \E p \in DOMAIN s : s[p] = c /\ p > m
    <2>1. PICK i \in DOMAIN t : t[i] = c
      BY DEF Range
    <2>2. QED
      BY <1>4, <2>1
  <1>8. QED
    BY <1>3, <1>5, <1>6, <1>7 DEF IsInjective, t, n

\* A poll adds the calls behind the cursor, each once, and nothing when the process has
\* seen no number of the game yet (notifier_loop, seen and warm).
LEMMA AddedIs ==
    ASSUME Typed, Boards
    PROVE  /\ Added \in Seq(Calls) /\ IsInjective(Added)
           /\ \A c \in Range(Added) : /\ ~ (file.seen = 0 /\ ~ mem.warm)
                                      /\ \E p \in DOMAIN game.board : game.board[p] = c /\
                                         p > file.seen
  <1>1. game.board \in Seq(Calls) /\ Rising(game.board) /\ file.seen \in Nat
    BY NotifierAssumption DEF Typed, GameTyped, FileTyped, Boards, Drawn
  <1>2. CASE file.seen = 0 /\ ~ mem.warm
    <2>1. Added = <<>>
      BY <1>2 DEF Added
    <2>2. DOMAIN <<>> = {} /\ <<>> \in Seq(Calls)
      BY EmptySeq
    <2>3. QED
      BY <2>1, <2>2 DEF Range, IsInjective
  <1>3. CASE ~ (file.seen = 0 /\ ~ mem.warm)
    <2>1. Added = SubSeq(game.board, file.seen + 1, Len(game.board))
      BY <1>3 DEF Added
    <2>2. QED
      BY ZenonT(30), <1>1, <1>3, <2>1, RestIs
  <1>4. QED
    BY <1>2, <1>3

\* The messages of a poll.
LEMMA MessagesAre ==
    ASSUME Typed, Boards
    PROVE  /\ JobsFor(Added, loop.batch) \in Seq(Jobs)
           /\ IsInjective(JobsFor(Added, loop.batch))
           /\ Range(JobsFor(Added, loop.batch)) = {Job(u, c) : u \in loop.batch, c \in Range(Added)}
           /\ Added # <<>> /\ loop.batch # {} => JobsFor(Added, loop.batch) # <<>>
  <1>1. loop.batch \in SUBSET Users
    BY DEF Typed, LoopTyped, LoopRecord
  <1>2. /\ JobsFor(Added, loop.batch) \in Seq(Jobs)
        /\ IsInjective(JobsFor(Added, loop.batch))
        /\ Range(JobsFor(Added, loop.batch)) =
           {[user |-> u, item |-> c] : u \in loop.batch, c \in Range(Added)}
    BY <1>1, AddedIs, JobsForAre
  <1>3. Range(JobsFor(Added, loop.batch)) = {Job(u, c) : u \in loop.batch, c \in Range(Added)}
    BY <1>2 DEF Job
  <1>4. ASSUME Added # <<>>, loop.batch # {}, JobsFor(Added, loop.batch) = <<>> PROVE FALSE
    <2>1. Range(<<>>) = {}
      BY DEF Range
    <2>2. PICK u : u \in loop.batch
      BY <1>4
    <2>3. Len(Added) \in Nat \ {0} /\ DOMAIN Added = 1 .. Len(Added)
      BY <1>4, AddedIs, EmptySeq, LenProperties
    <2>4. Added[1] \in Range(Added)
      BY <2>3 DEF Range
    <2>5. Job(u, Added[1]) \in Range(JobsFor(Added, loop.batch))
      BY <1>3, <2>2, <2>4
    <2>6. QED
      BY <1>4, <2>1, <2>5
  <1>5. QED
    BY <1>2, <1>3, <1>4

\* Every step keeps the types.
LEMMA TypedStep == ASSUME Typed, Boards, [Next]_vars PROVE Typed'
  <1>1. State => loop.batch # {}
    BY DEF State, Typed, LoopTyped, Ready
  <1>2. QED
    BY <1>1, MessagesAre, StepTyped

\* The next notice makes no message to a user.
LEMMA NextNoticeOut == ASSUME Typed PROVE NextNotice.out \in {loop.out, <<>>}
  BY DEF NextNotice, Goto, Typed, LoopTyped, LoopRecord

\* The steps of the loop that put nothing on its way.
LEMMA LoopFalls ==
    ASSUME Typed, Typed',
           \/ Poll \/ StateFails \/ Report \/ ReportFails
           \/ Live \/ LiveMark \/ MarkPrize \/ MarkEnded
           \/ FetchNotices \/ FetchFails \/ AckFails
           \/ \E ok \in BOOLEAN : LiveSend(ok) \/ EndNotice(ok) \/ Ack(ok)
           \/ \E outcome \in Outcomes : Notice(outcome)
    PROVE  Falls(Items)
  <1>1. loop \in LoopRecord /\ told.job = told.job /\ NextNotice.out \in {loop.out, <<>>}
    BY NextNoticeOut DEF Typed, LoopTyped
  <1>2. \A pc : Goto(pc).out = <<>>
    BY DEF Goto
  <1>3. CASE Poll \/ StateFails \/ Report \/ ReportFails
    <2>1. told' = told /\ UNCHANGED <<queue, work>>
      BY <1>3 DEF Poll, StateFails, Report, ReportFails
    <2>2. loop'.out = <<>>
      <3>1. CASE Poll
        BY <3>1 DEF Poll, Goto
      <3>2. CASE StateFails
        BY <3>2 DEF StateFails, Goto
      <3>3. CASE Report
        BY <3>3 DEF Report, Goto
      <3>4. CASE ReportFails
        BY <3>4 DEF ReportFails, Goto
      <3>5. QED
        BY <1>3, <3>1, <3>2, <3>3, <3>4
    <2>3. QED
      BY <2>1, <2>2, OthersFall
  <1>4. CASE Live \/ LiveMark \/ MarkPrize \/ MarkEnded
    <2>1. loop'.out \in {loop.out, <<>>} /\ told' = told /\ UNCHANGED <<queue, work>>
      BY <1>1, <1>2, <1>4 DEF Live, LiveMark, MarkPrize, MarkEnded, LoopRecord
    <2>2. QED
      BY <2>1, OthersFall
  <1>5. CASE FetchNotices \/ FetchFails \/ AckFails
    <2>1. loop'.out \in {loop.out, <<>>} /\ told' = told /\ UNCHANGED <<queue, work>>
      BY <1>1, <1>2, <1>5 DEF FetchNotices, FetchFails, AckFails, Goto
    <2>2. QED
      BY <2>1, OthersFall
  <1>6. ASSUME NEW ok \in BOOLEAN, LiveSend(ok) PROVE Falls(Items)
    <2>1. loop'.out = loop.out /\ told'.job = told.job /\ UNCHANGED <<queue, work>>
      BY <1>1, <1>6 DEF LiveSend, LoopRecord, Typed, ToldTyped
    <2>2. QED
      BY <2>1, OthersFall
  <1>7. ASSUME NEW ok \in BOOLEAN, EndNotice(ok) PROVE Falls(Items)
    <2>1. loop'.out = loop.out /\ told'.job = told.job /\ UNCHANGED <<queue, work>>
      BY <1>1, <1>7 DEF EndNotice, LoopRecord, Typed, ToldTyped
    <2>2. QED
      BY <2>1, OthersFall
  <1>8. ASSUME NEW outcome \in Outcomes, Notice(outcome) PROVE Falls(Items)
    <2>1. loop'.out \in {loop.out, <<>>}
      BY <1>1, <1>8 DEF Notice, AfterFailure, LoopRecord
    <2>2. told'.job = told.job /\ UNCHANGED <<queue, work>>
      BY <1>8, NoticeTells DEF Notice
    <2>3. QED
      BY <2>1, <2>2, OthersFall
  <1>9. ASSUME NEW ok \in BOOLEAN, Ack(ok) PROVE Falls(Items)
    <2>1. loop'.out \in {loop.out, <<>>} /\ told'.job = told.job /\ UNCHANGED <<queue, work>>
      BY <1>1, <1>9 DEF Ack
    <2>2. QED
      BY <2>1, OthersFall
  <1>10. QED
    BY <1>3, <1>4, <1>5, <1>6, <1>7, <1>8, <1>9

\* Only a poll that has seen new calls, and the report of a win, send for the first time.
LEMMA MostFall ==
    ASSUME Typed, Typed', [Next]_vars, ~ State, ~ Prize
    PROVE  Falls(Items)
  <1>1. CASE Backend \/ Switches \/ UNCHANGED vars
    <2>1. loop' = loop /\ told'.job = told.job /\ UNCHANGED <<queue, work>>
      BY <1>1 DEF Backend, Call, Undo, Detect, Decide, Switches, AskOn, SwitchOn, SwitchOff, vars,
         Typed, ToldTyped
    <2>2. QED
      BY <2>1, OthersFall
  <1>2. CASE Put("put", "report") \/ Put("winner", "marked")
    BY <1>2, PutFalls
  <1>3. CASE Loop
    BY <1>2, <1>3, LoopFalls DEF Loop
  <1>4. ASSUME NEW w \in Workers, Sender(w) PROVE Falls(Items)
    BY <1>4, TakeFalls, DeliverFalls, DeliverFailsFalls, LostFalls DEF Sender
  <1>5. ASSUME NEW wiped \in BOOLEAN, NEW quick \in BOOLEAN, Crash(wiped, quick)
        PROVE  Falls(Items)
    BY <1>5, CrashFalls
  <1>6. QED
    BY <1>1, <1>3, <1>4, <1>5 DEF Next

\* What the loads become when a win is seen in the report.
LEMMA PrizeLoads ==
    ASSUME Typed, Typed', Prize
    PROVE  /\ Falls(Calls)
           /\ IF Announce(file.prize) /\ loop.winner # None
              THEN \A u \in Users : Load(u, Win)' <= Load(u, Win) + 1
              ELSE Falls({Win})
  <1>1. loop \in LoopRecord /\ told' = told /\ UNCHANGED <<queue, work>> /\ Calls \subseteq Items /\
        Win \in Items
    BY DEF Typed, LoopTyped, Prize, Items
  <1>2. CASE Announce(file.prize) /\ loop.winner # None
    <2>1. loop'.out = <<Job(loop.winner, Win)>>
      BY <1>1, <1>2 DEF Prize, LoopRecord, Job
    <2>2. IsInjective(loop'.out) /\ Range(loop'.out) = {Job(loop.winner, Win)}
      BY <2>1 DEF IsInjective, Range
    <2>3. \A u \in Users, i \in Items : /\ Load(u, i)' <= Load(u, i) + 1
                                        /\ Job(u, i) \notin Range(loop'.out) =>
                                           Load(u, i)' <= Load(u, i)
      BY <1>1, <2>2, OutGrows
    <2>4. ASSUME NEW u \in Users, NEW c \in Calls PROVE Job(u, c) \notin Range(loop'.out)
      <3>1. c # Win
        BY NotifierAssumption DEF Calls, Win
      <3>2. QED
        BY <2>2, <3>1, JobsDiffer
    <2>5. Falls(Calls)
      BY <1>1, <2>3, <2>4 DEF Falls
    <2>6. QED
      BY <1>1, <1>2, <2>3, <2>5
  <1>3. CASE ~ (Announce(file.prize) /\ loop.winner # None)
    <2>1. loop'.out = loop.out
      BY <1>1, <1>3 DEF Prize, LoopRecord
    <2>2. Falls(Items)
      BY <1>1, <2>1, OthersFall
    <2>3. QED
      BY <1>1, <1>3, <2>2 DEF Falls
  <1>4. QED
    BY <1>2, <1>3

\* What the loads become when a poll has seen new calls.
LEMMA StateLoads ==
    ASSUME Typed, Typed', Boards, State
    PROVE  /\ Falls({Win})
           /\ \A u \in Users, c \in Calls :
                 /\ Load(u, c)' <= Load(u, c) + 1
                 /\ ~ (game.board # <<>> /\ u \in loop.batch /\ c \in Range(Added)) =>
                    Load(u, c)' <= Load(u, c)
  <1>1. told' = told /\ UNCHANGED <<queue, work>> /\ Calls \subseteq Items /\ Win \in Items
    BY DEF State, Items
  <1>2. CASE game.board = <<>>
    <2>1. loop'.out = <<>>
      BY <1>2 DEF State, Goto
    <2>2. Falls(Items)
      BY <1>1, <2>1, OthersFall
    <2>3. \A u \in Users, i \in Items : Load(u, i) \in Nat /\ Load(u, i)' \in Nat
      BY LoadIs, LoadAfter
    <2> HIDE DEF Load
    <2>4. QED
      BY <1>1, <2>2, <2>3 DEF Falls
  <1>3. CASE game.board # <<>>
    <2>1. loop'.out = JobsFor(Added, loop.batch)
      BY <1>3 DEF State, Goto
    <2>2. IsInjective(loop'.out) /\
          Range(loop'.out) = {Job(u, c) : u \in loop.batch, c \in Range(Added)}
      BY <2>1, MessagesAre
    <2>3. \A u \in Users, i \in Items : /\ Load(u, i)' <= Load(u, i) + 1
                                        /\ Job(u, i) \notin Range(loop'.out) =>
                                           Load(u, i)' <= Load(u, i)
      BY <1>1, <2>2, OutGrows
    <2>4. Range(Added) \subseteq Calls
      BY AddedIs, CallsAre DEF Range
    <2>5. ASSUME NEW u \in Users PROVE Job(u, Win) \notin Range(loop'.out)
      <3>1. Win \notin Calls
        BY NotifierAssumption DEF Calls, Win
      <3>2. QED
        BY <2>2, <2>4, <3>1, JobsDiffer
    <2>6. ASSUME NEW u \in Users, NEW c \in Calls, ~ (u \in loop.batch /\ c \in Range(Added))
          PROVE  Job(u, c) \notin Range(loop'.out)
      BY <2>2, <2>6, JobsDiffer
    <2> HIDE DEF Load
    <2>7. Falls({Win})
      BY <1>1, <2>3, <2>5 DEF Falls
    <2>8. ASSUME NEW u \in Users, NEW c \in Calls
          PROVE  /\ Load(u, c)' <= Load(u, c) + 1
                 /\ ~ (u \in loop.batch /\ c \in Range(Added)) => Load(u, c)' <= Load(u, c)
      BY <1>1, <2>3, <2>6
    <2>9. QED
      BY <1>3, <2>7, <2>8
  <1>4. QED
    BY <1>2, <1>3

-----------------------------------------------------------------------------
(* Numbers *)

Asking == {u \in Users : asked[u] # Idle}

\* The switches that have been turned on so far.
Turns == told.ons - Cardinality(Asking)

\* A call that the next poll may send: not yet drawn, or behind the cursor, unless
\* the process starts with whatever it finds.
Cold == file.seen = 0 /\ ~ mem.warm
Ahead(c) ==
    \/ c > game.made
    \/ \E p \in DOMAIN game.board : game.board[p] = c /\ p > file.seen /\ ~ Cold

\* Every switch turned on allows one more message for a call; all of them are used
\* up only by a call the cursor has passed.
NumbersOnce ==
    /\ Turns >= 0
    /\ file.subs # {} \/ loop.batch # {} => Turns > 0
    /\ \A u \in Users, c \in Calls : Load(u, c) <= Turns /\
       (Load(u, c) = Turns /\ Turns > 0 => ~ Ahead(c))

\* The turns are a number, and so is what they are made of.
LEMMA TurnsIs ==
    ASSUME Typed
    PROVE  IsFiniteSet(Asking) /\ Cardinality(Asking) \in Nat /\ told.ons \in Nat /\ Turns \in Int
  <1>1. IsFiniteSet(Asking)
    BY NotifierAssumption, FS_Subset DEF Asking
  <1>2. QED
    BY <1>1, FS_CardinalityType DEF Turns, Typed, ToldTyped

\* The same after a step.
LEMMA TurnsAfter ==
    ASSUME Typed'
    PROVE  /\ IsFiniteSet(Asking') /\ Cardinality(Asking') \in Nat /\ told'.ons \in Nat
           /\ Turns' \in Int /\ Turns' = told'.ons - Cardinality(Asking')
  <1>1. IsFiniteSet(Asking')
    BY NotifierAssumption, FS_Subset DEF Asking
  <1>2. QED
    BY <1>1, FS_CardinalityType DEF Turns, Typed, ToldTyped

\* The steps that change neither what is ahead nor who has turned a switch on.
Calm ==
    /\ game'.board = game.board /\ game'.made = game.made /\ file'.seen = file.seen /\
       mem'.warm = mem.warm
    /\ told'.ons = told.ons /\ asked' = asked
    /\ file'.subs \subseteq file.subs /\ loop'.batch \subseteq loop.batch \cup file.subs

\* What changes neither the turns nor what is ahead, and lets the loads fall, keeps the
\* numbers told once a turn.
LEMMA NumbersKept ==
    ASSUME Typed, Typed', NumbersOnce, Calm, Falls(Calls)
    PROVE  NumbersOnce'
  <1>1. Turns' = Turns /\ Turns \in Int
    BY TurnsIs DEF Turns, Asking, Calm
  <1>2. \A c \in Calls : Ahead(c)' <=> Ahead(c)
    BY DEF Ahead, Cold, Calm
  <1>3. ASSUME NEW u \in Users, NEW c \in Calls
        PROVE  Load(u, c)' <= Turns' /\ (Load(u, c)' = Turns' /\ Turns' > 0 => ~ Ahead(c)')
    <2>1. Load(u, c) \in Nat /\ Load(u, c)' \in Nat /\ Load(u, c)' <= Load(u, c)
      BY LoadIs, LoadAfter DEF Falls, Items
    <2>2. Load(u, c) <= Turns /\ (Load(u, c) = Turns /\ Turns > 0 => ~ Ahead(c))
      BY DEF NumbersOnce
    <2> HIDE DEF Load, Turns, Ahead
    <2>3. QED
      BY <1>1, <1>2, <2>1, <2>2
  <1>4. file'.subs # {} \/ loop'.batch # {} => Turns' > 0
    BY <1>1 DEF NumbersOnce, Calm
  <1>5. Turns' >= 0
    BY <1>1 DEF NumbersOnce
  <1>6. QED
    BY <1>3, <1>4, <1>5 DEF NumbersOnce

\* The game moves: a call is ahead until a poll has seen it.
LEMMA GameNumbers ==
    ASSUME Typed, Typed', Boards, NumbersOnce, GameMoves, Falls(Calls)
    PROVE  NumbersOnce'
  <1>0. /\ file' = file /\ mem' = mem /\ told' = told /\ asked' = asked /\ loop' = loop
        /\ game.made \in Nat
    <2>1. game.made \in Nat
      BY DEF Typed, GameTyped
    <2>2. file' = file /\ mem' = mem /\ told' = told /\ asked' = asked /\ loop' = loop
      BY DEF GameMoves, Call, Undo
    <2>3. QED
      BY <2>1, <2>2
  <1>1. Turns' = Turns /\ Turns \in Int
    BY <1>0, TurnsIs DEF Turns, Asking
  <1>2. ASSUME NEW c \in Calls, ~ Ahead(c) PROVE ~ Ahead(c)'
    <2>0. c \in Nat /\ c <= game.made
      BY <1>0, <1>2, NotifierAssumption DEF Ahead, Calls
    <2>1. CASE Undo
      <3>1. game.board \in Seq(Calls) /\ game.board # <<>> /\ game'.made = game.made /\
            game'.board = Front(game.board)
        BY <2>1 DEF Typed, GameTyped, Undo
      <3>2. Len(game.board) \in Nat \ {0} /\ \A i \in 1 .. Len(game.board) : game.board[i] \in Calls
        BY <3>1, EmptySeq, ElementOfSeq
      <3> DEFINE n == Len(game.board) - 1
      <3>3. /\ Front(game.board) \in Seq(Calls) /\ Len(Front(game.board)) = n
            /\ \A i \in 1 .. n : Front(game.board)[i] = game.board[i]
        <4>1. n \in Nat /\ Front(game.board) = SubSeq(game.board, 1, n)
          BY <3>2 DEF Front
        <4>2. QED
          BY <3>1, <3>2, <4>1, SubSeqProperties
      <3>4. DOMAIN game'.board = 1 .. n /\ DOMAIN game.board = 1 .. Len(game.board)
        BY <3>1, <3>3, LenProperties
      <3>5. \A q \in DOMAIN game'.board : q \in DOMAIN game.board /\ game'.board[q] = game.board[q]
        BY <3>1, <3>2, <3>3, <3>4
      <3>6. QED
        BY <1>0, <1>2, <2>0, <3>1, <3>5 DEF Ahead, Cold
    <2>2. ASSUME NEW winner \in Users \cup {None}, Call(winner) PROVE ~ Ahead(c)'
      <3>1. /\ game.board \in Seq(Calls) /\ game'.board = Append(game.board, game.made + 1)
            /\ game'.made = game.made + 1
        BY <2>2 DEF Call, Typed, GameTyped
      <3>2. DOMAIN game.board = 1 .. Len(game.board) /\ Len(game.board) \in Nat
        BY <3>1, LenProperties
      <3>3. \A q \in DOMAIN game'.board :
               game'.board[q] = game.made + 1 \/
               (q \in DOMAIN game.board /\ game'.board[q] = game.board[q])
        BY <3>1, <3>2
      <3>4. c # game.made + 1 /\ ~ (c > game.made + 1)
        BY <1>0, <2>0
      <3>5. QED
        BY <1>0, <1>2, <3>1, <3>3, <3>4 DEF Ahead, Cold
    <2>3. QED
      BY <2>1, <2>2 DEF GameMoves
  <1>3. ASSUME NEW u \in Users, NEW c \in Calls
        PROVE  Load(u, c)' <= Turns' /\ (Load(u, c)' = Turns' /\ Turns' > 0 => ~ Ahead(c)')
    <2>1. Load(u, c) \in Nat /\ Load(u, c)' \in Nat /\ Load(u, c)' <= Load(u, c)
      BY LoadIs, LoadAfter DEF Falls, Items
    <2>2. Load(u, c) <= Turns /\ (Load(u, c) = Turns /\ Turns > 0 => ~ Ahead(c))
      BY DEF NumbersOnce
    <2> HIDE DEF Load, Turns, Ahead
    <2>3. QED
      BY <1>1, <1>2, <2>1, <2>2
  <1>4. file'.subs # {} \/ loop'.batch # {} => Turns' > 0
    BY <1>0, <1>1 DEF NumbersOnce
  <1>5. Turns' >= 0
    BY <1>1 DEF NumbersOnce
  <1>6. QED
    BY <1>3, <1>4, <1>5 DEF NumbersOnce

Asks == \E u \in Players : AskOn(u) \/ SwitchOn(u)
Crashes == \E wiped \in BOOLEAN, quick \in BOOLEAN : Crash(wiped, quick)

\* Another switch has been turned on than had messages: nothing is used up.
LEMMA MoreTurns ==
    ASSUME Typed, Typed', NumbersOnce, Falls(Calls), Turns' > Turns
    PROVE  NumbersOnce'
  <1>1. Turns \in Int /\ Turns' \in Int /\ Turns >= 0
    BY TurnsIs, TurnsAfter DEF NumbersOnce
  <1>2. ASSUME NEW u \in Users, NEW c \in Calls
        PROVE  Load(u, c)' <= Turns' /\ (Load(u, c)' = Turns' /\ Turns' > 0 => ~ Ahead(c)')
    <2>1. Load(u, c) \in Nat /\ Load(u, c)' \in Nat /\ Load(u, c)' <= Load(u, c)
      BY LoadIs, LoadAfter DEF Falls, Items
    <2>2. Load(u, c) <= Turns
      BY DEF NumbersOnce
    <2> HIDE DEF Load, Turns, Ahead
    <2>3. QED
      BY <1>1, <2>1, <2>2
  <1>3. Turns' > 0 /\ Turns' >= 0
    <2> HIDE DEF Turns
    <2>1. QED
      BY <1>1
  <1>4. QED
    BY <1>2, <1>3 DEF NumbersOnce

\* The subscription is written: there is one turn of the switch more.
LEMMA SwitchOnNumbers ==
    ASSUME NEW u \in Users, Typed, Typed', NumbersOnce, SwitchOn(u), Falls(Calls)
    PROVE  NumbersOnce'
  <1>1. asked \in [Users -> 0 .. MaxCalls \cup {Idle}] /\ asked[u] # Idle /\
        asked' = [asked EXCEPT ![u] = Idle]
        /\ told' = told
    BY DEF SwitchOn, Typed, AskedTyped
  <1>2. Asking' = Asking \ {u} /\ u \in Asking
    BY <1>1 DEF Asking
  <1>3. Cardinality(Asking') = Cardinality(Asking) - 1
    BY <1>2, TurnsIs, FS_RemoveElement
  <1>4. Turns' > Turns
    <2>1. Turns' = told'.ons - Cardinality(Asking') /\ Turns = told.ons - Cardinality(Asking)
      BY TurnsAfter DEF Turns
    <2>2. Cardinality(Asking) \in Nat /\ told.ons \in Nat /\ told'.ons = told.ons
      BY <1>1, TurnsIs
    <2> HIDE DEF Turns, Asking
    <2>3. QED
      BY <1>3, <2>1, <2>2
  <1>5. QED
    BY <1>4, MoreTurns

\* A user asks for the numbers: it is a turn of the switch once the answer is written.
LEMMA AskOnNumbers ==
    ASSUME NEW u \in Users, Typed, Typed', NumbersOnce, AskOn(u), Falls(Calls)
    PROVE  NumbersOnce'
  <1>1. /\ asked \in [Users -> 0 .. MaxCalls \cup {Idle}] /\ asked[u] = Idle
        /\ asked' = [asked EXCEPT ![u] = Len(game.board)]
        /\ told'.ons = told.ons + 1
    BY DEF AskOn, Typed, AskedTyped, ToldTyped
  <1>2. Asking' \subseteq Asking \cup {u} /\ u \notin Asking
    BY <1>1 DEF Asking
  <1>3. Cardinality(Asking') <= Cardinality(Asking) + 1
    <2> DEFINE C == Asking
               D == Asking'
    <2>1. D \subseteq C \cup {u} /\ u \notin C /\ IsFiniteSet(C)
      BY <1>2, TurnsIs
    <2> HIDE DEF C, D
    <2>2. Cardinality(C \cup {u}) = Cardinality(C) + 1 /\ IsFiniteSet(C \cup {u})
      BY <2>1, FS_AddElement
    <2>3. Cardinality(D) <= Cardinality(C \cup {u})
      BY <2>1, <2>2, FS_Subset
    <2>4. QED
      BY <2>2, <2>3 DEF C, D
  <1>4. Turns' >= Turns /\ Turns \in Int /\ Turns' \in Int
    <2>1. Turns' = told'.ons - Cardinality(Asking') /\ Turns = told.ons - Cardinality(Asking)
      BY TurnsAfter DEF Turns
    <2>2. Cardinality(Asking) \in Nat /\ Cardinality(Asking') \in Nat /\ told.ons \in Nat
      BY TurnsIs, TurnsAfter
    <2> HIDE DEF Turns, Asking
    <2>3. QED
      BY <1>1, <1>3, <2>1, <2>2
  <1>5. CASE Turns' > Turns
    BY <1>5, MoreTurns
  <1>6. CASE Turns' = Turns
    <2>1. game' = game /\ file' = file /\ mem' = mem /\ loop' = loop
      BY DEF AskOn
    <2>2. \A c \in Calls : Ahead(c)' <=> Ahead(c)
      BY <2>1 DEF Ahead, Cold
    <2>3. ASSUME NEW v \in Users, NEW c \in Calls
          PROVE  Load(v, c)' <= Turns' /\ (Load(v, c)' = Turns' /\ Turns' > 0 => ~ Ahead(c)')
      <3>1. Load(v, c) \in Nat /\ Load(v, c)' \in Nat /\ Load(v, c)' <= Load(v, c)
        BY LoadIs, LoadAfter DEF Falls, Items
      <3>2. Load(v, c) <= Turns /\ (Load(v, c) = Turns /\ Turns > 0 => ~ Ahead(c))
        BY DEF NumbersOnce
      <3> HIDE DEF Load, Turns, Ahead
      <3>3. QED
        BY <1>4, <1>6, <2>2, <3>1, <3>2
    <2>4. (file'.subs # {} \/ loop'.batch # {} => Turns' > 0) /\ Turns' >= 0
      BY <1>6, <2>1 DEF NumbersOnce
    <2>5. QED
      BY <2>3, <2>4 DEF NumbersOnce
  <1>7. QED
    <2> HIDE DEF Turns
    <2>1. QED
      BY <1>4, <1>5, <1>6

\* A crash loses the messages and the questions under way, and a process that starts with
\* an emptied file takes the numbers it finds for told.
LEMMA CrashNumbers ==
    ASSUME NEW wiped \in BOOLEAN, NEW quick \in BOOLEAN, Typed, Typed', NumbersOnce,
           Crash(wiped, quick), Falls(Calls)
    PROVE  NumbersOnce'
  <1>1. /\ asked' = [v \in Users |-> Idle] /\ told'.ons = told.ons
        /\ game'.board = game.board /\ game'.made = game.made
        /\ file' = IF wiped THEN Emptied ELSE file
        /\ mem' = Fresh /\ loop' = Goto("numbers")
    BY DEF Crash, Typed, ToldTyped, GameTyped
  <1>2. Asking' = {}
    BY <1>1 DEF Asking
  <1>3. Cardinality(Asking') = 0
    BY <1>2, FS_EmptySet
  <1>4. Turns' >= Turns /\ Turns \in Int /\ Turns' \in Int
    <2>1. Turns' = told'.ons - Cardinality(Asking') /\ Turns = told.ons - Cardinality(Asking)
      BY TurnsAfter DEF Turns
    <2>2. Cardinality(Asking) \in Nat /\ Cardinality(Asking') \in Nat /\ told.ons \in Nat
      BY TurnsIs, TurnsAfter
    <2> HIDE DEF Turns, Asking
    <2>3. QED
      BY <1>1, <1>3, <2>1, <2>2
  <1>5. CASE Turns' > Turns
    BY <1>5, MoreTurns
  <1>6. CASE Turns' = Turns
    <2>1. ASSUME NEW c \in Calls, ~ Ahead(c) PROVE ~ Ahead(c)'
      <3>1. mem'.warm = FALSE
        BY <1>1 DEF Fresh
      <3>2. CASE wiped
        <4>1. file'.seen = 0
          BY <1>1, <3>2 DEF Emptied
        <4>2. QED
          BY <1>1, <2>1, <3>1, <4>1 DEF Ahead, Cold
      <3>3. CASE ~ wiped
        BY <1>1, <2>1, <3>1, <3>3 DEF Ahead, Cold
      <3>4. QED
        BY <3>2, <3>3
    <2>2. ASSUME NEW v \in Users, NEW c \in Calls
          PROVE  Load(v, c)' <= Turns' /\ (Load(v, c)' = Turns' /\ Turns' > 0 => ~ Ahead(c)')
      <3>1. Load(v, c) \in Nat /\ Load(v, c)' \in Nat /\ Load(v, c)' <= Load(v, c)
        BY LoadIs, LoadAfter DEF Falls, Items
      <3>2. Load(v, c) <= Turns /\ (Load(v, c) = Turns /\ Turns > 0 => ~ Ahead(c))
        BY DEF NumbersOnce
      <3> HIDE DEF Load, Turns, Ahead
      <3>3. QED
        BY <1>4, <1>6, <2>1, <3>1, <3>2
    <2>3. (file'.subs # {} \/ loop'.batch # {} => Turns' > 0) /\ Turns' >= 0
      <3>1. loop'.batch = {} /\ (file'.subs # {} => file.subs # {})
        BY <1>1 DEF Goto, Emptied
      <3>2. QED
        BY <1>6, <3>1 DEF NumbersOnce
    <2>4. QED
      BY <2>2, <2>3 DEF NumbersOnce
  <1>7. QED
    <2> HIDE DEF Turns
    <2>1. QED
      BY <1>4, <1>5, <1>6

\* A poll sends what is ahead, and the cursor passes it.
LEMMA StateNumbers ==
    ASSUME Typed, Typed', Boards, NumbersOnce, State
    PROVE  NumbersOnce'
  <1>1. Turns' = Turns /\ Turns \in Int
    BY TurnsIs DEF Turns, Asking, State
  <1>2. \A u \in Users, c \in Calls :
           /\ Load(u, c)' <= Load(u, c) + 1
           /\ ~ (game.board # <<>> /\ u \in loop.batch /\ c \in Range(Added)) =>
              Load(u, c)' <= Load(u, c)
    BY StateLoads
  <1>3. game' = game /\ file'.subs = file.subs /\ loop'.batch = {}
    <2>1. loop'.batch = {}
      BY DEF State, Goto
    <2>2. game' = game /\ file'.subs = file.subs
      BY DEF State, Typed, FileTyped
    <2>3. QED
      BY <2>1, <2>2
  <1>4. ASSUME NEW c \in Calls, game.board # <<>> PROVE Ahead(c)' <=> c > game.made
    <2>1. file'.seen = Len(game.board)
      BY <1>4 DEF State, Typed, FileTyped
    <2>2. \A p \in DOMAIN game.board : ~ (p > Len(game.board))
      BY LenProperties DEF Typed, GameTyped
    <2>3. QED
      BY <1>3, <2>1, <2>2 DEF Ahead
  <1>5. ASSUME NEW c \in Calls, game.board = <<>> PROVE Ahead(c)' <=> Ahead(c)
    <2>1. file' = file /\ mem' = mem
      BY <1>5 DEF State
    <2>2. QED
      BY <1>3, <2>1 DEF Ahead, Cold
  <1>6. ASSUME NEW u \in Users, NEW c \in Calls
        PROVE  Load(u, c)' <= Turns' /\ (Load(u, c)' = Turns' /\ Turns' > 0 => ~ Ahead(c)')
    <2>1. Load(u, c) \in Nat /\ Load(u, c)' \in Nat
      BY LoadIs, LoadAfter DEF Items
    <2>2. Load(u, c) <= Turns /\ (Load(u, c) = Turns /\ Turns > 0 => ~ Ahead(c))
      BY DEF NumbersOnce
    <2>3. CASE game.board # <<>> /\ u \in loop.batch /\ c \in Range(Added)
      <3>1. Turns > 0
        BY <2>3 DEF NumbersOnce
      <3>2. PICK p \in DOMAIN game.board : game.board[p] = c /\ p > file.seen
        BY <2>3, AddedIs
      <3>3. Ahead(c)
        BY <2>3, <3>2, AddedIs DEF Ahead, Cold
      <3>4. ~ (c > game.made)
        <4>1. c <= game.made /\ c \in Nat /\ game.made \in Nat
          BY <3>2, NotifierAssumption DEF Boards, Drawn, Calls, Typed, GameTyped
        <4>2. QED
          BY <4>1
      <3>5. Load(u, c)' <= Load(u, c) + 1
        BY <1>2
      <3>6. Load(u, c) # Turns
        BY <2>2, <3>1, <3>3
      <3>7. ~ Ahead(c)'
        BY <1>4, <2>3, <3>4
      <3> HIDE DEF Load, Turns, Ahead
      <3>8. QED
        BY <1>1, <2>1, <2>2, <3>5, <3>6, <3>7
    <2>4. CASE ~ (game.board # <<>> /\ u \in loop.batch /\ c \in Range(Added))
      <3>1. Load(u, c)' <= Load(u, c)
        BY <1>2, <2>4
      <3>2. ~ Ahead(c) => ~ Ahead(c)'
        <4>1. CASE game.board = <<>>
          BY <1>5, <4>1
        <4>2. CASE game.board # <<>>
          BY <1>4, <4>2 DEF Ahead
        <4>3. QED
          BY <4>1, <4>2
      <3> HIDE DEF Load, Turns, Ahead
      <3>3. QED
        BY <1>1, <2>1, <2>2, <3>1, <3>2
    <2>5. QED
      BY <2>3, <2>4
  <1>7. (file'.subs # {} \/ loop'.batch # {} => Turns' > 0) /\ Turns' >= 0
    BY <1>1, <1>3 DEF NumbersOnce
  <1>8. QED
    BY <1>6, <1>7 DEF NumbersOnce

\* The next notice captures no subscriber.
LEMMA NextNoticeBatch == ASSUME Typed PROVE NextNotice.batch \subseteq loop.batch
  BY DEF NextNotice, Goto, Typed, LoopTyped, LoopRecord

\* Every other step changes neither the turns nor what is ahead.
LEMMA CalmIs ==
    ASSUME Typed, [Next]_vars, ~ GameMoves, ~ State, ~ Asks, ~ Crashes
    PROVE  Calm
  <1>1. loop \in LoopRecord /\ NextNotice.batch \subseteq loop.batch /\ \A pc : Goto(pc).batch = {}
    BY NextNoticeBatch DEF Typed, LoopTyped, Goto
  <1>2. game'.board = game.board /\ game'.made = game.made
    BY GameKept
  <1>3. CASE Backend \/ Switches \/ UNCHANGED vars
    <2>1. CASE Backend
      BY <1>2, <2>1 DEF Backend, GameMoves, Detect, Decide, Calm
    <2>2. CASE Switches
      BY <1>2, <2>2 DEF Switches, Asks, SwitchOff, Calm, Typed, FileTyped
    <2>3. CASE UNCHANGED vars
      BY <2>3 DEF vars, Calm
    <2>4. QED
      BY <1>3, <2>1, <2>2, <2>3
  <1>4. CASE Poll
    <2>1. loop'.batch \subseteq file.subs
      BY <1>4 DEF Poll, Goto
    <2>2. QED
      BY <1>2, <1>4, <2>1 DEF Poll, Calm
  <1>5. CASE StateFails \/ Report \/ ReportFails \/ FetchNotices \/ FetchFails \/ AckFails
    <2>1. loop'.batch \subseteq loop.batch
      <3>1. CASE StateFails \/ ReportFails \/ FetchFails \/ AckFails
        BY <1>1, <3>1 DEF StateFails, ReportFails, FetchFails, AckFails
      <3>2. CASE Report
        BY <3>2 DEF Report, Goto
      <3>3. CASE FetchNotices
        BY <3>3 DEF FetchNotices, Goto
      <3>4. QED
        BY <1>5, <3>1, <3>2, <3>3
    <2>2. UNCHANGED <<file, mem, told, asked>>
      BY <1>5 DEF StateFails, Report, ReportFails, FetchNotices, FetchFails, AckFails
    <2>3. QED
      BY <1>2, <2>1, <2>2 DEF Calm
  <1>6. ASSUME NEW pc, NEW next, Put(pc, next) PROVE Calm
    <2>1. loop'.batch \subseteq loop.batch
      BY <1>1, <1>6 DEF Put, LoopRecord
    <2>2. QED
      BY <1>2, <1>6, <2>1 DEF Put, Calm
  <1>7. CASE Live \/ LiveMark \/ Prize \/ MarkPrize \/ MarkEnded
    <2>1. loop'.batch \subseteq loop.batch
      BY <1>1, <1>7 DEF Live, LiveMark, Prize, MarkPrize, MarkEnded, LoopRecord
    <2>2. file'.seen = file.seen /\ file'.subs = file.subs
      BY <1>7 DEF Live, LiveMark, Prize, MarkPrize, MarkEnded, Marked, Typed, FileTyped
    <2>3. UNCHANGED <<told, asked>> /\ mem'.warm = mem.warm
      BY <1>7 DEF Live, LiveMark, Prize, MarkPrize, MarkEnded, Typed, MemTyped
    <2>4. QED
      BY <1>2, <2>1, <2>2, <2>3 DEF Calm
  <1>8. ASSUME NEW ok \in BOOLEAN, LiveSend(ok) \/ EndNotice(ok) \/ Ack(ok) PROVE Calm
    <2>1. loop'.batch \subseteq loop.batch
      BY <1>1, <1>8 DEF LiveSend, EndNotice, Ack, LoopRecord
    <2>2. file' = file /\ asked' = asked
      BY <1>8 DEF LiveSend, EndNotice, Ack
    <2>3. told'.ons = told.ons
      BY <1>8 DEF LiveSend, EndNotice, Ack, Typed, ToldTyped
    <2>4. mem'.warm = mem.warm
      BY <1>8 DEF LiveSend, EndNotice, Ack, Typed, MemTyped
    <2>5. QED
      BY <1>2, <2>1, <2>2, <2>3, <2>4 DEF Calm
  <1>12. ASSUME NEW outcome \in Outcomes, Notice(outcome) PROVE Calm
    <2>1. loop'.batch \subseteq loop.batch
      BY <1>1, <1>12 DEF Notice, AfterFailure, LoopRecord
    <2>2. file' = file /\ asked' = asked /\ told'.ons = told.ons
      BY <1>12, NoticeTells DEF Notice
    <2>3. mem'.warm = mem.warm
      BY <1>12 DEF Notice, Typed, MemTyped
    <2>4. QED
      BY <1>2, <2>1, <2>2, <2>3 DEF Calm
  <1>9. ASSUME NEW w \in Workers, Sender(w) PROVE Calm
    <2>1. loop' = loop /\ asked' = asked
      BY <1>9 DEF Sender, Take, Deliver, DeliverFails, DeadUser, CancelTask
    <2>2. file'.seen = file.seen /\ file'.subs \subseteq file.subs
      BY <1>9 DEF Sender, Take, Deliver, DeliverFails, DeadUser, CancelTask, Typed, FileTyped
    <2>3. told'.ons = told.ons
      BY <1>9 DEF Sender, Take, Deliver, DeliverFails, DeadUser, CancelTask, Typed, ToldTyped
    <2>4. mem'.warm = mem.warm
      BY <1>9 DEF Sender, Take, Deliver, DeliverFails, DeadUser, CancelTask, Typed, MemTyped
    <2>5. QED
      BY <1>2, <2>1, <2>2, <2>3, <2>4 DEF Calm
  <1>10. CASE Loop
    BY <1>4, <1>5, <1>6, <1>7, <1>8, <1>10, <1>12 DEF Loop
  <1>11. QED
    BY <1>3, <1>9, <1>10 DEF Next, Crashes

\* Every step keeps the numbers told once a turn of the switch.
LEMMA NumbersStep ==
    ASSUME Typed, Typed', Boards, NumbersOnce, [Next]_vars
    PROVE  NumbersOnce'
  <1>1. CASE State
    BY <1>1, StateNumbers
  <1>2. ASSUME ~ State PROVE Falls(Calls)
    BY <1>2, MostFall, PrizeLoads DEF Falls, Items
  <1>3. CASE ~ State /\ GameMoves
    BY <1>2, <1>3, GameNumbers
  <1>4. CASE ~ State /\ Asks
    BY <1>2, <1>4, AskOnNumbers, SwitchOnNumbers, NotifierAssumption DEF Asks
  <1>5. CASE ~ State /\ Crashes
    BY <1>2, <1>5, CrashNumbers DEF Crashes
  <1>6. CASE ~ State /\ ~ GameMoves /\ ~ Asks /\ ~ Crashes
    BY <1>2, <1>6, CalmIs, NumbersKept
  <1>7. QED
    BY <1>1, <1>3, <1>4, <1>5, <1>6

-----------------------------------------------------------------------------
(* The win and the end *)

InReport == {"live", "topic", "prize", "winner", "marked", "ended", "reported"}
Milestones ==
    \/ Report \/ Prize \/ MarkPrize \/ MarkEnded \/ Crashes
    \/ \E reached \in BOOLEAN : EndNotice(reached)

\* Between the milestones of a report the marks and the messages of its events rest.
Smooth ==
    /\ loop'.pc \in InReport => loop.pc \in InReport /\ loop'.won = loop.won
    /\ loop'.pc \in {"winner", "marked"} <=> loop.pc \in {"winner", "marked"}
    /\ loop'.pc = "ended" <=> loop.pc = "ended"
    /\ loop'.pc = "reported" <=> loop.pc = "reported"
    /\ loop'.won => loop.won
    /\ told'.ended = told.ended /\ told'.quick = told.quick
    /\ file'.prize = file.prize /\ file'.ended = file.ended
    /\ mem'.reports = mem.reports

\* A place of the loop that keeps nothing knows of no win.
LEMMA GotoIs == ASSUME NEW pc PROVE Goto(pc).pc = pc /\ Goto(pc).won = FALSE
  BY DEF Goto

\* Between its milestones the report leaves the win and the end alone.
LEMMA SmoothIs == ASSUME Typed, [Next]_vars, ~ Milestones PROVE Smooth
  <1>1. /\ loop \in LoopRecord /\ loop.won \in BOOLEAN
        /\ told.ended = told.ended
    BY DEF Typed, LoopTyped, LoopRecord
  <1> DEFINE Here == /\ told'.ended = told.ended /\ told'.quick = told.quick
                     /\ file'.prize = file.prize /\ file'.ended = file.ended
                     /\ mem'.reports = mem.reports
             Phase == /\ loop'.pc \in InReport => loop.pc \in InReport /\ loop'.won = loop.won
                      /\ loop'.pc \in {"winner", "marked"} <=> loop.pc \in {"winner", "marked"}
                      /\ loop'.pc = "ended" <=> loop.pc = "ended"
                      /\ loop'.pc = "reported" <=> loop.pc = "reported"
                      /\ loop'.won => loop.won
  <1>2. ASSUME loop' = loop PROVE Phase
    BY <1>2
  <1>3. ASSUME loop.pc \notin InReport, loop'.pc \notin InReport, loop'.won = FALSE PROVE Phase
    BY <1>3 DEF InReport
  <1>4. ASSUME loop.pc \in {"live", "topic", "prize"}, loop'.pc \in {"live", "topic", "prize"},
               loop'.won = loop.won
        PROVE  Phase
    BY <1>4 DEF InReport
  <1>5. ASSUME loop.pc \in {"winner", "marked"}, loop'.pc \in {"winner", "marked"},
               loop'.won = loop.won
        PROVE  Phase
    BY <1>5 DEF InReport
  <1>6. ASSUME loop.pc \notin InReport, loop'.pc \notin InReport, loop'.won = loop.won PROVE Phase
    BY <1>6 DEF InReport
  <1> HIDE DEF Phase
  <1>7. CASE Backend \/ Switches \/ UNCHANGED vars
    <2>1. loop' = loop /\ told'.ended = told.ended /\ told'.quick = told.quick /\ mem' = mem
      BY <1>7 DEF Backend, Call, Undo, Detect, Decide, Switches, AskOn, SwitchOn, SwitchOff, vars,
         Typed, ToldTyped
    <2>2. file'.prize = file.prize /\ file'.ended = file.ended
      BY <1>7 DEF Backend, Call, Undo, Detect, Decide, Switches, AskOn, SwitchOn, SwitchOff, vars,
         Typed, FileTyped
    <2>3. QED
      BY <1>2, <2>1, <2>2 DEF Phase, Smooth
  <1>8. CASE Poll \/ State \/ StateFails \/ ReportFails
    <2>1. loop.pc \notin InReport
      BY <1>8 DEF Poll, State, StateFails, ReportFails, InReport
    <2>2. loop'.pc \notin InReport /\ loop'.won = FALSE
      <3>1. CASE Poll
        BY <3>1 DEF Poll, Goto, InReport
      <3>2. CASE State
        BY <3>2 DEF State, Goto, InReport
      <3>3. CASE StateFails
        BY <3>3 DEF StateFails, Goto, InReport
      <3>4. CASE ReportFails
        BY <3>4 DEF ReportFails, Goto, InReport
      <3>5. QED
        BY <1>8, <3>1, <3>2, <3>3, <3>4
    <2>3. Here
      BY <1>8 DEF Poll, State, StateFails, ReportFails, Typed, FileTyped, MemTyped
    <2>4. QED
      BY <1>3, <2>1, <2>2, <2>3 DEF Phase, Smooth
  <1>9. CASE Put("put", "report")
    <2>1. loop.pc \notin InReport /\ loop'.pc \notin InReport /\ loop'.won = loop.won
      BY <1>1, <1>9 DEF Put, LoopRecord, InReport
    <2>2. Here
      BY <1>9 DEF Put
    <2>3. QED
      BY <1>6, <2>1, <2>2 DEF Phase, Smooth
  <1>10. CASE Put("winner", "marked")
    <2>1. loop.pc \in {"winner", "marked"} /\ loop'.pc \in {"winner", "marked"} /\
          loop'.won = loop.won
      BY <1>1, <1>10 DEF Put, LoopRecord
    <2>2. Here
      BY <1>10 DEF Put
    <2>3. QED
      BY <1>5, <2>1, <2>2 DEF Phase, Smooth
  <1>11. CASE Live \/ LiveMark
    <2>1. loop.pc \in {"live", "topic", "prize"} /\ loop'.pc \in {"live", "topic", "prize"} /\
          loop'.won = loop.won
      BY <1>1, <1>11 DEF Live, LiveMark, LoopRecord
    <2>2. Here
      BY <1>11 DEF Live, LiveMark, Typed, FileTyped
    <2>3. QED
      BY <1>4, <2>1, <2>2 DEF Phase, Smooth
  <1>12. ASSUME NEW ok \in BOOLEAN, LiveSend(ok) PROVE Smooth
    <2>1. loop.pc \in {"live", "topic", "prize"} /\ loop'.pc \in {"live", "topic", "prize"} /\
          loop'.won = loop.won
      BY <1>1, <1>12 DEF LiveSend, LoopRecord
    <2>2. Here
      <3>1. told'.ended = told.ended /\ told'.quick = told.quick /\ mem' = mem
        BY <1>12 DEF LiveSend, Typed, ToldTyped
      <3>2. file' = file
        BY <1>12 DEF LiveSend
      <3>3. QED
        BY <3>1, <3>2
    <2>3. QED
      BY <1>4, <2>1, <2>2 DEF Phase, Smooth
  <1>13. /\ NextNotice.pc \notin InReport \/ NextNotice.pc = loop.pc
         /\ NextNotice.won \in {loop.won, FALSE}
         /\ loop.pc \notin InReport => NextNotice.pc \notin InReport
    BY <1>1, GotoIs DEF NextNotice, LoopRecord, InReport
  <1>14. ASSUME loop.pc \notin InReport, loop'.pc \notin InReport,
                loop'.won \in {loop.won, FALSE}
         PROVE  Phase
    BY <1>3, <1>6, <1>14
  <1>15. CASE FetchNotices \/ FetchFails \/ AckFails
    <2>1. loop.pc \notin InReport
      BY <1>15 DEF FetchNotices, FetchFails, AckFails, InReport
    <2>2. loop'.pc \notin InReport /\ loop'.won \in {loop.won, FALSE}
      <3>1. CASE FetchNotices
        BY <3>1 DEF FetchNotices, Goto, InReport
      <3>2. CASE FetchFails
        BY <3>2 DEF FetchFails, Goto, InReport
      <3>3. CASE AckFails
        BY <3>3, <2>1, <1>13 DEF AckFails
      <3>4. QED
        BY <1>15, <3>1, <3>2, <3>3
    <2>3. Here
      BY <1>15 DEF FetchNotices, FetchFails, AckFails
    <2>4. QED
      BY <1>14, <2>1, <2>2, <2>3 DEF Phase, Smooth
  <1>16. ASSUME NEW outcome \in Outcomes, Notice(outcome) PROVE Smooth
    <2>1. loop.pc \notin InReport
      BY <1>16 DEF Notice, InReport
    <2>2. loop'.pc \notin InReport /\ loop'.won \in {loop.won, FALSE}
      <3>1. CASE loop' = NextNotice
        BY <3>1, <2>1, <1>13
      <3>2. CASE loop' = [loop EXCEPT !.pc = "ack"]
        BY <3>2, <1>1 DEF LoopRecord, InReport
      <3>3. QED
        BY <1>16, <3>1, <3>2 DEF Notice, AfterFailure
    <2>3. Here
      <3>1. file' = file
        BY <1>16 DEF Notice
      <3>2. told'.ended = told.ended /\ told'.quick = told.quick
        BY <1>16, NoticeTells
      <3>3. mem'.reports = mem.reports
        BY <1>16 DEF Notice, Typed, MemTyped
      <3>4. QED
        BY <3>1, <3>2, <3>3
    <2>4. QED
      BY <1>14, <2>1, <2>2, <2>3 DEF Phase, Smooth
  <1>20. ASSUME NEW ok \in BOOLEAN, Ack(ok) PROVE Smooth
    <2>1. loop.pc \notin InReport
      BY <1>20 DEF Ack, InReport
    <2>2. loop'.pc \notin InReport /\ loop'.won \in {loop.won, FALSE}
      BY <1>13, <1>20, <2>1 DEF Ack
    <2>3. Here
      BY <1>20 DEF Ack, Typed, MemTyped
    <2>4. QED
      BY <1>14, <2>1, <2>2, <2>3 DEF Phase, Smooth
  <1>17. ASSUME NEW w \in Workers, Sender(w) PROVE Smooth
    <2>1. loop' = loop
      BY <1>17 DEF Sender, Take, Deliver, DeliverFails, DeadUser, CancelTask
    <2>2. Here
      <3>1. file'.prize = file.prize /\ file'.ended = file.ended
        BY <1>17 DEF Sender, Take, Deliver, DeliverFails, DeadUser, CancelTask, Typed, FileTyped
      <3>2. told'.ended = told.ended /\ told'.quick = told.quick
        BY <1>17 DEF Sender, Take, Deliver, DeliverFails, DeadUser, CancelTask, Typed, ToldTyped
      <3>3. mem'.reports = mem.reports
        BY <1>17 DEF Sender, Take, Deliver, DeliverFails, DeadUser, CancelTask, Typed, MemTyped
      <3>4. QED
        BY <3>1, <3>2, <3>3
    <2>3. QED
      BY <1>2, <2>1, <2>2 DEF Phase, Smooth
  <1>18. CASE Loop
    BY <1>8, <1>9, <1>10, <1>11, <1>12, <1>15, <1>16, <1>18, <1>20 DEF Loop, Milestones
  <1>19. QED
    BY <1>7, <1>17, <1>18 DEF Next, Milestones, Crashes

\* What a report says has happened in the game.
HasWon ==
    /\ game.recent => game.won
    /\ loop.won => game.won
    /\ loop.pc \in {"winner", "marked"} => loop.won

\* A win that has been announced: it is marked, or it is being, or neither the
\* process nor the game can take it for new before it is.
Announced ==
    \/ file.prize
    \/ loop.pc \in {"winner", "marked"}
    \/ /\ ~ mem.reports /\ ~ game.recent /\ loop.pc \notin {"ended", "reported"}
       /\ loop.pc \in {"live", "topic", "prize"} => loop.won

\* A user has one message of the win, told or on its way, and one more for each restart
\* that found the win recent; with the last of them the win is announced.
WinOnce ==
    /\ HasWon
    /\ \A u \in Users :
          /\ Load(u, Win) <= 1 + told.quick
          /\ Load(u, Win) = 1 + told.quick => game.won /\ Announced

\* An end that has been reported: it is marked, or about to be, or known to be old.
Reported ==
    \/ file.ended
    \/ loop.pc = "reported" /\ loop.won
    \/ ~ mem.reports /\ ~ game.recent /\ (loop.pc \in InReport => loop.won)

\* The end is reported once, and once more for each restart that found it recent.
EndOnce ==
    /\ told.ended <= 1 + told.quick
    /\ told.ended = 1 + told.quick => game.won /\ Reported

\* A win stays, and is recent only when it is the first.
LEMMA WonIs ==
    ASSUME Typed, [Next]_vars
    PROVE  /\ game.won => game'.won
           /\ game'.recent => game.recent \/ (~ game.won /\ game'.won)
  <1>1. CASE ~ GameMoves
    BY <1>1, GameKept DEF Typed, GameTyped
  <1>2. CASE Undo
    BY <1>2 DEF Undo, Typed, GameTyped
  <1>3. ASSUME NEW winner \in Users \cup {None}, Call(winner)
        PROVE  /\ game.won => game'.won
               /\ game'.recent => game.recent \/ (~ game.won /\ game'.won)
    <2>1. game'.won = (game.won \/ winner # None)
      BY <1>3 DEF Call, Typed, GameTyped
    <2>2. game'.recent = (game.recent \/ (winner # None /\ ~ game.won))
      BY <1>3 DEF Call, Typed, GameTyped
    <2>3. QED
      BY <2>1, <2>2
  <1>4. QED
    BY <1>1, <1>2, <1>3 DEF GameMoves

\* What the milestones do.
LEMMA ReportIs ==
    ASSUME Typed, Report
    PROVE  /\ loop.pc = "report" /\ loop'.pc = "live" /\ loop'.won = game.won
           /\ UNCHANGED <<game, file, mem, told>>
  BY DEF Report, Goto

\* The first milestone: the win is seen (_queue_prize_notifications).
LEMMA PrizeIs ==
    ASSUME Typed, Prize
    PROVE  /\ loop.pc = "prize" /\ loop'.won = loop.won
           /\ UNCHANGED <<game, mem, told>> /\ file'.ended = file.ended
           /\ IF Announce(file.prize) /\ loop.winner # None
              THEN loop'.pc = "winner" /\ file'.prize = file.prize
              ELSE loop'.pc = "ended" /\ file'.prize = (file.prize \/ loop.won)
  <1>1. loop \in LoopRecord
    BY DEF Typed, LoopTyped
  <1>2. loop.pc = "prize" /\ UNCHANGED <<game, mem, told>>
    BY DEF Prize
  <1>3. loop'.won = loop.won
    BY <1>1 DEF Prize, LoopRecord
  <1>4. CASE Announce(file.prize) /\ loop.winner # None
    BY <1>1, <1>2, <1>3, <1>4 DEF Prize, LoopRecord
  <1>5. CASE ~ (Announce(file.prize) /\ loop.winner # None)
    <2>1. loop'.pc = "ended" /\ file' = [file EXCEPT !["prize"] = @ \/ loop.won]
      BY <1>1, <1>5 DEF Prize, LoopRecord, Marked
    <2>2. file'.prize = (file.prize \/ loop.won) /\ file'.ended = file.ended
      BY <2>1 DEF Typed, FileTyped
    <2>3. QED
      BY <1>2, <1>3, <1>5, <2>1, <2>2
  <1>6. QED
    BY <1>4, <1>5

\* The second: the win is marked (set_event_marker).
LEMMA MarkPrizeIs ==
    ASSUME Typed, MarkPrize
    PROVE  /\ loop.pc = "marked" /\ loop'.pc = "ended" /\ loop'.won = loop.won
           /\ UNCHANGED <<game, mem, told>> /\ file'.ended = file.ended
           /\ file'.prize = (file.prize \/ loop.won)
  <1>1. loop.pc = "marked" /\ loop'.pc = "ended" /\ loop'.won = loop.won /\
        UNCHANGED <<game, mem, told>>
    BY DEF MarkPrize, Typed, LoopTyped, LoopRecord
  <1>2. file' = [file EXCEPT !["prize"] = @ \/ loop.won]
    BY DEF MarkPrize, Marked
  <1>3. file'.prize = (file.prize \/ loop.won) /\ file'.ended = file.ended
    BY <1>2 DEF Typed, FileTyped
  <1>4. QED
    BY <1>1, <1>3

\* The third: the end is reported (_process_game_lifecycle_reports).
LEMMA EndNoticeIs ==
    ASSUME NEW reached \in BOOLEAN, Typed, EndNotice(reached)
    PROVE  /\ loop.pc = "ended" /\ loop'.pc = "reported" /\ loop'.won = loop.won
           /\ UNCHANGED <<game, file, mem>> /\ told'.quick = told.quick
           /\ told'.ended = told.ended \/ (Announce(file.ended) /\ told'.ended = told.ended + 1)
  <1>1. loop.pc = "ended" /\ UNCHANGED <<game, file, mem>>
    BY DEF EndNotice
  <1>2. loop'.pc = "reported" /\ loop'.won = loop.won
    BY DEF EndNotice, Typed, LoopTyped, LoopRecord
  <1>3. /\ told'.quick = told.quick
        /\ told'.ended = told.ended \/ (Announce(file.ended) /\ told'.ended = told.ended + 1)
    BY DEF EndNotice, Typed, ToldTyped
  <1>4. QED
    BY <1>1, <1>2, <1>3

\* The fourth: the end is marked.
LEMMA MarkEndedIs ==
    ASSUME Typed, MarkEnded
    PROVE  /\ loop.pc = "reported" /\ loop'.pc = "crypto" /\ loop'.won = FALSE
           /\ UNCHANGED <<game, told>>
           /\ file'.prize = file.prize /\ file'.ended = (file.ended \/ loop.won)
  <1>1. loop.pc = "reported" /\ loop'.pc = "crypto" /\ loop'.won = FALSE /\ UNCHANGED <<game, told>>
    BY DEF MarkEnded, Goto
  <1>2. file' = [file EXCEPT !["ended"] = @ \/ loop.won]
    BY DEF MarkEnded, Marked
  <1>3. file'.ended = (file.ended \/ loop.won) /\ file'.prize = file.prize
    BY <1>2 DEF Typed, FileTyped
  <1>4. QED
    BY <1>1, <1>3

\* A crash loses the report, and what was recent stays so only if the restart is quick.
LEMMA CrashIs ==
    ASSUME Typed, Crashes
    PROVE  /\ loop'.pc = "numbers" /\ loop'.won = FALSE
           /\ mem'.reports = FALSE /\ game'.won = game.won
           /\ game'.recent => game.recent
           /\ told'.quick \in {told.quick, told.quick + 1}
           /\ told'.quick = told.quick => game'.recent = FALSE
           /\ told'.ended = told.ended /\ told'.live = told.live /\ told'.notice = told.notice
           /\ told'.lost = told.lost /\ told'.crashes = told.crashes + 1
           /\ loop'.todo = <<>> /\ loop'.notices = <<>>
  <1>1. PICK wiped \in BOOLEAN, quick \in BOOLEAN : Crash(wiped, quick)
    BY DEF Crashes
  <1>2. loop'.pc = "numbers" /\ loop'.won = FALSE /\ loop'.todo = <<>> /\ loop'.notices = <<>>
    BY <1>1 DEF Crash, Goto
  <1>3. mem'.reports = FALSE
    BY <1>1 DEF Crash, Fresh
  <1>4. game'.recent = quick /\ (quick => game.recent) /\ game'.won = game.won
    BY <1>1 DEF Crash, Typed, GameTyped
  <1>5. /\ told'.ended = told.ended /\ told'.live = told.live /\ told'.notice = told.notice
        /\ told'.lost = told.lost /\ told'.crashes = told.crashes + 1
        /\ told'.quick = told.quick + IF quick THEN 1 ELSE 0
    BY <1>1 DEF Crash, Typed, ToldTyped
  <1>6. told.quick \in Nat
    BY DEF Typed, ToldTyped
  <1>7. QED
    BY <1>2, <1>3, <1>4, <1>5, <1>6

\* Quick restarts are counted.
LEMMA QuickIs ==
    ASSUME Typed, [Next]_vars
    PROVE  told.quick \in Nat /\ told'.quick \in {told.quick, told.quick + 1}
  <1>0. told.quick \in Nat
    BY DEF Typed, ToldTyped
  <1>1. CASE ~ Milestones
    BY <1>0, <1>1, SmoothIs DEF Smooth
  <1>2. CASE Report \/ Prize \/ MarkPrize \/ MarkEnded
    BY <1>0, <1>2 DEF Report, Prize, MarkPrize, MarkEnded
  <1>3. CASE Crashes
    BY <1>0, <1>3, CrashIs
  <1>4. ASSUME NEW reached \in BOOLEAN, EndNotice(reached)
        PROVE  told'.quick \in {told.quick, told.quick + 1}
    BY <1>4, EndNoticeIs
  <1>5. QED
    BY <1>0, <1>1, <1>2, <1>3, <1>4 DEF Milestones

\* A win stays known to the game.
LEMMA HasWonStep == ASSUME Typed, HasWon, [Next]_vars PROVE HasWon'
  <1>1. (game.won => game'.won) /\ (game'.recent => game'.won)
    BY WonIs DEF HasWon
  <1>2. CASE ~ Milestones
    <2>1. Smooth
      BY <1>2, SmoothIs
    <2>2. QED
      BY <1>1, <2>1 DEF HasWon, Smooth, InReport
  <1>3. CASE Report
    BY <1>1, <1>3, ReportIs DEF HasWon
  <1>4. CASE Prize
    <2>1. loop'.pc = "winner" => loop.won
      BY <1>4, PrizeIs DEF Announce
    <2>2. loop'.pc # "marked" /\ loop'.won = loop.won
      BY <1>4, PrizeIs
    <2>3. QED
      BY <1>1, <2>1, <2>2 DEF HasWon
  <1>5. CASE MarkPrize
    BY <1>1, <1>5, MarkPrizeIs DEF HasWon
  <1>6. CASE Crashes
    BY <1>1, <1>6, CrashIs DEF HasWon
  <1>7. ASSUME NEW reached \in BOOLEAN, EndNotice(reached) PROVE HasWon'
    BY <1>1, <1>7, EndNoticeIs DEF HasWon
  <1>8. CASE MarkEnded
    BY <1>1, <1>8, MarkEndedIs DEF HasWon
  <1>9. QED
    BY <1>2, <1>3, <1>4, <1>5, <1>6, <1>7, <1>8 DEF Milestones

\* Nobody can take a win for new that has been announced, but after a quick restart.
LEMMA AnnouncedStep ==
    ASSUME Typed, HasWon, game.won, Announced, [Next]_vars, told'.quick = told.quick
    PROVE  Announced'
  <1>1. game'.recent => game.recent
    BY WonIs
  <1>2. CASE ~ Milestones
    <2>1. Smooth
      BY <1>2, SmoothIs
    <2>2. QED
      BY <1>1, <2>1 DEF Announced, Smooth, InReport
  <1>3. CASE Report
    BY <1>1, <1>3, ReportIs DEF Announced
  <1>4. CASE Prize
    BY <1>1, <1>4, PrizeIs DEF Announced
  <1>5. CASE MarkPrize
    BY <1>5, MarkPrizeIs DEF Announced, HasWon
  <1>6. CASE Crashes
    BY <1>6, CrashIs DEF Announced
  <1>7. ASSUME NEW reached \in BOOLEAN, EndNotice(reached) PROVE Announced'
    BY <1>7, EndNoticeIs DEF Announced
  <1>8. CASE MarkEnded
    BY <1>8, MarkEndedIs DEF Announced
  <1>9. QED
    BY <1>2, <1>3, <1>4, <1>5, <1>6, <1>7, <1>8 DEF Milestones

\* Every step keeps the winner told once, and once more for each quick restart.
LEMMA WinStep ==
    ASSUME Typed, Typed', Boards, WinOnce, [Next]_vars
    PROVE  WinOnce'
  <1>0. told.quick \in Nat /\ told'.quick \in {told.quick, told.quick + 1}
    BY QuickIs
  <1>1. HasWon'
    BY HasWonStep DEF WinOnce
  <1>2. game.won => game'.won
    BY WonIs
  <1>3. ASSUME NEW u \in Users PROVE Load(u, Win) \in Nat /\ Load(u, Win)' \in Nat
    BY LoadIs, LoadAfter DEF Items
  <1>4. CASE Falls({Win})
    <2>1. ASSUME NEW u \in Users
          PROVE  /\ Load(u, Win)' <= 1 + told'.quick
                 /\ Load(u, Win)' = 1 + told'.quick => game'.won /\ Announced'
      <3>1. Load(u, Win)' <= Load(u, Win) /\ Load(u, Win) \in Nat /\ Load(u, Win)' \in Nat
        BY <1>3, <1>4 DEF Falls
      <3>2. /\ Load(u, Win) <= 1 + told.quick
            /\ Load(u, Win) = 1 + told.quick => game.won /\ Announced
        BY DEF WinOnce
      <3>3. game.won /\ Announced /\ told'.quick = told.quick => game'.won /\ Announced'
        BY <1>2, AnnouncedStep DEF WinOnce
      <3> HIDE DEF Load, Announced
      <3>4. QED
        BY <1>0, <3>1, <3>2, <3>3
    <2>2. QED
      BY <1>1, <2>1 DEF WinOnce
  <1>5. CASE Prize /\ Announce(file.prize) /\ loop.winner # None
    <2>1. loop.pc = "prize" /\ loop'.pc = "winner" /\ game' = game /\ told' = told
      BY <1>5, PrizeIs
    <2>2. loop.won /\ ~ file.prize /\ (mem.reports \/ game.recent)
      BY <1>5 DEF Announce
    <2>3. game.won /\ ~ Announced
      BY <2>1, <2>2 DEF WinOnce, HasWon, Announced
    <2>4. Announced' /\ game'.won
      BY <2>1, <2>3 DEF Announced
    <2>5. ASSUME NEW u \in Users PROVE Load(u, Win)' <= 1 + told'.quick
      <3>1. Load(u, Win)' <= Load(u, Win) + 1 /\ Load(u, Win) \in Nat /\ Load(u, Win)' \in Nat
        BY <1>3, <1>5, PrizeLoads
      <3>2. Load(u, Win) <= 1 + told.quick /\ Load(u, Win) # 1 + told.quick
        BY <2>3 DEF WinOnce
      <3> HIDE DEF Load
      <3>3. QED
        BY <1>0, <2>1, <3>1, <3>2
    <2>6. QED
      BY <1>1, <2>4, <2>5 DEF WinOnce
  <1>6. ASSUME ~ (Prize /\ Announce(file.prize) /\ loop.winner # None) PROVE Falls({Win})
    <2>1. CASE State
      BY <2>1, StateLoads
    <2>2. CASE Prize
      BY <1>6, <2>2, PrizeLoads
    <2>3. CASE ~ State /\ ~ Prize
      BY <2>3, MostFall DEF Falls, Items
    <2>4. QED
      BY <2>1, <2>2, <2>3
  <1>7. QED
    BY <1>4, <1>5, <1>6

\* Every step keeps the end reported once, and once more for each quick restart.
LEMMA EndStep ==
    ASSUME Typed, HasWon, EndOnce, [Next]_vars
    PROVE  EndOnce'
  <1>0. told.ended \in Nat /\ told.quick \in Nat
    BY DEF Typed, ToldTyped
  <1>1. (game.won => game'.won) /\ (game'.recent => game.recent \/ ~ game.won)
    BY WonIs
  <1>2. CASE ~ Milestones
    <2>1. Smooth
      BY <1>2, SmoothIs
    <2>2. QED
      BY <1>1, <2>1 DEF EndOnce, Reported, Smooth, InReport
  <1>3. CASE Report
    BY <1>3, ReportIs DEF EndOnce, Reported, InReport
  <1>4. CASE Prize
    BY <1>4, PrizeIs DEF EndOnce, Reported, InReport
  <1>5. CASE MarkPrize
    BY <1>5, MarkPrizeIs DEF EndOnce, Reported, InReport
  <1>6. CASE Crashes
    <2>1. /\ told'.ended = told.ended /\ told'.quick \in {told.quick, told.quick + 1}
          /\ told'.quick = told.quick => game'.recent = FALSE
          /\ game'.won = game.won /\ mem'.reports = FALSE /\ loop'.pc = "numbers"
      BY <1>6, CrashIs
    <2>2. told'.quick = told.quick => Reported'
      BY <2>1 DEF Reported, InReport
    <2>3. told'.ended <= 1 + told'.quick /\ (told'.ended = 1 + told'.quick => told'.quick = told.quick)
      BY <1>0, <2>1 DEF EndOnce
    <2>4. QED
      BY <2>1, <2>2, <2>3 DEF EndOnce
  <1>7. ASSUME NEW reached \in BOOLEAN, EndNotice(reached) PROVE EndOnce'
    <2>1. /\ loop.pc = "ended" /\ loop'.pc = "reported" /\ loop'.won = loop.won
          /\ UNCHANGED <<game, file, mem>> /\ told'.quick = told.quick
          /\ told'.ended = told.ended \/ (Announce(file.ended) /\ told'.ended = told.ended + 1)
      BY <1>7, EndNoticeIs
    <2>2. CASE told'.ended = told.ended
      BY <2>1, <2>2 DEF EndOnce, Reported, InReport
    <2>3. CASE Announce(file.ended) /\ told'.ended = told.ended + 1
      <3>1. loop.won /\ ~ file.ended /\ (mem.reports \/ game.recent) /\ game.won
        BY <2>3 DEF Announce, HasWon
      <3>2. told.ended <= 1 + told.quick /\ told.ended # 1 + told.quick
        BY <2>1, <3>1 DEF EndOnce, Reported
      <3>3. told'.ended <= 1 + told'.quick
        BY <1>0, <2>1, <2>3, <3>2
      <3>4. game'.won /\ Reported'
        BY <2>1, <3>1 DEF Reported
      <3>5. QED
        BY <3>3, <3>4 DEF EndOnce
    <2>4. QED
      BY <2>1, <2>2, <2>3
  <1>8. CASE MarkEnded
    BY <1>8, MarkEndedIs DEF EndOnce, Reported, InReport
  <1>9. QED
    BY <1>2, <1>3, <1>4, <1>5, <1>6, <1>7, <1>8 DEF Milestones

-----------------------------------------------------------------------------
(* The live topic *)

LiveLoad(c) == told.live[c] + Count(loop.todo, c)
Marker(q) == file.live # None /\ q <= file.live

\* A call the live topic cannot get again as long as the bot runs.
Passed(c) ==
    /\ c <= game.made
    /\ \A q \in DOMAIN game.board : game.board[q] = c =>
          IF loop.pc = "topic" THEN q <= Len(loop.seen)
          ELSE Marker(q) /\ (loop.pc = "live" => q <= Len(loop.seen))
    /\ loop.pc = "live" => \A p \in DOMAIN loop.seen : loop.seen[p] = c => Marker(p)

\* A call is posted once, and once more for each crash; all of this is used up only by a
\* call the marker has passed.
LiveOnce ==
    /\ loop.pc # "topic" => loop.todo = <<>>
    /\ \A c \in Calls : LiveLoad(c) <= 1 + told.crashes /\
       (LiveLoad(c) = 1 + told.crashes => Passed(c))

\* The load of the live topic, and what it is the sum of, are numbers.
LEMMA LiveLoadIs ==
    ASSUME Typed, NEW c \in Calls
    PROVE  told.live[c] \in Nat /\ Count(loop.todo, c) \in Nat /\ LiveLoad(c) \in Nat /\
           told.crashes \in Nat
  <1>1. told.live[c] \in Nat
    BY DEF Typed, ToldTyped, Tally
  <1>2. Count(loop.todo, c) \in Nat
    BY CountFinite DEF Typed, LoopTyped, LoopRecord
  <1>3. told.crashes \in Nat
    BY DEF Typed, ToldTyped
  <1>4. QED
    BY <1>1, <1>2, <1>3 DEF LiveLoad

\* The same after a step.
LEMMA LiveLoadAfter ==
    ASSUME Typed', NEW c \in Calls
    PROVE  /\ told'.live[c] \in Nat /\ Count(loop'.todo, c) \in Nat /\ told'.crashes \in Nat
           /\ LiveLoad(c)' = told'.live[c] + Count(loop'.todo, c)
  <1>1. told'.live[c] \in Nat
    BY DEF Typed, ToldTyped, Tally
  <1>2. Count(loop'.todo, c) \in Nat
    BY CountFinite DEF Typed, LoopTyped, LoopRecord
  <1>3. told'.crashes \in Nat
    BY DEF Typed, ToldTyped
  <1>4. LiveLoad(c)' = told'.live[c] + Count(loop'.todo, c)
    BY DEF LiveLoad, Count, At
  <1>5. QED
    BY <1>1, <1>2, <1>3, <1>4

\* The steps that add nothing to the messages of the topic, and let no call return.
LEMMA LiveKept ==
    ASSUME Typed, Typed', LiveOnce,
           told'.crashes = told.crashes, loop'.pc # "topic" => loop'.todo = <<>>,
           \A c \in Calls : LiveLoad(c)' <= LiveLoad(c) /\ (Passed(c) => Passed(c)')
    PROVE  LiveOnce'
  <1>1. ASSUME NEW c \in Calls
        PROVE  LiveLoad(c)' <= 1 + told'.crashes /\ (LiveLoad(c)' = 1 + told'.crashes => Passed(c)')
    <2>1. LiveLoad(c) \in Nat /\ LiveLoad(c)' \in Nat /\ LiveLoad(c)' <= LiveLoad(c) /\
          told.crashes \in Nat
      BY LiveLoadIs, LiveLoadAfter
    <2>2. LiveLoad(c) <= 1 + told.crashes /\ (LiveLoad(c) = 1 + told.crashes => Passed(c))
      BY DEF LiveOnce
    <2>3. Passed(c) => Passed(c)'
      OBVIOUS
    <2> HIDE DEF LiveLoad, Passed
    <2>4. QED
      BY <2>1, <2>2, <2>3
  <1>2. QED
    BY <1>1 DEF LiveOnce

\* Elsewhere in the loop.
Aside == /\ told'.live = told.live /\ told'.crashes = told.crashes /\ file'.live = file.live
         /\ \/ loop' = loop
            \/ /\ loop.pc \notin {"live", "topic"} /\ loop'.pc \notin {"live", "topic"}
               /\ loop'.todo \in {loop.todo, <<>>}

\* A step aside of the topic keeps it.
LEMMA AsideLive ==
    ASSUME Typed, Typed', LiveOnce, Aside, game'.board = game.board, game'.made = game.made
    PROVE  LiveOnce'
  <1>1. loop'.pc # "topic" => loop'.todo = <<>>
    BY DEF LiveOnce, Aside
  <1>2. loop'.todo = loop.todo
    BY DEF LiveOnce, Aside
  <1>3. ASSUME NEW c \in Calls PROVE LiveLoad(c)' <= LiveLoad(c)
    <2>1. LiveLoad(c)' = LiveLoad(c)
      BY <1>2, LiveLoadAfter DEF LiveLoad, Aside
    <2>2. LiveLoad(c) \in Nat
      BY LiveLoadIs
    <2> HIDE DEF LiveLoad
    <2>3. QED
      BY <2>1, <2>2
  <1>4. ASSUME NEW c \in Calls, Passed(c) PROVE Passed(c)'
    BY <1>4 DEF Passed, Marker, Aside
  <1>5. QED
    BY <1>1, <1>3, <1>4, LiveKept DEF Aside

\* The game moves: a call that comes back is none the topic has had.
LEMMA GameLive ==
    ASSUME Typed, Typed', LiveOnce, GameMoves
    PROVE  LiveOnce'
  <1>1. file' = file /\ told' = told /\ loop' = loop
    BY DEF GameMoves, Call, Undo
  <1>2. ASSUME NEW c \in Calls PROVE LiveLoad(c)' <= LiveLoad(c)
    <2>1. LiveLoad(c)' = LiveLoad(c)
      BY <1>1, LiveLoadAfter DEF LiveLoad
    <2>2. LiveLoad(c) \in Nat
      BY LiveLoadIs
    <2> HIDE DEF LiveLoad
    <2>3. QED
      BY <2>1, <2>2
  <1>3. ASSUME NEW c \in Calls, Passed(c) PROVE Passed(c)'
    <2>1. game.board \in Seq(Calls) /\ game.made \in Nat /\ c \in Nat /\ c <= game.made
      BY <1>3, NotifierAssumption DEF Typed, GameTyped, Passed, Calls
    <2>2. \A q \in DOMAIN game'.board : game'.board[q] = c => q \in DOMAIN game.board /\
          game.board[q] = c
      <3>1. CASE Undo
        <4>1. game.board # <<>> /\ game'.board = Front(game.board)
          BY <2>1, <3>1 DEF Typed, GameTyped, Undo
        <4>2. Len(game.board) \in Nat \ {0} /\
              \A i \in 1 .. Len(game.board) : game.board[i] \in Calls
          BY <2>1, <4>1, EmptySeq, ElementOfSeq
        <4> DEFINE n == Len(game.board) - 1
        <4>3. /\ Front(game.board) \in Seq(Calls) /\ Len(Front(game.board)) = n
              /\ \A i \in 1 .. n : Front(game.board)[i] = game.board[i]
          <5>1. n \in Nat /\ Front(game.board) = SubSeq(game.board, 1, n)
            BY <4>2 DEF Front
          <5>2. QED
            BY <2>1, <4>2, <5>1, SubSeqProperties
        <4>4. DOMAIN game'.board = 1 .. n /\ DOMAIN game.board = 1 .. Len(game.board)
          BY <2>1, <4>1, <4>3, LenProperties
        <4>5. QED
          BY <4>1, <4>2, <4>3, <4>4
      <3>2. ASSUME NEW winner \in Users \cup {None}, Call(winner)
            PROVE  \A q \in DOMAIN game'.board : game'.board[q] = c => q \in DOMAIN game.board /\
                   game.board[q] = c
        <4>1. game'.board = Append(game.board, game.made + 1)
          BY <3>2 DEF Call, Typed, GameTyped
        <4>2. DOMAIN game.board = 1 .. Len(game.board) /\ Len(game.board) \in Nat
          BY <2>1, LenProperties
        <4>3. \A q \in DOMAIN game'.board :
                 game'.board[q] = game.made + 1 \/
                 (q \in DOMAIN game.board /\ game'.board[q] = game.board[q])
          BY <2>1, <4>1, <4>2
        <4>4. c # game.made + 1
          BY <2>1
        <4>5. QED
          BY <4>3, <4>4
      <3>3. QED
        BY <3>1, <3>2 DEF GameMoves
    <2>3. c <= game'.made
      <3>1. game'.made = game.made \/ game'.made = game.made + 1
        BY DEF GameMoves, Call, Undo, Typed, GameTyped
      <3>2. QED
        BY <2>1, <3>1
    <2>4. QED
      BY <1>1, <1>3, <2>2, <2>3 DEF Passed, Marker
  <1>4. told'.crashes = told.crashes /\ (loop'.pc # "topic" => loop'.todo = <<>>)
    BY <1>1 DEF LiveOnce
  <1>5. QED
    BY <1>2, <1>3, <1>4, LiveKept

\* The report of the game arrives: the marker knows what the topic had.
LEMMA ReportLive ==
    ASSUME Typed, Typed', LiveOnce, Report
    PROVE  LiveOnce'
  <1>1. /\ file' = file /\ told' = told /\ game' = game /\ loop.pc = "report"
        /\ loop'.pc = "live" /\ loop'.todo = <<>> /\ loop'.seen = game.board
    BY DEF Report, Goto
  <1>2. ASSUME NEW c \in Calls PROVE LiveLoad(c)' <= LiveLoad(c)
    <2>1. LiveLoad(c)' = LiveLoad(c)
      BY <1>1, LiveLoadAfter DEF LiveLoad, LiveOnce
    <2>2. LiveLoad(c) \in Nat
      BY LiveLoadIs
    <2> HIDE DEF LiveLoad
    <2>3. QED
      BY <2>1, <2>2
  <1>3. ASSUME NEW c \in Calls, Passed(c) PROVE Passed(c)'
    <2>1. \A q \in DOMAIN game.board : q <= Len(game.board)
      BY LenProperties DEF Typed, GameTyped
    <2>2. QED
      BY <1>1, <1>3, <2>1 DEF Passed, Marker
  <1>4. QED
    BY <1>1, <1>2, <1>3, LiveKept

\* The report is compared with the marker: the messages for the topic are made.
LEMMA LiveLive ==
    ASSUME Typed, Typed', Boards, LiveOnce, Live
    PROVE  LiveOnce'
  <1>1. /\ told' = told /\ game' = game /\ loop.pc = "live" /\ loop.todo = <<>> /\
           loop'.seen = loop.seen
        /\ told.crashes \in Nat
    <2>1. told' = told /\ game' = game /\ loop.pc = "live" /\ loop.todo = <<>>
      BY DEF Live, LiveOnce
    <2>2. loop'.seen = loop.seen
      BY DEF Live, Typed, LoopTyped, LoopRecord
    <2>3. told.crashes \in Nat
      BY DEF Typed, ToldTyped
    <2>4. QED
      BY <2>1, <2>2, <2>3
  <1>2. CASE LiveAdded = <<>>
    <2>1. loop'.pc = "prize" /\ loop'.todo = <<>> /\ file'.live = Len(loop.seen)
      <3>1. loop' = [loop EXCEPT !.pc = "prize"] /\ file' = [file EXCEPT !.live = Len(loop.seen)]
        BY <1>2 DEF Live
      <3>2. QED
        BY <1>1, <3>1 DEF Typed, LoopTyped, LoopRecord, FileTyped
    <2>2. ASSUME NEW c \in Calls PROVE LiveLoad(c)' <= LiveLoad(c)
      <3>1. LiveLoad(c)' = LiveLoad(c)
        BY <1>1, <2>1, LiveLoadAfter DEF LiveLoad
      <3>2. LiveLoad(c) \in Nat
        BY LiveLoadIs
      <3> HIDE DEF LiveLoad
      <3>3. QED
        BY <3>1, <3>2
    <2>3. ASSUME NEW c \in Calls, Passed(c) PROVE Passed(c)'
      <3>1. file'.live # None
        BY <2>1, NotifierAssumption, LenProperties DEF Typed, LoopTyped, LoopRecord
      <3>2. QED
        BY <1>1, <2>1, <2>3, <3>1 DEF Passed, Marker
    <2>4. QED
      BY <1>1, <2>1, <2>2, <2>3, LiveKept
  <1>3. CASE LiveAdded # <<>>
    <2>1. loop'.pc = "topic" /\ loop'.todo = LiveAdded /\ file' = file
      BY <1>3 DEF Live, Typed, LoopTyped, LoopRecord
    <2>2. file.live # None /\ LiveAdded = SubSeq(loop.seen, file.live + 1, Len(loop.seen))
      BY <1>3 DEF LiveAdded
    <2>3. loop.seen \in Seq(Calls) /\ Rising(loop.seen) /\ file.live \in Nat
      BY <2>2, NotifierAssumption DEF Typed, FileTyped, LoopTyped, LoopRecord, Boards, Drawn
    <2>4. /\ LiveAdded \in Seq(Calls) /\ IsInjective(LiveAdded)
          /\ \A c : c \in Range(LiveAdded) <=> \E p \in DOMAIN loop.seen : loop.seen[p] = c /\
             p > file.live
      BY ZenonT(30), <2>2, <2>3, RestIs
    <2>5. \A p \in DOMAIN loop.seen : p \in Nat /\ p <= Len(loop.seen)
      BY <2>3, LenProperties
    <2>6. ASSUME NEW c \in Calls
          PROVE  LiveLoad(c)' <= 1 + told'.crashes /\
                 (LiveLoad(c)' = 1 + told'.crashes => Passed(c)')
      <3>1. LiveLoad(c) = told.live[c] /\ told.live[c] \in Nat
        <4>1. Count(loop.todo, c) = 0
          BY <1>1, CountEmpty
        <4>2. told.live[c] \in Nat
          BY LiveLoadIs
        <4> HIDE DEF Count
        <4>3. QED
          BY <4>1, <4>2 DEF LiveLoad
      <3>2. LiveLoad(c)' = told.live[c] + Count(LiveAdded, c) /\ Count(LiveAdded, c) \in Nat
        BY <1>1, <2>1, LiveLoadAfter
      <3>3. LiveLoad(c) <= 1 + told.crashes /\ (LiveLoad(c) = 1 + told.crashes => Passed(c))
        BY DEF LiveOnce
      <3>4. CASE c \in Range(LiveAdded)
        <4>1. PICK p \in DOMAIN loop.seen : loop.seen[p] = c /\ p > file.live
          BY <2>4, <3>4
        <4>2. ~ Passed(c)
          <5>1. ~ Marker(p)
            BY <2>3, <2>5, <4>1 DEF Marker
          <5>2. QED
            BY <1>1, <4>1, <5>1 DEF Passed
        <4>3. Count(LiveAdded, c) <= 1
          BY <2>4, CountOnce
        <4>4. Passed(c)'
          <5>1. c <= game.made
            BY <4>1 DEF Boards, Drawn
          <5>2. \A q \in DOMAIN game.board : game.board[q] = c => q <= Len(loop.seen)
            BY <2>5, <4>1 DEF Boards
          <5>3. QED
            BY <1>1, <2>1, <5>1, <5>2 DEF Passed
        <4> HIDE DEF LiveLoad, Passed, Count
        <4>5. QED
          BY <1>1, <3>1, <3>2, <3>3, <4>2, <4>3, <4>4
      <3>5. CASE c \notin Range(LiveAdded)
        <4>1. \A k \in DOMAIN LiveAdded : LiveAdded[k] # c
          BY <3>5 DEF Range
        <4>2. Count(LiveAdded, c) = 0
          BY <2>4, <4>1, CountOnce
        <4>3. Passed(c) => Passed(c)'
          BY <1>1, <2>1 DEF Passed
        <4> HIDE DEF LiveLoad, Passed, Count
        <4>4. QED
          BY <1>1, <3>1, <3>2, <3>3, <4>2, <4>3
      <3>6. QED
        BY <3>4, <3>5
    <2>7. QED
      BY <2>1, <2>6 DEF LiveOnce
  <1>4. QED
    BY <1>2, <1>3

\* A call is posted, or fails to be: it leaves the messages.
LEMMA LiveSendLive ==
    ASSUME NEW reached \in BOOLEAN, Typed, Typed', LiveOnce, LiveSend(reached)
    PROVE  LiveOnce'
  <1>1. /\ loop.todo \in Seq(Calls) /\ loop.todo # <<>> /\ loop.pc = "topic"
        /\ game' = game /\ file' = file
    BY DEF Typed, LoopTyped, LoopRecord, LiveSend
  <1>2. Head(loop.todo) \in Calls
    BY <1>1, HeadTailProperties, EmptySeq
  <1>3. loop'.todo = Tail(loop.todo) /\ loop'.seen = loop.seen /\ loop'.pc = "topic"
    <2>1. loop \in LoopRecord /\ loop' = [loop EXCEPT !.todo = Tail(@)]
      BY DEF Typed, LoopTyped, LiveSend
    <2>2. QED
      BY <1>1, <2>1 DEF LoopRecord
  <1>4. told'.crashes = told.crashes
    BY DEF LiveSend, Typed, ToldTyped
  <1>5. ASSUME NEW c \in Calls PROVE LiveLoad(c)' <= LiveLoad(c)
    <2> DEFINE k == IF Head(loop.todo) = c THEN 1 ELSE 0
    <2>1. Count(loop.todo, c) = Count(loop'.todo, c) + k
      BY <1>1, <1>3, CountTail
    <2>2. told.live[c] \in Nat /\ Count(loop.todo, c) \in Nat
      BY LiveLoadIs
    <2>3. Count(loop'.todo, c) \in Nat /\ LiveLoad(c)' = told'.live[c] + Count(loop'.todo, c) /\
          told'.live[c] \in Nat
      BY LiveLoadAfter
    <2>4. told'.live[c] <= told.live[c] + k
      <3>1. told'.live = told.live \/ told'.live = [told.live EXCEPT ![Head(loop.todo)] = @ + 1]
        BY DEF LiveSend, Typed, ToldTyped
      <3>2. told.live \in [Calls -> Nat]
        BY DEF Typed, ToldTyped, Tally
      <3>3. QED
        BY <2>2, <3>1, <3>2, <1>2
    <2>5. k \in Nat
      OBVIOUS
    <2> HIDE DEF Count, k
    <2>6. told'.live[c] + Count(loop'.todo, c) <= told.live[c] + Count(loop.todo, c)
      BY <2>1, <2>2, <2>3, <2>4, <2>5
    <2>7. QED
      BY <2>3, <2>6 DEF LiveLoad
  <1>6. ASSUME NEW c \in Calls, Passed(c) PROVE Passed(c)'
    BY <1>1, <1>3, <1>6 DEF Passed, Marker
  <1>7. QED
    BY <1>3, <1>4, <1>5, <1>6, LiveKept

\* When all are posted, the marker moves.
LEMMA LiveMarkLive == ASSUME Typed, Typed', LiveOnce, LiveMark PROVE LiveOnce'
  <1>1. /\ loop.pc = "topic" /\ loop.todo = <<>> /\ game' = game /\ told' = told
        /\ loop' = [loop EXCEPT !.pc = "prize"] /\ file' = [file EXCEPT !.live = Len(loop.seen)]
    BY DEF LiveMark
  <1>2. loop'.pc = "prize" /\ loop'.todo = <<>> /\ loop'.seen = loop.seen
        /\ file'.live = Len(loop.seen)
    BY <1>1 DEF Typed, LoopTyped, LoopRecord, FileTyped
  <1>3. ASSUME NEW c \in Calls PROVE LiveLoad(c)' <= LiveLoad(c)
    <2>1. LiveLoad(c)' = LiveLoad(c)
      BY <1>1, <1>2, LiveLoadAfter DEF LiveLoad
    <2>2. LiveLoad(c) \in Nat
      BY LiveLoadIs
    <2> HIDE DEF LiveLoad
    <2>3. QED
      BY <2>1, <2>2
  <1>4. ASSUME NEW c \in Calls, Passed(c) PROVE Passed(c)'
    <2>1. file'.live # None
      BY <1>2, NotifierAssumption, LenProperties DEF Typed, LoopTyped, LoopRecord
    <2>2. QED
      BY <1>1, <1>2, <1>4, <2>1 DEF Passed, Marker
  <1>5. QED
    BY <1>1, <1>2, <1>3, <1>4, LiveKept

\* A crash allows every call once more.
LEMMA CrashLive ==
    ASSUME Typed, Typed', LiveOnce, Crashes
    PROVE  LiveOnce'
  <1>1. /\ loop'.pc = "numbers" /\ told'.live = told.live /\ loop'.todo = <<>>
        /\ told'.crashes = told.crashes + 1
    BY CrashIs
  <1>2. ASSUME NEW c \in Calls
        PROVE  LiveLoad(c)' <= 1 + told'.crashes /\ (LiveLoad(c)' = 1 + told'.crashes => Passed(c)')
    <2>1. Count(loop'.todo, c) = 0
      BY <1>1, CountEmpty
    <2>2. LiveLoad(c)' = told'.live[c] + Count(loop'.todo, c)
      BY LiveLoadAfter
    <2>3. told.live[c] \in Nat /\ Count(loop.todo, c) \in Nat /\ told.crashes \in Nat
      BY LiveLoadIs
    <2>4. LiveLoad(c) <= 1 + told.crashes
      BY DEF LiveOnce
    <2> HIDE DEF Count
    <2>5. LiveLoad(c)' < 1 + told'.crashes
      BY <1>1, <2>1, <2>2, <2>3, <2>4 DEF LiveLoad
    <2>6. LiveLoad(c)' \in Nat /\ told'.crashes \in Nat
      BY <2>1, <2>2, <1>1, <2>3
    <2> HIDE DEF LiveLoad, Passed
    <2>7. QED
      BY <2>5, <2>6
  <1>3. QED
    BY <1>1, <1>2 DEF LiveOnce

LiveMoves == Report \/ Live \/ LiveMark \/ Crashes \/ \E reached \in BOOLEAN : LiveSend(reached)

\* Every other step is aside of the topic.
LEMMA AsideIs == ASSUME Typed, [Next]_vars, ~ LiveMoves PROVE Aside
  <1>1. loop \in LoopRecord
    BY DEF Typed, LoopTyped
  <1> DEFINE Rests == /\ told'.live = told.live /\ told'.crashes = told.crashes
                      /\ file'.live = file.live
             Off == /\ loop.pc \notin {"live", "topic"} /\ loop'.pc \notin {"live", "topic"}
                    /\ loop'.todo \in {loop.todo, <<>>}
  <1>2. CASE Backend \/ Switches \/ UNCHANGED vars
    <2>1. loop' = loop
      BY <1>2 DEF Backend, Call, Undo, Detect, Decide, Switches, AskOn, SwitchOn, SwitchOff, vars
    <2>2. told'.live = told.live /\ told'.crashes = told.crashes
      BY <1>2 DEF Backend, Call, Undo, Detect, Decide, Switches, AskOn, SwitchOn, SwitchOff, vars,
         Typed, ToldTyped
    <2>3. file'.live = file.live
      BY <1>2 DEF Backend, Call, Undo, Detect, Decide, Switches, AskOn, SwitchOn, SwitchOff, vars,
         Typed, FileTyped
    <2>4. QED
      BY <2>1, <2>2, <2>3 DEF Aside
  <1>3. CASE Poll \/ State \/ StateFails \/ ReportFails
    <2>1. loop.pc \notin {"live", "topic"}
      BY <1>3 DEF Poll, State, StateFails, ReportFails
    <2>2. loop'.pc \notin {"live", "topic"} /\ loop'.todo = <<>>
      <3>1. CASE Poll
        BY <3>1 DEF Poll, Goto
      <3>2. CASE State
        BY <3>2 DEF State, Goto
      <3>3. CASE StateFails
        BY <3>3 DEF StateFails, Goto
      <3>4. CASE ReportFails
        BY <3>4 DEF ReportFails, Goto
      <3>5. QED
        BY <1>3, <3>1, <3>2, <3>3, <3>4
    <2>3. Rests
      BY <1>3 DEF Poll, State, StateFails, ReportFails, Typed, FileTyped
    <2>4. QED
      BY <2>1, <2>2, <2>3 DEF Aside
  <1>4. ASSUME NEW pc \in {"put", "winner"}, NEW next \in {"report", "marked"},
               Put(pc, next)
        PROVE  Aside
    <2>1. Off
      BY <1>1, <1>4 DEF Put, LoopRecord
    <2>2. Rests
      BY <1>4 DEF Put
    <2>3. QED
      BY <2>1, <2>2 DEF Aside
  <1>5. CASE Prize \/ MarkPrize
    <2>1. Off
      BY <1>1, <1>5 DEF Prize, MarkPrize, LoopRecord
    <2>2. Rests
      BY <1>5 DEF Prize, MarkPrize, Marked, Typed, FileTyped
    <2>3. QED
      BY <2>1, <2>2 DEF Aside
  <1>6. ASSUME NEW reached \in BOOLEAN, EndNotice(reached) PROVE Aside
    <2>1. Off
      BY <1>1, <1>6 DEF EndNotice, LoopRecord
    <2>2. Rests
      BY <1>6 DEF EndNotice, Typed, ToldTyped
    <2>3. QED
      BY <2>1, <2>2 DEF Aside
  <1>13. CASE MarkEnded
    <2>1. Off
      BY <1>13 DEF MarkEnded, Goto
    <2>2. Rests
      BY <1>13 DEF MarkEnded, Marked, Typed, FileTyped
    <2>3. QED
      BY <2>1, <2>2 DEF Aside
  <1>7. NextNotice.pc \in {"numbers", "notice"} /\ NextNotice.todo \in {loop.todo, <<>>}
    BY <1>1 DEF NextNotice, Goto, LoopRecord
  <1>8. CASE FetchNotices \/ FetchFails \/ AckFails
    <2>1. loop.pc \notin {"live", "topic"}
      BY <1>8 DEF FetchNotices, FetchFails, AckFails
    <2>2. loop'.pc \notin {"live", "topic"} /\ loop'.todo \in {loop.todo, <<>>}
      <3>1. CASE FetchNotices
        BY <3>1 DEF FetchNotices, Goto
      <3>2. CASE FetchFails
        BY <3>2 DEF FetchFails, Goto
      <3>3. CASE AckFails
        BY <3>3, <1>7 DEF AckFails
      <3>4. QED
        BY <1>8, <3>1, <3>2, <3>3
    <2>3. Rests
      BY <1>8 DEF FetchNotices, FetchFails, AckFails
    <2>4. QED
      BY <2>1, <2>2, <2>3 DEF Aside
  <1>9. ASSUME NEW outcome \in Outcomes, Notice(outcome) PROVE Aside
    <2>1. Off
      <3>1. loop.pc = "notice" /\ loop' \in {NextNotice, [loop EXCEPT !.pc = "ack"]}
        BY <1>9 DEF Notice, AfterFailure
      <3>2. CASE loop' = NextNotice
        BY <1>7, <3>1, <3>2
      <3>3. CASE loop' = [loop EXCEPT !.pc = "ack"]
        BY <1>1, <3>1, <3>3 DEF LoopRecord
      <3>4. QED
        BY <3>1, <3>2, <3>3
    <2>2. told'.live = told.live /\ told'.crashes = told.crashes
      BY <1>9, NoticeTells
    <2>3. file' = file
      BY <1>9 DEF Notice
    <2>4. QED
      BY <2>1, <2>2, <2>3 DEF Aside
  <1>14. ASSUME NEW ok \in BOOLEAN, Ack(ok) PROVE Aside
    <2>1. Off
      BY <1>7, <1>14 DEF Ack
    <2>2. Rests
      BY <1>14 DEF Ack
    <2>3. QED
      BY <2>1, <2>2 DEF Aside
  <1>10. ASSUME NEW w \in Workers, Sender(w) PROVE Aside
    <2>1. loop' = loop
      BY <1>10 DEF Sender, Take, Deliver, DeliverFails, DeadUser, CancelTask
    <2>2. told'.live = told.live /\ told'.crashes = told.crashes
      BY <1>10 DEF Sender, Take, Deliver, DeliverFails, DeadUser, CancelTask, Typed, ToldTyped
    <2>3. file'.live = file.live
      BY <1>10 DEF Sender, Take, Deliver, DeliverFails, DeadUser, CancelTask, Typed, FileTyped
    <2>4. QED
      BY <2>1, <2>2, <2>3 DEF Aside
  <1>11. CASE Loop
    BY <1>3, <1>4, <1>5, <1>6, <1>8, <1>9, <1>11, <1>13, <1>14 DEF Loop, LiveMoves
  <1>12. QED
    BY <1>2, <1>10, <1>11 DEF Next, LiveMoves, Crashes

\* Every step keeps the calls posted once, and once more for each crash.
LEMMA LiveStep ==
    ASSUME Typed, Typed', Boards, LiveOnce, [Next]_vars
    PROVE  LiveOnce'
  <1>1. CASE GameMoves
    BY <1>1, GameLive
  <1>2. CASE LiveMoves
    BY <1>2, ReportLive, LiveLive, LiveMarkLive, CrashLive, LiveSendLive DEF LiveMoves
  <1>3. CASE ~ GameMoves /\ ~ LiveMoves
    <2>1. game'.board = game.board /\ game'.made = game.made
      BY <1>3, GameKept
    <2>2. QED
      BY <1>3, <2>1, AsideIs, AsideLive
  <1>4. QED
    BY <1>1, <1>2, <1>3

-----------------------------------------------------------------------------
(* Crypto notices *)

\* A notice that is not sent again as long as the bot runs: it waits for its
\* acknowledgement only, or the backend knows that it was delivered.
Acked(n) == n \in mem.unacked \/ (n[1] \in invoice[n[2]].flagged /\ n \notin Range(loop.notices))

\* How often a notice may be delivered: once, once more for each crash and once more for
\* each answer that was lost.
Allowed(n) == 1 + told.crashes + told.lost[n]

\* All of this is used up only by a notice that waits for its acknowledgement or has got it.
NoticeOnce ==
    /\ IsInjective(loop.notices)
    /\ loop.pc = "ack" => Head(loop.notices) \in mem.unacked
    /\ \A n \in Notices : told.notice[n] <= Allowed(n) /\
       (told.notice[n] = Allowed(n) => Acked(n))

\* How often a notice was delivered is a number, and so is how often it may be.
LEMMA NoticeCount ==
    ASSUME Typed, NEW n \in Notices
    PROVE  told.notice[n] \in Nat /\ told.lost[n] \in Nat /\ told.crashes \in Nat /\
           Allowed(n) \in Nat
  BY DEF Typed, ToldTyped, Tally, Allowed

\* The steps that deliver no notice.
LEMMA NoticeKept ==
    ASSUME NoticeOnce, told'.notice = told.notice, told'.lost = told.lost,
           told'.crashes = told.crashes, IsInjective(loop'.notices), loop'.pc = "ack" => Head(loop'.notices) \in mem'.unacked,
           \A n \in Notices : Acked(n) => Acked(n)'
    PROVE  NoticeOnce'
  BY DEF NoticeOnce, Allowed

\* Elsewhere: the notices of a poll stay, or are forgotten.
Away == /\ told'.notice = told.notice /\ told'.lost = told.lost /\ told'.crashes = told.crashes
        /\ mem'.unacked = mem.unacked
        /\ \A i \in Invoices : invoice[i].flagged \subseteq invoice'[i].flagged
        /\ \/ loop'.notices = loop.notices /\ (loop'.pc = "ack" => loop.pc = "ack")
           \/ loop'.notices = <<>> /\ loop'.pc # "ack"

\* A step that delivers no notice and forgets no acknowledgement.
LEMMA AwayNotice == ASSUME Typed, NoticeOnce, Away PROVE NoticeOnce'
  <1>1. IsInjective(<<>>) /\ Range(<<>>) = {}
    BY DEF IsInjective, Range
  <1>2. IsInjective(loop'.notices) /\ Range(loop'.notices) \subseteq Range(loop.notices)
    BY <1>1 DEF NoticeOnce, Away
  <1>3. loop'.pc = "ack" => Head(loop'.notices) \in mem'.unacked
    BY DEF NoticeOnce, Away
  <1>4. ASSUME NEW n \in Notices, Acked(n) PROVE Acked(n)'
    <2>1. n[2] \in Invoices
      BY DEF Notices
    <2>2. QED
      BY <1>2, <1>4, <2>1 DEF Acked, Away
  <1>5. QED
    BY <1>2, <1>3, <1>4, NoticeKept DEF Away

\* The notices that arrive are those the backend has not flagged, each once.
LEMMA FetchNotice == ASSUME Typed, NoticeOnce, FetchNotices PROVE NoticeOnce'
  <1>1. loop'.notices = Listing /\ loop'.pc # "ack" /\ UNCHANGED <<invoice, mem, told>>
    BY DEF FetchNotices, Goto
  <1>2. IsInjective(Listing) /\ \A n \in Range(Listing) : n[1] \notin invoice[n[2]].flagged
    BY ListingIs
  <1>3. ASSUME NEW n \in Notices, Acked(n) PROVE Acked(n)'
    BY <1>1, <1>2, <1>3 DEF Acked
  <1>4. QED
    BY <1>1, <1>2, <1>3, NoticeKept

\* The next notice of a poll.
LEMMA NextIs ==
    ASSUME Typed, loop.pc \in {"notice", "ack"}, NoticeOnce, loop' = NextNotice
    PROVE  /\ loop'.pc # "ack" /\ IsInjective(loop'.notices)
           /\ Range(loop'.notices) = Range(loop.notices) \ {Head(loop.notices)}
           /\ Head(loop.notices) \in Range(loop.notices)
  <1>1. /\ loop.notices \in Seq(Notices) /\ loop.notices # <<>> /\ Len(loop.notices) \in Nat \ {0}
        /\ Head(loop.notices) \in Notices
        /\ Tail(loop.notices) \in Seq(Notices) /\ Len(Tail(loop.notices)) = Len(loop.notices) - 1
        /\ Head(loop.notices) = loop.notices[1] /\ DOMAIN loop.notices = 1 .. Len(loop.notices)
        /\ DOMAIN Tail(loop.notices) = 1 .. Len(Tail(loop.notices))
        /\ \A i \in 1 .. Len(Tail(loop.notices)) : Tail(loop.notices)[i] = loop.notices[i + 1]
    BY HeadNotice, HeadTailProperties, LenProperties
  <1>2. loop'.pc # "ack"
    BY DEF NextNotice, Goto, Typed, LoopTyped, LoopRecord
  <1>3. loop'.notices = Tail(loop.notices)
    <2>1. CASE Len(loop.notices) = 1
      <3>1. loop'.notices = <<>>
        BY <2>1 DEF NextNotice, Goto
      <3>2. Len(Tail(loop.notices)) = 0
        BY <1>1, <2>1
      <3>3. QED
        BY <1>1, <3>1, <3>2, EmptySeq
    <2>2. CASE Len(loop.notices) # 1
      BY <2>2 DEF NextNotice, Typed, LoopTyped, LoopRecord
    <2>3. QED
      BY <2>1, <2>2
  <1> DEFINE s == loop.notices
             t == Tail(loop.notices)
  <1>4. \A i \in DOMAIN t : i \in Nat /\ i + 1 \in DOMAIN s /\ i + 1 # 1 /\ t[i] = s[i + 1]
    BY <1>1
  <1>5. IsInjective(s) /\ 1 \in DOMAIN s /\ Head(s) = s[1]
    BY <1>1 DEF NoticeOnce
  <1> HIDE DEF s, t
  <1>6. ASSUME NEW i \in DOMAIN t, NEW j \in DOMAIN t, t[i] = t[j] PROVE i = j
    <2>1. i + 1 = j + 1
      BY <1>4, <1>5, <1>6 DEF IsInjective
    <2>2. QED
      BY <1>4, <2>1
  <1>7. ASSUME NEW n \in Range(t) PROVE n \in Range(s) /\ n # Head(s)
    <2>1. PICK i \in DOMAIN t : t[i] = n
      BY DEF Range
    <2>2. QED
      BY <1>4, <1>5, <2>1 DEF Range, IsInjective
  <1>8. ASSUME NEW n \in Range(s), n # Head(s) PROVE n \in Range(t)
    <2>1. PICK j \in DOMAIN s : s[j] = n
      BY DEF Range
    <2>2. j - 1 \in DOMAIN t /\ (j - 1) + 1 = j
      BY <1>1, <1>5, <1>8, <2>1 DEF s, t
    <2>3. t[j - 1] = n
      BY <1>4, <2>1, <2>2
    <2>4. QED
      BY <2>2, <2>3 DEF Range
  <1>9. Head(s) \in Range(s)
    BY <1>5 DEF Range
  <1>10. QED
    BY <1>2, <1>3, <1>6, <1>7, <1>8, <1>9 DEF s, t, IsInjective

\* A notice that waits for its acknowledgement is not delivered again, and one whose
\* answer is lost counts among those that may be (_process_crypto_notifications).
LEMMA NoticeNotice ==
    ASSUME NEW outcome \in Outcomes, Typed, NoticeOnce, Notice(outcome)
    PROVE  NoticeOnce'
  <1> DEFINE n == Head(loop.notices)
  <1>1. loop.pc = "notice" /\ invoice' = invoice /\ n \in Notices /\ n \in Range(loop.notices)
    <2>1. loop.pc = "notice" /\ invoice' = invoice
      BY DEF Notice
    <2>2. loop.notices \in Seq(Notices) /\ loop.notices # <<>> /\ n \in Notices
      BY <2>1, HeadNotice
    <2>3. n = loop.notices[1] /\ 1 \in DOMAIN loop.notices
      BY <2>2, HeadTailProperties, LenProperties, EmptySeq
    <2>4. QED
      BY <2>1, <2>2, <2>3 DEF Range
  <1>2. CASE n \in mem.unacked
    <2>1. loop' = [loop EXCEPT !.pc = "ack"] /\ UNCHANGED <<mem, told>>
      BY <1>2 DEF Notice, NeedsSending
    <2>2. loop'.notices = loop.notices
      BY <2>1 DEF Typed, LoopTyped, LoopRecord
    <2>3. \A m \in Notices : Acked(m) => Acked(m)'
      BY <1>1, <2>1, <2>2 DEF Acked
    <2>4. IsInjective(loop'.notices) /\ Head(loop'.notices) \in mem'.unacked
      BY <1>2, <2>1, <2>2 DEF NoticeOnce
    <2>5. QED
      BY <2>1, <2>3, <2>4, NoticeKept
  <1>3. CASE n \notin mem.unacked
    <2> DEFINE more(m) == IF m = n /\ outcome # "failed" THEN 1 ELSE 0
               gone(m) == IF m = n /\ outcome = "lost" THEN 1 ELSE 0
    <2>1. /\ told'.crashes = told.crashes
          /\ \A m \in Notices : /\ told'.notice[m] = told.notice[m] + more(m)
                                /\ told'.lost[m] = told.lost[m] + gone(m)
      <3>1. told' = Attempt(n, outcome)
        BY <1>3 DEF Notice, NeedsSending
      <3> HIDE DEF n
      <3>2. QED
        BY <1>1, <3>1, AttemptIs
    <2>2. /\ IsInjective(loop'.notices) /\ Range(loop'.notices) \subseteq Range(loop.notices)
          /\ IF outcome = "sent" THEN mem'.unacked = mem.unacked \cup {n} /\ Head(loop'.notices) = n
             ELSE mem' = mem /\ loop'.pc # "ack"
      <3>1. CASE outcome = "sent"
        <4>1. mem' = [mem EXCEPT !.unacked = @ \cup {n}] /\ loop' = [loop EXCEPT !.pc = "ack"]
          BY <1>3, <3>1 DEF Notice, NeedsSending
        <4>2. loop'.notices = loop.notices
          BY <4>1 DEF Typed, LoopTyped, LoopRecord
        <4>3. mem'.unacked = mem.unacked \cup {n}
          <5> HIDE DEF n
          <5>1. QED
            BY <4>1 DEF Typed, MemTyped
        <4>4. QED
          BY <3>1, <4>2, <4>3 DEF NoticeOnce
      <3>2. CASE outcome # "sent"
        <4>1. loop' = NextNotice /\ mem' = mem
          BY <1>3, <3>2 DEF Notice, NeedsSending, AfterFailure
        <4>2. QED
          BY <1>1, <3>2, <4>1, NextIs
      <3>3. QED
        BY <3>1, <3>2
    <2>3. ASSUME NEW m \in Notices, Acked(m) PROVE Acked(m)'
      BY <1>1, <2>2, <2>3 DEF Acked
    <2>4. ~ Acked(n)
      BY <1>1, <1>3, <2>2 DEF Acked
    <2>5. told.notice[n] <= Allowed(n) /\ told.notice[n] # Allowed(n)
      BY <1>1, <2>4 DEF NoticeOnce
    <2>6. ASSUME NEW m \in Notices
          PROVE  told'.notice[m] <= Allowed(m)' /\ (told'.notice[m] = Allowed(m)' => Acked(m)')
      <3>1. /\ told.notice[m] \in Nat /\ told.lost[m] \in Nat /\ told.crashes \in Nat
            /\ told'.notice[m] = told.notice[m] + more(m)
            /\ told'.lost[m] = told.lost[m] + gone(m)
        BY <2>1, NoticeCount
      <3>2. told.notice[m] <= Allowed(m) /\ (told.notice[m] = Allowed(m) => Acked(m))
        BY DEF NoticeOnce
      <3>3. Allowed(m) = 1 + told.crashes + told.lost[m] /\
            Allowed(m)' = 1 + told.crashes + (told.lost[m] + gone(m))
        BY <2>1, <3>1 DEF Allowed
      <3> HIDE DEF Acked, Allowed
      <3>4. CASE m # n
        <4>1. more(m) = 0 /\ gone(m) = 0
          BY <3>4
        <4> HIDE DEF more, gone
        <4>2. QED
          BY <2>3, <3>1, <3>2, <3>3, <4>1
      <3>5. CASE m = n
        <4>1. told.notice[m] <= Allowed(m) /\ told.notice[m] # Allowed(m)
          BY <2>5, <3>5
        <4>2. CASE outcome = "sent"
          <5>1. more(m) = 1 /\ gone(m) = 0
            BY <3>5, <4>2
          <5>3. Acked(m)'
            BY <2>2, <3>5, <4>2 DEF Acked
          <5> HIDE DEF more, gone, n
          <5>2. QED
            BY <3>1, <3>3, <4>1, <5>1, <5>3
        <4>3. CASE outcome # "sent"
          <5>1. more(m) = gone(m) /\ gone(m) \in {0, 1}
            BY <3>5, <4>3 DEF Outcomes
          <5> HIDE DEF more, gone, n
          <5>2. QED
            BY <3>1, <3>3, <4>1, <5>1
        <4>4. QED
          BY <4>2, <4>3
      <3>6. QED
        BY <3>4, <3>5
    <2>7. loop'.pc = "ack" => Head(loop'.notices) \in mem'.unacked
      BY <2>2
    <2>8. QED
      BY <2>2, <2>6, <2>7 DEF NoticeOnce
  <1>4. QED
    BY <1>2, <1>3

\* An acknowledged notice is flagged by the backend, so it is not listed again.
LEMMA AckNotice ==
    ASSUME NEW ok \in BOOLEAN, Typed, NoticeOnce, Ack(ok)
    PROVE  NoticeOnce'
  <1> DEFINE n == Head(loop.notices)
  <1>1. loop.pc = "ack" /\ told' = told /\ loop' = NextNotice
    BY DEF Ack
  <1>2. n \in Notices /\ n[1] \in Range(Audiences) /\ n[2] \in Invoices
    BY <1>1, HeadNotice DEF Notices
  <1>3. /\ loop'.pc # "ack" /\ IsInjective(loop'.notices)
        /\ Range(loop'.notices) = Range(loop.notices) \ {n}
    BY <1>1, NextIs
  <1>4. invoice' = [invoice EXCEPT ![n[2]].flagged = @ \cup {n[1]}]
    BY DEF Ack
  <1>5. mem'.unacked = mem.unacked \/ mem'.unacked = mem.unacked \ {n}
    BY DEF Ack, Typed, MemTyped
  <1> HIDE DEF n
  <1>6. n[1] \in invoice'[n[2]].flagged /\
        \A i \in Invoices : invoice[i].flagged \subseteq invoice'[i].flagged
    BY <1>2, <1>4 DEF Typed, InvoiceTyped
  <1>7. ASSUME NEW m \in Notices, Acked(m) PROVE Acked(m)'
    <2>1. m[2] \in Invoices
      BY DEF Notices
    <2>2. CASE m = n
      BY <1>3, <1>6, <2>2 DEF Acked
    <2>3. CASE m # n
      BY <1>3, <1>5, <1>6, <1>7, <2>1, <2>3 DEF Acked
    <2>4. QED
      BY <2>2, <2>3
  <1>8. QED
    BY <1>1, <1>3, <1>7, NoticeKept

\* Without an answer the notice still waits for its acknowledgement.
LEMMA AckFailsNotice == ASSUME Typed, NoticeOnce, AckFails PROVE NoticeOnce'
  <1>1. loop.pc = "ack" /\ loop' = NextNotice /\ UNCHANGED <<invoice, mem, told>>
    BY DEF AckFails
  <1>2. loop'.pc # "ack" /\ IsInjective(loop'.notices) /\
        Range(loop'.notices) \subseteq Range(loop.notices)
    BY <1>1, NextIs
  <1>3. \A m \in Notices : Acked(m) => Acked(m)'
    BY <1>1, <1>2 DEF Acked
  <1>4. QED
    BY <1>1, <1>2, <1>3, NoticeKept

\* A crash forgets what waits for its acknowledgement: each notice may be delivered once more.
LEMMA CrashNotice == ASSUME Typed, NoticeOnce, Crashes PROVE NoticeOnce'
  <1>1. /\ loop'.pc = "numbers" /\ told'.notice = told.notice /\ loop'.notices = <<>>
        /\ told'.lost = told.lost /\ told'.crashes = told.crashes + 1
    BY CrashIs
  <1>2. ASSUME NEW n \in Notices
        PROVE  told'.notice[n] <= Allowed(n)' /\ told'.notice[n] # Allowed(n)'
    <2>1. told.notice[n] \in Nat /\ told.lost[n] \in Nat /\ told.crashes \in Nat
      BY NoticeCount
    <2>2. told.notice[n] <= 1 + told.crashes + told.lost[n]
      BY DEF NoticeOnce, Allowed
    <2>3. Allowed(n)' = 1 + (told.crashes + 1) + told.lost[n]
      BY <1>1 DEF Allowed
    <2>4. QED
      BY <1>1, <2>1, <2>2, <2>3
  <1>3. IsInjective(loop'.notices)
    BY <1>1 DEF IsInjective
  <1>4. QED
    BY <1>1, <1>2, <1>3 DEF NoticeOnce

NoticeMoves ==
    \/ FetchNotices \/ AckFails \/ Crashes
    \/ \E outcome \in Outcomes : Notice(outcome)
    \/ \E ok \in BOOLEAN : Ack(ok)

\* Every other step delivers no notice.
LEMMA AwayIs ==
    ASSUME Typed, [Next]_vars,
           ~ NoticeMoves
    PROVE  Away
  <1>1. loop \in LoopRecord
    BY DEF Typed, LoopTyped
  <1> DEFINE Told == /\ told'.notice = told.notice /\ told'.lost = told.lost
                     /\ told'.crashes = told.crashes
             Rests == /\ Told /\ mem'.unacked = mem.unacked
                      /\ invoice' = invoice
             Off == \/ loop'.notices = loop.notices /\ (loop'.pc = "ack" => loop.pc = "ack")
                    \/ loop'.notices = <<>> /\ loop'.pc # "ack"
  <1>2. CASE Backend \/ Switches \/ UNCHANGED vars
    <2>1. loop' = loop /\ mem' = mem
      BY <1>2 DEF Backend, Call, Undo, Detect, Decide, Switches, AskOn, SwitchOn, SwitchOff, vars
    <2>2. Told
      BY <1>2 DEF Backend, Call, Undo, Detect, Decide, Switches, AskOn, SwitchOn, SwitchOff, vars,
         Typed, ToldTyped
    <2>3. \A i \in Invoices : invoice[i].flagged \subseteq invoice'[i].flagged
      <3>1. CASE invoice' = invoice
        BY <3>1
      <3>2. ASSUME NEW i \in Invoices, NEW status \in Statuses,
                   Detect(i, status) \/ Decide(i, status)
            PROVE  \A k \in Invoices : invoice[k].flagged \subseteq invoice'[k].flagged
        BY <3>2 DEF Detect, Decide, Typed, InvoiceTyped
      <3>3. QED
        BY <1>2, <3>1, <3>2 DEF Backend, Call, Undo, Switches, AskOn, SwitchOn, SwitchOff, vars
    <2>4. QED
      BY <2>1, <2>2, <2>3 DEF Away
  <1>3. CASE Poll \/ State \/ StateFails \/ Report \/ ReportFails \/ FetchFails
    <2>1. loop'.pc # "ack" /\ loop'.notices = <<>>
      <3>1. CASE Poll
        BY <3>1 DEF Poll, Goto
      <3>2. CASE State
        BY <3>2 DEF State, Goto
      <3>3. CASE StateFails
        BY <3>3 DEF StateFails, Goto
      <3>4. CASE Report
        BY <3>4 DEF Report, Goto
      <3>5. CASE ReportFails
        BY <3>5 DEF ReportFails, Goto
      <3>6. CASE FetchFails
        BY <3>6 DEF FetchFails, Goto
      <3>7. QED
        BY <1>3, <3>1, <3>2, <3>3, <3>4, <3>5, <3>6
    <2>2. told' = told /\ invoice' = invoice
      BY <1>3 DEF Poll, State, StateFails, Report, ReportFails, FetchFails
    <2>3. mem'.unacked = mem.unacked
      BY <1>3 DEF Poll, State, StateFails, Report, ReportFails, FetchFails, Typed, MemTyped
    <2>4. QED
      BY <2>1, <2>2, <2>3 DEF Away
  <1>4. ASSUME NEW pc \in {"put", "winner"}, NEW next \in {"report", "marked"},
               Put(pc, next)
        PROVE  Away
    <2>1. Off
      BY <1>1, <1>4 DEF Put, LoopRecord
    <2>2. Rests
      BY <1>4 DEF Put
    <2>3. QED
      BY <2>1, <2>2 DEF Away
  <1>5. CASE Live \/ LiveMark \/ Prize \/ MarkPrize
    <2>1. Off
      BY <1>1, <1>5 DEF Live, LiveMark, Prize, MarkPrize, LoopRecord
    <2>2. Rests
      BY <1>5 DEF Live, LiveMark, Prize, MarkPrize
    <2>3. QED
      BY <2>1, <2>2 DEF Away
  <1>6. ASSUME NEW reached \in BOOLEAN, LiveSend(reached) \/ EndNotice(reached) PROVE Away
    <2>1. Off
      BY <1>1, <1>6 DEF LiveSend, EndNotice, LoopRecord
    <2>2. Rests
      BY <1>6 DEF LiveSend, EndNotice, Typed, ToldTyped
    <2>3. QED
      BY <2>1, <2>2 DEF Away
  <1>7. CASE MarkEnded
    <2>1. loop'.pc # "ack" /\ loop'.notices = <<>> /\ told' = told /\ invoice' = invoice
      BY <1>7 DEF MarkEnded, Goto
    <2>2. mem'.unacked = mem.unacked
      BY <1>7 DEF MarkEnded, Typed, MemTyped
    <2>3. QED
      BY <2>1, <2>2 DEF Away
  <1>8. ASSUME NEW w \in Workers, Sender(w) PROVE Away
    <2>1. loop' = loop /\ invoice' = invoice
      BY <1>8 DEF Sender, Take, Deliver, DeliverFails, DeadUser, CancelTask
    <2>2. Told
      BY <1>8 DEF Sender, Take, Deliver, DeliverFails, DeadUser, CancelTask, Typed, ToldTyped
    <2>3. mem'.unacked = mem.unacked
      BY <1>8 DEF Sender, Take, Deliver, DeliverFails, DeadUser, CancelTask, Typed, MemTyped
    <2>4. QED
      BY <2>1, <2>2, <2>3 DEF Away
  <1>9. CASE Loop
    BY <1>3, <1>4, <1>5, <1>6, <1>7, <1>9 DEF Loop, NoticeMoves
  <1>10. QED
    BY <1>2, <1>8, <1>9 DEF Next, Crashes, NoticeMoves

\* Every step keeps the notices delivered as often as is allowed.
LEMMA NoticeStep == ASSUME Typed, NoticeOnce, [Next]_vars PROVE NoticeOnce'
  <1>1. CASE FetchNotices \/ AckFails \/ Crashes
    BY <1>1, FetchNotice, AckFailsNotice, CrashNotice
  <1>2. ASSUME NEW outcome \in Outcomes, Notice(outcome) PROVE NoticeOnce'
    BY <1>2, NoticeNotice
  <1>3. ASSUME NEW ok \in BOOLEAN, Ack(ok) PROVE NoticeOnce'
    BY <1>3, AckNotice
  <1>4. CASE ~ NoticeMoves
    BY <1>4, AwayIs, AwayNotice
  <1>5. QED
    BY <1>1, <1>2, <1>3, <1>4 DEF NoticeMoves

-----------------------------------------------------------------------------
(* The theorems about the notifier *)

\* Where nothing has been told yet.
LEMMA InitOnce ==
    ASSUME Init
    PROVE  Boards /\ NumbersOnce /\ WinOnce /\ EndOnce /\ LiveOnce /\ NoticeOnce
  <1>1. /\ loop = Goto("numbers") /\ queue = <<>> /\ file = Emptied /\ mem = Fresh
        /\ told.job = [p \in Users \X Items |-> 0] /\ told.live = [c \in Calls |-> 0] /\
           told.ended = 0
        /\ told.notice = [n \in Notices |-> 0] /\ told.lost = [n \in Notices |-> 0]
        /\ told.ons = 0 /\ told.crashes = 0 /\ told.quick = 0
        /\ game.board = <<>> /\ game.won = FALSE /\ game.recent = FALSE
    BY DEF Init, GameAhead, InvoicesAhead
  <1>2. /\ loop.out = <<>> /\ loop.todo = <<>> /\ loop.notices = <<>> /\ loop.seen = <<>> /\
           loop.batch = {}
        /\ loop.pc = "numbers" /\ loop.won = FALSE
    BY <1>1 DEF Goto
  <1>3. Typed
    BY InitTyped
  <1>4. DOMAIN <<>> = {}
    OBVIOUS
  <1>5. Boards
    BY <1>1, <1>2, <1>4 DEF Boards, Drawn, Rising
  <1>6. ASSUME NEW u \in Users, NEW i \in Items PROVE Load(u, i) = 0
    <2>1. told.job[<<u, i>>] = 0
      <3> DEFINE p == <<u, i>>
                 S == Users \X Items
      <3>1. p \in S /\ told.job = [q \in S |-> 0]
        BY <1>1
      <3> HIDE DEF p, S
      <3>2. told.job[p] = 0
        BY <3>1
      <3>3. QED
        BY <3>2 DEF p
    <2>2. Count(loop.out, Job(u, i)) = 0 /\ Count(queue, Job(u, i)) = 0
      BY <1>1, <1>2, CountEmpty
    <2>3. Carriers(Job(u, i)) = {}
      BY DEF Carriers, Init
    <2>4. Cardinality(Carriers(Job(u, i))) = 0
      BY <2>3, FS_EmptySet
    <2> HIDE DEF Count, Carriers
    <2>5. QED
      BY <2>1, <2>2, <2>4 DEF Load
  <1>7. Turns = 0
    <2>1. Asking = {}
      BY DEF Asking, Init
    <2>2. Cardinality(Asking) = 0
      BY <2>1, FS_EmptySet
    <2> HIDE DEF Asking
    <2>3. QED
      BY <1>1, <2>2 DEF Turns
  <1>8. NumbersOnce
    <2>1. file.subs = {}
      BY <1>1 DEF Emptied
    <2>2. \A u \in Users, c \in Calls : Load(u, c) = 0
      BY <1>6 DEF Items
    <2> HIDE DEF Load, Turns
    <2>3. QED
      BY <1>2, <1>7, <2>1, <2>2 DEF NumbersOnce
  <1>9. WinOnce
    <2>1. \A u \in Users : Load(u, Win) = 0
      BY <1>6 DEF Items
    <2> HIDE DEF Load
    <2>2. QED
      BY <1>1, <1>2, <2>1 DEF WinOnce, HasWon
  <1>10. EndOnce
    BY <1>1 DEF EndOnce
  <1>11. LiveOnce
    <2>1. \A c \in Calls : LiveLoad(c) = 0
      <3>1. \A c \in Calls : Count(loop.todo, c) = 0 /\ told.live[c] = 0
        BY <1>1, <1>2, CountEmpty
      <3> HIDE DEF Count
      <3>2. QED
        BY <3>1 DEF LiveLoad
    <2> HIDE DEF LiveLoad
    <2>2. QED
      BY <1>1, <1>2, <2>1 DEF LiveOnce
  <1>12. NoticeOnce
    BY <1>1, <1>2, <1>4 DEF NoticeOnce, IsInjective, Allowed
  <1>13. QED
    BY <1>5, <1>8, <1>9, <1>10, <1>11, <1>12

\* The inductive invariant.
IInv == Typed /\ Boards /\ NumbersOnce /\ WinOnce /\ EndOnce /\ LiveOnce /\ NoticeOnce

\* Every step keeps the invariant.
LEMMA IInvStep == ASSUME IInv, [Next]_vars PROVE IInv'
  <1>1. Typed' /\ Boards'
    BY TypedStep, BoardsStep DEF IInv
  <1>2. NumbersOnce' /\ WinOnce' /\ EndOnce'
    BY <1>1, NumbersStep, WinStep, EndStep DEF IInv, WinOnce
  <1>3. LiveOnce' /\ NoticeOnce'
    BY <1>1, LiveStep, NoticeStep DEF IInv
  <1>4. QED
    BY <1>1, <1>2, <1>3 DEF IInv

\* The invariant holds in every state the notifier reaches.
LEMMA Invariance == Spec => []IInv
  <1>1. Init => IInv
    BY InitTyped, InitOnce DEF IInv
  <1>2. IInv /\ [Next]_vars => IInv'
    BY IInvStep
  <1>3. QED
    BY <1>1, <1>2, PTL DEF Spec

\* Every variable of the notifier keeps its type; the queue stays within its capacity and
\* the failures counted for a user within the threshold and the failures there may be
\* (notifier.py, _sender_worker).
THEOREM WellTyped == Spec => []TypeOK
  <1>1. IInv => TypeOK
    BY TypedIsTypeOK DEF IInv
  <1>2. QED
    BY <1>1, Invariance, PTL

\* Nothing is told twice.
LEMMA OnceIs == ASSUME IInv PROVE ToldOnce
  <1>1. ASSUME NEW u \in Users, NEW c \in Calls PROVE told.job[<<u, c>>] <= told.ons
    <2>1. told.job[<<u, c>>] <= Load(u, c)
      <3>1. told.job[<<u, c>>] \in Nat /\ Count(loop.out, Job(u, c)) \in Nat
            /\ Count(queue, Job(u, c)) \in Nat /\ Cardinality(Carriers(Job(u, c))) \in Nat
        BY LoadIs DEF IInv, Items
      <3> HIDE DEF Count, Carriers
      <3>2. QED
        BY <3>1 DEF Load
    <2>2. Load(u, c) <= Turns /\ Load(u, c) \in Nat /\ told.job[<<u, c>>] \in Nat
      BY LoadIs DEF IInv, NumbersOnce, Items
    <2>3. Turns <= told.ons /\ Turns \in Int /\ told.ons \in Nat
      BY TurnsIs DEF IInv, Turns
    <2> HIDE DEF Load, Turns
    <2>4. QED
      BY <2>1, <2>2, <2>3
  <1>2. ASSUME NEW u \in Users PROVE told.job[<<u, Win>>] <= 1 + told.quick
    <2>1. told.job[<<u, Win>>] <= Load(u, Win)
      <3>1. told.job[<<u, Win>>] \in Nat /\ Count(loop.out, Job(u, Win)) \in Nat
            /\ Count(queue, Job(u, Win)) \in Nat /\ Cardinality(Carriers(Job(u, Win))) \in Nat
        BY LoadIs DEF IInv, Items
      <3> HIDE DEF Count, Carriers
      <3>2. QED
        BY <3>1 DEF Load
    <2>2. Load(u, Win) <= 1 + told.quick /\ Load(u, Win) \in Nat /\
          told.job[<<u, Win>>] \in Nat /\ told.quick \in Nat
      BY LoadIs DEF IInv, WinOnce, Items, Typed, ToldTyped
    <2> HIDE DEF Load
    <2>3. QED
      BY <2>1, <2>2
  <1>3. ASSUME NEW c \in Calls PROVE told.live[c] <= 1 + told.crashes
    <2>1. told.live[c] \in Nat /\ Count(loop.todo, c) \in Nat /\ LiveLoad(c) <= 1 + told.crashes /\
          told.crashes \in Nat
      BY LiveLoadIs DEF IInv, LiveOnce
    <2> HIDE DEF Count
    <2>2. QED
      BY <2>1 DEF LiveLoad
  <1>4. QED
    BY <1>1, <1>2, <1>3 DEF ToldOnce, IInv, EndOnce, NoticeOnce, Allowed

\* However polls, calls, undos, decisions, the switches of users, failures, lost answers
\* and crashes interleave, no user is told a number more often than users asked for
\* notices; the winner is told the win and the chats the end at most once, and once more
\* for each restart within 3 seconds of them; a call is posted in the live topic at most
\* once, and once more for each crash; a crypto notice is delivered at most once, and once
\* more for each crash and each answer of Telegram that was lost (notifier.py,
\* notifier_loop, _process_crypto_notifications and _is_recent_event_for_runtime;
\* notify_store.py, set_event_marker).
THEOREM NothingTwice == Spec => []ToldOnce
  <1>1. IInv => ToldOnce
    BY OnceIs
  <1>2. QED
    BY <1>1, Invariance, PTL

-----------------------------------------------------------------------------
(* The live view: a win is announced once *)

\* Whatever was announced was announced once, and the browser remembers it.
Remembered ==
    /\ announced \in [Ids -> {0, 1}]
    /\ \A e \in Ids : announced[e] = 1 => e \in seen

\* A win is announced only if the browser does not remember it.
LEMMA FreshIsUnseen ==
    ASSUME NEW g, NEW upto, NEW after
    PROVE  FreshWins(g, upto, after) \cap seen = {}
  BY DEF FreshWins

\* Announcing wins the browser does not remember keeps every win announced once.
LEMMA RenderRemembers ==
    ASSUME Remembered, NEW p, NEW g, NEW upto, NEW wins,
           wins \cap seen = {}, Render(p, g, upto, wins)
    PROVE  Remembered'
  <1>1. /\ seen' = seen \cup wins
        /\ announced' = [e \in Ids |-> IF e \in wins THEN announced[e] + 1 ELSE announced[e]]
    BY DEF Render
  <1>2. ASSUME NEW e \in Ids
        PROVE  announced'[e] \in {0, 1} /\ (announced'[e] = 1 => e \in seen')
    <2>1. CASE e \in wins
      BY <1>1, <2>1 DEF Remembered
    <2>2. CASE e \notin wins
      BY <1>1, <2>2 DEF Remembered
    <2>3. QED
      BY <2>1, <2>2
  <1>3. QED
    BY <1>1, <1>2 DEF Remembered

\* Neither way to show a snapshot announces a win the browser remembers.
LEMMA QuietlyRemembers ==
    ASSUME Remembered, NEW p, NEW g, NEW upto, Quietly(p, g, upto)
    PROVE  Remembered'
  <1>1. Render([p EXCEPT !.polling = socket = Nil], g, upto, {})
    BY DEF Quietly
  <1>2. QED
    BY <1>1, RenderRemembers

\* The same with notices.
LEMMA NotifyingRemembers ==
    ASSUME Remembered, NEW g, NEW upto, NEW after, Notifying(g, upto, after)
    PROVE  Remembered'
  <1> DEFINE wins == IF page.cursor[g] = Nil THEN {} ELSE FreshWins(g, upto, after)
  <1>1. wins \cap seen = {}
    BY FreshIsUnseen
  <1>2. Render(page, g, upto, wins)
    BY DEF Notifying
  <1>3. QED
    BY <1>1, <1>2, RenderRemembers

\* Every step keeps what was announced remembered.
LEMMA StepRemembers ==
    ASSUME Remembered, [LiveNext]_liveVars
    PROVE  Remembered'
  <1>1. ASSUME UNCHANGED <<announced, seen>> PROVE Remembered'
    BY <1>1 DEF Remembered
  <1>2. ASSUME NEW s \in Stories, Emit(s) PROVE Remembered'
    BY <1>1, <1>2 DEF Emit
  <1>3. ASSUME NEW j \in PageJobs, Read(j) \/ Fails(j) PROVE Remembered'
    BY <1>1, <1>3 DEF Read, Fails
  <1>4. CASE User
    <2>1. ASSUME NEW j \in Opens, Opened(j) PROVE Remembered'
      BY <2>1, QuietlyRemembers DEF Opened
    <2>2. ASSUME NEW j \in Opens, Buy(j) \/ \E g \in Games : Open(j, g) PROVE Remembered'
      BY <1>1, <2>2 DEF Buy, Open
    <2>3. ASSUME BuyStart \/ BuyFails PROVE Remembered'
      BY <1>1, <2>3 DEF BuyStart, BuyFails
    <2>4. QED
      BY <1>4, <2>1, <2>2, <2>3 DEF User
  <1>5. CASE Timers
    <2>1. ASSUME Polled PROVE Remembered'
      BY <2>1, NotifyingRemembers DEF Polled
    <2>2. ASSUME Watched PROVE Remembered'
      BY <2>2, NotifyingRemembers DEF Watched
    <2>3. ASSUME Fetched PROVE Remembered'
      BY <2>3, QuietlyRemembers DEF Fetched
    <2>4. ASSUME NEW got \in SUBSET Games, Refreshed(got) PROVE Remembered'
      <3> DEFINE p == [page EXCEPT !.cache = Cached(got)]
      <3>1. UNCHANGED <<announced, seen>> \/ \E g \in Picked : Sync(p, g)
        BY <2>4 DEF Refreshed
      <3>2. ASSUME NEW g \in Picked, Sync(p, g) PROVE Remembered'
        <4>1. UNCHANGED <<announced, seen>> \/ Quietly(p, g, p.cache[g])
          BY <3>2 DEF Sync
        <4>2. QED
          BY <1>1, <4>1, QuietlyRemembers
      <3>3. QED
        BY <1>1, <3>1, <3>2
    <2>5. ASSUME PollEvents \/ Watch \/ \E ok \in BOOLEAN : Refresh(ok) PROVE Remembered'
      BY <1>1, <2>5 DEF PollEvents, Watch, Refresh
    <2>6. QED
      BY <1>5, <2>1, <2>2, <2>3, <2>4, <2>5 DEF Timers
  <1>6. CASE Socket
    <2>1. ASSUME Pushed PROVE Remembered'
      <3> DEFINE push == Head(socket.down)
      <3>1. UNCHANGED <<announced, seen>> \/ Notifying(push.game, push.upto, Cursor(push.game))
        BY <2>1 DEF Pushed
      <3>2. QED
        BY <1>1, <3>1, NotifyingRemembers
    <2>2. ASSUME ServerPush \/ Connect \/ Disconnect PROVE Remembered'
      BY <1>1, <2>2 DEF ServerPush, Connect, Disconnect
    <2>3. QED
      BY <1>6, <2>1, <2>2 DEF Socket
  <1>7. CASE Reload
    BY <1>1, <1>7 DEF Reload
  <1>8. CASE UNCHANGED liveVars
    BY <1>1, <1>8 DEF liveVars
  <1>9. QED
    BY <1>2, <1>3, <1>4, <1>5, <1>6, <1>7, <1>8 DEF LiveNext

\* A win is announced once at most, in whatever order polls, ticks and pushes bring it
\* and however often the page is loaded anew (app.js, pushWinnerNotice).
THEOREM AnnouncedOnce == LiveSpec => []NoticedOnce
  <1>1. LiveInit => Remembered
    BY DEF LiveInit, Remembered
  <1>2. Remembered /\ [LiveNext]_liveVars => Remembered'
    BY StepRemembers
  <1>3. Remembered => NoticedOnce
    BY DEF Remembered, NoticedOnce
  <1>4. QED
    BY <1>1, <1>2, <1>3, PTL DEF LiveSpec
-----------------------------------------------------------------------------
(* The largest of a set of numbers *)

\* So has a set that is part of an interval.
LEMMA LargestOfInterval ==
    ASSUME NEW n \in Nat, NEW S \in SUBSET (0 .. n), S # {}
    PROVE  Max(S) \in S /\ \A y \in S : Max(S) >= y
  <1>1. IsFiniteSet(0 .. n)
    BY FS_Interval
  <1>2. IsFiniteSet(S)
    BY <1>1, FS_Subset
  <1>4. S \in SUBSET Nat
    OBVIOUS
  <1>3. QED
    BY <1>2, <1>4, Largest

-----------------------------------------------------------------------------
(* The live view: its types *)

EventRecord == [game : Games, kind : {"call", "win", "end"}]
PageRecord ==
    [game : Games \cup {Nil}, shown : [game : Games, upto : Versions] \cup {Nil},
     games : SUBSET Games, polling : BOOLEAN, lastWin : Versions,
     cache : [Games -> Versions \cup {Nil}], cursor : [Games -> Versions \cup {Nil}]]
JobRecord ==
    [pc : {"idle", "open", "poll", "list", "fetch", "due", "watch"},
     game : Games \cup {Nil}, after : Versions, upto : Versions \cup {Nil}]
SocketRecord ==
    [sub : Games \cup {Nil}, key : Versions \cup {Nil},
     down : Seq([game : Games, upto : Versions])]

\* What waits for the snapshot of one game knows which.
Waiting(r) == r.pc \in {"open", "poll", "fetch", "watch"} => r.game \in Games
NotBehind(p) == p.shown # Nil => p.cursor[p.shown.game] >= p.shown.upto

NewsSound    == news \in Seq(EventRecord) /\ \E s \in Stories : IsPrefix(news, s)
PageSound    == page \in PageRecord /\ NotBehind(page)
MarksSound   == seen \in SUBSET Ids /\ announced \in [Ids -> Nat]
JobsSound    == job \in [PageJobs -> JobRecord] /\ \A j \in PageJobs : Waiting(job[j])
SocketSound  == socket \in SocketRecord \cup {Nil}
BuyingSound  == buying \in Games \cup {Nil} /\ (buying # Nil => page.game # Nil)
PollingSound == page.polling => socket = Nil
UsedSound    == used \in [opens : 0 .. MaxOpens, faults : 0 .. MaxFailures]

Coherent == /\ NewsSound /\ PageSound /\ MarksSound /\ JobsSound
         /\ SocketSound /\ BuyingSound /\ PollingSound /\ UsedSound

\* The longest story bounds the ids.
LEMMA LongestStory ==
    /\ Max({Len(s) : s \in Stories}) \in Nat
    /\ \A s \in Stories : Len(s) <= Max({Len(t) : t \in Stories})
  <1> DEFINE T == {Len(s) : s \in Stories}
             f == [s \in Stories |-> Len(s)]
  <1>1. \A s \in Stories : Len(s) \in Nat
    BY LiveAssumption, LenProperties
  <1>2. IsFiniteSet(T)
    <2>1. f \in Surjection(Stories, T)
      BY DEF Surjection
    <2> HIDE DEF f, T
    <2>2. QED
      BY <2>1, LiveAssumption, FS_Surjection
  <1>3. T \in SUBSET Nat /\ T # {}
    BY <1>1, LiveAssumption
  <1>4. Max(T) \in T /\ \A y \in T : Max(T) >= y
    <2> HIDE DEF T
    <2>1. QED
      BY <1>2, <1>3, Largest
  <1>5. QED
    BY <1>1, <1>3, <1>4

\* The ids and the versions are intervals.
LEMMA VersionsAre ==
    \E m \in Nat : Ids = 1 .. m /\ Versions = 0 .. m /\ (\A s \in Stories : Len(s) <= m)
  <1> DEFINE m == Max({Len(s) : s \in Stories})
  <1>1. m \in Nat /\ Ids = 1 .. m /\ \A s \in Stories : Len(s) <= m
    BY LongestStory DEF Ids
  <1> HIDE DEF m
  <1>2. Versions = 0 .. m
    <2>1. (1 .. m) \cup {0} = 0 .. m
      BY <1>1
    <2>2. QED
      BY <1>1, <2>1 DEF Versions
  <1>3. QED
    BY <1>1, <1>2

\* What happened fits the ids.
LEMMA NowFits == ASSUME NewsSound PROVE Now \in Versions
  <1>1. PICK s \in Stories : Len(news) <= Len(s)
    BY DEF NewsSound, IsPrefix
  <1>2. PICK m \in Nat : Ids = 1 .. m /\ Versions = 0 .. m /\ (\A t \in Stories : Len(t) <= m)
    BY VersionsAre
  <1>3. Len(news) \in Nat /\ Len(s) \in Nat
    BY LiveAssumption, LenProperties DEF NewsSound
  <1>4. QED
    BY <1>1, <1>2, <1>3 DEF Now

\* The version of a snapshot is an id the snapshot knows, or zero.
LEMMA VersionFits == ASSUME NEW g, NEW n \in Versions PROVE Version(g, n) \in Versions
  <1>1. PICK m \in Nat : Ids = 1 .. m /\ Versions = 0 .. m
    BY VersionsAre
  <1>2. Events(g, n) \cup {0} \in SUBSET (0 .. m)
    BY <1>1 DEF Events
  <1>3. Max(Events(g, n) \cup {0}) \in 0 .. m
    <2> HIDE DEF Events
    <2>1. QED
      BY <1>2, LargestOfInterval
  <1>4. QED
    BY <1>1, <1>3 DEF Version

\* The wins announced are among the events that can happen.
LEMMA FreshFits ==
    ASSUME NEW g, NEW n \in Versions, NEW after
    PROVE  FreshWins(g, n, after) \in SUBSET Ids
  <1>1. PICK m \in Nat : Ids = 1 .. m /\ Versions = 0 .. m
    BY VersionsAre
  <1>2. FreshWins(g, n, after) \subseteq 1 .. n
    BY DEF FreshWins, Recent, Events
  <1>3. QED
    BY <1>1, <1>2

\* The cursor of a game is a version.
LEMMA CursorFits == ASSUME PageSound, NEW g \in Games PROVE Cursor(g) \in Versions
  <1>1. page.cursor[g] \in Versions \cup {Nil}
    BY DEF PageSound, PageRecord
  <1>2. QED
    BY <1>1 DEF Cursor, Versions

\* No game and no version is taken for none.
LEMMA NilIsNil == Nil \notin Games /\ Nil \notin Versions
  BY VersionsAre, LiveAssumption

-----------------------------------------------------------------------------
(* The live view: its steps *)

\* The page as it is loaded.
LEMMA InitSound == LiveInit => Coherent
  <1> SUFFICES ASSUME LiveInit PROVE Coherent
    OBVIOUS
  <1> USE DEF LiveInit
  <1>0. 0 \in Versions
    BY DEF Versions
  <1>1. NewsSound
    <2>1. PICK s \in Stories : s \in Seq(EventRecord)
      BY LiveAssumption DEF EventRecord
    <2>2. IsPrefix(<<>>, s)
      <3>1. Len(s) \in Nat /\ Len(<<>>) = 0
        BY <2>1, LenProperties
      <3>2. SubSeq(<<>>, 1, 0) = SubSeq(s, 1, 0)
        BY <2>1, SubSeqEmpty
      <3>3. QED
        BY <3>1, <3>2 DEF IsPrefix
    <2>3. QED
      BY <2>2 DEF NewsSound
  <1>2. PageSound
    <2>1. Blank \in PageRecord
      BY <1>0 DEF Blank, PageRecord
    <2>2. QED
      BY <2>1 DEF PageSound, NotBehind, Blank
  <1>3. MarksSound
    BY DEF MarksSound
  <1>4. JobsSound
    <2>1. Resting \in JobRecord /\ Waiting(Resting)
      BY <1>0 DEF Resting, JobRecord, Waiting
    <2>2. QED
      BY <2>1 DEF JobsSound
  <1>5. BuyingSound /\ SocketSound /\ PollingSound
    BY DEF BuyingSound, SocketSound, PollingSound
  <1>6. UsedSound
    BY LiveAssumption DEF UsedSound
  <1>7. QED
    BY <1>1, <1>2, <1>3, <1>4, <1>5, <1>6 DEF Coherent

\* A job goes on.
LEMMA JobGoesOn ==
    ASSUME JobsSound, NEW j \in PageJobs, NEW r \in JobRecord, Waiting(r),
           job' = [job EXCEPT ![j] = r]
    PROVE  JobsSound'
  <1>1. job' \in [PageJobs -> JobRecord]
    BY DEF JobsSound
  <1>2. ASSUME NEW i \in PageJobs PROVE Waiting(job'[i])
    BY DEF JobsSound
  <1>3. QED
    BY <1>1, <1>2 DEF JobsSound

\* A function at rest, and a tick that is due, wait for no game.
LEMMA JobsAre ==
    Resting \in JobRecord /\ Waiting(Resting) /\ TickDue \in JobRecord /\ Waiting(TickDue)
  BY DEF Resting, TickDue, JobRecord, Waiting, Versions

\* A function that awaits the snapshot of a game knows which.
LEMMA AwaitingIs ==
    ASSUME NEW pc \in {"open", "poll", "list", "fetch", "watch"}, NEW g \in Games \cup {Nil},
           NEW n \in Versions, pc # "list" => g \in Games
    PROVE  Awaiting(pc, g, n) \in JobRecord /\ Waiting(Awaiting(pc, g, n))
  BY DEF Awaiting, JobRecord, Waiting

\* A fault is counted within the bound.
LEMMA FaultCounts == ASSUME UsedSound, Failure PROVE UsedSound'
  <1>1. used.faults < MaxFailures /\ used' = [used EXCEPT !.faults = used.faults + 1]
    BY DEF Failure
  <1>2. MaxFailures \in Nat
    BY LiveAssumption
  <1>3. QED
    BY <1>1, <1>2 DEF UsedSound

\* So is a game opened or a purchase.
LEMMA OpenCounts ==
    ASSUME UsedSound, used.opens < MaxOpens, used' = [used EXCEPT !.opens = @ + 1]
    PROVE  UsedSound'
  <1>1. MaxOpens \in Nat
    BY LiveAssumption
  <1>2. QED
    BY <1>1 DEF UsedSound

\* What Render makes of the page.
Rendered(p, g) ==
    /\ PageSound' /\ MarksSound'
    /\ page'.game = g /\ page'.polling = p.polling

\* What is shown is at most what the cursor knows (renderLiveSnapshot).
LEMMA RenderSound ==
    ASSUME PageSound, MarksSound, NEW p \in PageRecord, NotBehind(p), p.cursor = page.cursor,
           NEW g \in Games, NEW upto \in Versions, NEW wins \in SUBSET Ids,
           Render(p, g, upto, wins)
    PROVE  Rendered(p, g)
  <1> DEFINE c == Max({Cursor(g), upto})
             w == Max(wins \cup {p.lastWin})
             q == [p EXCEPT !.game = g, !.shown = [game |-> g, upto |-> upto],
                            !.cache[g] = upto, !.cursor[g] = c, !.lastWin = w]
  <1>1. page' = q /\ seen' = seen \cup wins
        /\ announced' = [e \in Ids |-> IF e \in wins THEN announced[e] + 1 ELSE announced[e]]
    BY DEF Render
  <1>2. PICK m \in Nat : Ids = 1 .. m /\ Versions = 0 .. m
    BY VersionsAre
  <1>3. c \in Versions /\ c >= upto
    <2> DEFINE S == {Cursor(g), upto}
    <2>1. S \in SUBSET (0 .. m) /\ S # {} /\ upto \in S
      BY <1>2, CursorFits
    <2>2. Max(S) \in S /\ \A y \in S : Max(S) >= y
      <3> HIDE DEF S
      <3>1. QED
        BY <2>1, LargestOfInterval
    <2>3. QED
      BY <1>2, <2>1, <2>2
  <1>4. w \in Versions
    <2> DEFINE S == wins \cup {p.lastWin}
    <2>1. p.lastWin \in Versions
      BY DEF PageRecord
    <2>2. S \in SUBSET (0 .. m) /\ S # {}
      <3>1. wins \subseteq 0 .. m
        BY <1>2
      <3>2. p.lastWin \in 0 .. m
        BY <1>2, <2>1
      <3>3. QED
        BY <3>1, <3>2
    <2>3. Max(S) \in S
      <3> HIDE DEF S
      <3>1. QED
        BY <2>2, LargestOfInterval
    <2>4. QED
      BY <1>2, <2>2, <2>3
  <1> HIDE DEF c, w
  <1>5. q \in PageRecord
    BY <1>3, <1>4 DEF PageRecord
  <1>6. NotBehind(q)
    <2>1. q.shown = [game |-> g, upto |-> upto] /\ q.cursor[g] = c
      BY DEF PageRecord
    <2>2. QED
      BY <1>3, <2>1 DEF NotBehind
  <1>7. q.game = g /\ q.polling = p.polling
    BY DEF PageRecord
  <1>8. PageSound'
    BY <1>1, <1>5, <1>6 DEF PageSound, NotBehind
  <1>9. MarksSound'
    BY <1>1 DEF MarksSound
  <1>10. QED
    <2> HIDE DEF q
    <2>1. QED
      BY <1>1, <1>7, <1>8, <1>9 DEF Rendered

\* A subscription keeps the type of the socket.
LEMMA SubscribeSound ==
    ASSUME SocketSound, NEW g \in Games, socket' = Subscribe(g)
    PROVE  SocketSound' /\ (socket = Nil => socket' = Nil)
  BY DEF SocketSound, SocketRecord, Subscribe

\* What Quietly makes of the page and the socket.
LEMMA QuietlySound ==
    ASSUME PageSound, MarksSound, SocketSound, BuyingSound,
           NEW p \in PageRecord, NotBehind(p), p.cursor = page.cursor,
           NEW g \in Games, NEW upto \in Versions, Quietly(p, g, upto)
    PROVE  /\ PageSound' /\ MarksSound' /\ SocketSound' /\ PollingSound'
           /\ page'.game \in Games
  <1> DEFINE b == socket = Nil
             q == [p EXCEPT !.polling = b]
  <1>1. q \in PageRecord /\ q.cursor = page.cursor /\ NotBehind(q) /\ (q.polling <=> b)
    <2>1. b \in BOOLEAN
      OBVIOUS
    <2> HIDE DEF b
    <2>2. q \in PageRecord
      BY <2>1 DEF PageRecord
    <2>3. q.cursor = p.cursor /\ q.shown = p.shown /\ q.polling = b
      BY DEF PageRecord
    <2> HIDE DEF q
    <2>4. QED
      BY <2>2, <2>3 DEF NotBehind
  <1>2. Render(q, g, upto, {}) /\ socket' = Subscribe(g)
    BY DEF Quietly
  <1>3. Rendered(q, g)
    <2> HIDE DEF q
    <2>1. QED
      BY <1>1, <1>2, RenderSound
  <1>4. SocketSound' /\ (socket = Nil => socket' = Nil)
    BY <1>2, SubscribeSound
  <1>5. QED
    <2> HIDE DEF q
    <2>1. page'.polling = q.polling /\ page'.game = g /\ PageSound' /\ MarksSound'
      BY <1>3 DEF Rendered
    <2>2. PollingSound'
      BY <1>1, <1>4, <2>1 DEF PollingSound
    <2>3. QED
      BY <1>4, <2>1, <2>2

\* A snapshot with notices keeps the page.
LEMMA NotifyingSound ==
    ASSUME PageSound, MarksSound, NEW g \in Games, NEW upto \in Versions, NEW after,
           Notifying(g, upto, after)
    PROVE  Rendered(page, g)
  <1> DEFINE wins == IF page.cursor[g] = Nil THEN {} ELSE FreshWins(g, upto, after)
  <1>1. wins \in SUBSET Ids
    BY FreshFits
  <1>2. Render(page, g, upto, wins)
    BY DEF Notifying
  <1>3. page \in PageRecord /\ NotBehind(page)
    BY DEF PageSound
  <1>4. QED
    <2> HIDE DEF wins
    <2>1. QED
      BY <1>1, <1>2, <1>3, RenderSound

\* Another game is selected, or what else does not concern the view.
LEMMA Selected ==
    ASSUME PageSound, NEW g \in Games, page' = [page EXCEPT !.game = g]
    PROVE  PageSound' /\ page'.game \in Games /\ page'.polling = page.polling
  BY DEF PageSound, PageRecord, NotBehind
\* The list of games takes the place of the one before.
LEMMA Listed ==
    ASSUME PageSound, NEW s \in SUBSET Games, page' = [page EXCEPT !.games = s]
    PROVE  PageSound' /\ page'.game = page.game /\ page'.polling = page.polling
  BY DEF PageSound, PageRecord, NotBehind
\* The polling starts or stops.
LEMMA Switched ==
    ASSUME PageSound, NEW b \in BOOLEAN, page' = [page EXCEPT !.polling = b]
    PROVE  PageSound' /\ page'.game = page.game /\ page'.polling = b
  BY DEF PageSound, PageRecord, NotBehind

\* What an answer is for, and what it knows.
LEMMA JobFits ==
    ASSUME JobsSound, NEW j \in PageJobs
    PROVE  /\ job[j].upto # Nil => job[j].upto \in Versions /\ Got(j) \in Versions
           /\ job[j].pc \in {"open", "poll", "fetch", "watch"} => job[j].game \in Games
           /\ job[j].after \in Versions
  <1>1. job[j] \in JobRecord /\ Waiting(job[j])
    BY DEF JobsSound
  <1>2. job[j].upto # Nil => job[j].upto \in Versions
    BY <1>1 DEF JobRecord
  <1>3. QED
    BY <1>1, <1>2, VersionFits DEF Got, Waiting, JobRecord

\* Something happens in a game.
LEMMA EmitSound ==
    ASSUME Coherent, NEW s \in Stories, Emit(s)
    PROVE  Coherent'
  <1>1. UNCHANGED <<page, seen, job, socket, buying, announced, used>>
    BY DEF Emit
  <1>2. NewsSound'
    <2> DEFINE n == Len(news)
               x == s[n + 1]
    <2>1. /\ IsPrefix(news, s) /\ n < Len(s) /\ news' = Append(news, x)
          /\ news \in Seq(EventRecord) /\ s \in Seq(EventRecord)
      BY LiveAssumption DEF Emit, Now, Coherent, NewsSound, EventRecord
    <2>2. n \in Nat /\ Len(s) \in Nat /\ x \in EventRecord
      BY <2>1, LenProperties, ElementOfSeq
    <2>3. news' \in Seq(EventRecord) /\ Len(news') = n + 1
      BY <2>1, <2>2, AppendProperties
    <2>4. \A i \in 1 .. n : news[i] = s[i]
      <3> DEFINE a == SubSeq(news, 1, n)
                 b == SubSeq(s, 1, n)
      <3>1. a = b
        BY <2>1 DEF IsPrefix
      <3>2. \A i \in 1 .. n : a[i] = news[i] /\ b[i] = s[i]
        BY <2>1, <2>2
      <3>3. QED
        <4> HIDE DEF a, b
        <4>1. QED
          BY <3>1, <3>2
    <2>5. \A i \in 1 .. (n + 1) : news'[i] = s[i]
      BY <2>1, <2>2, <2>4, AppendProperties
    <2>6. SubSeq(news', 1, n + 1) = SubSeq(s, 1, n + 1)
      <3> HIDE DEF x
      <3> DEFINE a == SubSeq(news', 1, n + 1)
                 b == SubSeq(s, 1, n + 1)
      <3>1. a = [i \in 1 .. (n + 1) |-> news'[i]] /\ b = [i \in 1 .. (n + 1) |-> s[i]]
        BY <2>1, <2>2, <2>3
      <3>2. QED
        BY <2>5, <3>1
    <2>7. IsPrefix(news', s)
      <3> HIDE DEF x
      <3>1. Len(news') <= Len(s)
        BY <2>1, <2>2, <2>3
      <3>2. QED
        BY <2>3, <2>6, <3>1 DEF IsPrefix
    <2>8. QED
      BY <2>3, <2>7 DEF NewsSound
  <1>3. QED
    BY <1>1, <1>2 DEF Coherent, PageSound, NotBehind, MarksSound, JobsSound, Waiting, SocketSound,
                      BuyingSound, PollingSound, UsedSound

\* What is left alone stays as it is.
LEMMA SameNews == ASSUME NewsSound, UNCHANGED news PROVE NewsSound'
  BY DEF NewsSound
LEMMA SamePage == ASSUME PageSound, UNCHANGED page PROVE PageSound'
  BY DEF PageSound, NotBehind
LEMMA SameMarks == ASSUME MarksSound, UNCHANGED <<seen, announced>> PROVE MarksSound'
  BY DEF MarksSound
LEMMA SameJobs == ASSUME JobsSound, UNCHANGED job PROVE JobsSound'
  BY DEF JobsSound, Waiting
LEMMA SameSocket == ASSUME SocketSound, UNCHANGED socket PROVE SocketSound'
  BY DEF SocketSound
LEMMA SameBuying ==
    ASSUME BuyingSound, UNCHANGED buying, page'.game # Nil \/ page'.game = page.game
    PROVE  BuyingSound'
  BY DEF BuyingSound
LEMMA SamePolling ==
    ASSUME PollingSound, UNCHANGED socket, page'.polling = page.polling PROVE PollingSound'
  BY DEF PollingSound
LEMMA SameUsed == ASSUME UsedSound, UNCHANGED used PROVE UsedSound'
  BY DEF UsedSound

\* The backend reads what is asked for.
LEMMA ReadSound ==
    ASSUME Coherent, NEW j \in PageJobs, Read(j)
    PROVE  Coherent'
  <1> USE DEF Coherent
  <1>1. UNCHANGED <<news, page, seen, socket, buying, announced, used>>
    BY DEF Read
  <1>2. JobsSound'
    <2> DEFINE r == [job[j] EXCEPT !.upto = Now]
    <2>1. job[j] \in JobRecord /\ Waiting(job[j]) /\ Now \in Versions
      BY NowFits DEF JobsSound
    <2>2. r \in JobRecord /\ Waiting(r)
      BY <2>1 DEF JobRecord, Waiting
    <2>3. job' = [job EXCEPT ![j] = r]
      BY DEF Read, JobsSound
    <2>4. QED
      <3> HIDE DEF r
      <3>1. QED
        BY <2>2, <2>3, JobGoesOn
  <1>3. QED
    BY <1>1, <1>2, SameNews, SamePage, SameMarks, SameSocket, SameBuying, SamePolling, SameUsed

\* An answer does not come.
LEMMA FailsSound ==
    ASSUME Coherent, NEW j \in PageJobs, Fails(j)
    PROVE  Coherent'
  <1> USE DEF Coherent
  <1>1. Failure /\ UNCHANGED <<news, page, seen, socket, buying, announced>>
    BY DEF Fails
  <1>2. JobsSound'
    <2>1. job' = [job EXCEPT ![j] = TickDue] \/ job' = [job EXCEPT ![j] = Resting]
      BY DEF Fails
    <2>2. QED
      BY <2>1, JobGoesOn, JobsAre
  <1>3. QED
    BY <1>1, <1>2, SameNews, SamePage, SameMarks, SameSocket, SameBuying, SamePolling, FaultCounts

\* A game is opened, by choice or after a purchase.
LEMMA OpeningSound ==
    ASSUME Coherent, NEW j \in Opens, NEW g \in Games, Opening(j, g),
           UNCHANGED <<news, seen, announced, socket>>
    PROVE  NewsSound' /\ PageSound' /\ MarksSound' /\ JobsSound' /\ SocketSound' /\ PollingSound'
           /\ page'.game \in Games
  <1> USE DEF Coherent
  <1>1. page' = [page EXCEPT !.game = g] /\ job' = [job EXCEPT ![j] = Awaiting("open", g, 0)]
    BY DEF Opening
  <1>2. PageSound' /\ page'.game \in Games /\ page'.polling = page.polling
    BY <1>1, Selected
  <1>3. JobsSound'
    <2>1. 0 \in Versions /\ j \in PageJobs
      BY DEF Versions, PageJobs
    <2>2. Awaiting("open", g, 0) \in JobRecord /\ Waiting(Awaiting("open", g, 0))
      BY <2>1, AwaitingIs
    <2>3. QED
      BY <1>1, <2>1, <2>2, JobGoesOn
  <1>4. QED
    BY <1>2, <1>3, SameNews, SameMarks, SameSocket, SamePolling

\* The user opens a game or buys cards.
LEMMA UserSound ==
    ASSUME Coherent, User
    PROVE  Coherent'
  <1> USE DEF Coherent
  <1>1. ASSUME NEW j \in Opens, NEW g \in Games, Open(j, g) PROVE Coherent'
    <2>1. Opening(j, g) /\ UNCHANGED <<news, seen, socket, buying, announced>>
      BY <1>1 DEF Open
    <2>2. UsedSound'
      BY <1>1, OpenCounts DEF Open
    <2>3. BuyingSound'
      BY <2>1, OpeningSound, SameBuying, NilIsNil
    <2>4. QED
      BY <2>1, <2>2, <2>3, OpeningSound
  <1>2. CASE BuyStart
    <2>1. buying' = page.game /\ page.game # Nil
          /\ UNCHANGED <<news, page, seen, job, socket, announced>>
      BY <1>2 DEF BuyStart
    <2>2. UsedSound'
      BY <1>2, OpenCounts DEF BuyStart
    <2>3. page.game \in Games \cup {Nil}
      BY DEF PageSound, PageRecord
    <2>4. BuyingSound'
      BY <2>1, <2>3 DEF BuyingSound
    <2>5. QED
      BY <2>1, <2>2, <2>4, SameNews, SamePage, SameMarks, SameJobs, SameSocket, SamePolling
  <1>3. CASE BuyFails
    <2>1. buying' = Nil /\ Failure /\ UNCHANGED <<news, page, seen, job, socket, announced>>
      BY <1>3 DEF BuyFails
    <2>2. BuyingSound'
      BY <2>1 DEF BuyingSound
    <2>3. QED
      BY <2>1, <2>2, FaultCounts, SameNews, SamePage, SameMarks, SameJobs, SameSocket, SamePolling
  <1>4. ASSUME NEW j \in Opens, Buy(j) PROVE Coherent'
    <2>1. buying # Nil /\ buying' = Nil /\ Opening(j, page.game)
          /\ UNCHANGED <<news, seen, socket, announced, used>>
      BY <1>4 DEF Buy
    <2>2. page.game \in Games
      BY <2>1 DEF BuyingSound, PageSound, PageRecord
    <2>3. BuyingSound'
      BY <2>1 DEF BuyingSound
    <2>4. QED
      BY <2>1, <2>2, <2>3, OpeningSound, SameUsed
  <1>5. ASSUME NEW j \in Opens, Opened(j) PROVE Coherent'
    <2>1. /\ Quietly(page, job[j].game, Got(j))
          /\ job[j].pc = "open" /\ job[j].upto # Nil
          /\ job' = [job EXCEPT ![j] = Resting]
          /\ UNCHANGED <<news, buying, used>>
      BY <1>5 DEF Opened, Arrived
    <2>2. j \in PageJobs
      BY DEF PageJobs
    <2>3. job[j].game \in Games /\ Got(j) \in Versions
      BY <2>1, <2>2, JobFits
    <2>4. page \in PageRecord /\ NotBehind(page)
      BY DEF PageSound
    <2>5. PageSound' /\ MarksSound' /\ SocketSound' /\ PollingSound' /\ page'.game \in Games
      BY <2>1, <2>3, <2>4, QuietlySound
    <2>6. JobsSound'
      BY <2>1, <2>2, JobGoesOn, JobsAre
    <2>7. BuyingSound'
      BY <2>1, <2>5, SameBuying, NilIsNil
    <2>8. QED
      BY <2>1, <2>5, <2>6, <2>7, SameNews, SameUsed
  <1>6. QED
    BY <1>1, <1>2, <1>3, <1>4, <1>5 DEF User

\* A snapshot arrives with notices.
LEMMA NoticeSound ==
    ASSUME Coherent, NEW g \in Games, NEW upto \in Versions, NEW after, Notifying(g, upto, after),
           UNCHANGED <<news, buying, used>>
    PROVE  /\ NewsSound' /\ PageSound' /\ MarksSound' /\ BuyingSound' /\ UsedSound'
           /\ page'.polling = page.polling
  <1> USE DEF Coherent
  <1>1. PageSound' /\ MarksSound' /\ page'.game = g /\ page'.polling = page.polling
    BY NotifyingSound DEF Rendered
  <1>2. BuyingSound'
    BY <1>1, SameBuying, NilIsNil
  <1>3. QED
    BY <1>1, <1>2, SameNews, SameUsed

\* The snapshot of one game arrives.
LEMMA ArrivedSound ==
    ASSUME Coherent, NEW j \in PageJobs, NEW pc \in {"poll", "watch"}, Arrived(j, pc),
           Notifying(job[j].game, Got(j), job[j].after),
           job' = [job EXCEPT ![j] = Resting], UNCHANGED <<news, socket, buying, used>>
    PROVE  Coherent'
  <1> USE DEF Coherent
  <1>1. job[j].game \in Games /\ Got(j) \in Versions
    BY JobFits DEF Arrived
  <1>2. NewsSound' /\ PageSound' /\ MarksSound' /\ BuyingSound' /\ UsedSound'
        /\ page'.polling = page.polling
    BY <1>1, NoticeSound
  <1>3. JobsSound'
    BY JobGoesOn, JobsAre
  <1>4. QED
    BY <1>2, <1>3, SameSocket, SamePolling

\* The snapshots of the list arrive.
LEMMA RefreshedSound ==
    ASSUME Coherent, NEW got \in SUBSET Games, Refreshed(got)
    PROVE  Coherent'
  <1> USE DEF Coherent
  <1> DEFINE c == Cached(got)
             p == [page EXCEPT !.cache = c]
  <1>1. /\ Arrived(Tick, "list")
        /\ UNCHANGED used \/ Failure
        /\ UNCHANGED <<news, buying>>
        /\ \/ TickStep("list", TickDue) /\ UNCHANGED <<page, seen, announced, socket>>
           \/ \E g \in Picked : Sync(p, g)
    BY DEF Refreshed
  <1>2. UsedSound'
    BY <1>1, FaultCounts, SameUsed
  <1>3. Tick \in PageJobs
    BY DEF PageJobs
  <1>4. CASE TickStep("list", TickDue) /\ UNCHANGED <<page, seen, announced, socket>>
    <2>1. JobsSound'
      BY <1>3, <1>4, JobGoesOn, JobsAre DEF TickStep
    <2>2. QED
      BY <1>1, <1>2, <1>4, <2>1, SameNews, SamePage, SameMarks, SameSocket, SameBuying, SamePolling
  <1>5. ASSUME NEW g \in Picked, Sync(p, g) PROVE Coherent'
    <2>1. g \in Games
      BY DEF Picked, PageSound, PageRecord
    <2>2. c \in [Games -> Versions \cup {Nil}]
      <3>1. job[Tick].upto \in Versions
        BY <1>1, <1>3, JobFits DEF Arrived
      <3>2. \A h \in Games : Version(h, job[Tick].upto) \in Versions
        BY <3>1, VersionFits
      <3>3. page.cache \in [Games -> Versions \cup {Nil}]
        BY DEF PageSound, PageRecord
      <3>4. QED
        BY <3>2, <3>3 DEF Cached
    <2> HIDE DEF c
    <2>3. p \in PageRecord
      BY <2>2 DEF PageSound, PageRecord
    <2>4. p.cursor = page.cursor /\ p.shown = page.shown /\ p.game = page.game
          /\ p.polling = page.polling /\ p.cache = c
      BY DEF PageSound, PageRecord
    <2>5. NotBehind(p)
      <3> HIDE DEF p
      <3>1. QED
        BY <2>4 DEF NotBehind, PageSound
    <2> HIDE DEF p
    <2>6. CASE Quietly(p, g, p.cache[g]) /\ p.cache[g] # Nil /\ TickStep("list", TickDue)
      <3>1. p.cache[g] \in Versions
        BY <2>1, <2>2, <2>4, <2>6
      <3>2. PageSound' /\ MarksSound' /\ SocketSound' /\ PollingSound' /\ page'.game \in Games
        BY <2>1, <2>3, <2>4, <2>5, <2>6, <3>1, QuietlySound
      <3>3. JobsSound'
        BY <1>3, <2>6, JobGoesOn, JobsAre DEF TickStep
      <3>4. BuyingSound'
        BY <1>1, <3>2, SameBuying, NilIsNil
      <3>5. QED
        BY <1>1, <1>2, <3>2, <3>3, <3>4, SameNews
    <2>7. CASE page' = p /\ TickStep("list", Awaiting("fetch", g, 0))
               /\ UNCHANGED <<seen, announced, socket>>
      <3>1. PageSound'
        BY <2>3, <2>5, <2>7 DEF PageSound, NotBehind
      <3>2. JobsSound'
        <4>1. 0 \in Versions
          BY DEF Versions
        <4>2. Awaiting("fetch", g, 0) \in JobRecord /\ Waiting(Awaiting("fetch", g, 0))
          BY <2>1, <4>1, AwaitingIs
        <4>3. QED
          BY <1>3, <2>7, <4>2, JobGoesOn DEF TickStep
      <3>3. BuyingSound' /\ PollingSound'
        BY <1>1, <2>4, <2>7, SameBuying, SamePolling
      <3>4. QED
        BY <1>1, <1>2, <2>7, <3>1, <3>2, <3>3, SameNews, SameMarks, SameSocket
    <2>8. QED
      BY <1>5, <2>6, <2>7 DEF Sync
  <1>6. QED
    BY <1>1, <1>4, <1>5

\* The timers.
LEMMA TimersSound ==
    ASSUME Coherent, Timers
    PROVE  Coherent'
  <1> USE DEF Coherent
  <1>0. Tick \in PageJobs /\ Poller \in PageJobs
    BY DEF PageJobs
  <1>1. CASE PollEvents
    <2>1. /\ page.game # Nil
          /\ job' = [job EXCEPT ![Poller] = Awaiting("poll", page.game, Cursor(page.game))]
          /\ UNCHANGED <<news, page, seen, socket, buying, announced, used>>
      BY <1>1 DEF PollEvents
    <2>2. page.game \in Games
      BY <2>1 DEF PageSound, PageRecord
    <2> DEFINE r == Awaiting("poll", page.game, Cursor(page.game))
    <2>3. r \in JobRecord /\ Waiting(r)
      BY <2>2, CursorFits, AwaitingIs
    <2>4. JobsSound'
      <3> HIDE DEF r
      <3>1. QED
        BY <1>0, <2>1, <2>3, JobGoesOn DEF r
    <2>5. QED
      BY <2>1, <2>4, SameNews, SamePage, SameMarks, SameSocket, SameBuying, SamePolling, SameUsed
  <1>2. CASE Polled
    BY <1>0, <1>2, ArrivedSound DEF Polled
  <1>3. ASSUME NEW ok \in BOOLEAN, Refresh(ok) PROVE Coherent'
    <2>1. /\ job' = [job EXCEPT ![Tick] = Awaiting("list", Nil, 0)]
          /\ \/ page' = [page EXCEPT !.games = Active] /\ UNCHANGED used
             \/ Failure /\ UNCHANGED page
          /\ UNCHANGED <<news, seen, socket, buying, announced>>
      BY <1>3 DEF Refresh, TickStep
    <2>2. PageSound' /\ page'.game = page.game /\ page'.polling = page.polling
      <3>1. Active \in SUBSET Games
        BY DEF Active
      <3>2. CASE page' = [page EXCEPT !.games = Active]
        BY <3>1, <3>2, Listed
      <3>3. CASE UNCHANGED page
        BY <3>3, SamePage
      <3>4. QED
        BY <2>1, <3>2, <3>3
    <2>3. JobsSound'
      <3>1. 0 \in Versions
        BY DEF Versions
      <3>2. Awaiting("list", Nil, 0) \in JobRecord /\ Waiting(Awaiting("list", Nil, 0))
        BY <3>1, AwaitingIs
      <3>3. QED
        BY <1>0, <2>1, <3>2, JobGoesOn
    <2>4. UsedSound'
      BY <2>1, FaultCounts, SameUsed
    <2>5. QED
      BY <2>1, <2>2, <2>3, <2>4, SameNews, SameMarks, SameSocket, SameBuying, SamePolling
  <1>4. ASSUME NEW got \in SUBSET Games, Refreshed(got) PROVE Coherent'
    BY <1>4, RefreshedSound
  <1>5. CASE Fetched
    <2>1. /\ Quietly(page, job[Tick].game, Got(Tick))
          /\ job[Tick].pc = "fetch" /\ job[Tick].upto # Nil
          /\ job' = [job EXCEPT ![Tick] = TickDue]
          /\ UNCHANGED <<news, buying, used>>
      BY <1>5 DEF Fetched, Arrived, TickStep
    <2>2. job[Tick].game \in Games /\ Got(Tick) \in Versions
      BY <1>0, <2>1, JobFits
    <2>3. page \in PageRecord /\ NotBehind(page)
      BY DEF PageSound
    <2>4. PageSound' /\ MarksSound' /\ SocketSound' /\ PollingSound' /\ page'.game \in Games
      BY <2>1, <2>2, <2>3, QuietlySound
    <2>5. JobsSound'
      BY <1>0, <2>1, JobGoesOn, JobsAre
    <2>6. BuyingSound'
      BY <2>1, <2>4, SameBuying, NilIsNil
    <2>7. QED
      BY <2>1, <2>4, <2>5, <2>6, SameNews, SameUsed
  <1>6. CASE Watch
    <2>1. UNCHANGED <<news, page, seen, socket, buying, announced, used>>
      BY <1>6 DEF Watch
    <2>2. JobsSound'
      <3>1. CASE page.game = Nil \/ socket # Nil
        <4>1. job' = [job EXCEPT ![Tick] = Resting]
          BY <1>6, <3>1 DEF Watch, TickStep
        <4>2. QED
          BY <1>0, <4>1, JobGoesOn, JobsAre
      <3>2. CASE page.game # Nil /\ socket = Nil
        <4> DEFINE r == Awaiting("watch", page.game, Cursor(page.game))
        <4>1. job' = [job EXCEPT ![Tick] = r]
          BY <1>6, <3>2 DEF Watch, TickStep
        <4>2. page.game \in Games
          BY <3>2 DEF PageSound, PageRecord
        <4>3. r \in JobRecord /\ Waiting(r)
          BY <4>2, CursorFits, AwaitingIs
        <4>4. QED
          <5> HIDE DEF r
          <5>1. QED
            BY <1>0, <4>1, <4>3, JobGoesOn
      <3>3. QED
        BY <3>1, <3>2
    <2>3. QED
      BY <2>1, <2>2, SameNews, SamePage, SameMarks, SameSocket, SameBuying, SamePolling, SameUsed
  <1>7. CASE Watched
    BY <1>0, <1>7, ArrivedSound DEF Watched, TickStep
  <1>8. QED
    BY <1>1, <1>2, <1>3, <1>4, <1>5, <1>6, <1>7 DEF Timers

\* The socket.
LEMMA SocketStepSound ==
    ASSUME Coherent, Socket
    PROVE  Coherent'
  <1> USE DEF Coherent
  <1>1. CASE ServerPush
    <2> DEFINE n == Version(socket.sub, Now)
               x == [game |-> socket.sub, upto |-> n]
    <2>1. /\ socket # Nil /\ socket.sub # Nil
          /\ socket' = [socket EXCEPT !.key = n, !.down = Append(socket.down, x)]
          /\ UNCHANGED <<news, page, seen, job, buying, announced, used>>
      BY <1>1 DEF ServerPush
    <2>2. socket \in SocketRecord
      BY <2>1 DEF SocketSound
    <2>3. n \in Versions
      BY NowFits, VersionFits
    <2>4. x \in [game : Games, upto : Versions]
      <3>1. socket.sub \in Games
        BY <2>1, <2>2 DEF SocketRecord
      <3> HIDE DEF n
      <3>2. QED
        BY <2>3, <3>1
    <2> HIDE DEF n, x
    <2>5. Append(socket.down, x) \in Seq([game : Games, upto : Versions])
      BY <2>2, <2>4, AppendProperties DEF SocketRecord
    <2>6. socket' \in SocketRecord
      BY <2>1, <2>2, <2>3, <2>5 DEF SocketRecord
    <2>7. SocketSound' /\ PollingSound'
      BY <2>1, <2>6 DEF SocketSound, PollingSound
    <2>8. QED
      BY <2>1, <2>7, SameNews, SamePage, SameMarks, SameJobs, SameBuying, SameUsed
  <1>2. CASE Connect
    <2>1. /\ socket' = [sub |-> page.game, key |-> Nil, down |-> <<>>]
          /\ page' = [page EXCEPT !.polling = FALSE]
          /\ UNCHANGED <<news, seen, job, buying, announced, used>>
      BY <1>2 DEF Connect
    <2>2. PageSound' /\ page'.game = page.game /\ page'.polling = FALSE
      BY <2>1, Switched
    <2>3. SocketSound'
      <3>1. page.game \in Games \cup {Nil}
        BY DEF PageSound, PageRecord
      <3>2. socket' \in SocketRecord
        BY <2>1, <3>1, EmptySeq DEF SocketRecord
      <3>3. QED
        BY <3>2 DEF SocketSound
    <2>4. PollingSound'
      BY <2>2 DEF PollingSound
    <2>5. QED
      BY <2>1, <2>2, <2>3, <2>4, SameNews, SameMarks, SameJobs, SameBuying, SameUsed
  <1>3. CASE Pushed
    <2> DEFINE push == Head(socket.down)
    <2>1. /\ socket # Nil /\ socket.down # <<>>
          /\ socket' = [socket EXCEPT !.down = Tail(socket.down)]
          /\ \/ push.game = page.game /\ Notifying(push.game, push.upto, Cursor(push.game))
             \/ UNCHANGED <<page, seen, announced>>
          /\ UNCHANGED <<news, job, buying, used>>
      BY <1>3 DEF Pushed
    <2>2. socket \in SocketRecord /\ socket.down \in Seq([game : Games, upto : Versions])
      BY <2>1 DEF SocketSound, SocketRecord
    <2>3. /\ push \in [game : Games, upto : Versions]
          /\ Tail(socket.down) \in Seq([game : Games, upto : Versions])
      BY <2>1, <2>2, HeadTailProperties
    <2>4. socket' \in SocketRecord
      BY <2>1, <2>2, <2>3 DEF SocketRecord
    <2>5. SocketSound'
      BY <2>4 DEF SocketSound
    <2>6. ~ page.polling
      BY <2>1 DEF PollingSound
    <2>7. /\ NewsSound' /\ PageSound' /\ MarksSound' /\ BuyingSound' /\ UsedSound'
          /\ page'.polling = page.polling
      <3> HIDE DEF push
      <3>1. CASE Notifying(push.game, push.upto, Cursor(push.game))
        <4>1. push.game \in Games /\ push.upto \in Versions
          BY <2>3
        <4>2. QED
          BY <2>1, <3>1, <4>1, NoticeSound
      <3>2. CASE UNCHANGED <<page, seen, announced>>
        BY <2>1, <3>2, SameNews, SamePage, SameMarks, SameBuying, SameUsed
      <3>3. QED
        BY <2>1, <3>1, <3>2
    <2>8. PollingSound'
      BY <2>6, <2>7 DEF PollingSound
    <2>9. QED
      BY <2>1, <2>5, <2>7, <2>8, SameJobs
  <1>4. CASE Disconnect
    <2> DEFINE b == page.game # Nil
    <2>1. /\ socket' = Nil /\ page' = [page EXCEPT !.polling = b] /\ Failure
          /\ UNCHANGED <<news, seen, job, buying, announced>>
      BY <1>4 DEF Disconnect
    <2>2. PageSound' /\ page'.game = page.game
      <3>1. b \in BOOLEAN
        OBVIOUS
      <3> HIDE DEF b
      <3>2. QED
        BY <2>1, <3>1, Switched
    <2>3. SocketSound' /\ PollingSound'
      BY <2>1 DEF SocketSound, PollingSound
    <2>4. QED
      BY <2>1, <2>2, <2>3, FaultCounts, SameNews, SameMarks, SameJobs, SameBuying
  <1>5. QED
    BY <1>1, <1>2, <1>3, <1>4 DEF Socket

\* The page is loaded anew.
LEMMA ReloadSound ==
    ASSUME Coherent, Reload
    PROVE  Coherent'
  <1> USE DEF Coherent
  <1>1. /\ page' = Blank /\ job' = [j \in PageJobs |-> Resting] /\ socket' = Nil /\ buying' = Nil
        /\ Failure /\ UNCHANGED <<news, seen, announced>>
    BY DEF Reload
  <1>2. PageSound'
    <2>1. Blank \in PageRecord
      BY DEF Blank, PageRecord, Versions
    <2>2. QED
      BY <1>1, <2>1 DEF PageSound, NotBehind, Blank
  <1>3. JobsSound'
    BY <1>1, JobsAre DEF JobsSound
  <1>4. SocketSound' /\ BuyingSound' /\ PollingSound'
    BY <1>1 DEF SocketSound, BuyingSound, PollingSound
  <1>5. QED
    BY <1>1, <1>2, <1>3, <1>4, FaultCounts, SameNews, SameMarks

\* Every step keeps the page, its functions and its socket coherent.
LEMMA StepSound == ASSUME Coherent, [LiveNext]_liveVars PROVE Coherent'
  <1>1. CASE UNCHANGED liveVars
    <2>1. UNCHANGED <<news, page, seen, job, socket, buying, announced, used>>
      BY <1>1 DEF liveVars
    <2>2. QED
      BY <2>1, SameNews, SamePage, SameMarks, SameJobs, SameSocket, SameBuying, SamePolling,
         SameUsed DEF Coherent
  <1>2. QED
    BY <1>1, EmitSound, ReadSound, FailsSound, UserSound, TimersSound, SocketStepSound,
       ReloadSound DEF LiveNext

\* Every variable of the live view keeps its type; a page polls only while it has no
\* socket, and the cursor of the game it shows is not behind what it shows, although the
\* user, two timers and the socket write the page after awaiting answers of their own
\* (app.js, renderLiveSnapshot).
THEOREM LiveWellTyped == LiveSpec => []LiveTypeOK
  <1>1. LiveInit => Coherent
    BY InitSound
  <1>2. Coherent /\ [LiveNext]_liveVars => Coherent'
    BY StepSound
  <1>3. Coherent => LiveTypeOK
    BY DEF Coherent, NewsSound, PageSound, NotBehind, MarksSound, JobsSound, SocketSound,
           BuyingSound,
           PollingSound, UsedSound, PageRecord, JobRecord, SocketRecord, LiveTypeOK
  <1>4. QED
    BY <1>1, <1>2, <1>3, PTL DEF LiveSpec
=============================================================================
