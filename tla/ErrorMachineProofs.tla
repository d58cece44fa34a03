-------------------------- MODULE ErrorMachineProofs --------------------------
(***************************************************************************)
(* The operations on ParseErrors and the errors of ErrorMachine, for every *)
(* number of errors and for vectors of every length and in every order:    *)
(* they are the operations of MessageSets on the sets of what is said,     *)
(* they keep sorted vectors sorted, and no report depends on the order.    *)
(***************************************************************************)
EXTENDS ErrorMachine, OperatorLemmas

LOCAL INSTANCE SequencesExt

-----------------------------------------------------------------------------
(* The order of texts is strict.                                            *)
LEMMA TextOrderStrict ==
  ASSUME NEW r \in Seq(Nat), NEW s \in Seq(Nat), NEW t \in Seq(Nat)
  PROVE  /\ ~TextBefore(s, s)
         /\ TextBefore(r, s) /\ TextBefore(s, t) => TextBefore(r, t)
<1>1. Len(r) \in Nat /\ Len(s) \in Nat /\ Len(t) \in Nat
  BY LenProperties
<1>2. /\ \A i \in 1..Len(r) : r[i] \in Nat
      /\ \A i \in 1..Len(s) : s[i] \in Nat
      /\ \A i \in 1..Len(t) : t[i] \in Nat
  BY ElementOfSeq
<1>3. ~TextBefore(s, s)
  <2> SUFFICES ASSUME NEW n \in 0..Len(s), n < Len(s), s[n + 1] < s[n + 1] PROVE FALSE
    BY <1>1 DEF TextBefore
  <2>1. n + 1 \in 1..Len(s)
    BY <1>1
  <2> QED
    BY <1>2, <2>1
<1>4. ASSUME TextBefore(r, s), TextBefore(s, t) PROVE TextBefore(r, t)
  <2>1. PICK k \in 0..Len(r) : /\ k <= Len(s)
                               /\ \A i \in 1..k : r[i] = s[i]
                               /\ k < Len(s)
                               /\ k = Len(r) \/ r[k + 1] < s[k + 1]
    BY <1>4 DEF TextBefore
  <2>2. PICK l \in 0..Len(s) : /\ l <= Len(t)
                               /\ \A i \in 1..l : s[i] = t[i]
                               /\ l < Len(t)
                               /\ l = Len(s) \/ s[l + 1] < t[l + 1]
    BY <1>4 DEF TextBefore
  <2>3. CASE k < l
    <3>1. /\ k \in 0..Len(r) /\ k <= Len(t) /\ k < Len(t)
          /\ \A i \in 1..k : r[i] = t[i]
      BY <1>1, <2>1, <2>2, <2>3
    <3>2. k + 1 \in 1..l
      BY <1>1, <2>1, <2>2, <2>3
    <3>3. k = Len(r) \/ r[k + 1] < t[k + 1]
      BY <2>1, <2>2, <3>2
    <3> QED
      BY <3>1, <3>3 DEF TextBefore
  <2>4. CASE l < k
    <3>0. k \in Nat /\ l \in Nat /\ k <= Len(r) /\ k <= Len(s) /\ l < Len(t)
      BY <1>1, <2>1, <2>2
    <3>1. /\ l \in 0..Len(r) /\ l <= Len(t) /\ l < Len(t) /\ l < Len(s)
          /\ \A i \in 1..l : r[i] = t[i]
      <4>1. l \in 0..Len(r) /\ l <= Len(t) /\ l < Len(s) /\ l < Len(t)
        BY <1>1, <2>4, <3>0
      <4>2. \A i \in 1..l : i \in 1..k
        BY <2>4, <3>0
      <4> QED
        BY <2>1, <2>2, <4>1, <4>2
    <3>2. l + 1 \in 1..k
      BY <1>1, <2>1, <2>2, <2>4
    <3>3. r[l + 1] < t[l + 1]
      BY <2>1, <2>2, <3>1, <3>2
    <3> QED
      BY <3>1, <3>3 DEF TextBefore
  <2>5. CASE k = l
    <3>1. /\ k \in 0..Len(r) /\ k <= Len(t) /\ k < Len(t)
          /\ \A i \in 1..k : r[i] = t[i]
      BY <1>1, <2>1, <2>2, <2>5
    <3>2. s[k + 1] < t[k + 1]
      BY <1>1, <2>1, <2>2, <2>5
    <3>3. ASSUME k # Len(r) PROVE r[k + 1] < t[k + 1]
      <4>1. k + 1 \in 1..Len(r) /\ k + 1 \in 1..Len(s) /\ k + 1 \in 1..Len(t)
        BY <1>1, <2>1, <3>1, <3>3
      <4>2. r[k + 1] < s[k + 1]
        BY <2>1, <3>3
      <4>3. r[k + 1] \in Nat /\ s[k + 1] \in Nat /\ t[k + 1] \in Nat
        BY <1>2, <4>1
      <4> QED
        BY <3>2, <4>2, <4>3
    <3> QED
      BY <3>1, <3>3 DEF TextBefore
  <2> QED
    BY <1>1, <2>1, <2>2, <2>3, <2>4, <2>5
<1> QED
  BY <1>3, <1>4

(* So is the order of messages.                                             *)
LEMMA MessageOrderStrict ==
  ASSUME NEW k \in AllMessages, NEW m \in AllMessages, NEW n \in AllMessages
  PROVE  /\ ~MessageBefore(m, m)
         /\ MessageBefore(k, m) /\ MessageBefore(m, n) => MessageBefore(k, n)
<1>1. /\ k.type \in Int /\ m.type \in Int /\ n.type \in Int
      /\ k.text \in Seq(Nat) /\ m.text \in Seq(Nat) /\ n.text \in Seq(Nat)
  BY DEF AllMessages, SysUnExpect, Msg
<1>2. /\ ~TextBefore(m.text, m.text)
      /\ TextBefore(k.text, m.text) /\ TextBefore(m.text, n.text)
           => TextBefore(k.text, n.text)
  BY <1>1, TextOrderStrict
<1> QED
  BY <1>1, <1>2 DEF MessageBefore

(* In a strictly sorted vector any two messages are in order.               *)
LEMMA SortedApart ==
  ASSUME NEW v \in Seq(AllMessages), StrictlySorted(v)
  PROVE  \A i, j \in 1..Len(v) : i < j => MessageBefore(v[i], v[j])
<1>1. Len(v) \in Nat /\ \A i \in 1..Len(v) : v[i] \in AllMessages
  BY LenProperties, ElementOfSeq
<1> SUFFICES ASSUME NEW i \in 1..Len(v), NEW j \in 1..Len(v), i < j
             PROVE  MessageBefore(v[i], v[j])
  OBVIOUS
<1> DEFINE S == {n \in Nat : i + n + 1 <= Len(v) => MessageBefore(v[i], v[i + n + 1])}
<1>2. 0 \in S
  <2> SUFFICES ASSUME i + 1 <= Len(v) PROVE MessageBefore(v[i], v[i + 1])
    OBVIOUS
  <2>1. i \in 1..(Len(v) - 1)
    BY <1>1
  <2> QED
    BY <2>1 DEF StrictlySorted
<1>3. ASSUME NEW n \in Nat, n \in S PROVE n + 1 \in S
  <2> SUFFICES ASSUME i + (n + 1) + 1 <= Len(v)
               PROVE  MessageBefore(v[i], v[i + (n + 1) + 1])
    OBVIOUS
  <2>1. /\ i + n + 1 \in 1..(Len(v) - 1) /\ i + n + 1 \in 1..Len(v)
        /\ (i + n + 1) + 1 = i + (n + 1) + 1 /\ i + (n + 1) + 1 \in 1..Len(v)
    BY <1>1
  <2>2. MessageBefore(v[i], v[i + n + 1])
    BY <1>1, <1>3, <2>1
  <2>3. MessageBefore(v[i + n + 1], v[i + (n + 1) + 1])
    BY <2>1 DEF StrictlySorted
  <2> QED
    BY <1>1, <2>1, <2>2, <2>3, MessageOrderStrict
<1>4. Nat \subseteq S
  <2> HIDE DEF S
  <2> QED
    BY <1>2, <1>3, NatSetInduction
<1>5. j - i - 1 \in Nat /\ i + (j - i - 1) + 1 = j /\ j <= Len(v)
  BY <1>1
<1> QED
  BY <1>4, <1>5

-----------------------------------------------------------------------------
(* A message before all that a sorted vector says can be put in front.      *)
LEMMA SortedOneMore ==
  ASSUME NEW v \in Seq(AllMessages), StrictlySorted(v), NEW m \in AllMessages,
         \A x : Says(v, x) => MessageBefore(m, x)
  PROVE  StrictlySorted(<< m >> \o v)
<1> DEFINE one == << m >>
           more == one \o v
<1>1. one \in Seq(AllMessages) /\ Len(one) = 1 /\ one[1] = m /\ Len(v) \in Nat
  BY LenProperties
<1> HIDE DEF one
<1>2. /\ Len(more) = 1 + Len(v)
      /\ \A k \in 1..(1 + Len(v)) : more[k] = IF k <= 1 THEN one[k] ELSE v[k - 1]
  <2>1. /\ Len(more) = Len(one) + Len(v)
        /\ \A k \in 1..(Len(one) + Len(v)) :
              more[k] = IF k <= Len(one) THEN one[k] ELSE v[k - Len(one)]
    BY <1>1, ConcatProperties
  <2> QED
    BY <1>1, <2>1
<1> HIDE DEF more
<1>3. ASSUME NEW i \in 1..(Len(more) - 1) PROVE MessageBefore(more[i], more[i + 1])
  <2>1. i \in 1..(1 + Len(v)) /\ i + 1 \in 1..(1 + Len(v)) /\ ~(i + 1 <= 1)
        /\ (i + 1) - 1 = i /\ i \in 1..Len(v)
    BY <1>1, <1>2
  <2>2. more[i + 1] = v[i]
    BY <1>2, <2>1
  <2>3. CASE i = 1
    <3>1. more[i] = m
      BY <1>1, <1>2, <2>1, <2>3
    <3>2. Says(v, v[i])
      BY <2>1 DEF Says
    <3> QED
      BY <2>2, <3>1, <3>2
  <2>4. CASE i # 1
    <3>1. i - 1 \in 1..(Len(v) - 1) /\ (i - 1) + 1 = i /\ ~(i <= 1)
      BY <1>1, <2>1, <2>4
    <3>2. more[i] = v[i - 1]
      BY <1>2, <2>1, <3>1
    <3>3. MessageBefore(v[i - 1], v[(i - 1) + 1])
      BY <3>1 DEF StrictlySorted
    <3> QED
      BY <2>2, <3>1, <3>2, <3>3
  <2> QED
    BY <2>3, <2>4
<1> QED
  BY <1>3 DEF StrictlySorted, more, one

LEMMA SortedRest ==
  ASSUME NEW v \in Seq(AllMessages), StrictlySorted(v), NEW j \in 1..(Len(v) + 1)
  PROVE  StrictlySorted(SubSeq(v, j, Len(v)))
<1> DEFINE n == Len(v)
           rest == SubSeq(v, j, n)
<1>1. n \in Nat /\ j \in Int /\ n \in Int /\ j \in 1..(n + 1)
  BY LenProperties
<1>2. \A k \in j..n : v[k] \in AllMessages
  BY <1>1, ElementOfSeq
<1>3. \A i \in 1..(n - 1) : MessageBefore(v[i], v[i + 1])
  BY DEF StrictlySorted
<1> HIDE DEF n
<1>4. /\ Len(rest) = IF j <= n THEN n - j + 1 ELSE 0
      /\ \A k \in 1..(n - j + 1) : rest[k] = v[j + k - 1]
  BY <1>1, <1>2, SubSeqProperties
<1> HIDE DEF rest
<1>5. ASSUME NEW i \in 1..(Len(rest) - 1) PROVE MessageBefore(rest[i], rest[i + 1])
  <2>1. /\ i \in 1..(n - j + 1) /\ i + 1 \in 1..(n - j + 1)
        /\ j + i - 1 \in 1..(n - 1) /\ j + (i + 1) - 1 = (j + i - 1) + 1
    BY <1>1, <1>4
  <2>2. rest[i] = v[j + i - 1] /\ rest[i + 1] = v[(j + i - 1) + 1]
    BY <1>4, <2>1
  <2> QED
    BY <1>3, <2>1, <2>2
<1> QED
  BY <1>5 DEF StrictlySorted, rest, n

(* Over sorted vectors the walk of set_union makes sorted ones.             *)
LEMMA WalkSorts ==
  ASSUME NEW s \in Seq(AllMessages), NEW t \in Seq(AllMessages), NEW w, Walks(s, t, w),
         StrictlySorted(s), StrictlySorted(t)
  PROVE  \A p \in Places(s, t) : StrictlySorted(w[p])
<1>0. Len(s) \in Nat /\ Len(t) \in Nat
  BY LenProperties
<1>1. \A p \in Places(s, t) : SaysLeft(AllMessages, s, t, p, w[p])
  BY WalkSays, MessagesCompared
<1>2. \A p \in Places(s, t) : Left(s, t, p) \in 0..(Len(s) + Len(t))
  BY <1>0 DEF Places, Left
<1>3. /\ \A i, j \in 1..Len(s) : i < j => MessageBefore(s[i], s[j])
      /\ \A i, j \in 1..Len(t) : i < j => MessageBefore(t[i], t[j])
  BY SortedApart
<1> DEFINE S == {d \in Nat : \A p \in Places(s, t) : Left(s, t, p) < d => StrictlySorted(w[p])}
<1>4. 0 \in S
  BY <1>2
<1>5. ASSUME NEW d \in Nat, d \in S PROVE d + 1 \in S
  <2> SUFFICES ASSUME NEW p \in Places(s, t), Left(s, t, p) < d + 1
               PROVE  StrictlySorted(w[p])
    OBVIOUS
  <2> DEFINE i == p[1]
             j == p[2]
  <2>1. i \in 1..(Len(s) + 1) /\ j \in 1..(Len(t) + 1)
    BY DEF Places
  <2>2. w[p] = WalkFrom(s, t, w, p)
    BY DEF Walks
  <2>3. CASE i > Len(s)
    <3>1. w[p] = SubSeq(t, j, Len(t))
      BY <2>2, <2>3 DEF WalkFrom
    <3> QED
      BY <2>1, <3>1, SortedRest
  <2>4. CASE ~(i > Len(s)) /\ j > Len(t)
    <3>1. w[p] = SubSeq(s, i, Len(s))
      BY <2>2, <2>4 DEF WalkFrom
    <3> QED
      BY <2>1, <3>1, SortedRest
  <2>5. CASE ~(i > Len(s)) /\ ~(j > Len(t))
    <3>1. /\ i \in 1..Len(s) /\ j \in 1..Len(t)
          /\ s[i] \in AllMessages /\ t[j] \in AllMessages
          /\ i + 1 # i /\ j + 1 # j /\ i \in Int /\ j \in Int
      BY <1>0, <2>1, <2>5, ElementOfSeq
    <3>2. ASSUME NEW k \in {i, i + 1}, NEW l \in {j, j + 1}, k # i \/ l # j
          PROVE  /\ StrictlySorted(w[<< k, l >>]) /\ w[<< k, l >>] \in Seq(AllMessages)
                 /\ \A x : Says(w[<< k, l >>], x) =>
                             \/ \E b \in k..Len(s) : s[b] = x
                             \/ \E b \in l..Len(t) : t[b] = x
      <4>0. \A n \in Nat : \A a \in 1..n : a \in 1..(n + 1) /\ a + 1 \in 1..(n + 1)
        OBVIOUS
      <4>1. k \in 1..(Len(s) + 1) /\ l \in 1..(Len(t) + 1)
        <5>1. Len(s) \in Nat /\ Len(t) \in Nat
          BY <1>0
        <5> QED
          BY <3>1, <3>2, <4>0, <5>1
      <4>2. << k, l >> \in Places(s, t) /\ << k, l >>[1] = k /\ << k, l >>[2] = l
        BY <4>1 DEF Places
      <4>3. Left(s, t, << k, l >>) < Left(s, t, p)
        BY <1>0, <3>1, <3>2, LaterHasLess
      <4>4. Left(s, t, << k, l >>) < d
        BY <1>2, <4>2, <4>3
      <4>5. StrictlySorted(w[<< k, l >>])
        BY <1>5, <4>2, <4>4
      <4>6. SaysLeft(AllMessages, s, t, << k, l >>, w[<< k, l >>])
        BY <1>1, <4>2
      <4> QED
        BY <4>2, <4>5, <4>6 DEF SaysLeft
    <3>3. ASSUME NEW b \in (i + 1)..Len(s) PROVE MessageBefore(s[i], s[b]) /\ s[b] \in AllMessages
      BY <1>0, <1>3, <3>1, ElementOfSeq
    <3>4. ASSUME NEW b \in (j + 1)..Len(t) PROVE MessageBefore(t[j], t[b]) /\ t[b] \in AllMessages
      BY <1>0, <1>3, <3>1, ElementOfSeq
    <3>5. CASE MessageBefore(s[i], t[j])
      <4>1. w[p] = << s[i] >> \o w[<< i + 1, j >>]
        BY <2>2, <2>5, <3>5 DEF WalkFrom
      <4>2. ASSUME NEW b \in j..Len(t) PROVE MessageBefore(s[i], t[b])
        <5>1. b = j \/ b \in (j + 1)..Len(t)
          BY <3>1
        <5> QED
          BY <3>1, <3>4, <3>5, <5>1, MessageOrderStrict
      <4>3. \A x : Says(w[<< i + 1, j >>], x) => MessageBefore(s[i], x)
        BY <3>1, <3>2, <3>3, <4>2
      <4>4. StrictlySorted(w[<< i + 1, j >>]) /\ w[<< i + 1, j >>] \in Seq(AllMessages)
        BY <3>1, <3>2
      <4> QED
        BY <3>1, <4>1, <4>3, <4>4, SortedOneMore
    <3>6. CASE ~MessageBefore(s[i], t[j]) /\ MessageBefore(t[j], s[i])
      <4>1. w[p] = << t[j] >> \o w[<< i, j + 1 >>]
        BY <2>2, <2>5, <3>6 DEF WalkFrom
      <4>2. ASSUME NEW b \in i..Len(s) PROVE MessageBefore(t[j], s[b])
        <5>1. b = i \/ b \in (i + 1)..Len(s)
          BY <3>1
        <5> QED
          BY <3>1, <3>3, <3>6, <5>1, MessageOrderStrict
      <4>3. \A x : Says(w[<< i, j + 1 >>], x) => MessageBefore(t[j], x)
        BY <3>1, <3>2, <3>4, <4>2
      <4>4. StrictlySorted(w[<< i, j + 1 >>]) /\ w[<< i, j + 1 >>] \in Seq(AllMessages)
        BY <3>1, <3>2
      <4> QED
        BY <3>1, <4>1, <4>3, <4>4, SortedOneMore
    <3>7. CASE ~MessageBefore(s[i], t[j]) /\ ~MessageBefore(t[j], s[i])
      <4>1. w[p] = << s[i] >> \o w[<< i + 1, j + 1 >>]
        BY <2>2, <2>5, <3>7 DEF WalkFrom
      <4>2. s[i] = t[j]
        BY <3>1, <3>7, MessagesCompared DEF Compared
      <4>3. \A x : Says(w[<< i + 1, j + 1 >>], x) => MessageBefore(s[i], x)
        BY <3>1, <3>2, <3>3, <3>4, <4>2
      <4>4. StrictlySorted(w[<< i + 1, j + 1 >>]) /\ w[<< i + 1, j + 1 >>] \in Seq(AllMessages)
        BY <3>1, <3>2
      <4> QED
        BY <3>1, <4>1, <4>3, <4>4, SortedOneMore
    <3> QED
      BY <3>5, <3>6, <3>7
  <2> QED
    BY <2>3, <2>4, <2>5
<1>6. Nat \subseteq S
  <2> HIDE DEF S
  <2> QED
    BY <1>4, <1>5, NatSetInduction
<1> SUFFICES ASSUME NEW p \in Places(s, t) PROVE StrictlySorted(w[p])
  OBVIOUS
<1>7. Len(s) + Len(t) + 1 \in Nat /\ Left(s, t, p) < Len(s) + Len(t) + 1
  BY <1>0, <1>2
<1> QED
  BY <1>6, <1>7

LEMMA SetUnionSorts ==
  ASSUME NEW s \in Seq(AllMessages), NEW t \in Seq(AllMessages),
         StrictlySorted(s), StrictlySorted(t)
  PROVE  StrictlySorted(set_union(s, t))
<1>1. Len(s) \in Nat /\ Len(t) \in Nat
  BY LenProperties
<1>2. PICK w : set_union(s, t) = w[<< 1, 1 >>] /\ Walks(s, t, w)
  BY <1>1, SetUnionUnfold
<1>3. << 1, 1 >> \in Places(s, t)
  BY <1>1 DEF Places
<1> QED
  BY <1>2, <1>3, WalkSorts

-----------------------------------------------------------------------------
(* The halving of lower_bound: ranges of a vector, and the step from one.   *)
Ranges(msgs) == {r \in (0..Len(msgs)) \X (0..Len(msgs)) : r[1] + r[2] <= Len(msgs)}

HalfFrom(msgs, m, f, r) ==
  LET first == r[1]
      len   == r[2]
      half  == len \div 2
  IN  IF len = 0 THEN first
      ELSE IF MessageBefore(msgs[first + half + 1], m)
           THEN f[<< first + half + 1, len - half - 1 >>]
           ELSE f[<< first, half >>]

Searched(msgs, m, f) == f = [r \in Ranges(msgs) |-> HalfFrom(msgs, m, f, r)]

Searches(msgs, m, f) == \A r \in Ranges(msgs) : f[r] = HalfFrom(msgs, m, f, r)

LEMMA LowerBoundChosen ==
  ASSUME NEW msgs, NEW m
  PROVE  lower_bound(msgs, m) = (CHOOSE f : Searched(msgs, m, f))[<< 0, Len(msgs) >>]
BY Zenon DEF lower_bound, Searched, HalfFrom, Ranges

LEMMA HalvesAreShorter ==
  ASSUME NEW msgs, Len(msgs) \in Nat, NEW r \in Ranges(msgs), r[2] # 0
  PROVE  LET half  == r[2] \div 2
             upper == << r[1] + half + 1, r[2] - half - 1 >>
             lower == << r[1], half >>
         IN  /\ upper \in Ranges(msgs) /\ upper[1] = r[1] + half + 1
             /\ upper[2] = r[2] - half - 1 /\ upper[2] < r[2]
             /\ lower \in Ranges(msgs) /\ lower[1] = r[1]
             /\ lower[2] = half /\ lower[2] < r[2]
             /\ half \in Nat
<1> DEFINE half == r[2] \div 2
<1>1. /\ r[1] \in 0..Len(msgs) /\ r[2] \in 0..Len(msgs) /\ r[1] + r[2] <= Len(msgs)
  BY DEF Ranges
<1>2. half \in Nat /\ half < r[2]
  BY <1>1
<1> HIDE DEF half
<1>0. \A n, a, b, h \in Nat : a + b <= n /\ h < b =>
        /\ a + h + 1 \in 0..n /\ b - h - 1 \in 0..n
        /\ (a + h + 1) + (b - h - 1) <= n
        /\ h \in 0..n /\ a + h <= n /\ b - h - 1 < b
  OBVIOUS
<1>3. /\ r[1] + half + 1 \in 0..Len(msgs) /\ r[2] - half - 1 \in 0..Len(msgs)
      /\ (r[1] + half + 1) + (r[2] - half - 1) <= Len(msgs)
      /\ half \in 0..Len(msgs) /\ r[1] + half <= Len(msgs) /\ r[2] - half - 1 < r[2]
  <2>1. r[1] \in Nat /\ r[2] \in Nat
    BY <1>1
  <2> QED
    BY <1>0, <1>1, <1>2, <2>1
<1> QED
  BY <1>1, <1>2, <1>3 DEF Ranges, half

LEMMA HalfLooksAhead ==
  ASSUME NEW msgs, NEW m, Len(msgs) \in Nat, NEW f, NEW g, NEW r \in Ranges(msgs),
         \A q \in Ranges(msgs) : q[2] < r[2] => f[q] = g[q]
  PROVE  HalfFrom(msgs, m, f, r) = HalfFrom(msgs, m, g, r)
<1> DEFINE half  == r[2] \div 2
           upper == << r[1] + half + 1, r[2] - half - 1 >>
           lower == << r[1], half >>
<1>1. CASE r[2] = 0
  BY <1>1 DEF HalfFrom
<1>2. CASE r[2] # 0
  <2>1. f[upper] = g[upper] /\ f[lower] = g[lower]
    BY <1>2, HalvesAreShorter
  <2> QED
    BY <1>2, <2>1, Zenon DEF HalfFrom
<1> QED
  BY <1>1, <1>2

LEMMA SearchExists ==
  ASSUME NEW msgs, NEW m, Len(msgs) \in Nat
  PROVE  \E f : Searched(msgs, m, f)
<1> DEFINE To(d, f) == \A r \in Ranges(msgs) : r[2] < d => f[r] = HalfFrom(msgs, m, f, r)
           S == {d \in Nat : \E f : To(d, f)}
<1>0. \A r \in Ranges(msgs) : r[2] \in 0..Len(msgs)
  BY DEF Ranges
<1>1. 0 \in S
  <2>1. To(0, 0)
    BY <1>0
  <2> HIDE DEF To
  <2> QED
    BY <2>1
<1>2. ASSUME NEW d \in Nat, d \in S PROVE d + 1 \in S
  <2>1. PICK f : To(d, f)
    BY <1>2
  <2> DEFINE g == [r \in Ranges(msgs) |-> HalfFrom(msgs, m, f, r)]
  <2>2. \A q \in Ranges(msgs) : g[q] = HalfFrom(msgs, m, f, q)
    BY Zenon
  <2> HIDE DEF g
  <2>3. ASSUME NEW r \in Ranges(msgs), r[2] < d + 1
        PROVE  g[r] = HalfFrom(msgs, m, g, r)
    <3>1. ASSUME NEW q \in Ranges(msgs), q[2] < r[2] PROVE f[q] = g[q]
      <4>1. q[2] < d
        BY <1>0, <2>3, <3>1
      <4> QED
        BY <2>1, <2>2, <4>1
    <3>2. HalfFrom(msgs, m, f, r) = HalfFrom(msgs, m, g, r)
      BY <3>1, HalfLooksAhead
    <3> QED
      BY <2>2, <3>2
  <2>4. To(d + 1, g)
    BY <2>3
  <2> HIDE DEF To
  <2>5. d + 1 \in Nat
    OBVIOUS
  <2> QED
    BY <2>4, <2>5
<1>3. Nat \subseteq S
  <2> HIDE DEF S
  <2> QED
    BY <1>1, <1>2, NatSetInduction
<1>4. Len(msgs) + 1 \in Nat
  OBVIOUS
<1>5. PICK f : To(Len(msgs) + 1, f)
  BY <1>3, <1>4
<1>6. \A r \in Ranges(msgs) : f[r] = HalfFrom(msgs, m, f, r)
  BY <1>0, <1>5
<1> DEFINE g == [r \in Ranges(msgs) |-> HalfFrom(msgs, m, f, r)]
<1>7. \A q \in Ranges(msgs) : g[q] = HalfFrom(msgs, m, f, q)
  BY Zenon
<1>8. g = [r \in Ranges(msgs) |-> HalfFrom(msgs, m, g, r)]
  <2>1. \A q \in Ranges(msgs) : f[q] = g[q]
    BY <1>6, <1>7
  <2> HIDE DEF g
  <2>2. \A r \in Ranges(msgs) : HalfFrom(msgs, m, f, r) = HalfFrom(msgs, m, g, r)
    BY <2>1, HalfLooksAhead
  <2> QED
    BY <2>2, Zenon DEF g
<1> HIDE DEF g
<1>9. Searched(msgs, m, g)
  BY <1>8, Zenon DEF Searched
<1> QED
  BY <1>9

LEMMA LowerBoundUnfold ==
  ASSUME NEW msgs, NEW m, Len(msgs) \in Nat
  PROVE  \E f : lower_bound(msgs, m) = f[<< 0, Len(msgs) >>] /\ Searches(msgs, m, f)
<1> DEFINE f == CHOOSE g : Searched(msgs, m, g)
<1>1. Searched(msgs, m, f)
  BY SearchExists, Zenon
<1>2. lower_bound(msgs, m) = f[<< 0, Len(msgs) >>]
  BY LowerBoundChosen, Zenon
<1> HIDE DEF f
<1>3. Searches(msgs, m, f)
  BY <1>1, Zenon DEF Searched, Searches
<1> QED
  BY <1>2, <1>3

(* Wherever it looks, the search answers with a place of the range.         *)
LEMMA SearchStays ==
  ASSUME NEW msgs, NEW m, Len(msgs) \in Nat, NEW f, Searches(msgs, m, f)
  PROVE  \A r \in Ranges(msgs) : f[r] \in r[1]..(r[1] + r[2])
<1> DEFINE S == {d \in Nat : \A r \in Ranges(msgs) : r[2] < d => f[r] \in r[1]..(r[1] + r[2])}
<1>0. \A r \in Ranges(msgs) : r[1] \in 0..Len(msgs) /\ r[2] \in 0..Len(msgs)
  BY DEF Ranges
<1>1. 0 \in S
  BY <1>0
<1>2. ASSUME NEW d \in Nat, d \in S PROVE d + 1 \in S
  <2> SUFFICES ASSUME NEW r \in Ranges(msgs), r[2] < d + 1
               PROVE  f[r] \in r[1]..(r[1] + r[2])
    OBVIOUS
  <2> DEFINE half  == r[2] \div 2
             upper == << r[1] + half + 1, r[2] - half - 1 >>
             lower == << r[1], half >>
  <2>1. f[r] = HalfFrom(msgs, m, f, r)
    BY DEF Searches
  <2>2. CASE r[2] = 0
    <3>1. f[r] = r[1]
      BY <2>1, <2>2 DEF HalfFrom
    <3> QED
      BY <1>0, <2>2, <3>1
  <2>3. CASE r[2] # 0
    <3>1. f[r] = f[upper] \/ f[r] = f[lower]
      BY <2>1, <2>3, Zenon DEF HalfFrom
    <3>2. /\ upper \in Ranges(msgs) /\ upper[1] = r[1] + half + 1
          /\ upper[2] = r[2] - half - 1 /\ upper[2] < r[2]
          /\ lower \in Ranges(msgs) /\ lower[1] = r[1] /\ lower[2] = half /\ lower[2] < r[2]
          /\ half \in Nat
      BY <2>3, HalvesAreShorter
    <3> HIDE DEF upper, lower, half
    <3>3. upper[2] < d /\ lower[2] < d
      BY <1>0, <3>2
    <3>4. /\ f[upper] \in upper[1]..(upper[1] + upper[2])
          /\ f[lower] \in lower[1]..(lower[1] + lower[2])
      BY <1>2, <3>2, <3>3
    <3>5. r[1] \in Nat /\ r[2] \in Nat
      BY <1>0
    <3>6. /\ f[upper] \in (r[1] + half + 1)..((r[1] + half + 1) + (r[2] - half - 1))
          /\ f[lower] \in r[1]..(r[1] + half)
      BY <3>2, <3>4
    <3>7. half < r[2]
      BY <3>2
    <3>8. f[upper] \in r[1]..(r[1] + r[2]) /\ f[lower] \in r[1]..(r[1] + r[2])
      BY <3>2, <3>5, <3>6, <3>7
    <3> QED
      BY <3>1, <3>8
  <2> QED
    BY <2>2, <2>3
<1>3. Nat \subseteq S
  <2> HIDE DEF S
  <2> QED
    BY <1>1, <1>2, NatSetInduction
<1> SUFFICES ASSUME NEW r \in Ranges(msgs) PROVE f[r] \in r[1]..(r[1] + r[2])
  OBVIOUS
<1>4. r[2] + 1 \in Nat /\ r[2] < r[2] + 1
  BY <1>0
<1> QED
  BY <1>3, <1>4

LEMMA LowerBoundInside ==
  ASSUME NEW msgs, NEW m, Len(msgs) \in Nat
  PROVE  lower_bound(msgs, m) \in 0..Len(msgs)
<1>1. PICK f : lower_bound(msgs, m) = f[<< 0, Len(msgs) >>] /\ Searches(msgs, m, f)
  BY LowerBoundUnfold
<1>2. /\ << 0, Len(msgs) >> \in Ranges(msgs)
      /\ << 0, Len(msgs) >>[1] = 0 /\ << 0, Len(msgs) >>[2] = Len(msgs)
  BY DEF Ranges
<1>3. f[<< 0, Len(msgs) >>] \in 0..(0 + Len(msgs))
  BY <1>1, <1>2, SearchStays
<1> QED
  BY <1>1, <1>3

(* m comes after the first lo messages and before none of those behind hi.  *)
Splits(msgs, m, lo, hi) ==
  /\ \A k \in 1..lo : MessageBefore(msgs[k], m)
  /\ \A k \in (hi + 1)..Len(msgs) : ~MessageBefore(msgs[k], m)

(* On a sorted vector the search finds where m belongs.                     *)
LEMMA SearchSplits ==
  ASSUME NEW msgs \in Seq(AllMessages), StrictlySorted(msgs), NEW m \in AllMessages,
         NEW f, Searches(msgs, m, f)
  PROVE  \A r \in Ranges(msgs) :
           Splits(msgs, m, r[1], r[1] + r[2]) => Splits(msgs, m, f[r], f[r])
<1> DEFINE Good(r) == Splits(msgs, m, r[1], r[1] + r[2]) => Splits(msgs, m, f[r], f[r])
           S == {d \in Nat : \A r \in Ranges(msgs) : r[2] < d => Good(r)}
<1>0. \A r \in Ranges(msgs) : /\ r[1] \in 0..Len(msgs) /\ r[2] \in 0..Len(msgs)
                              /\ r[1] + r[2] <= Len(msgs)
  BY DEF Ranges
<1>1. /\ Len(msgs) \in Nat /\ \A k \in 1..Len(msgs) : msgs[k] \in AllMessages
      /\ \A i, j \in 1..Len(msgs) : i < j => MessageBefore(msgs[i], msgs[j])
  BY LenProperties, ElementOfSeq, SortedApart
<1>2. 0 \in S
  BY <1>0, <1>1
<1>3. ASSUME NEW d \in Nat, d \in S PROVE d + 1 \in S
  <2> SUFFICES ASSUME NEW r \in Ranges(msgs), r[2] < d + 1,
                      Splits(msgs, m, r[1], r[1] + r[2])
               PROVE  Splits(msgs, m, f[r], f[r])
    OBVIOUS
  <2> DEFINE half  == r[2] \div 2
             upper == << r[1] + half + 1, r[2] - half - 1 >>
             lower == << r[1], half >>
             mid   == r[1] + half + 1
  <2>1. f[r] = HalfFrom(msgs, m, f, r)
    BY DEF Searches
  <2>2. CASE r[2] = 0
    <3>1. f[r] = r[1] /\ r[1] + r[2] = r[1]
      BY <1>0, <2>1, <2>2 DEF HalfFrom
    <3> QED
      BY <3>1
  <2>3. CASE r[2] # 0
    <3>1. /\ MessageBefore(msgs[mid], m) => f[r] = f[upper]
          /\ ~MessageBefore(msgs[mid], m) => f[r] = f[lower]
      BY <2>1, <2>3, Zenon DEF HalfFrom
    <3>2. /\ upper \in Ranges(msgs) /\ upper[1] = mid
          /\ upper[2] = r[2] - half - 1 /\ upper[2] < r[2]
          /\ lower \in Ranges(msgs) /\ lower[1] = r[1] /\ lower[2] = half /\ lower[2] < r[2]
          /\ half \in Nat
      BY <1>1, <2>3, HalvesAreShorter
    <3>3. /\ upper[1] + upper[2] = r[1] + r[2] /\ lower[1] + lower[2] = r[1] + half
          /\ mid \in 1..Len(msgs) /\ mid = r[1] + half + 1
      <4>1. half < r[2]
        BY <3>2
      <4> HIDE DEF half, upper, lower
      <4>2. r[1] \in Nat /\ r[2] \in Nat /\ r[1] + r[2] <= Len(msgs)
        BY <1>0
      <4>3. r[1] + half + 1 \in 1..Len(msgs)
        BY <1>1, <3>2, <4>1, <4>2
      <4> QED
        BY <3>2, <4>2, <4>3
    <3> HIDE DEF upper, lower, half, mid
    <3>4. upper[2] < d /\ lower[2] < d
      BY <1>0, <3>2
    <3>5. Good(upper) /\ Good(lower)
      <4> HIDE DEF Good
      <4> QED
        BY <1>3, <3>2, <3>4
    <3>6. CASE MessageBefore(msgs[mid], m)
      <4>1. ASSUME NEW k \in 1..mid PROVE MessageBefore(msgs[k], m)
        <5>1. k = mid \/ (k < mid /\ k \in 1..Len(msgs))
          BY <1>1, <3>3
        <5> QED
          BY <1>1, <3>3, <3>6, <5>1, MessageOrderStrict
      <4>2. Splits(msgs, m, upper[1], upper[1] + upper[2])
        BY <3>2, <3>3, <4>1 DEF Splits
      <4> QED
        BY <3>1, <3>5, <3>6, <4>2
    <3>7. CASE ~MessageBefore(msgs[mid], m)
      <4>1. ASSUME NEW k \in (r[1] + half + 1)..Len(msgs), MessageBefore(msgs[k], m)
            PROVE  FALSE
        <5>1. k = mid \/ (mid < k /\ k \in 1..Len(msgs))
          BY <1>1, <3>3
        <5> QED
          BY <1>1, <3>3, <3>7, <4>1, <5>1, MessageOrderStrict
      <4>2. Splits(msgs, m, lower[1], lower[1] + lower[2])
        BY <3>2, <3>3, <4>1 DEF Splits
      <4> QED
        BY <3>1, <3>5, <3>7, <4>2
    <3> QED
      BY <3>6, <3>7
  <2> QED
    BY <2>2, <2>3
<1>4. Nat \subseteq S
  <2> HIDE DEF S
  <2> QED
    BY <1>2, <1>3, NatSetInduction
<1> SUFFICES ASSUME NEW r \in Ranges(msgs) PROVE Good(r)
  OBVIOUS
<1>5. r[2] + 1 \in Nat /\ r[2] < r[2] + 1
  BY <1>0
<1> HIDE DEF Good
<1> QED
  BY <1>4, <1>5

LEMMA LowerBoundSplits ==
  ASSUME NEW msgs \in Seq(AllMessages), StrictlySorted(msgs), NEW m \in AllMessages
  PROVE  Splits(msgs, m, lower_bound(msgs, m), lower_bound(msgs, m))
<1>0. Len(msgs) \in Nat
  BY LenProperties
<1>1. PICK f : lower_bound(msgs, m) = f[<< 0, Len(msgs) >>] /\ Searches(msgs, m, f)
  BY <1>0, LowerBoundUnfold
<1>2. /\ << 0, Len(msgs) >> \in Ranges(msgs)
      /\ << 0, Len(msgs) >>[1] = 0 /\ << 0, Len(msgs) >>[2] = Len(msgs)
  BY <1>0 DEF Ranges
<1>3. Splits(msgs, m, 0, 0 + Len(msgs))
  BY <1>0 DEF Splits
<1>4. Splits(msgs, m, f[<< 0, Len(msgs) >>], f[<< 0, Len(msgs) >>])
  BY <1>1, <1>2, <1>3, SearchSplits
<1> QED
  BY <1>1, <1>4

-----------------------------------------------------------------------------
(* vector::insert, by place.                                                *)
(* w is v with m put in at it.                                              *)
IsInsertion(w, v, it, m) ==
  /\ Len(w) = Len(v) + 1
  /\ \A k \in 1..(Len(v) + 1) :
        w[k] = IF k < it THEN v[k] ELSE IF k = it THEN m ELSE v[k - 1]

LEMMA Inserted ==
  ASSUME NEW M, NEW v \in Seq(M), NEW m \in M, NEW it \in 1..(Len(v) + 1)
  PROVE  /\ InsertAt(v, it, m) \in Seq(M)
         /\ IsInsertion(InsertAt(v, it, m), v, it, m)
<1> DEFINE n    == Len(v)
           head == SubSeq(v, 1, it - 1)
           one  == << m >>
           tail == SubSeq(v, it, n)
           front == head \o one
           all == front \o tail
<1>0. InsertAt(v, it, m) = all
  BY Zenon DEF InsertAt
<1>1. /\ n \in Nat /\ it \in 1..(n + 1) /\ it - 1 \in Nat
      /\ \A k \in 1..n : v[k] \in M
  BY LenProperties, ElementOfSeq
<1> HIDE DEF n
<1>2. head \in Seq(M) /\ Len(head) = it - 1 /\ \A k \in 1..(it - 1) : head[k] = v[k]
  <2>1. \A k \in 1..(it - 1) : v[k] \in M
    BY <1>1
  <2>2. /\ head \in Seq(M)
        /\ Len(head) = IF 1 <= it - 1 THEN (it - 1) - 1 + 1 ELSE 0
        /\ \A k \in 1..((it - 1) - 1 + 1) : head[k] = v[1 + k - 1]
    BY <1>1, <2>1, SubSeqProperties
  <2> HIDE DEF head
  <2> QED
    BY <1>1, <2>2
<1>3. tail \in Seq(M) /\ Len(tail) = n + 1 - it
      /\ \A k \in 1..(n + 1 - it) : tail[k] = v[it + k - 1]
  <2>1. \A k \in it..n : v[k] \in M
    BY <1>1
  <2>2. /\ tail \in Seq(M)
        /\ Len(tail) = IF it <= n THEN n - it + 1 ELSE 0
        /\ \A k \in 1..(n - it + 1) : tail[k] = v[it + k - 1]
    BY <1>1, <2>1, SubSeqProperties
  <2> HIDE DEF tail
  <2> QED
    BY <1>1, <2>2
<1>4. one \in Seq(M) /\ Len(one) = 1 /\ one[1] = m
  OBVIOUS
<1> HIDE DEF head, one, tail
<1>5. /\ front \in Seq(M) /\ Len(front) = Len(head) + Len(one)
      /\ \A k \in 1..(Len(head) + Len(one)) :
            front[k] = IF k <= Len(head) THEN head[k] ELSE one[k - Len(head)]
  BY <1>2, <1>4, ConcatProperties
<1> HIDE DEF front
<1>6. /\ all \in Seq(M) /\ Len(all) = Len(front) + Len(tail)
      /\ \A k \in 1..(Len(front) + Len(tail)) :
            all[k] = IF k <= Len(front) THEN front[k] ELSE tail[k - Len(front)]
  BY <1>3, <1>5, ConcatProperties
<1>7. Len(front) = it /\ Len(front) + Len(tail) = n + 1
  BY <1>1, <1>2, <1>3, <1>4, <1>5
<1> HIDE DEF all
<1>8. ASSUME NEW k \in 1..(n + 1)
      PROVE  all[k] = IF k < it THEN v[k] ELSE IF k = it THEN m ELSE v[k - 1]
  <2>1. CASE k < it
    <3>1. k \in 1..(it - 1) /\ k <= Len(head) /\ k <= Len(front) /\ k \in 1..(Len(head) + Len(one))
      BY <1>1, <1>2, <1>4, <1>7, <2>1
    <3> QED
      BY <1>2, <1>5, <1>6, <1>7, <2>1, <3>1
  <2>2. CASE k = it
    <3>1. ~(k <= Len(head)) /\ k - Len(head) = 1 /\ k <= Len(front)
          /\ k \in 1..(Len(head) + Len(one)) /\ ~(k < it)
      BY <1>1, <1>2, <1>4, <1>7, <2>2
    <3> QED
      BY <1>4, <1>5, <1>6, <1>7, <2>2, <3>1
  <2>3. CASE it < k
    <3>1. ~(k <= Len(front)) /\ k - Len(front) = k - it /\ k - it \in 1..(n + 1 - it)
          /\ it + (k - it) - 1 = k - 1 /\ ~(k < it) /\ k # it
      BY <1>1, <1>7, <2>3
    <3> QED
      BY <1>3, <1>6, <1>7, <3>1
  <2> QED
    BY <1>1, <2>1, <2>2, <2>3
<1>9. all \in Seq(M) /\ IsInsertion(all, v, it, m)
  BY <1>6, <1>7, <1>8 DEF n, IsInsertion
<1> QED
  BY <1>0, <1>9

-----------------------------------------------------------------------------
(* A vector as the set of what it says.                                     *)
LEMMA ToSetSays ==
  ASSUME NEW M, NEW v \in Seq(M)
  PROVE  /\ ToSet(v) \subseteq M /\ IsFiniteSet(ToSet(v))
         /\ \A x : x \in ToSet(v) <=> Says(v, x)
<1>1. Len(v) \in Nat /\ v \in [1..Len(v) -> M] /\ DOMAIN v = 1..Len(v)
  BY LenProperties
<1>2. ToSet(v) = {v[i] : i \in 1..Len(v)}
  BY <1>1, Zenon DEF ToSet
<1>3. \A x : x \in ToSet(v) <=> Says(v, x)
  BY <1>2 DEF Says
<1>4. ToSet(v) \subseteq M
  BY <1>1, <1>2
<1>5. IsFiniteSet(ToSet(v))
  BY <1>2, FiniteElements
<1> QED
  BY <1>3, <1>4, <1>5

(* A function on 1..n is a vector of length n.                              *)
LEMMA VectorOfLength ==
  ASSUME NEW M, NEW n \in Nat, NEW v \in [1..n -> M]
  PROVE  v \in Seq(M) /\ Len(v) = n
<1>1. v \in Seq(M)
  BY SeqDef
<1>2. Len(v) \in Nat /\ 1..Len(v) = 1..n
  BY <1>1, LenProperties
<1> QED
  BY <1>1, <1>2

(* Of finitely many messages one comes after all others.                    *)
LastOf(T, m) == m \in T /\ \A x \in T : x = m \/ MessageBefore(x, m)

LEMMA LastExists ==
  ASSUME NEW T, T \subseteq AllMessages, IsFiniteSet(T), T # {}
  PROVE  \E m : LastOf(T, m)
<1> DEFINE S == {n \in Nat : \A U \in SUBSET AllMessages :
                               IsFiniteSet(U) /\ Cardinality(U) = n + 1 => \E m : LastOf(U, m)}
<1>1. 0 \in S
  <2> SUFFICES ASSUME NEW U \in SUBSET AllMessages, IsFiniteSet(U), Cardinality(U) = 0 + 1
               PROVE  \E m : LastOf(U, m)
    OBVIOUS
  <2>1. PICK x : U = {x}
    <3>1. Cardinality(U) = 1
      OBVIOUS
    <3> QED
      BY <3>1, FS_Singleton
  <2>2. LastOf(U, x)
    BY <2>1 DEF LastOf
  <2> QED
    BY <2>2
<1>2. ASSUME NEW n \in Nat, n \in S PROVE n + 1 \in S
  <2> SUFFICES ASSUME NEW U \in SUBSET AllMessages, IsFiniteSet(U),
                      Cardinality(U) = (n + 1) + 1
               PROVE  \E m : LastOf(U, m)
    OBVIOUS
  <2>1. PICK x : x \in U
    <3>1. U # {}
      BY FS_EmptySet
    <3> QED
      BY <3>1
  <2> DEFINE W == U \ {x}
  <2>2. IsFiniteSet(W) /\ Cardinality(W) = n + 1 /\ W \in SUBSET AllMessages
    BY <2>1, FS_RemoveElement
  <2>3. PICK m : LastOf(W, m)
    BY <1>2, <2>2
  <2>4. x \in AllMessages /\ m \in AllMessages /\ m \in U /\ m # x
    BY <2>1, <2>3 DEF LastOf
  <2>5. MessageBefore(x, m) \/ MessageBefore(m, x)
    BY <2>4, MessagesCompared DEF Compared
  <2>6. CASE MessageBefore(x, m)
    <3>1. LastOf(U, m)
      BY <2>3, <2>4, <2>6 DEF LastOf
    <3> QED
      BY <3>1
  <2>7. CASE MessageBefore(m, x)
    <3>1. ASSUME NEW y \in U, y # x PROVE MessageBefore(y, x)
      <4>1. y \in AllMessages /\ (y = m \/ MessageBefore(y, m))
        BY <2>3, <3>1 DEF LastOf
      <4> QED
        BY <2>4, <2>7, <4>1, MessageOrderStrict
    <3>2. LastOf(U, x)
      BY <2>1, <3>1 DEF LastOf
    <3> QED
      BY <3>2
  <2> QED
    BY <2>5, <2>6, <2>7
<1>3. Nat \subseteq S
  <2> HIDE DEF S
  <2> QED
    BY <1>1, <1>2, NatSetInduction
<1>4. Cardinality(T) \in Nat /\ Cardinality(T) # 0
  BY FS_CardinalityType, FS_EmptySet
<1>5. Cardinality(T) - 1 \in Nat /\ (Cardinality(T) - 1) + 1 = Cardinality(T)
  BY <1>4
<1> QED
  BY <1>3, <1>5

(* They can be put in order.                                                *)
Sorts(T, v) ==
  v \in [1..Cardinality(T) -> T] /\ ToSet(v) = T /\ StrictlySorted(v)

LEMMA SortExists ==
  ASSUME NEW T, T \subseteq AllMessages, IsFiniteSet(T)
  PROVE  \E v : Sorts(T, v)
<1> DEFINE S == {n \in Nat : \A U \in SUBSET AllMessages :
                               IsFiniteSet(U) /\ Cardinality(U) = n => \E v : Sorts(U, v)}
<1>1. 0 \in S
  <2> SUFFICES ASSUME NEW U \in SUBSET AllMessages, IsFiniteSet(U), Cardinality(U) = 0
               PROVE  \E v : Sorts(U, v)
    OBVIOUS
  <2>1. U = {}
    BY FS_EmptySet
  <2> DEFINE v == [i \in 1..0 |-> 0]
  <2>2. v \in [1..Cardinality(U) -> U] /\ 1..0 = {}
    BY <2>1
  <2>3. v \in Seq(U) /\ Len(v) = 0
    BY <2>2, VectorOfLength
  <2> HIDE DEF v
  <2>4. ToSet(v) = U
    <3>1. ToSet(v) \subseteq U
      BY <2>3, ToSetSays
    <3> QED
      BY <2>1, <3>1
  <2>5. StrictlySorted(v)
    BY <2>3 DEF StrictlySorted
  <2>6. Sorts(U, v)
    BY <2>2, <2>4, <2>5, Zenon DEF Sorts
  <2> QED
    BY <2>6
<1>2. ASSUME NEW n \in Nat, n \in S PROVE n + 1 \in S
  <2> SUFFICES ASSUME NEW U \in SUBSET AllMessages, IsFiniteSet(U), Cardinality(U) = n + 1
               PROVE  \E v : Sorts(U, v)
    OBVIOUS
  <2>1. U # {}
    BY FS_EmptySet
  <2>2. PICK m : LastOf(U, m)
    BY <2>1, LastExists
  <2> DEFINE W == U \ {m}
  <2>3. m \in U /\ IsFiniteSet(W) /\ Cardinality(W) = n /\ W \in SUBSET AllMessages
    <3>1. m \in U
      BY <2>2 DEF LastOf
    <3>2. IsFiniteSet(W) /\ Cardinality(W) = Cardinality(U) - 1
      BY <3>1, FS_RemoveElement
    <3>3. (n + 1) - 1 = n
      OBVIOUS
    <3> QED
      BY <3>1, <3>2, <3>3
  <2>4. PICK v : Sorts(W, v)
    BY <1>2, <2>3
  <2> DEFINE u == [i \in 1..(n + 1) |-> IF i = n + 1 THEN m ELSE v[i]]
  <2>5. v \in [1..n -> W] /\ ToSet(v) = W /\ StrictlySorted(v)
    BY <2>3, <2>4 DEF Sorts
  <2>6. /\ \A i \in 1..(n + 1) : i # n + 1 => i \in 1..n
        /\ \A i \in 1..n : i \in 1..(n + 1) /\ i # n + 1
    OBVIOUS
  <2>7. u \in [1..(n + 1) -> U]
    BY <2>3, <2>5, <2>6
  <2>8. u[n + 1] = m /\ \A i \in 1..n : u[i] = v[i]
    BY <2>6
  <2> HIDE DEF u
  <2>9. u \in Seq(U) /\ Len(u) = n + 1 /\ v \in Seq(W) /\ Len(v) = n
    BY <2>5, <2>7, VectorOfLength
  <2>10. ToSet(u) = U
    <3>1. ToSet(u) \subseteq U /\ \A x : x \in ToSet(u) <=> Says(u, x)
      BY <2>9, ToSetSays
    <3>2. \A x : x \in W => Says(v, x)
      BY <2>5, <2>9, ToSetSays
    <3>3. ASSUME NEW x \in U PROVE Says(u, x)
      <4>1. CASE x = m
        BY <2>8, <2>9, <4>1 DEF Says
      <4>2. CASE x # m
        <5>1. PICK i \in 1..n : v[i] = x
          BY <2>9, <3>2, <4>2 DEF Says
        <5>2. i \in 1..(n + 1) /\ u[i] = x
          BY <2>8, <5>1
        <5> QED
          BY <2>9, <5>2 DEF Says
      <4> QED
        BY <4>1, <4>2
    <3> QED
      BY <3>1, <3>3
  <2>11. StrictlySorted(u)
    <3> SUFFICES ASSUME NEW i \in 1..((n + 1) - 1) PROVE MessageBefore(u[i], u[i + 1])
      BY <2>9 DEF StrictlySorted
    <3>1. i \in 1..n /\ u[i] = v[i] /\ v[i] \in W
      BY <2>5, <2>8
    <3>2. CASE i = n
      BY <2>2, <2>8, <3>1, <3>2 DEF LastOf
    <3>3. CASE i # n
      <4>1. i \in 1..(n - 1) /\ i + 1 \in 1..n
        BY <3>1, <3>3
      <4>2. MessageBefore(v[i], v[i + 1])
        BY <2>5, <2>9, <4>1 DEF StrictlySorted
      <4> QED
        BY <2>8, <3>1, <4>1, <4>2
    <3> QED
      BY <3>2, <3>3
  <2>12. Sorts(U, u)
    <3>1. u \in [1..Cardinality(U) -> U]
      BY <2>7
    <3> QED
      BY <2>10, <2>11, <3>1, Zenon DEF Sorts
  <2> QED
    BY <2>12
<1>3. Nat \subseteq S
  <2> HIDE DEF S
  <2> QED
    BY <1>1, <1>2, NatSetInduction
<1>4. Cardinality(T) \in Nat
  BY FS_CardinalityType
<1> QED
  BY <1>3, <1>4

LEMMA SortedOnceSorts ==
  ASSUME NEW T, T \subseteq AllMessages, IsFiniteSet(T)
  PROVE  /\ SortedOnce(T) \in Seq(AllMessages)
         /\ ToSet(SortedOnce(T)) = T
         /\ StrictlySorted(SortedOnce(T))
<1>1. \E v \in [1..Cardinality(T) -> T] : ToSet(v) = T /\ StrictlySorted(v)
  BY SortExists, Zenon DEF Sorts
<1>2. /\ SortedOnce(T) \in [1..Cardinality(T) -> T]
      /\ ToSet(SortedOnce(T)) = T /\ StrictlySorted(SortedOnce(T))
  BY <1>1, Zenon DEF SortedOnce
<1>3. Cardinality(T) \in Nat
  BY FS_CardinalityType
<1>4. SortedOnce(T) \in Seq(T)
  BY <1>2, <1>3, VectorOfLength
<1> QED
  BY <1>2, <1>4, SeqMonotonic

-----------------------------------------------------------------------------
(* add_message: one more thing is said, in its place if there was one.      *)
LEMMA AddMessageSays ==
  ASSUME NEW e \in AllErrors, NEW m \in AllMessages
  PROVE  /\ add_message(e, m) \in AllErrors
         /\ AsSet(add_message(e, m)) = [AsSet(e) EXCEPT !.said = @ \cup {m}]
         /\ StrictlySorted(e.messages) => StrictlySorted(add_message(e, m).messages)
<1> DEFINE v == e.messages
           it == lower_bound(v, m) + 1
           w == InsertAt(v, it, m)
<1>1. /\ v \in Seq(AllMessages) /\ e.pos \in Position
      /\ e = [pos |-> e.pos, messages |-> v]
  BY DEF AllErrors
<1>2. Len(v) \in Nat /\ \A k \in 1..Len(v) : v[k] \in AllMessages
  BY <1>1, LenProperties, ElementOfSeq
<1>3. lower_bound(v, m) \in 0..Len(v) /\ it \in 1..(Len(v) + 1)
  BY <1>2, LowerBoundInside
<1>4. AsSet(e) = [pos |-> e.pos, said |-> ToSet(v)]
  BY DEF AsSet
<1>5. add_message(e, m) = IF it <= Len(v) /\ v[it] = m THEN e
                          ELSE [e EXCEPT !.messages = w]
  BY DEF add_message
<1> HIDE DEF v, w, it
<1>6. CASE it <= Len(v) /\ v[it] = m
  <2>1. m \in ToSet(v)
    <3>1. Says(v, m)
      BY <1>3, <1>6 DEF Says
    <3> QED
      BY <1>1, <3>1, ToSetSays
  <2>2. ToSet(v) \cup {m} = ToSet(v)
    BY <2>1
  <2> QED
    BY <1>4, <1>5, <1>6, <2>2 DEF v
<1>7. CASE ~(it <= Len(v) /\ v[it] = m)
  <2>1. /\ w \in Seq(AllMessages) /\ Len(w) = Len(v) + 1
        /\ \A k \in 1..(Len(v) + 1) :
              w[k] = IF k < it THEN v[k] ELSE IF k = it THEN m ELSE v[k - 1]
    <3>1. v \in Seq(AllMessages) /\ it \in 1..(Len(v) + 1)
      BY <1>1, <1>3
    <3>2. w = InsertAt(v, it, m) /\ m \in AllMessages
      BY DEF w
    <3> HIDE DEF AllMessages
    <3>3. w \in Seq(AllMessages) /\ IsInsertion(w, v, it, m)
      BY <3>1, <3>2, Inserted
    <3> QED
      BY <3>3 DEF IsInsertion
  <2>2. add_message(e, m) = [pos |-> e.pos, messages |-> w]
    BY <1>1, <1>5, <1>7
  <2>3. ToSet(w) = ToSet(v) \cup {m}
    <3>1. ASSUME NEW x, Says(w, x) PROVE x = m \/ Says(v, x)
      <4>1. PICK k \in 1..(Len(v) + 1) : w[k] = x
        BY <2>1, <3>1 DEF Says
      <4>2. CASE k < it
        <5>1. k \in 1..Len(v) /\ v[k] = x
          BY <1>2, <1>3, <2>1, <4>1, <4>2
        <5> QED
          BY <5>1 DEF Says
      <4>3. CASE k = it
        BY <1>3, <2>1, <4>1, <4>3
      <4>4. CASE it < k
        <5>1. k - 1 \in 1..Len(v) /\ v[k - 1] = x
          BY <1>2, <1>3, <2>1, <4>1, <4>4
        <5> QED
          BY <5>1 DEF Says
      <4> QED
        BY <1>3, <4>2, <4>3, <4>4
    <3>2. Says(w, m)
      <4>1. w[it] = m
        BY <1>3, <2>1
      <4> QED
        BY <1>3, <2>1, <4>1 DEF Says
    <3>3. ASSUME NEW x, Says(v, x) PROVE Says(w, x)
      <4>1. PICK k \in 1..Len(v) : v[k] = x
        BY <3>3 DEF Says
      <4>2. CASE k < it
        <5>1. k \in 1..(Len(v) + 1) /\ w[k] = x
          BY <1>2, <2>1, <4>1, <4>2
        <5> QED
          BY <2>1, <5>1 DEF Says
      <4>3. CASE ~(k < it)
        <5>1. /\ k + 1 \in 1..(Len(v) + 1) /\ ~(k + 1 < it) /\ k + 1 # it
              /\ (k + 1) - 1 = k
          BY <1>2, <1>3, <4>3
        <5>2. w[k + 1] = x
          BY <2>1, <4>1, <5>1
        <5> QED
          BY <2>1, <5>1, <5>2 DEF Says
      <4> QED
        BY <4>2, <4>3
    <3>4. /\ \A x : x \in ToSet(w) <=> Says(w, x)
          /\ \A x : x \in ToSet(v) <=> Says(v, x)
      BY <1>1, <2>1, ToSetSays
    <3> QED
      BY <3>1, <3>2, <3>3, <3>4
  <2>4. ASSUME StrictlySorted(v) PROVE StrictlySorted(w)
    <3>1. Splits(v, m, lower_bound(v, m), lower_bound(v, m))
      BY <1>1, <2>4, LowerBoundSplits
    <3>2. /\ \A k \in 1..(it - 1) : MessageBefore(v[k], m)
          /\ \A k \in it..Len(v) : ~MessageBefore(v[k], m)
      BY <1>3, <3>1 DEF Splits, it
    <3>3. \A k \in it..Len(v) : MessageBefore(m, v[k])
      <4> SUFFICES ASSUME NEW k \in it..Len(v) PROVE MessageBefore(m, v[k])
        OBVIOUS
      <4>1. it \in it..Len(v) /\ it \in 1..Len(v) /\ k \in 1..Len(v)
        BY <1>2, <1>3
      <4>2. v[it] # m /\ ~MessageBefore(v[it], m)
        BY <1>7, <3>2, <4>1
      <4>3. MessageBefore(m, v[it])
        BY <1>2, <4>1, <4>2, MessagesCompared DEF Compared
      <4>4. CASE k = it
        BY <4>3, <4>4
      <4>5. CASE it < k
        <5>1. MessageBefore(v[it], v[k])
          BY <1>1, <2>4, <4>1, <4>5, SortedApart
        <5> QED
          BY <1>2, <4>1, <4>3, <5>1, MessageOrderStrict
      <4> QED
        BY <1>3, <4>4, <4>5
    <3> SUFFICES ASSUME NEW k \in 1..(Len(w) - 1) PROVE MessageBefore(w[k], w[k + 1])
      BY DEF StrictlySorted
    <3>4. k \in 1..Len(v) /\ k \in 1..(Len(v) + 1) /\ k + 1 \in 1..(Len(v) + 1)
      BY <1>2, <2>1
    <3>5. CASE k + 1 < it
      <4>1. k < it /\ k \in 1..(Len(v) - 1)
        BY <1>2, <1>3, <3>4, <3>5
      <4>2. MessageBefore(v[k], v[k + 1])
        BY <2>4, <4>1 DEF StrictlySorted
      <4> QED
        BY <2>1, <3>4, <3>5, <4>1, <4>2
    <3>6. CASE k + 1 = it
      <4>1. k < it /\ k \in 1..(it - 1) /\ ~(k + 1 < it)
        BY <1>3, <3>4, <3>6
      <4>2. w[k] = v[k] /\ w[k + 1] = m
        BY <2>1, <3>4, <3>6, <4>1
      <4> QED
        BY <3>2, <4>1, <4>2
    <3>7. CASE k = it
      <4>1. ~(k < it) /\ ~(k + 1 < it) /\ k + 1 # it /\ (k + 1) - 1 = k /\ k \in it..Len(v)
        BY <1>3, <3>4, <3>7
      <4>2. w[k] = m /\ w[k + 1] = v[k]
        BY <2>1, <3>4, <3>7, <4>1
      <4> QED
        BY <3>3, <4>1, <4>2
    <3>8. CASE it < k
      <4>1. /\ ~(k < it) /\ k # it /\ ~(k + 1 < it) /\ k + 1 # it
            /\ (k + 1) - 1 = k /\ k - 1 \in 1..(Len(v) - 1) /\ (k - 1) + 1 = k
        BY <1>2, <1>3, <3>4, <3>8
      <4>2. w[k] = v[k - 1] /\ w[k + 1] = v[k]
        BY <2>1, <3>4, <4>1
      <4>3. MessageBefore(v[k - 1], v[(k - 1) + 1])
        BY <2>4, <4>1 DEF StrictlySorted
      <4> QED
        BY <4>1, <4>2, <4>3
    <3> QED
      BY <1>3, <3>4, <3>5, <3>6, <3>7, <3>8
  <2>5. add_message(e, m) \in AllErrors /\ add_message(e, m).messages = w
    BY <1>1, <2>1, <2>2 DEF AllErrors
  <2>6. AsSet(add_message(e, m)) = [pos |-> e.pos, said |-> ToSet(v) \cup {m}]
    <3>1. add_message(e, m).pos = e.pos /\ add_message(e, m).messages = w
      BY <2>2
    <3> QED
      BY <2>3, <3>1, Zenon DEF AsSet
  <2> QED
    BY <1>4, <2>4, <2>5, <2>6 DEF v
<1> QED
  BY <1>6, <1>7

(* set_messages: it is said instead, in order.                              *)
LEMMA SetMessagesSays ==
  ASSUME NEW e \in AllErrors, NEW msgs \in Seq(AllMessages)
  PROVE  /\ set_messages(e, msgs) \in AllErrors
         /\ AsSet(set_messages(e, msgs)) = [AsSet(e) EXCEPT !.said = ToSet(msgs)]
         /\ StrictlySorted(set_messages(e, msgs).messages)
<1> DEFINE v == SortedOnce(ToSet(msgs))
<1>1. v \in Seq(AllMessages) /\ ToSet(v) = ToSet(msgs) /\ StrictlySorted(v)
  BY ToSetSays, SortedOnceSorts
<1>2. e.pos \in Position /\ e = [pos |-> e.pos, messages |-> e.messages]
  BY DEF AllErrors
<1>3. set_messages(e, msgs) = [e EXCEPT !.messages = v]
  BY DEF set_messages
<1> HIDE DEF v
<1>4. set_messages(e, msgs) = [pos |-> e.pos, messages |-> v]
  BY <1>2, <1>3
<1>5. AsSet(set_messages(e, msgs)) = [pos |-> e.pos, said |-> ToSet(msgs)]
  BY <1>1, <1>4 DEF AsSet
<1>6. AsSet(e) = [pos |-> e.pos, said |-> ToSet(e.messages)]
  BY DEF AsSet
<1> QED
  BY <1>1, <1>2, <1>4, <1>5, <1>6 DEF AllErrors

-----------------------------------------------------------------------------
(* An error without a message has said nothing.                             *)
LEMMA UnknownIsSilent ==
  ASSUME NEW e \in AllErrors
  PROVE  /\ AsSet(e).pos = e.pos /\ AsSet(e).said = ToSet(e.messages)
         /\ AsSet(e) = [pos |-> e.pos, said |-> ToSet(e.messages)]
         /\ e = [pos |-> e.pos, messages |-> e.messages]
         /\ e.pos \in Position /\ e.messages \in Seq(AllMessages)
         /\ IsError(e)
         /\ is_unknown(e) <=> ToSet(e.messages) = {}
<1>1. /\ e.pos \in Position /\ e.messages \in Seq(AllMessages)
      /\ e = [pos |-> e.pos, messages |-> e.messages]
      /\ DOMAIN e = {"pos", "messages"}
  BY DEF AllErrors
<1>2. IsError(e)
  BY <1>1 DEF IsError
<1>3. is_unknown(e) <=> ToSet(e.messages) = {}
  <2>1. \A x : x \in ToSet(e.messages) <=> Says(e.messages, x)
    BY <1>1, ToSetSays
  <2>2. is_unknown(e) <=> ~\E x : Says(e.messages, x)
    BY <1>2, SilentIsUnknown
  <2> QED
    BY <2>1, <2>2
<1>4. /\ AsSet(e).pos = e.pos /\ AsSet(e).said = ToSet(e.messages)
      /\ AsSet(e) = [pos |-> e.pos, said |-> ToSet(e.messages)]
  BY DEF AsSet
<1> QED
  BY <1>1, <1>2, <1>3, <1>4

(* A position of what is said, and a set.                                   *)
Reports == [pos : Position, said : SUBSET AllMessages]

(* What Together makes of two, case by case.                                *)
LEMMA TogetherCases ==
  ASSUME NEW x \in Reports, NEW y \in Reports
  PROVE  /\ x.said = {} => Abstract!Together(x, y) = y
         /\ x.said # {} /\ y.said = {} => Abstract!Together(x, y) = x
         /\ x.said # {} /\ y.said # {} =>
              /\ PosBefore(x.pos, y.pos) => Abstract!Together(x, y) = y
              /\ PosBefore(y.pos, x.pos) => Abstract!Together(x, y) = x
              /\ x.pos = y.pos =>
                   Abstract!Together(x, y) = [pos |-> x.pos, said |-> x.said \cup y.said]
<1> DEFINE loud == {r \in {x, y} : r.said # {}}
           pos  == Abstract!Furthest({r.pos : r \in loud})
           said == UNION {r.said : r \in {l \in loud : l.pos = pos}}
<1>1. Abstract!Together(x, y) = IF loud = {} THEN y ELSE [pos |-> pos, said |-> said]
  BY DEF Abstract!Together
<1>2. /\ x.pos \in Position /\ x = [pos |-> x.pos, said |-> x.said]
      /\ y.pos \in Position /\ y = [pos |-> y.pos, said |-> y.said]
  BY DEF Reports
<1>3. /\ \A p \in Position : PosAtMost(p, p)
      /\ \A p, q \in Position : PosBefore(p, q) => PosAtMost(p, q) /\ ~PosAtMost(q, p)
  BY PositionsInLine
<1>4. ASSUME NEW f \in Position, f \in {r.pos : r \in loud},
             \A q \in {r.pos : r \in loud} : PosAtMost(q, f) /\ (PosAtMost(f, q) => q = f)
      PROVE  pos = f
  <2> DEFINE P == {r.pos : r \in loud}
  <2>0. \A p, q : Abstract!PosAtMost(q, p) <=> PosAtMost(q, p)
    BY DEF PosAtMost, PosBefore, Abstract!PosAtMost, Abstract!PosBefore
  <2>1. pos = CHOOSE p \in P : \A q \in P : Abstract!PosAtMost(q, p)
    BY Zenon DEF Abstract!Furthest
  <2>2. f \in P /\ \A q \in P : PosAtMost(q, f) /\ (PosAtMost(f, q) => q = f)
    BY <1>4
  <2> HIDE DEF P, pos
  <2>3. pos \in P /\ \A q \in P : PosAtMost(q, pos)
    BY <2>0, <2>1, <2>2
  <2> QED
    BY <2>2, <2>3
<1>5. CASE x.said = {} /\ y.said = {}
  <2>1. loud = {}
    BY <1>5
  <2> QED
    BY <1>1, <1>5, <2>1
<1>6. CASE x.said = {} /\ y.said # {}
  <2>1. loud = {y} /\ {r.pos : r \in loud} = {y.pos}
    BY <1>6
  <2>2. pos = y.pos
    BY <1>2, <1>3, <1>4, <2>1
  <2>3. said = y.said
    BY <2>1, <2>2
  <2> HIDE DEF loud, pos, said
  <2> QED
    BY <1>1, <1>2, <1>6, <2>1, <2>2, <2>3
<1>7. CASE x.said # {} /\ y.said = {}
  <2>1. loud = {x} /\ {r.pos : r \in loud} = {x.pos}
    BY <1>7
  <2>2. pos = x.pos
    BY <1>2, <1>3, <1>4, <2>1
  <2>3. said = x.said
    BY <2>1, <2>2
  <2> HIDE DEF loud, pos, said
  <2> QED
    BY <1>1, <1>2, <1>7, <2>1, <2>2, <2>3
<1>8. CASE x.said # {} /\ y.said # {}
  <2>1. loud = {x, y} /\ {r.pos : r \in loud} = {x.pos, y.pos}
    BY <1>8
  <2>2. ASSUME PosBefore(x.pos, y.pos) PROVE Abstract!Together(x, y) = y
    <3>1. pos = y.pos /\ x.pos # y.pos
      BY <1>2, <1>3, <1>4, <2>1, <2>2
    <3>2. {l \in loud : l.pos = pos} = {y}
      BY <2>1, <3>1
    <3>3. said = y.said
      BY <3>2
    <3> HIDE DEF loud, pos, said
    <3> QED
      BY <1>1, <1>2, <2>1, <3>1, <3>3
  <2>3. ASSUME PosBefore(y.pos, x.pos) PROVE Abstract!Together(x, y) = x
    <3>1. pos = x.pos /\ x.pos # y.pos
      BY <1>2, <1>3, <1>4, <2>1, <2>3
    <3>2. {l \in loud : l.pos = pos} = {x}
      BY <2>1, <3>1
    <3>3. said = x.said
      BY <3>2
    <3> HIDE DEF loud, pos, said
    <3> QED
      BY <1>1, <1>2, <2>1, <3>1, <3>3
  <2>4. ASSUME x.pos = y.pos
        PROVE  Abstract!Together(x, y) = [pos |-> x.pos, said |-> x.said \cup y.said]
    <3>1. pos = x.pos
      BY <1>2, <1>3, <1>4, <2>1, <2>4
    <3>2. {l \in loud : l.pos = pos} = {x, y}
      BY <2>1, <2>4, <3>1
    <3>3. said = x.said \cup y.said
      BY <3>2
    <3> HIDE DEF loud, pos, said
    <3> QED
      BY <1>1, <2>1, <3>1, <3>3
  <2> QED
    BY <1>8, <2>2, <2>3, <2>4, Zenon
<1> QED
  BY <1>5, <1>6, <1>7, <1>8, Zenon

(* merge: of two errors what Together says.                                 *)
LEMMA MergeSays ==
  ASSUME NEW e1 \in AllErrors, NEW e2 \in AllErrors
  PROVE  /\ merge(e1, e2) \in AllErrors
         /\ AsSet(merge(e1, e2)) = Abstract!Together(AsSet(e1), AsSet(e2))
         /\ StrictlySorted(e1.messages) /\ StrictlySorted(e2.messages)
              => StrictlySorted(merge(e1, e2).messages)
<1> DEFINE x == AsSet(e1)
           y == AsSet(e2)
           m == merge(e1, e2)
           v == set_union(e1.messages, e2.messages)
<1>1. /\ x = [pos |-> e1.pos, said |-> ToSet(e1.messages)]
      /\ x.pos = e1.pos /\ x.said = ToSet(e1.messages)
      /\ e1.pos \in Position /\ e1.messages \in Seq(AllMessages)
      /\ is_unknown(e1) <=> x.said = {}
  BY UnknownIsSilent
<1>2. /\ y = [pos |-> e2.pos, said |-> ToSet(e2.messages)]
      /\ y.pos = e2.pos /\ y.said = ToSet(e2.messages)
      /\ e2.pos \in Position /\ e2.messages \in Seq(AllMessages)
      /\ is_unknown(e2) <=> y.said = {}
  BY UnknownIsSilent
<1>3. x \in Reports /\ y \in Reports
  BY <1>1, <1>2, ToSetSays DEF Reports
<1>4. /\ v \in Seq(AllMessages)
      /\ ToSet(v) = ToSet(e1.messages) \cup ToSet(e2.messages)
      /\ StrictlySorted(e1.messages) /\ StrictlySorted(e2.messages) => StrictlySorted(v)
  <2>1. /\ v \in Seq(AllMessages)
        /\ \A z : Says(v, z) <=> Says(e1.messages, z) \/ Says(e2.messages, z)
    BY <1>1, <1>2, SetUnionSays, MessagesCompared
  <2>2. /\ \A z : z \in ToSet(v) <=> Says(v, z)
        /\ \A z : z \in ToSet(e1.messages) <=> Says(e1.messages, z)
        /\ \A z : z \in ToSet(e2.messages) <=> Says(e2.messages, z)
    BY <1>1, <1>2, <2>1, ToSetSays
  <2>3. ToSet(v) = ToSet(e1.messages) \cup ToSet(e2.messages)
    BY <2>1, <2>2
  <2> QED
    BY <1>1, <1>2, <2>1, <2>3, SetUnionSorts
<1>5. /\ m = IF is_unknown(e1) THEN e2
             ELSE IF is_unknown(e2) THEN e1
             ELSE IF PosBefore(e2.pos, e1.pos) THEN e1
             ELSE IF PosBefore(e1.pos, e2.pos) THEN e2
             ELSE [pos |-> e1.pos, messages |-> v]
  BY DEF merge
<1> HIDE DEF x, y, m, v
<1>6. CASE is_unknown(e1)
  BY <1>1, <1>3, <1>5, <1>6, TogetherCases DEF m, x, y
<1>7. CASE ~is_unknown(e1) /\ is_unknown(e2)
  BY <1>1, <1>2, <1>3, <1>5, <1>7, TogetherCases DEF m, x, y
<1>8. CASE ~is_unknown(e1) /\ ~is_unknown(e2)
  <2>1. x.said # {} /\ y.said # {}
    BY <1>1, <1>2, <1>8
  <2>2. CASE PosBefore(e2.pos, e1.pos)
    <3>1. m = e1
      BY <1>5, <1>8, <2>2
    <3>2. Abstract!Together(x, y) = x
      BY <1>1, <1>2, <1>3, <2>1, <2>2, TogetherCases
    <3> QED
      BY <3>1, <3>2 DEF m, x, y
  <2>3. CASE ~PosBefore(e2.pos, e1.pos) /\ PosBefore(e1.pos, e2.pos)
    <3>1. m = e2
      BY <1>5, <1>8, <2>3
    <3>2. Abstract!Together(x, y) = y
      BY <1>1, <1>2, <1>3, <2>1, <2>3, TogetherCases
    <3> QED
      BY <3>1, <3>2 DEF m, x, y
  <2>4. CASE ~PosBefore(e2.pos, e1.pos) /\ ~PosBefore(e1.pos, e2.pos)
    <3>1. m = [pos |-> e1.pos, messages |-> v]
      BY <1>5, <1>8, <2>4
    <3>2. e1.pos = e2.pos
      BY <1>1, <1>2, <2>4, PositionsInLine
    <3>3. Abstract!Together(x, y) = [pos |-> x.pos, said |-> x.said \cup y.said]
      BY <1>1, <1>2, <1>3, <2>1, <3>2, TogetherCases
    <3>4. m.pos = e1.pos /\ m.messages = v /\ m \in AllErrors
      BY <1>1, <1>4, <3>1 DEF AllErrors
    <3>5. AsSet(m) = [pos |-> e1.pos, said |-> ToSet(v)]
      BY <3>4, Zenon DEF AsSet
    <3>6. AsSet(m) = Abstract!Together(x, y)
      BY <1>1, <1>2, <1>4, <3>3, <3>5
    <3> QED
      BY <1>4, <3>4, <3>6 DEF m, x, y
  <2> QED
    BY <2>2, <2>3, <2>4
<1> QED
  BY <1>6, <1>7, <1>8

-----------------------------------------------------------------------------
(* Every error of the machine is one, whichever operation made it.          *)
ErrorsTyped == err \in [Slots -> AllErrors]

LEMMA StepTyped ==
  ASSUME ErrorsTyped, [Next]_vars
  PROVE  ErrorsTyped'
<1> USE TypesAssumption DEF ErrorsTyped
<1>1. ASSUME NEW s \in Slots, Fail(s) PROVE ErrorsTyped'
  BY <1>1 DEF Fail
<1>2. ASSUME NEW s \in Slots, NEW x \in Slots, NEW y \in Slots, Merge(s, x, y)
      PROVE  ErrorsTyped'
  <2>1. merge(err[x], err[y]) \in AllErrors
    BY MergeSays
  <2> QED
    BY <1>2, <2>1 DEF Merge
<1>3. ASSUME NEW s \in Slots, NEW m \in Messages, AddMessage(s, m) PROVE ErrorsTyped'
  <2>1. add_message(err[s], m) \in AllErrors
    BY AddMessageSays
  <2> QED
    BY <1>3, <2>1 DEF AddMessage
<1>4. ASSUME NEW s \in Slots, NEW msgs \in Vectors, SetMessages(s, msgs) PROVE ErrorsTyped'
  <2>1. set_messages(err[s], msgs) \in AllErrors
    BY SetMessagesSays
  <2> QED
    BY <1>4, <2>1 DEF SetMessages
<1>5. CASE UNCHANGED vars
  BY <1>5 DEF vars
<1> QED
  BY <1>1, <1>2, <1>3, <1>4, <1>5 DEF Next

LEMMA ErrorTypes == Spec => []ErrorsTyped
<1>1. Init => ErrorsTyped
  BY TypesAssumption DEF Init, ErrorsTyped
<1>2. ErrorsTyped /\ [Next]_vars => ErrorsTyped'
  BY StepTyped
<1> QED
  BY <1>1, <1>2, PTL DEF Spec

-----------------------------------------------------------------------------
(* Refinement: an error stands for its position and what it says.           *)
heardBar == [s \in Slots |-> AsSet(err[s])]

LEMMA SlotChange ==
  ASSUME ErrorsTyped, NEW s \in Slots, NEW z, err' = [err EXCEPT ![s] = z]
  PROVE  heardBar' = [heardBar EXCEPT ![s] = AsSet(z)]
<1>1. \A t \in Slots : err'[t] = IF t = s THEN z ELSE err[t]
  BY DEF ErrorsTyped
<1>2. heardBar' = [t \in Slots |-> AsSet(err'[t])]
  BY DEF heardBar, AsSet
<1>3. [heardBar EXCEPT ![s] = AsSet(z)] =
        [t \in Slots |-> IF t = s THEN AsSet(z) ELSE AsSet(err[t])]
  BY DEF heardBar
<1>4. \A t \in Slots : AsSet(err'[t]) = IF t = s THEN AsSet(z) ELSE AsSet(err[t])
  BY <1>1
<1> QED
  BY <1>2, <1>3, <1>4, Zenon

LEMMA SetsInit == Init => Abstract!Init
<1> SUFFICES ASSUME Init PROVE Abstract!Init
  OBVIOUS
<1>1. err \in [Slots -> Failures] /\ asked = << "nothing" >>
  BY DEF Init
<1>2. \A s \in Slots : AsSet(err[s]) \in {AsSet(e) : e \in Failures}
  BY <1>1
<1>3. [s \in Slots |-> AsSet(err[s])] \in [Slots -> {AsSet(e) : e \in Failures}]
  BY <1>2
<1> QED
  BY <1>1, <1>3 DEF Abstract!Init

LEMMA SetsStep == ErrorsTyped /\ [Next]_vars => [Abstract!Next]_(Abstract!setVars)
<1> SUFFICES ASSUME ErrorsTyped, [Next]_vars PROVE [Abstract!Next]_(Abstract!setVars)
  OBVIOUS
<1>0. \A s \in Slots : err[s] \in AllErrors /\ heardBar[s] = AsSet(err[s])
  BY DEF ErrorsTyped, heardBar
<1>1. ASSUME NEW s \in Slots, Fail(s) PROVE Abstract!Hear(s)
  <2>1. PICK e \in Failures : err' = [err EXCEPT ![s] = e] /\ asked' = << "fail", s >>
    BY <1>1 DEF Fail
  <2>2. heardBar' = [heardBar EXCEPT ![s] = AsSet(e)]
    BY <2>1, SlotChange
  <2> QED
    BY <2>1, <2>2 DEF Abstract!Hear, heardBar
<1>2. ASSUME NEW s \in Slots, NEW x \in Slots, NEW y \in Slots, Merge(s, x, y)
      PROVE  Abstract!Combine(s, x, y)
  <2>1. heardBar' = [heardBar EXCEPT ![s] = AsSet(merge(err[x], err[y]))]
    BY <1>2, SlotChange DEF Merge
  <2>2. AsSet(merge(err[x], err[y])) = Abstract!Together(heardBar[x], heardBar[y])
    BY <1>0, MergeSays
  <2>3. asked' = << "merge", s, x, y >>
    BY <1>2 DEF Merge
  <2> QED
    BY <2>1, <2>2, <2>3 DEF Abstract!Combine, heardBar
<1>3. ASSUME NEW s \in Slots, NEW m \in Messages, AddMessage(s, m) PROVE Abstract!Say(s, m)
  <2>1. err' = [err EXCEPT ![s] = add_message(err[s], m)] /\ asked' = << "add", s, m >>
    BY <1>3 DEF AddMessage
  <2>2. heardBar' = [heardBar EXCEPT ![s] = AsSet(add_message(err[s], m))]
    BY <2>1, SlotChange
  <2>3. AsSet(add_message(err[s], m)) = [heardBar[s] EXCEPT !.said = @ \cup {m}]
    BY <1>0, AddMessageSays, TypesAssumption
  <2> QED
    BY <2>1, <2>2, <2>3 DEF Abstract!Say, heardBar
<1>4. ASSUME NEW s \in Slots, NEW msgs \in Vectors, SetMessages(s, msgs)
      PROVE  Abstract!Restate(s, ToSet(msgs))
  <2>1. /\ err' = [err EXCEPT ![s] = set_messages(err[s], msgs)]
        /\ asked' = << "set", s, ToSet(msgs) >>
    BY <1>4 DEF SetMessages
  <2>2. heardBar' = [heardBar EXCEPT ![s] = AsSet(set_messages(err[s], msgs))]
    BY <2>1, SlotChange
  <2>3. AsSet(set_messages(err[s], msgs)) = [heardBar[s] EXCEPT !.said = ToSet(msgs)]
    BY <1>0, SetMessagesSays, TypesAssumption
  <2> QED
    BY <2>1, <2>2, <2>3 DEF Abstract!Restate, heardBar
<1>5. CASE UNCHANGED vars
  BY <1>5 DEF vars, Abstract!setVars, AsSet
<1> QED
  BY <1>1, <1>2, <1>3, <1>4, <1>5 DEF Next, Abstract!Next

(* Through any number of failures, merges, additions and replacements, of   *)
(* sorted vectors and of unsorted ones, merge, add_message and set_messages *)
(* do to an error what MessageSets does to a position and a set: no message *)
(* is lost, none is made up.                                                *)
THEOREM ImplementsSets == Spec => ImplementsMessageSets
BY SetsInit, SetsStep, ErrorTypes, PTL DEF Spec, ImplementsMessageSets, Abstract!Spec

-----------------------------------------------------------------------------
(* While all vectors are sorted, as the comment in merge assumes, no        *)
(* operation unsorts one: only a parser's own failure can be unsorted.      *)
THEOREM StaysSorted == Spec => KeepsSorted
<1> DEFINE Sorted == \A s \in Slots : StrictlySorted(err[s].messages)
           SortedOrNew == \A s \in Slots : StrictlySorted(err'[s].messages) \/ err'[s] \in Failures
<1>1. ASSUME ErrorsTyped, [Next]_vars, Sorted, err' # err PROVE SortedOrNew
  <2>1. ASSUME NEW s \in Slots, NEW z, err' = [err EXCEPT ![s] = z],
               StrictlySorted(z.messages) \/ z \in Failures
        PROVE  SortedOrNew
    BY <1>1, <2>1 DEF ErrorsTyped
  <2>2. \A s \in Slots : err[s] \in AllErrors /\ StrictlySorted(err[s].messages)
    BY <1>1 DEF ErrorsTyped
  <2> HIDE DEF SortedOrNew
  <2>3. ASSUME NEW s \in Slots, Fail(s) PROVE SortedOrNew
    BY <2>1, <2>3 DEF Fail
  <2>4. ASSUME NEW s \in Slots, NEW x \in Slots, NEW y \in Slots, Merge(s, x, y)
        PROVE  SortedOrNew
    <3>1. StrictlySorted(merge(err[x], err[y]).messages)
      BY <2>2, MergeSays
    <3> QED
      BY <2>1, <2>4, <3>1 DEF Merge
  <2>5. ASSUME NEW s \in Slots, NEW m \in Messages, AddMessage(s, m) PROVE SortedOrNew
    <3>1. StrictlySorted(add_message(err[s], m).messages)
      BY <2>2, AddMessageSays, TypesAssumption
    <3> QED
      BY <2>1, <2>5, <3>1 DEF AddMessage
  <2>6. ASSUME NEW s \in Slots, NEW msgs \in Vectors, SetMessages(s, msgs) PROVE SortedOrNew
    <3>1. StrictlySorted(set_messages(err[s], msgs).messages)
      BY <2>2, SetMessagesSays, TypesAssumption
    <3> QED
      BY <2>1, <2>6, <3>1 DEF SetMessages
  <2> QED
    BY <1>1, <2>3, <2>4, <2>5, <2>6 DEF Next, vars
<1>2. ErrorsTyped /\ [Next]_vars =>
        [(\A s \in Slots : StrictlySorted(err[s].messages)) =>
            \A s \in Slots : StrictlySorted(err'[s].messages) \/ err'[s] \in Failures]_vars
  <2>1. ASSUME ErrorsTyped, [Next]_vars, Sorted, err' = err PROVE SortedOrNew
    BY <2>1
  <2> QED
    BY <1>1, <2>1
<1> QED
  BY <1>2, ErrorTypes, PTL DEF Spec, KeepsSorted

-----------------------------------------------------------------------------
(* What a set of reports comes to, in whatever order they are put together: *)
(* all that is said at the furthest position something is said of.          *)
Gathers(r, S) ==
  /\ r \in Reports /\ S \subseteq Reports
  /\ r.said = {} => \A i \in S : i.said = {}
  /\ \A i \in S : i.said # {} => PosAtMost(i.pos, r.pos)
  /\ \A z : z \in r.said <=> \E i \in S : i.pos = r.pos /\ z \in i.said

LEMMA GathersOne ==
  ASSUME NEW r \in Reports
  PROVE  Gathers(r, {r})
<1>1. r.pos \in Position
  BY DEF Reports
<1>2. PosAtMost(r.pos, r.pos)
  BY DEF PosAtMost
<1> QED
  BY <1>2 DEF Gathers

LEMMA GathersTogether ==
  ASSUME NEW r1, NEW S1, Gathers(r1, S1), NEW r2, NEW S2, Gathers(r2, S2)
  PROVE  Gathers(Abstract!Together(r1, r2), S1 \cup S2)
<1> DEFINE r == Abstract!Together(r1, r2)
<1>1. /\ r1 \in Reports /\ r1.pos \in Position /\ r1.said \subseteq AllMessages
      /\ r2 \in Reports /\ r2.pos \in Position /\ r2.said \subseteq AllMessages
      /\ \A i \in S1 \cup S2 : i \in Reports /\ i.pos \in Position
  BY DEF Gathers, Reports
<1>2. /\ r1.said = {} => \A i \in S1 : i.said = {}
      /\ \A i \in S1 : i.said # {} => PosAtMost(i.pos, r1.pos)
      /\ \A z : z \in r1.said <=> \E i \in S1 : i.pos = r1.pos /\ z \in i.said
      /\ r2.said = {} => \A i \in S2 : i.said = {}
      /\ \A i \in S2 : i.said # {} => PosAtMost(i.pos, r2.pos)
      /\ \A z : z \in r2.said <=> \E i \in S2 : i.pos = r2.pos /\ z \in i.said
  BY DEF Gathers
<1>3. /\ \A p, q, t \in Position : PosAtMost(p, q) /\ PosAtMost(q, t) => PosAtMost(p, t)
      /\ \A p, q \in Position : p = q \/ PosBefore(p, q) \/ PosBefore(q, p)
      /\ \A p, q \in Position : PosBefore(p, q) => PosAtMost(p, q) /\ ~PosAtMost(q, p)
  BY PositionsInLine
<1>4. S1 \cup S2 \subseteq Reports
  BY <1>1
<1>5. CASE r1.said = {}
  <2>1. r = r2
    BY <1>1, <1>5, TogetherCases
  <2> HIDE DEF r
  <2> QED
    BY <1>1, <1>2, <1>4, <1>5, <2>1 DEF Gathers, r
<1>6. CASE r1.said # {} /\ r2.said = {}
  <2>1. r = r1
    BY <1>1, <1>6, TogetherCases
  <2> HIDE DEF r
  <2> QED
    BY <1>1, <1>2, <1>4, <1>6, <2>1 DEF Gathers, r
<1>7. CASE r1.said # {} /\ r2.said # {}
  <2>1. CASE PosBefore(r1.pos, r2.pos)
    <3>1. r = r2
      BY <1>1, <1>7, <2>1, TogetherCases
    <3>2. \A i \in S1 : i.said # {} => PosAtMost(i.pos, r2.pos) /\ i.pos # r2.pos
      BY <1>1, <1>2, <1>3, <2>1
    <3>3. \A z : z \in r2.said <=> \E i \in S1 \cup S2 : i.pos = r2.pos /\ z \in i.said
      BY <1>2, <3>2
    <3> HIDE DEF r
    <3> QED
      BY <1>1, <1>2, <1>4, <1>7, <3>1, <3>2, <3>3 DEF Gathers, r
  <2>2. CASE PosBefore(r2.pos, r1.pos)
    <3>1. r = r1
      BY <1>1, <1>7, <2>2, TogetherCases
    <3>2. \A i \in S2 : i.said # {} => PosAtMost(i.pos, r1.pos) /\ i.pos # r1.pos
      BY <1>1, <1>2, <1>3, <2>2
    <3>3. \A z : z \in r1.said <=> \E i \in S1 \cup S2 : i.pos = r1.pos /\ z \in i.said
      BY <1>2, <3>2
    <3> HIDE DEF r
    <3> QED
      BY <1>1, <1>2, <1>4, <1>7, <3>1, <3>2, <3>3 DEF Gathers, r
  <2>3. CASE r1.pos = r2.pos
    <3>1. r = [pos |-> r1.pos, said |-> r1.said \cup r2.said]
      BY <1>1, <1>7, <2>3, TogetherCases
    <3> HIDE DEF r
    <3>2. r \in Reports /\ r.pos = r1.pos /\ r.pos = r2.pos /\ r.said = r1.said \cup r2.said
      BY <1>1, <2>3, <3>1 DEF Reports
    <3>3. \A z : z \in r.said <=> \E i \in S1 \cup S2 : i.pos = r.pos /\ z \in i.said
      BY <1>2, <3>2
    <3>4. \A i \in S1 \cup S2 : i.said # {} => PosAtMost(i.pos, r.pos)
      BY <1>2, <3>2
    <3>5. r.said # {}
      BY <1>7, <3>2
    <3> QED
      BY <1>4, <3>2, <3>3, <3>4, <3>5 DEF Gathers, r
  <2> QED
    BY <1>1, <1>3, <2>1, <2>2, <2>3
<1> QED
  BY <1>5, <1>6, <1>7

LEMMA GathersUnique ==
  ASSUME NEW S, NEW r, NEW t, Gathers(r, S), Gathers(t, S),
         \E i \in S : i.said # {}
  PROVE  r = t
<1>1. /\ r.pos \in Position /\ r = [pos |-> r.pos, said |-> r.said]
      /\ t.pos \in Position /\ t = [pos |-> t.pos, said |-> t.said]
  BY DEF Gathers, Reports
<1>2. r.said # {} /\ t.said # {}
  BY DEF Gathers
<1>3. PosAtMost(r.pos, t.pos)
  <2>1. PICK z : z \in r.said
    BY <1>2
  <2>2. PICK i \in S : i.pos = r.pos /\ z \in i.said
    BY <2>1 DEF Gathers
  <2>3. i.said # {}
    BY <2>2
  <2> QED
    BY <2>2, <2>3 DEF Gathers
<1>4. PosAtMost(t.pos, r.pos)
  <2>1. PICK z : z \in t.said
    BY <1>2
  <2>2. PICK i \in S : i.pos = t.pos /\ z \in i.said
    BY <2>1 DEF Gathers
  <2>3. i.said # {}
    BY <2>2
  <2> QED
    BY <2>2, <2>3 DEF Gathers
<1>5. r.pos = t.pos
  BY <1>1, <1>3, <1>4, PositionsInLine DEF PosAtMost
<1>6. r.said = t.said
  <2>1. \A z : z \in r.said <=> z \in t.said
    BY <1>5 DEF Gathers
  <2> QED
    BY <2>1
<1> QED
  BY <1>1, <1>5, <1>6

(* What format prints of an unknown error, and of these texts.              *)
Printed(pos, nothing, unexpects, expects, others) ==
  LET part(head, texts) ==
        IF texts = << >> THEN << >> ELSE << [head |-> head, texts |-> texts] >>
  IN  IF nothing THEN [head |-> "Unknown parse error", pos |-> pos]
      ELSE [head |-> "Parse error", pos |-> pos,
            parts |-> (IF unexpects = << << >> >>
                       THEN << [head |-> "unexpected end of input"] >>
                       ELSE part("unexpected", unexpects))
                      \o part("expecting", expects)
                      \o [i \in DOMAIN others |-> [text |-> others[i]]]]

LEMMA FormatPrints ==
  ASSUME NEW e
  PROVE  format(e) = Printed(e.pos, e.messages = << >>,
                             TextsOf(e.messages, {SysUnExpect, UnExpect}),
                             TextsOf(e.messages, {Expect}), TextsOf(e.messages, {Msg}))
BY Zenon DEF format, Printed, is_unknown

(* It depends on what an error says, not on its vector.                     *)
LEMMA FormatOfSet ==
  ASSUME NEW e \in AllErrors, NEW f \in AllErrors, AsSet(e) = AsSet(f)
  PROVE  format(e) = format(f)
<1>1. e.pos = f.pos /\ ToSet(e.messages) = ToSet(f.messages)
  BY UnknownIsSilent
<1>2. (e.messages = << >>) = (f.messages = << >>)
  BY <1>1, UnknownIsSilent DEF is_unknown
<1>3. \A types : TextsOf(e.messages, types) = TextsOf(f.messages, types)
  BY <1>1, Zenon DEF TextsOf
<1>4. /\ TextsOf(e.messages, {SysUnExpect, UnExpect}) =
           TextsOf(f.messages, {SysUnExpect, UnExpect})
      /\ TextsOf(e.messages, {Expect}) = TextsOf(f.messages, {Expect})
      /\ TextsOf(e.messages, {Msg}) = TextsOf(f.messages, {Msg})
  BY <1>3
<1> QED
  BY <1>1, <1>2, <1>4, FormatPrints, Zenon

(* Two errors that gather the same reports, of which one says something,    *)
(* print the same: any number of errors may be merged in any order and      *)
(* however bracketed.                                                       *)
LEMMA GatheredPrintSame ==
  ASSUME NEW S, NEW e \in AllErrors, Gathers(AsSet(e), S),
         NEW f \in AllErrors, Gathers(AsSet(f), S), \E i \in S : i.said # {}
  PROVE  format(e) = format(f)
<1>1. AsSet(e) = AsSet(f)
  BY GathersUnique
<1> QED
  BY <1>1, FormatOfSet

LEMMA ErrorGathers ==
  ASSUME NEW e \in AllErrors
  PROVE  Gathers(AsSet(e), {AsSet(e)})
<1>1. AsSet(e) \in Reports
  BY UnknownIsSilent, ToSetSays DEF Reports
<1> QED
  BY <1>1, GathersOne

LEMMA MergeGathers ==
  ASSUME NEW e \in AllErrors, NEW S, Gathers(AsSet(e), S),
         NEW f \in AllErrors, NEW T, Gathers(AsSet(f), T)
  PROVE  merge(e, f) \in AllErrors /\ Gathers(AsSet(merge(e, f)), S \cup T)
BY MergeSays, GathersTogether

(* The report of an error does not depend on the order in which errors were *)
(* merged, nor on how they were bracketed, whatever their vectors.          *)
THEOREM ReportsIgnoreOrder == Spec => []ReportIgnoresOrder
<1>1. ErrorsTyped => ReportIgnoresOrder
  <2> SUFFICES ASSUME ErrorsTyped, NEW x \in Slots, NEW y \in Slots, NEW e \in Failures,
                      ~(is_unknown(err[x]) /\ is_unknown(err[y]) /\ is_unknown(e))
               PROVE  Cardinality({format(merge(merge(err[x], err[y]), e)),
                                   format(merge(err[x], merge(err[y], e))),
                                   format(merge(merge(e, err[y]), err[x]))}) = 1
    BY DEF ReportIgnoresOrder
  <2>1. err[x] \in AllErrors /\ err[y] \in AllErrors /\ e \in AllErrors
    BY TypesAssumption DEF ErrorsTyped
  <2> DEFINE X == AsSet(err[x])
             Y == AsSet(err[y])
             E == AsSet(e)
  <2>2. Gathers(X, {X}) /\ Gathers(Y, {Y}) /\ Gathers(E, {E})
    BY <2>1, ErrorGathers
  <2>3. X.said # {} \/ Y.said # {} \/ E.said # {}
    BY <2>1, UnknownIsSilent
  <2> HIDE DEF X, Y, E
  <2>4. \E i \in {X, Y, E} : i.said # {}
    BY <2>3
  <2> DEFINE a == merge(merge(err[x], err[y]), e)
             b == merge(err[x], merge(err[y], e))
             c == merge(merge(e, err[y]), err[x])
  <2>5. /\ merge(err[x], err[y]) \in AllErrors
        /\ Gathers(AsSet(merge(err[x], err[y])), {X} \cup {Y})
        /\ merge(err[y], e) \in AllErrors
        /\ Gathers(AsSet(merge(err[y], e)), {Y} \cup {E})
        /\ merge(e, err[y]) \in AllErrors
        /\ Gathers(AsSet(merge(e, err[y])), {E} \cup {Y})
    BY <2>1, <2>2, MergeGathers DEF X, Y, E
  <2>6. a \in AllErrors /\ Gathers(AsSet(a), ({X} \cup {Y}) \cup {E})
    BY <2>1, <2>2, <2>5, MergeGathers DEF X, Y, E
  <2>7. b \in AllErrors /\ Gathers(AsSet(b), {X} \cup ({Y} \cup {E}))
    BY <2>1, <2>2, <2>5, MergeGathers DEF X, Y, E
  <2>8. c \in AllErrors /\ Gathers(AsSet(c), ({E} \cup {Y}) \cup {X})
    BY <2>1, <2>2, <2>5, MergeGathers DEF X, Y, E
  <2> HIDE DEF a, b, c
  <2>9. /\ ({X} \cup {Y}) \cup {E} = {X, Y, E}
        /\ {X} \cup ({Y} \cup {E}) = {X, Y, E}
        /\ ({E} \cup {Y}) \cup {X} = {X, Y, E}
    OBVIOUS
  <2>10. format(a) = format(b) /\ format(a) = format(c)
    BY <2>4, <2>6, <2>7, <2>8, <2>9, GatheredPrintSame
  <2>11. {format(a), format(b), format(c)} = {format(a)}
    BY <2>10
  <2>12. Cardinality({format(a), format(b), format(c)}) = 1
    BY <2>11, FS_Singleton
  <2> QED
    BY <2>12 DEF a, b, c
<1> QED
  BY <1>1, ErrorTypes, PTL

(* Nor does it show whether an error's messages are in order or there       *)
(* twice: sorting them first changes nothing.                               *)
THEOREM DisorderHidden == Spec => []DisorderNeverShows
<1>1. ErrorsTyped => DisorderNeverShows
  <2> SUFFICES ASSUME ErrorsTyped, NEW s \in Slots
               PROVE  format(err[s]) = format(set_messages(err[s], err[s].messages))
    BY DEF DisorderNeverShows
  <2>1. err[s] \in AllErrors /\ err[s].messages \in Seq(AllMessages)
    BY UnknownIsSilent DEF ErrorsTyped
  <2>2. /\ set_messages(err[s], err[s].messages) \in AllErrors
        /\ AsSet(set_messages(err[s], err[s].messages)) =
             [AsSet(err[s]) EXCEPT !.said = ToSet(err[s].messages)]
    BY <2>1, SetMessagesSays
  <2>3. AsSet(err[s]) = [pos |-> err[s].pos, said |-> ToSet(err[s].messages)]
    BY <2>1, UnknownIsSilent
  <2>4. AsSet(set_messages(err[s], err[s].messages)) = AsSet(err[s])
    BY <2>2, <2>3
  <2> QED
    BY <2>1, <2>2, <2>4, FormatOfSet
<1> QED
  BY <1>1, ErrorTypes, PTL
=============================================================================
