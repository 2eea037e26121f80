-------------------------- MODULE RecencyListProofs --------------------------
(***************************************************************************)
(* What Touch and Firsts do, for lists of any length over any set.         *)
(***************************************************************************)
EXTENDS RecencyList, SequenceTheorems, TLAPS

LEMMA SlotRange ==
  ASSUME NEW S, NEW s \in Seq(S), NEW x
  PROVE  /\ Slot(s, x) \in 1 .. Len(s) + 1
         /\ In(s, x) => Slot(s, x) \in 1 .. Len(s) /\ s[Slot(s, x)] = x
         /\ ~In(s, x) => Slot(s, x) = Len(s) + 1
<1>1. Len(s) \in Nat
  OBVIOUS
<1>2. CASE In(s, x)
  <2>1. \E k \in 1 .. Len(s) : s[k] = x
    BY <1>2 DEF In
  <2>2. Slot(s, x) \in 1 .. Len(s) /\ s[Slot(s, x)] = x
    BY <1>2, <2>1 DEF Slot
  <2> QED BY <1>1, <1>2, <2>2
<1>3. CASE ~In(s, x)
  BY <1>1, <1>3 DEF Slot
<1> QED BY <1>2, <1>3

\* Touch yields a list over the same set: one longer when x is new, as long otherwise.
LEMMA TouchType ==
  ASSUME NEW S, NEW s \in Seq(S), NEW x \in S
  PROVE  /\ Touch(s, x) \in Seq(S)
         /\ Len(Touch(s, x)) = IF In(s, x) THEN Len(s) ELSE Len(s) + 1
         /\ \A k \in 1 .. Len(Touch(s, x)) :
              Touch(s, x)[k] = IF k = 1 THEN x
                               ELSE IF k <= Slot(s, x) THEN s[k - 1] ELSE s[k]
<1> DEFINE n == IF In(s, x) THEN Len(s) ELSE Len(s) + 1
           e(k) == IF k = 1 THEN x ELSE IF k <= Slot(s, x) THEN s[k - 1] ELSE s[k]
<1>1. n \in Nat /\ Len(s) \in Nat
  OBVIOUS
<1>2. ASSUME NEW k \in 1 .. n PROVE e(k) \in S
  <2>1. CASE k = 1
    BY <2>1
  <2>2. CASE k # 1 /\ k <= Slot(s, x)
    <3>1. k - 1 \in 1 .. Len(s)
      BY <1>1, <2>2, SlotRange
    <3> QED BY <2>2, <3>1
  <2>3. CASE k # 1 /\ ~(k <= Slot(s, x))
    <3>1. k \in 1 .. Len(s)
      BY <1>1, <2>3, SlotRange
    <3> QED BY <2>3, <3>1
  <2> QED BY <2>1, <2>2, <2>3
<1>3. Touch(s, x) = [k \in 1 .. n |-> e(k)]
  BY DEF Touch
<1> HIDE DEF n, e
<1>4. Touch(s, x) \in [1 .. n -> S]
  BY <1>2, <1>3
<1>5. Touch(s, x) \in Seq(S) /\ Len(Touch(s, x)) = n
  BY <1>1, <1>4
<1>6. \A k \in 1 .. Len(Touch(s, x)) : Touch(s, x)[k] = e(k)
  BY <1>3, <1>5
<1> QED BY <1>5, <1>6 DEF n, e

\* The item touched comes first.
LEMMA TouchHead ==
  ASSUME NEW S, NEW s \in Seq(S), NEW x \in S
  PROVE  Touch(s, x) # <<>> /\ Head(Touch(s, x)) = x
<1> DEFINE t == Touch(s, x)
<1>1. t \in Seq(S)
  BY TouchType, Zenon
<1>2. Len(t) = IF In(s, x) THEN Len(s) ELSE Len(s) + 1
  BY TouchType, Zenon
<1>3. \A k \in 1 .. Len(t) :
        t[k] = IF k = 1 THEN x ELSE IF k <= Slot(s, x) THEN s[k - 1] ELSE s[k]
  BY TouchType, SMT
<1> HIDE DEF t
<1>4. Len(s) \in Nat /\ (In(s, x) => Len(s) >= 1)
  BY DEF In
<1>5. 1 \in 1 .. Len(t)
  BY <1>2, <1>4
<1>6. t # <<>> /\ Head(t) = t[1] /\ t[1] = x
  BY <1>1, <1>3, <1>5
<1> QED BY <1>6 DEF t

LEMMA FirstsType ==
  ASSUME NEW S, NEW s \in Seq(S), NEW n \in Nat
  PROVE  /\ Firsts(s, n) \in Seq(S)
         /\ Len(Firsts(s, n)) = IF Len(s) <= n THEN Len(s) ELSE n
         /\ \A k \in 1 .. Len(Firsts(s, n)) : Firsts(s, n)[k] = s[k]
<1> DEFINE m == IF Len(s) <= n THEN Len(s) ELSE n
<1>1. m \in Nat /\ m <= Len(s) /\ Len(s) \in Nat
  OBVIOUS
<1>2. Firsts(s, n) = [k \in 1 .. m |-> s[k]]
  BY DEF Firsts
<1> HIDE DEF m
<1>3. Firsts(s, n) \in [1 .. m -> S]
  BY <1>1, <1>2
<1>4. Firsts(s, n) \in Seq(S) /\ Len(Firsts(s, n)) = m
  BY <1>1, <1>3
<1> QED BY <1>2, <1>4 DEF m

\* Touch keeps the items distinct.
LEMMA TouchDistinct ==
  ASSUME NEW S, NEW s \in Seq(S), NEW x \in S, Distinct(s)
  PROVE  Distinct(Touch(s, x))
<1> DEFINE t == Touch(s, x)
<1>0. /\ t \in Seq(S)
      /\ Len(t) = IF In(s, x) THEN Len(s) ELSE Len(s) + 1
      /\ \A k \in 1 .. Len(t) :
           t[k] = IF k = 1 THEN x ELSE IF k <= Slot(s, x) THEN s[k - 1] ELSE s[k]
  <2>1. t \in Seq(S)
    BY TouchType, Zenon
  <2>2. Len(t) = IF In(s, x) THEN Len(s) ELSE Len(s) + 1
    BY TouchType, Zenon
  <2>3. \A k \in 1 .. Len(t) :
          t[k] = IF k = 1 THEN x ELSE IF k <= Slot(s, x) THEN s[k - 1] ELSE s[k]
    BY TouchType, SMT
  <2> QED BY <2>1, <2>2, <2>3
<1> DEFINE from(k) == IF k <= Slot(s, x) THEN k - 1 ELSE k
<1> HIDE DEF t
<1>1. /\ Len(s) \in Nat /\ Len(t) = IF In(s, x) THEN Len(s) ELSE Len(s) + 1
      /\ t[1] = x
      /\ \A k \in 2 .. Len(t) : t[k] = s[from(k)]
  BY <1>0, SlotRange
<1>2. /\ Slot(s, x) \in 1 .. Len(s) + 1
      /\ \A k \in 2 .. Len(t) : from(k) \in 1 .. Len(s) /\ from(k) # Slot(s, x)
  BY <1>1, SlotRange
<1>3. \A k \in 2 .. Len(t) : t[k] # x
  <2> SUFFICES ASSUME NEW k \in 2 .. Len(t), s[from(k)] = x PROVE FALSE
    BY <1>1
  <2>1. In(s, x)
    BY <1>2 DEF In
  <2>2. s[Slot(s, x)] = x /\ Slot(s, x) \in 1 .. Len(s)
    BY <2>1, SlotRange
  <2> QED BY <1>2, <2>2 DEF Distinct
<1>4. \A j, k \in 2 .. Len(t) : from(j) = from(k) => j = k
  BY <1>1, <1>2
<1>5. \A j, k \in 2 .. Len(t) : t[j] = t[k] => j = k
  BY <1>1, <1>2, <1>4 DEF Distinct
<1>6. \A j \in 1 .. Len(t) : j = 1 \/ j \in 2 .. Len(t)
  BY <1>1
<1> QED BY <1>1, <1>3, <1>5, <1>6 DEF Distinct, t

\* Keeping the n most recent items and touching commute: a list cut off after
\* every step is the beginning of the list that was never cut.
LEMMA FirstsTouch ==
  ASSUME NEW S, NEW s \in Seq(S), NEW x \in S, Distinct(s), NEW n \in Nat \ {0}
  PROVE  Firsts(Touch(Firsts(s, n), x), n) = Firsts(Touch(s, x), n)
<1> DEFINE f == Firsts(s, n)
           l == Firsts(Touch(f, x), n)
           r == Firsts(Touch(s, x), n)
<1>1. /\ f \in Seq(S) /\ Len(s) \in Nat
      /\ Len(f) = IF Len(s) <= n THEN Len(s) ELSE n
      /\ \A k \in 1 .. Len(f) : f[k] = s[k]
  BY FirstsType
<1> HIDE DEF f, l, r
<1>0. f \in Seq(S)
  BY <1>1
<1>2. /\ Touch(f, x) \in Seq(S)
      /\ Len(Touch(f, x)) = IF In(f, x) THEN Len(f) ELSE Len(f) + 1
      /\ \A k \in 1 .. Len(Touch(f, x)) :
           Touch(f, x)[k] = IF k = 1 THEN x ELSE IF k <= Slot(f, x) THEN f[k - 1] ELSE f[k]
  BY <1>0, TouchType
<1>3. /\ Touch(s, x) \in Seq(S)
      /\ Len(Touch(s, x)) = IF In(s, x) THEN Len(s) ELSE Len(s) + 1
      /\ \A k \in 1 .. Len(Touch(s, x)) :
           Touch(s, x)[k] = IF k = 1 THEN x ELSE IF k <= Slot(s, x) THEN s[k - 1] ELSE s[k]
  BY TouchType
<1>4. /\ l \in Seq(S) /\ r \in Seq(S)
      /\ Len(l) = IF Len(Touch(f, x)) <= n THEN Len(Touch(f, x)) ELSE n
      /\ Len(r) = IF Len(Touch(s, x)) <= n THEN Len(Touch(s, x)) ELSE n
      /\ \A k \in 1 .. Len(l) : l[k] = Touch(f, x)[k]
      /\ \A k \in 1 .. Len(r) : r[k] = Touch(s, x)[k]
  BY <1>2, <1>3, FirstsType DEF l, r
<1>5. ASSUME In(f, x) PROVE l = r
  <2>1. Slot(f, x) \in 1 .. Len(f) /\ f[Slot(f, x)] = x
    BY <1>1, <1>5, SlotRange
  <2>2. Slot(f, x) \in 1 .. Len(s) /\ s[Slot(f, x)] = x
    BY <1>1, <2>1
  <2>3. In(s, x)
    BY <2>2 DEF In
  <2>4. Slot(s, x) = Slot(f, x)
    BY <2>2, <2>3, SlotRange DEF Distinct
  <2>5. Len(l) = Len(r)
    BY <1>1, <1>2, <1>3, <1>4, <1>5, <2>3
  <2>6. \A k \in 1 .. Len(l) : l[k] = r[k]
    BY <1>1, <1>2, <1>3, <1>4, <1>5, <2>1, <2>3, <2>4, <2>5
  <2> QED BY <1>4, <2>5, <2>6, SeqEqual
<1>6. ASSUME ~In(f, x) PROVE l = r
  <2>1. Slot(f, x) = Len(f) + 1
    BY <1>1, <1>6, SlotRange
  <2>2. Slot(s, x) > Len(f) /\ Slot(s, x) \in Nat
    <3>1. Slot(s, x) \in 1 .. Len(s) + 1
      BY SlotRange
    <3>2. CASE In(s, x)
      <4>1. Slot(s, x) \in 1 .. Len(s) /\ s[Slot(s, x)] = x
        BY <3>2, SlotRange
      <4> QED BY <1>1, <1>6, <4>1 DEF In
    <3>3. CASE ~In(s, x)
      BY <1>1, <3>3, SlotRange
    <3> QED BY <3>2, <3>3
  <2>3. In(s, x) => Len(s) > n
    BY <1>1, <1>6, <2>2, SlotRange
  <2>4. Len(l) = Len(r)
    BY <1>1, <1>2, <1>3, <1>4, <1>6, <2>3
  <2>5. ASSUME NEW k \in 1 .. Len(l) PROVE l[k] = r[k]
    <3>1. /\ l[k] = Touch(f, x)[k] /\ r[k] = Touch(s, x)[k]
          /\ k \in 1 .. Len(Touch(f, x)) /\ k \in 1 .. Len(Touch(s, x)) /\ k <= n
      BY <1>2, <1>3, <1>4, <2>4
    <3>2. k <= Len(f) + 1
      BY <1>1, <1>2, <1>6, <3>1
    <3>3. Touch(f, x)[k] = IF k = 1 THEN x ELSE f[k - 1]
      BY <1>1, <1>2, <2>1, <3>1, <3>2
    <3>4. Touch(s, x)[k] = IF k = 1 THEN x ELSE s[k - 1]
      BY <1>1, <1>3, <2>2, <3>1, <3>2
    <3>5. k # 1 => f[k - 1] = s[k - 1]
      BY <1>1, <3>1, <3>2
    <3> QED BY <3>1, <3>3, <3>4, <3>5
  <2> QED BY <1>4, <2>4, <2>5, SeqEqual
<1> QED BY <1>5, <1>6 DEF f, l, r

\* t is s with x in front, put there or moved there from slot p.
Moved(t, m, s, n, x, p) ==
  /\ n \in Nat /\ p \in 1 .. n + 1
  /\ m = IF p = n + 1 THEN n + 1 ELSE n
  /\ p <= n => s[p] = x
  /\ \A k \in 1 .. m : t[k] = IF k = 1 THEN x ELSE IF k <= p THEN s[k - 1] ELSE s[k]

LEMMA TouchMoves ==
  ASSUME NEW S, NEW s \in Seq(S), NEW x \in S
  PROVE  /\ Touch(s, x) \in Seq(S)
         /\ Moved(Touch(s, x), Len(Touch(s, x)), s, Len(s), x, Slot(s, x))
<1>1. Touch(s, x) \in Seq(S)
  BY TouchType, Zenon
<1>2. Len(Touch(s, x)) = IF In(s, x) THEN Len(s) ELSE Len(s) + 1
  BY TouchType, Zenon
<1>3. \A k \in 1 .. Len(Touch(s, x)) :
        Touch(s, x)[k] = IF k = 1 THEN x
                         ELSE IF k <= Slot(s, x) THEN s[k - 1] ELSE s[k]
  BY TouchType, SMT
<1> DEFINE t == Touch(s, x)
<1>4. /\ t \in Seq(S) /\ Len(t) = IF In(s, x) THEN Len(s) ELSE Len(s) + 1
      /\ \A k \in 1 .. Len(t) :
           t[k] = IF k = 1 THEN x ELSE IF k <= Slot(s, x) THEN s[k - 1] ELSE s[k]
  BY <1>1, <1>2, <1>3, Zenon
<1> HIDE DEF t
<1>5. /\ Slot(s, x) \in 1 .. Len(s) + 1
      /\ In(s, x) => Slot(s, x) \in 1 .. Len(s) /\ s[Slot(s, x)] = x
      /\ ~In(s, x) => Slot(s, x) = Len(s) + 1
  BY SlotRange
<1>6. Len(s) \in Nat
  OBVIOUS
<1>7. Moved(t, Len(t), s, Len(s), x, Slot(s, x))
  BY <1>4, <1>5, <1>6 DEF Moved
<1> QED BY <1>1, <1>7 DEF t

\* Where the slots of t come from.
Shifted(t, m, s, n, x, p) ==
  /\ m > 0 /\ p \in 1 .. n + 1 /\ t[1] = x
  /\ \A k \in 2 .. m : k <= p => k - 1 \in 1 .. n /\ t[k] = s[k - 1]
  /\ \A k \in 2 .. m : p < k => k \in p .. n /\ p \in 1 .. n /\ s[p] = x /\ t[k] = s[k]

LEMMA MovedSlots ==
  ASSUME NEW t, NEW m, NEW s, NEW n, NEW x, NEW p, Moved(t, m, s, n, x, p)
  PROVE  Shifted(t, m, s, n, x, p)
<1>1. n \in Nat /\ m \in Nat /\ m > 0 /\ p \in 1 .. n + 1 /\ p \in Nat
  BY DEF Moved
<1>2. t[1] = x
  BY <1>1 DEF Moved
<1>3. ASSUME NEW k \in 2 .. m, k <= p PROVE k - 1 \in 1 .. n /\ t[k] = s[k - 1]
  <2>1. k - 1 \in 1 .. n /\ k \in 1 .. m /\ k # 1
    BY <1>1, <1>3
  <2> QED BY <1>3, <2>1 DEF Moved
<1>4. ASSUME NEW k \in 2 .. m, p < k PROVE k \in p .. n /\ p \in 1 .. n /\ s[p] = x /\ t[k] = s[k]
  <2>1. k \in 1 .. m /\ k # 1 /\ ~(k <= p)
    BY <1>1, <1>4
  <2>2. p # n + 1
    BY <1>1, <1>4 DEF Moved
  <2>3. m = n
    BY <2>2 DEF Moved
  <2>4. k \in p .. n /\ p \in 1 .. n /\ p <= n
    BY <1>1, <1>4, <2>2, <2>3
  <2> QED BY <2>1, <2>4 DEF Moved
<1> QED BY <1>1, <1>2, <1>3, <1>4 DEF Shifted

=============================================================================
