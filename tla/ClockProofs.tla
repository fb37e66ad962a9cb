----------------------------- MODULE ClockProofs ----------------------------
(***************************************************************************)
(* Proofs about Signal, Timer and Watchdog.  Any number of threads,        *)
(* signals and timers: the lists hold what they should, emissions call     *)
(* whom they should, and timers keep their pace.  Every port, any number   *)
(* of worker threads and any timeout: the list of watched threads holds    *)
(* what it should and no idle thread is reported.                          *)
(***************************************************************************)
EXTENDS Watchdog, SequenceTheorems, FiniteSetTheorems, WellFoundedInduction, TLAPS

-----------------------------------------------------------------------------
(* Induction, with a set for the property: what a recursive function of    *)
(* Select() and FlattenSeq() computes is shown by it.                      *)

(* A set of numbers that is not empty has a smallest element.              *)
LEMMA SmallestOf ==
  ASSUME NEW T \in SUBSET Nat, T # {}
  PROVE  \E n \in T : \A m \in T : n <= m
<1>1. PICK R : R = OpToRel(<, Nat)
  OBVIOUS
<1>2. IsWellFoundedOn(R, Nat)
  BY <1>1, NatLessThanWellFounded
<1>3. PICK n \in T : \A m \in T : <<m, n>> \notin R
  BY <1>2, WFMin
<1>4. \A m \in T : ~(m < n)
  BY <1>1, <1>3 DEF OpToRel
<1> QED
  BY <1>3, <1>4

(* A set with 0 that has the successor of each of its numbers has all.     *)
LEMMA Induction ==
  ASSUME NEW T, 0 \in T, \A n \in Nat : n \in T => n + 1 \in T
  PROVE  \A n \in Nat : n \in T
<1>1. SUFFICES ASSUME Nat \ T # {} PROVE FALSE
  OBVIOUS
<1>2. PICK n \in Nat \ T : \A m \in Nat \ T : n <= m
  BY <1>1, SmallestOf
<1>3. n # 0 /\ n - 1 \in Nat
  BY <1>2
<1>4. n - 1 \in T
  BY <1>2, <1>3
<1>5. (n - 1) + 1 \in T
  BY <1>3, <1>4
<1> QED
  BY <1>2, <1>3, <1>5

-----------------------------------------------------------------------------
(* Lists.                                                                  *)

(* One more element. *)
SelectOne(s, S, n, t) == IF s[n] \in S THEN Append(t, s[n]) ELSE t

(* f holds what Select() has found in the first n elements, for n up to m. *)
Selects(f, m, s, S) == f[0] = <<>> /\ \A n \in 1..m : f[n] = SelectOne(s, S, n, f[n - 1])

(* The recursive function of Select() exists,                              *)
LEMMA SelectRec ==
  ASSUME NEW s, NEW S, Len(s) \in Nat
  PROVE  \E f : f = [n \in 0..Len(s) |-> IF n = 0 THEN <<>> ELSE SelectOne(s, S, n, f[n - 1])]
<1> DEFINE L == Len(s)
           G(m, f) == f = [n \in 0..m |-> IF n = 0 THEN <<>> ELSE SelectOne(s, S, n, f[n - 1])]
           T == {m \in Nat : \E f : G(m, f)}
<1>1. 0 \in T
  <2> DEFINE f == [n \in 0..0 |-> <<>>]
  <2>1. G(0, f)
    OBVIOUS
  <2> QED
    BY <2>1
<1>2. ASSUME NEW m \in Nat, m \in T PROVE m + 1 \in T
  <2>1. PICK f : G(m, f)
    BY <1>2
  <2>2. DOMAIN f = 0..m /\ \A n \in 0..m : f[n] = IF n = 0 THEN <<>> ELSE SelectOne(s, S, n, f[n - 1])
    BY <2>1
  <2> HIDE DEF G
  <2> DEFINE g == [n \in 0..m + 1 |-> IF n = m + 1 THEN SelectOne(s, S, m + 1, f[m]) ELSE f[n]]
  <2>3. \A n \in 0..m : g[n] = f[n]
    BY SMT
  <2>4. g[m + 1] = SelectOne(s, S, m + 1, f[m])
    BY SMT
  <2>5. g[m + 1] = SelectOne(s, S, m + 1, g[m])
    BY <2>3, <2>4
  <2>6. \A n \in 0..m + 1 : g[n] = IF n = 0 THEN <<>> ELSE SelectOne(s, S, n, g[n - 1])
    <3> SUFFICES ASSUME NEW n \in 0..m + 1 PROVE g[n] = IF n = 0 THEN <<>> ELSE SelectOne(s, S, n, g[n - 1])
      OBVIOUS
    <3>1. CASE n = m + 1
      BY <3>1, <2>5
    <3>2. CASE n = 0
      BY <3>2, <2>2, <2>3
    <3>3. CASE n \in 1..m
      <4>1. g[n] = f[n] /\ g[n - 1] = f[n - 1]
        BY <3>3, <2>3
      <4> QED
        BY <3>3, <2>2, <4>1
    <3> QED
      BY <3>1, <3>2, <3>3
  <2> HIDE DEF g
  <2>7. g = [n \in 0..m + 1 |-> g[n]]
    BY DEF g
  <2>8. G(m + 1, g)
    BY <2>6, <2>7 DEF G
  <2> QED
    BY <2>8
<1>3. L \in T
  <2> HIDE DEF T
  <2> QED
    BY <1>1, <1>2, Induction
<1> QED
  BY <1>3

(* so that Select() is its last value.                                     *)
LEMMA SelectIs ==
  ASSUME NEW s, NEW S, Len(s) \in Nat
  PROVE  \E f : Selects(f, Len(s), s, S) /\ Select(s, S) = f[Len(s)]
<1> DEFINE f == CHOOSE h : h = [n \in 0..Len(s) |-> IF n = 0 THEN <<>> ELSE IF s[n] \in S THEN Append(h[n - 1], s[n]) ELSE h[n - 1]]
<1>1. Select(s, S) = f[Len(s)]
  BY DEF Select
<1>2. \E h : h = [n \in 0..Len(s) |-> IF n = 0 THEN <<>> ELSE IF s[n] \in S THEN Append(h[n - 1], s[n]) ELSE h[n - 1]]
  BY SelectRec DEF SelectOne
<1>3. f = [n \in 0..Len(s) |-> IF n = 0 THEN <<>> ELSE IF s[n] \in S THEN Append(f[n - 1], s[n]) ELSE f[n - 1]]
  BY <1>2
<1> HIDE DEF f
<1>4. f[0] = <<>>
  BY <1>3
<1>5. ASSUME NEW n \in 1..Len(s) PROVE f[n] = SelectOne(s, S, n, f[n - 1])
  <2>1. n \in 0..Len(s) /\ n # 0
    OBVIOUS
  <2>2. f[n] = IF s[n] \in S THEN Append(f[n - 1], s[n]) ELSE f[n - 1]
    BY <1>3, <2>1
  <2> QED
    BY <2>2 DEF SelectOne
<1>6. Selects(f, Len(s), s, S)
  BY <1>4, <1>5 DEF Selects
<1> QED
  BY <1>1, <1>6

(* A list grows at its end.                                                *)
LEMMA AppendFacts ==
  ASSUME NEW X, NEW s \in Seq(X), NEW x \in X
  PROVE  /\ Append(s, x) \in Seq(X) /\ ToSet(Append(s, x)) = ToSet(s) \cup {x}
         /\ IsInjective(s) /\ x \notin ToSet(s) => IsInjective(Append(s, x))
<1>1. /\ Append(s, x) \in Seq(X) /\ Len(s) \in Nat /\ DOMAIN Append(s, x) = 1..Len(s) + 1
      /\ DOMAIN s = 1..Len(s)
      /\ \A i \in 1..Len(s) : Append(s, x)[i] = s[i]
      /\ Append(s, x)[Len(s) + 1] = x
  OBVIOUS
<1> DEFINE t == Append(s, x)
<1> HIDE DEF t
<1>2. ASSUME NEW i \in DOMAIN t PROVE (i \in DOMAIN s /\ t[i] = s[i]) \/ (i = Len(s) + 1 /\ t[i] = x)
  <2>1. i \in 1..Len(s) + 1
    BY <1>1 DEF t
  <2>2. i \in 1..Len(s) \/ i = Len(s) + 1
    BY <1>1, <2>1
  <2> QED
    BY <1>1, <2>2 DEF t
<1>3. \A i \in DOMAIN s : i \in DOMAIN t /\ t[i] = s[i]
  BY <1>1 DEF t
<1>4. Len(s) + 1 \in DOMAIN t /\ t[Len(s) + 1] = x /\ Len(s) + 1 \notin DOMAIN s
  BY <1>1 DEF t
<1>5. ToSet(t) = ToSet(s) \cup {x}
  BY <1>2, <1>3, <1>4 DEF ToSet
<1>6. ASSUME IsInjective(s), x \notin ToSet(s) PROVE IsInjective(t)
  <2>1. \A i \in DOMAIN s : s[i] # x
    BY <1>6 DEF ToSet
  <2>2. \A i, j \in DOMAIN s : s[i] = s[j] => i = j
    BY <1>6 DEF IsInjective
  <2>3. ASSUME NEW i \in DOMAIN t, NEW j \in DOMAIN t, t[i] = t[j] PROVE i = j
    BY <1>2, <2>1, <2>2, <2>3
  <2> QED
    BY <2>3 DEF IsInjective
<1> QED
  BY <1>1, <1>5, <1>6 DEF t

(* Select() keeps the elements of s that are in S, and each of them once.  *)
LEMMA SelectFacts ==
  ASSUME NEW X, NEW s \in Seq(X), NEW S
  PROVE  /\ Select(s, S) \in Seq(X) /\ ToSet(Select(s, S)) = ToSet(s) \cap S
         /\ IsInjective(s) => IsInjective(Select(s, S))
<1> DEFINE L == Len(s)
<1>0. L \in Nat /\ DOMAIN s = 1..L /\ \A n \in 1..L : s[n] \in X
  OBVIOUS
<1>1. PICK f : Selects(f, L, s, S) /\ Select(s, S) = f[L]
  BY <1>0, SelectIs
<1> HIDE DEF L
<1> DEFINE Good(n) == /\ f[n] \in Seq(X) /\ ToSet(f[n]) = {s[i] : i \in 1..n} \cap S
                      /\ IsInjective(s) => IsInjective(f[n])
           T == {n \in Nat : n <= L => Good(n)}
<1>2. 0 \in T
  <2>1. f[0] = <<>> /\ <<>> \in Seq(X) /\ ToSet(<<>>) = {} /\ IsInjective(<<>>) /\ 1..0 = {}
    BY <1>1 DEF Selects, ToSet, IsInjective
  <2> QED
    BY <2>1
<1>3. ASSUME NEW m \in Nat, m \in T PROVE m + 1 \in T
  <2>1. SUFFICES ASSUME m + 1 <= L PROVE Good(m + 1)
    OBVIOUS
  <2>2. Good(m)
    BY <1>0, <1>3, <2>1
  <2>3. m + 1 \in 1..L /\ (m + 1) - 1 = m
    BY <1>0, <2>1
  <2>4. f[m + 1] = IF s[m + 1] \in S THEN Append(f[m], s[m + 1]) ELSE f[m]
    BY <1>1, <2>3 DEF Selects, SelectOne
  <2>5. {s[i] : i \in 1..m + 1} = {s[i] : i \in 1..m} \cup {s[m + 1]}
    <3>1. \A i \in 1..m + 1 : i \in 1..m \/ i = m + 1
      OBVIOUS
    <3>2. \A i \in 1..m : i \in 1..m + 1
      OBVIOUS
    <3>3. m + 1 \in 1..m + 1
      OBVIOUS
    <3> QED
      BY <3>1, <3>2, <3>3
  <2>6. s[m + 1] \in X
    BY <1>0, <2>3
  <2> DEFINE x == s[m + 1]
  <2> HIDE DEF x
  <2>7. CASE x \in S
    <3>1. f[m + 1] = Append(f[m], x)
      BY <2>4, <2>7 DEF x
    <3>2. f[m + 1] \in Seq(X) /\ ToSet(f[m + 1]) = ToSet(f[m]) \cup {x}
      BY <2>2, <2>6, <3>1, AppendFacts DEF x
    <3>3. ASSUME IsInjective(s) PROVE IsInjective(f[m + 1])
      <4>1. \A i \in 1..m : s[i] # s[m + 1]
        <5>1. \A i \in 1..m : i \in DOMAIN s /\ m + 1 \in DOMAIN s /\ i # m + 1
          BY <1>0, <2>1, <2>3
        <5> QED
          BY <5>1, <3>3 DEF IsInjective
      <4>2. x \notin ToSet(f[m])
        BY <2>2, <4>1 DEF x
      <4> QED
        BY <2>2, <2>6, <3>1, <3>3, <4>2, AppendFacts DEF x
    <3>4. ToSet(f[m + 1]) = {s[i] : i \in 1..m + 1} \cap S
      BY <2>2, <2>5, <2>7, <3>2 DEF x
    <3> QED
      BY <3>2, <3>3, <3>4
  <2>8. CASE x \notin S
    <3>1. f[m + 1] = f[m]
      BY <2>4, <2>8 DEF x
    <3>2. ToSet(f[m + 1]) = {s[i] : i \in 1..m + 1} \cap S
      BY <2>2, <2>5, <2>8, <3>1 DEF x
    <3> QED
      BY <2>2, <3>1, <3>2
  <2> QED
    BY <2>7, <2>8
<1>4. L \in T
  <2> HIDE DEF T
  <2> QED
    BY <1>0, <1>2, <1>3, Induction
<1>5. Good(L)
  BY <1>0, <1>4
<1>6. {s[i] : i \in 1..L} = ToSet(s)
  BY <1>0 DEF ToSet
<1> QED
  BY <1>1, <1>5, <1>6

(* The same for FlattenSeq(). *)
Flattens(f, m, seqs) == \A i \in 1..m : f[i] = IF i = 1 THEN seqs[i] ELSE f[i - 1] \o seqs[i]

(* The recursive function of FlattenSeq() exists.                          *)
LEMMA FlattenRec ==
  ASSUME NEW s, Len(s) \in Nat
  PROVE  \E f : f = [i \in 1..Len(s) |-> IF i = 1 THEN s[i] ELSE f[i - 1] \o s[i]]
<1> DEFINE L == Len(s)
           G(m, f) == f = [i \in 1..m |-> IF i = 1 THEN s[i] ELSE f[i - 1] \o s[i]]
           T == {m \in Nat : \E f : G(m, f)}
<1>1. 0 \in T
  <2> DEFINE f == [i \in 1..0 |-> <<>>]
  <2>1. G(0, f)
    OBVIOUS
  <2> QED
    BY <2>1
<1>2. ASSUME NEW m \in Nat, m \in T PROVE m + 1 \in T
  <2>1. PICK f : G(m, f)
    BY <1>2
  <2>2. \A i \in 1..m : f[i] = IF i = 1 THEN s[i] ELSE f[i - 1] \o s[i]
    BY <2>1
  <2> HIDE DEF G
  <2> DEFINE g == [i \in 1..m + 1 |-> IF i = m + 1 THEN IF i = 1 THEN s[i] ELSE f[m] \o s[i] ELSE f[i]]
  <2>3. \A i \in 1..m : g[i] = f[i]
    BY SMT
  <2>4. g[m + 1] = IF m + 1 = 1 THEN s[m + 1] ELSE f[m] \o s[m + 1]
    BY SMT
  <2>5. \A i \in 1..m + 1 : g[i] = IF i = 1 THEN s[i] ELSE g[i - 1] \o s[i]
    <3> SUFFICES ASSUME NEW i \in 1..m + 1 PROVE g[i] = IF i = 1 THEN s[i] ELSE g[i - 1] \o s[i]
      OBVIOUS
    <3>1. CASE i = m + 1
      <4>1. i # 1 => m \in 1..m
        BY <3>1
      <4>2. i # 1 => g[i - 1] = f[m]
        BY <3>1, <4>1, <2>3
      <4> HIDE DEF g
      <4> QED
        BY <3>1, <2>4, <4>2
    <3>2. CASE i \in 1..m
      <4>1. g[i] = f[i] /\ (i # 1 => g[i - 1] = f[i - 1])
        <5>1. i # 1 => i - 1 \in 1..m
          BY <3>2
        <5> QED
          BY <3>2, <5>1, <2>3
      <4> HIDE DEF g
      <4> QED
        BY <3>2, <2>2, <4>1
    <3> QED
      BY <3>1, <3>2
  <2> HIDE DEF g
  <2>7. g = [i \in 1..m + 1 |-> g[i]]
    BY DEF g
  <2>8. G(m + 1, g)
    BY <2>5, <2>7 DEF G
  <2> QED
    BY <2>8
<1>3. L \in T
  <2> HIDE DEF T
  <2> QED
    BY <1>1, <1>2, Induction
<1> QED
  BY <1>3

(* FlattenSeq() has no elements but those of its parts.                    *)
LEMMA FlattenFacts ==
  ASSUME NEW X, NEW s \in Seq(Seq(X))
  PROVE  /\ FlattenSeq(s) \in Seq(X)
         /\ \A x \in ToSet(FlattenSeq(s)) : \E i \in DOMAIN s : x \in ToSet(s[i])
<1> DEFINE L == Len(s)
<1>0. L \in Nat /\ DOMAIN s = 1..L /\ \A n \in 1..L : s[n] \in Seq(X)
  OBVIOUS
<1>1. CASE L = 0
  <2>1. s = <<>>
    BY <1>1
  <2>2. FlattenSeq(s) = s
    BY <1>1 DEF FlattenSeq
  <2>3. FlattenSeq(s) = <<>>
    BY <2>1, <2>2
  <2>4. <<>> \in Seq(X) /\ ToSet(<<>>) = {}
    BY DEF ToSet
  <2> QED
    BY <2>3, <2>4
<1>2. CASE L # 0
  <2> DEFINE f == CHOOSE h : h = [i \in 1..Len(s) |-> IF i = 1 THEN s[i] ELSE h[i - 1] \o s[i]]
  <2>1. FlattenSeq(s) = f[L]
    BY <1>2 DEF FlattenSeq
  <2>2. \E h : h = [i \in 1..Len(s) |-> IF i = 1 THEN s[i] ELSE h[i - 1] \o s[i]]
    BY <1>0, FlattenRec
  <2>3. f = [i \in 1..Len(s) |-> IF i = 1 THEN s[i] ELSE f[i - 1] \o s[i]]
    BY <2>2
  <2> HIDE DEF f
  <2>4. \A i \in 1..L : f[i] = IF i = 1 THEN s[i] ELSE f[i - 1] \o s[i]
    BY <2>3
  <2> HIDE DEF L
  <2> DEFINE Good(n) == f[n] \in Seq(X) /\ \A x \in ToSet(f[n]) : \E i \in DOMAIN s : x \in ToSet(s[i])
             T == {n \in Nat : n \in 1..L => Good(n)}
  <2>5. 0 \in T
    OBVIOUS
  <2>6. ASSUME NEW m \in Nat, m \in T PROVE m + 1 \in T
    <3>1. SUFFICES ASSUME m + 1 \in 1..L PROVE Good(m + 1)
      OBVIOUS
    <3>2. CASE m = 0
      <4>1. f[m + 1] = s[m + 1]
        BY <2>4, <3>1, <3>2
      <4> QED
        BY <4>1, <1>0, <3>1
    <3>3. CASE m # 0
      <4>1. m \in 1..L /\ m + 1 # 1 /\ (m + 1) - 1 = m
        BY <3>1, <3>3, <1>0
      <4>2. Good(m)
        BY <4>1, <2>6
      <4>3. f[m + 1] = f[m] \o s[m + 1]
        BY <2>4, <3>1, <4>1
      <4>4. f[m] \in Seq(X) /\ s[m + 1] \in Seq(X) /\ m + 1 \in DOMAIN s
        BY <1>0, <3>1, <4>2
      <4>5. f[m + 1] \in Seq(X)
        BY <4>3, <4>4
      <4>6. ASSUME NEW x \in ToSet(f[m + 1]) PROVE x \in ToSet(f[m]) \/ x \in ToSet(s[m + 1])
        <5> DEFINE a == f[m]  b == s[m + 1]
        <5>0. a \in Seq(X) /\ b \in Seq(X)
          BY <4>4
        <5> HIDE DEF a, b
        <5>1. PICK j \in DOMAIN (a \o b) : x = (a \o b)[j]
          BY <4>3, <4>6 DEF ToSet, a, b
        <5>2. j \in 1..Len(a) + Len(b) /\ Len(a) \in Nat /\ Len(b) \in Nat
          BY <5>0, <5>1
        <5>3. CASE j <= Len(a)
          <6>1. j \in DOMAIN a /\ (a \o b)[j] = a[j]
            BY <5>0, <5>2, <5>3
          <6> QED
            BY <6>1, <5>1 DEF ToSet, a
        <5>4. CASE j > Len(a)
          <6>1. j - Len(a) \in DOMAIN b /\ (a \o b)[j] = b[j - Len(a)]
            BY <5>0, <5>2, <5>4
          <6> QED
            BY <6>1, <5>1 DEF ToSet, b
        <5> QED
          BY <5>2, <5>3, <5>4
      <4> QED
        BY <4>2, <4>4, <4>5, <4>6
    <3> QED
      BY <3>2, <3>3
  <2>7. L \in T
    <3> HIDE DEF T
    <3> QED
      BY <1>0, <2>5, <2>6, Induction
  <2>8. L \in 1..L
    BY <1>0, <1>2
  <2> QED
    BY <2>1, <2>7, <2>8
<1> QED
  BY <1>1, <1>2

(* A list grows at its head.                                               *)
LEMMA ConsFacts ==
  ASSUME NEW X, NEW s \in Seq(X), NEW x \in X
  PROVE  /\ <<x>> \o s \in Seq(X) /\ ToSet(<<x>> \o s) = ToSet(s) \cup {x}
         /\ IsInjective(s) /\ x \notin ToSet(s) => IsInjective(<<x>> \o s)
<1>1. PICK r : r = <<x>> \o s
  OBVIOUS
<1>2. r \in Seq(X) /\ Len(r) = Len(s) + 1 /\ Len(s) \in Nat /\ DOMAIN s = 1..Len(s)
  BY <1>1
<1>3. r[1] = x /\ \A i \in 1..Len(s) : r[i + 1] = s[i]
  BY <1>1, <1>2
<1>4. ASSUME NEW i \in DOMAIN r, i # 1 PROVE i - 1 \in DOMAIN s /\ r[i] = s[i - 1]
  <2>1. i \in Nat /\ i - 1 \in 1..Len(s) /\ (i - 1) + 1 = i
    BY <1>2, <1>4
  <2> QED
    BY <1>2, <1>3, <2>1
<1>5. ASSUME IsInjective(s), x \notin ToSet(s) PROVE IsInjective(r)
  <2> SUFFICES ASSUME NEW i \in DOMAIN r, NEW j \in DOMAIN r, r[i] = r[j] PROVE i = j
    BY DEF IsInjective
  <2>1. \A k \in DOMAIN s : s[k] # x
    BY <1>5 DEF ToSet
  <2>2. CASE i = 1 \/ j = 1
    BY <1>3, <1>4, <2>1, <2>2
  <2>3. CASE i # 1 /\ j # 1
    <3>1. i - 1 = j - 1
      BY <1>4, <1>5, <2>3 DEF IsInjective
    <3> QED
      BY <1>2, <3>1
  <2> QED
    BY <2>2, <2>3
<1>6. ToSet(r) = ToSet(s) \cup {x}
  <2>1. \A y : y \in ToSet(r) => y \in ToSet(s) \cup {x}
    BY <1>3, <1>4 DEF ToSet
  <2>2. ASSUME NEW i \in DOMAIN s PROVE s[i] \in ToSet(r)
    <3>1. i \in Nat /\ i + 1 \in DOMAIN r /\ r[i + 1] = s[i]
      BY <1>2, <1>3
    <3> QED
      BY <3>1 DEF ToSet
  <2>3. x \in ToSet(r)
    BY <1>2, <1>3 DEF ToSet
  <2> QED
    BY <2>1, <2>2, <2>3 DEF ToSet
<1> QED
  BY <1>1, <1>2, <1>5, <1>6

-----------------------------------------------------------------------------
(* Signals: the inductive invariant.                                       *)

Links == [sig : Sigs, block : Blocks, copy : Copies]
Emissions == [todo : Seq(Copies), run : Copies \cup {Nil}, had : Seq(Copies),
              before : SUBSET Copies, called : Seq(Copies), on : BOOLEAN]

SigTyped ==
    /\ up \subseteq Sigs /\ copies \in 0..MaxCopies /\ gone \subseteq 1..copies
    /\ block \in [Sigs -> Blocks] /\ alive \in [Sigs -> [Blocks -> BOOLEAN]]
    /\ delegates \in [Sigs -> [Blocks -> Seq(Copies)]]
    /\ conn \in [Conns -> Links \cup {Nil}] /\ temp \in [Threads -> Links \cup {Nil}]
    /\ old \in [Threads -> [sig : Sigs, block : Blocks] \cup {Nil}]
    /\ emit \in [Threads -> Emissions]

Listed(g, b) == ToSet(delegates[g][b])

(* A copy is in one list, once, until it is withdrawn.                     *)
CopiesPlaced ==
    /\ \A g \in Sigs, b \in Blocks : IsInjective(delegates[g][b])
    /\ \A g, h \in Sigs : \A b, e \in Blocks : Listed(g, b) \cap Listed(h, e) # {} => g = h /\ b = e
    /\ \A g \in Sigs, b \in Blocks : Listed(g, b) \subseteq (1..copies) \ gone
    /\ \A x \in (1..copies) \ gone : \E g \in Sigs, b \in Blocks : x \in Listed(g, b)

(* The blocks of a signal, in the order of time: those that Clear() has    *)
(* taken out, the one it has, and those it never had.                      *)
BlocksKept ==
    /\ \A g \in Sigs, b \in Blocks : ~alive[g][b] => delegates[g][b] = <<>>
    /\ \A g \in Sigs, b \in Blocks : b > block[g] => alive[g][b]
    /\ \A g \in up : alive[g][block[g]]
    /\ \A p \in Threads : old[p] # Nil => old[p].block < block[old[p].sig]

(* A connection knows where its copy is, if it is anywhere.                *)
Knows(k) == k.copy \in 1..copies /\ \A g \in Sigs, b \in Blocks : k.copy \in Listed(g, b) => g = k.sig /\ b = k.block
Connections == ({conn[c] : c \in Conns} \cup {temp[p] : p \in Threads}) \ {Nil}
ConnectionsKnow == \A k \in Connections : Knows(k)

(* An emission: those called and those to be called are the snapshot, and  *)
(* none of them was gone when it was taken.                                *)
Faithful(e) ==
    /\ e.called \o e.todo = e.had /\ ToSet(e.todo) \cap e.before = {}
    /\ e.run \notin e.before /\ (e.run # Nil => e.on)
EmissionsFaithful == \A p \in Threads : Faithful(emit[p])

SigInv == SigTyped /\ CopiesPlaced /\ BlocksKept /\ ConnectionsKnow /\ EmissionsFaithful

-----------------------------------------------------------------------------
LEMMA Consts == /\ MaxCopies \in Nat /\ MaxBlocks \in Nat /\ 1 \in Blocks /\ Nil \notin Copies
                /\ Copies = 1..MaxCopies /\ Blocks = 1..MaxBlocks
  BY SignalConstants DEF Copies, Blocks

LEMMA QuietIsFaithful == Quiet \in Emissions /\ Faithful(Quiet)
<1>1. <<>> \in Seq(Copies) /\ ToSet(<<>>) = {} /\ <<>> \o <<>> = <<>>
  BY DEF ToSet
<1>2. Quiet \in Emissions
  BY <1>1 DEF Quiet, Emissions
<1>3. /\ Quiet.todo = <<>> /\ Quiet.run = Nil /\ Quiet.had = <<>> /\ Quiet.before = {}
      /\ Quiet.called = <<>> /\ Quiet.on = FALSE
  BY DEF Quiet
<1> QED
  BY <1>1, <1>2, <1>3 DEF Faithful

LEMMA SigInitInv == SigInit => SigInv
<1> SUFFICES ASSUME SigInit PROVE SigInv
  OBVIOUS
<1> USE DEF SigInit
<1>1. SigTyped
  <2>1. /\ up \subseteq Sigs /\ copies \in 0..MaxCopies /\ gone \subseteq 1..copies
        /\ block \in [Sigs -> Blocks] /\ alive \in [Sigs -> [Blocks -> BOOLEAN]]
    BY Consts
  <2>2. delegates \in [Sigs -> [Blocks -> Seq(Copies)]]
    <3>1. <<>> \in Seq(Copies)
      OBVIOUS
    <3> QED
      BY <3>1
  <2>3. /\ conn \in [Conns -> Links \cup {Nil}] /\ temp \in [Threads -> Links \cup {Nil}]
        /\ old \in [Threads -> [sig : Sigs, block : Blocks] \cup {Nil}]
    OBVIOUS
  <2>4. emit \in [Threads -> Emissions]
    BY QuietIsFaithful
  <2> QED
    BY <2>1, <2>2, <2>3, <2>4 DEF SigTyped
<1>2. \A g \in Sigs, b \in Blocks : delegates[g][b] = <<>> /\ alive[g][b] = TRUE /\ block[g] = 1
  OBVIOUS
<1>3. \A g \in Sigs, b \in Blocks : Listed(g, b) = {} /\ IsInjective(delegates[g][b])
  BY <1>2 DEF Listed, ToSet, IsInjective
<1>4. CopiesPlaced
  BY <1>3 DEF CopiesPlaced
<1>5. BlocksKept
  BY <1>2, Consts DEF BlocksKept
<1>6. Connections = {}
  BY DEF Connections
<1>7. EmissionsFaithful
  BY QuietIsFaithful DEF EmissionsFaithful
<1> QED
  BY <1>1, <1>4, <1>5, <1>6, <1>7 DEF SigInv, ConnectionsKnow

(* Copies are withdrawn, by whatever operation.                            *)
LEMMA Withdrawn ==
  ASSUME SigInv, NEW R, R \subseteq 1..copies, copies' = copies, gone' = gone \cup R,
         \A g \in Sigs, b \in Blocks : IsInjective(delegates'[g][b]) /\ Listed(g, b)' = Listed(g, b) \ R,
         Connections' \subseteq Connections
  PROVE  CopiesPlaced' /\ ConnectionsKnow'
<1>1. \A g \in Sigs, b \in Blocks : Listed(g, b)' \subseteq Listed(g, b)
  OBVIOUS
<1>2. \A g \in Sigs, b \in Blocks : Listed(g, b)' \subseteq ((1..copies) \ gone)'
  BY DEF SigInv, CopiesPlaced
<1>3. ASSUME NEW x \in ((1..copies) \ gone)' PROVE \E g \in Sigs, b \in Blocks : x \in Listed(g, b)'
  <2>1. x \in (1..copies) \ gone /\ x \notin R
    BY <1>3
  <2>2. PICK g \in Sigs, b \in Blocks : x \in Listed(g, b)
    BY <2>1 DEF SigInv, CopiesPlaced
  <2>3. x \in Listed(g, b)'
    BY <2>1, <2>2
  <2> QED
    BY <2>3
<1>4. ASSUME NEW g \in Sigs, NEW h \in Sigs, NEW b \in Blocks, NEW e \in Blocks,
             Listed(g, b)' \cap Listed(h, e)' # {}
      PROVE  g = h /\ b = e
  <2>1. Listed(g, b) \cap Listed(h, e) # {}
    BY <1>1, <1>4
  <2> QED
    BY <2>1 DEF SigInv, CopiesPlaced
<1>5. CopiesPlaced'
  BY <1>2, <1>3, <1>4 DEF CopiesPlaced
<1>6. ASSUME NEW k \in Connections' PROVE Knows(k)'
  <2>1. Knows(k)
    BY <1>6 DEF SigInv, ConnectionsKnow
  <2>2. k.copy \in 1..copies'
    BY <2>1 DEF Knows
  <2>3. ASSUME NEW g \in Sigs, NEW b \in Blocks, k.copy \in Listed(g, b)' PROVE g = k.sig /\ b = k.block
    BY <1>1, <2>1, <2>3 DEF Knows
  <2> QED
    BY <2>2, <2>3 DEF Knows
<1> QED
  BY <1>5, <1>6 DEF ConnectionsKnow

(* The lists with l for that of one signal and block.                      *)
Put(g, b, l) == [delegates EXCEPT ![g][b] = l]

(* One list of many.                                                       *)
LEMMA OneList ==
  ASSUME SigTyped, NEW g \in Sigs, NEW b \in Blocks, NEW l \in Seq(Copies),
         delegates' = Put(g, b, l)
  PROVE  /\ delegates' \in [Sigs -> [Blocks -> Seq(Copies)]]
         /\ delegates'[g][b] = l
         /\ \A h \in Sigs, e \in Blocks : h # g \/ e # b => delegates'[h][e] = delegates[h][e]
  BY DEF SigTyped, Put

(* The copy of a connection is withdrawn.                                  *)
LEMMA DisconnectFacts ==
  ASSUME SigInv, NEW k \in Connections, k \in Links, DisconnectImpl(k)
  PROVE  /\ k.copy \in 1..copies
         /\ delegates' \in [Sigs -> [Blocks -> Seq(Copies)]]
         /\ \A g \in Sigs, b \in Blocks :
              IsInjective(delegates'[g][b]) /\ Listed(g, b)' = Listed(g, b) \ {k.copy}
         /\ \A g \in Sigs, b \in Blocks : ~alive[g][b] => delegates'[g][b] = <<>>
<1>0. k.sig \in Sigs /\ k.block \in Blocks /\ k.copy \in Copies
  BY DEF Links
<1>1. k.copy \in 1..copies /\ \A g \in Sigs, b \in Blocks : k.copy \in Listed(g, b) => g = k.sig /\ b = k.block
  BY DEF SigInv, ConnectionsKnow, Knows
<1>2. CASE alive[k.sig][k.block]
  <2> DEFINE s == delegates[k.sig][k.block]
             l == Select(s, Copies \ {k.copy})
  <2>1. s \in Seq(Copies) /\ IsInjective(s)
    BY <1>0 DEF SigInv, SigTyped, CopiesPlaced
  <2>2. l \in Seq(Copies) /\ ToSet(l) = ToSet(s) \cap (Copies \ {k.copy}) /\ IsInjective(l)
    <3> HIDE DEF s
    <3> QED
      BY <2>1, SelectFacts
  <2>3. ToSet(s) \subseteq Copies
    <3> HIDE DEF s
    <3> QED
      BY <2>1 DEF ToSet
  <2>4. delegates' = [delegates EXCEPT ![k.sig][k.block] = l]
    BY <1>2 DEF DisconnectImpl
  <2> HIDE DEF l
  <2>5. /\ delegates' \in [Sigs -> [Blocks -> Seq(Copies)]]
        /\ delegates'[k.sig][k.block] = l
        /\ \A h \in Sigs, e \in Blocks : h # k.sig \/ e # k.block => delegates'[h][e] = delegates[h][e]
    <3>1. SigTyped
      BY DEF SigInv
    <3>2. l \in Seq(Copies)
      BY <2>2
    <3>3. delegates' = Put(k.sig, k.block, l)
      BY <2>4 DEF Put
    <3> HIDE DEF s
    <3> QED
      BY <1>0, <3>1, <3>2, <3>3, OneList
  <2>6. ASSUME NEW g \in Sigs, NEW b \in Blocks
        PROVE  /\ IsInjective(delegates'[g][b]) /\ Listed(g, b)' = Listed(g, b) \ {k.copy}
               /\ ~alive[g][b] => delegates'[g][b] = <<>>
    <3>1. CASE g = k.sig /\ b = k.block
      <4>1. delegates'[g][b] = l /\ Listed(g, b) = ToSet(s)
        BY <2>5, <3>1 DEF Listed
      <4>2. Listed(g, b)' = ToSet(l)
        BY <4>1 DEF Listed
      <4> HIDE DEF s
      <4> QED
        BY <1>2, <2>2, <2>3, <3>1, <4>1, <4>2
    <3>2. CASE g # k.sig \/ b # k.block
      <4>1. delegates'[g][b] = delegates[g][b]
        BY <2>5, <3>2
      <4>2. Listed(g, b)' = Listed(g, b) /\ k.copy \notin Listed(g, b)
        BY <1>1, <3>2, <4>1 DEF Listed
      <4> QED
        BY <4>1, <4>2 DEF SigInv, CopiesPlaced, BlocksKept
    <3> QED
      BY <3>1, <3>2
  <2> QED
    BY <1>1, <2>5, <2>6
<1>3. CASE ~alive[k.sig][k.block]
  <2>1. delegates' = delegates
    BY <1>3 DEF DisconnectImpl
  <2>2. ToSet(delegates[k.sig][k.block]) = {}
    <3>1. delegates[k.sig][k.block] = <<>>
      BY <1>0, <1>3 DEF SigInv, BlocksKept
    <3> QED
      BY <3>1 DEF ToSet
  <2>3. ASSUME NEW g \in Sigs, NEW b \in Blocks PROVE Listed(g, b)' = Listed(g, b) \ {k.copy}
    <3>1. Listed(g, b)' = Listed(g, b)
      BY <2>1 DEF Listed
    <3>2. k.copy \notin Listed(g, b)
      BY <1>1, <2>2 DEF Listed
    <3> QED
      BY <3>1, <3>2
  <2> QED
    BY <1>1, <2>1, <2>3 DEF SigInv, SigTyped, CopiesPlaced, BlocksKept
<1> QED
  BY <1>2, <1>3

(* A list is emptied.                                                      *)
LEMMA EmptyFacts ==
  ASSUME SigInv, NEW g \in Sigs, NEW b \in Blocks, delegates' = [delegates EXCEPT ![g][b] = <<>>]
  PROVE  /\ ToSet(delegates[g][b]) \subseteq 1..copies
         /\ delegates' \in [Sigs -> [Blocks -> Seq(Copies)]]
         /\ \A h \in Sigs, e \in Blocks :
              IsInjective(delegates'[h][e]) /\ Listed(h, e)' = Listed(h, e) \ ToSet(delegates[g][b])
         /\ delegates'[g][b] = <<>>
         /\ \A h \in Sigs, e \in Blocks : ~alive[h][e] => delegates'[h][e] = <<>>
<1>1. /\ delegates' \in [Sigs -> [Blocks -> Seq(Copies)]]
      /\ delegates'[g][b] = <<>>
      /\ \A h \in Sigs, e \in Blocks : h # g \/ e # b => delegates'[h][e] = delegates[h][e]
  <2>1. SigTyped /\ <<>> \in Seq(Copies)
    BY DEF SigInv
  <2>2. delegates' = Put(g, b, <<>>)
    BY DEF Put
  <2> QED
    BY <2>1, <2>2, OneList
<1>2. ToSet(delegates[g][b]) \subseteq 1..copies
  BY DEF SigInv, CopiesPlaced, Listed
<1>3. ToSet(<<>>) = {} /\ IsInjective(<<>>)
  BY DEF ToSet, IsInjective
<1>4. ASSUME NEW h \in Sigs, NEW e \in Blocks
      PROVE  /\ IsInjective(delegates'[h][e]) /\ Listed(h, e)' = Listed(h, e) \ ToSet(delegates[g][b])
             /\ ~alive[h][e] => delegates'[h][e] = <<>>
  <2>1. CASE h = g /\ e = b
    <3>1. Listed(h, e)' = {} /\ Listed(h, e) = ToSet(delegates[g][b])
      BY <1>1, <1>3, <2>1 DEF Listed
    <3> QED
      BY <1>1, <1>3, <2>1, <3>1
  <2>2. CASE h # g \/ e # b
    <3>1. delegates'[h][e] = delegates[h][e]
      BY <1>1, <2>2
    <3>2. Listed(h, e)' = Listed(h, e)
      BY <3>1 DEF Listed
    <3>3. Listed(h, e) \cap Listed(g, b) = {}
      BY <2>2 DEF SigInv, CopiesPlaced
    <3>4. Listed(h, e)' = Listed(h, e) \ ToSet(delegates[g][b])
      BY <3>2, <3>3 DEF Listed
    <3> QED
      BY <3>1, <3>4 DEF SigInv, CopiesPlaced, BlocksKept
  <2> QED
    BY <2>1, <2>2
<1> QED
  BY <1>1, <1>2, <1>4

(* Emissions are left alone.                                               *)
LEMMA StillFaithful == ASSUME SigInv, emit' = emit PROVE EmissionsFaithful'
  BY DEF SigInv, EmissionsFaithful, Faithful

(* A new copy, at the end of the list of the block the signal has now.     *)
LEMMA ConnectKeeps ==
  ASSUME SigInv, NEW p \in Threads, NEW g \in Sigs, Connect(p, g) PROVE SigInv'
<1> DEFINE n == copies + 1
           k == [sig |-> g, block |-> block[g], copy |-> n]
<1>1. /\ g \in up /\ copies < MaxCopies /\ copies' = n
      /\ delegates' = [delegates EXCEPT ![g][block[g]] = Append(@, copies')]
      /\ temp' = [temp EXCEPT ![p] = [sig |-> g, block |-> block[g], copy |-> copies']]
      /\ UNCHANGED <<up, block, alive, conn, old, emit, gone>>
  BY DEF Connect
<1>2. n \in Copies /\ n \in 0..MaxCopies /\ copies \in Nat /\ n \notin 1..copies
  BY <1>1, Consts DEF SigInv, SigTyped
<1>3. block[g] \in Blocks /\ k \in Links
  BY <1>2 DEF SigInv, SigTyped, Links
<1>17. PICK bb \in Blocks : bb = block[g]
  BY <1>3
<1>4. temp' = [temp EXCEPT ![p] = k]
  BY <1>1
<1> DEFINE s == delegates[g][bb]
           l == Append(s, n)
<1>5. s \in Seq(Copies) /\ IsInjective(s) /\ ToSet(s) \subseteq 1..copies
  BY DEF SigInv, SigTyped, CopiesPlaced, Listed
<1>6. l \in Seq(Copies) /\ ToSet(l) = ToSet(s) \cup {n} /\ IsInjective(l)
  <2> HIDE DEF s
  <2> QED
    BY <1>2, <1>5, AppendFacts
<1>7. delegates' = [delegates EXCEPT ![g][bb] = l]
  BY <1>1, <1>17 DEF SigInv, SigTyped
<1> HIDE DEF l
<1>8. /\ delegates' \in [Sigs -> [Blocks -> Seq(Copies)]]
      /\ delegates'[g][bb] = l
      /\ \A h \in Sigs, e \in Blocks : h # g \/ e # bb => delegates'[h][e] = delegates[h][e]
  <2>1. SigTyped /\ bb \in Blocks /\ l \in Seq(Copies)
    BY <1>6, <1>17 DEF SigInv
  <2>2. delegates' = Put(g, bb, l)
    BY <1>7 DEF Put
  <2> HIDE DEF s
  <2> QED
    BY <2>1, <2>2, OneList
<1>9. Listed(g, bb)' = Listed(g, bb) \cup {n}
  <2>1. Listed(g, bb)' = ToSet(l)
    BY <1>1, <1>8 DEF Listed
  <2> QED
    BY <1>6, <2>1 DEF Listed
<1>10. \A h \in Sigs, e \in Blocks : h # g \/ e # bb => Listed(h, e)' = Listed(h, e)
  BY <1>8 DEF Listed
<1>11. \A h \in Sigs, e \in Blocks : Listed(h, e) \subseteq (1..copies) \ gone
  BY DEF SigInv, CopiesPlaced
<1> HIDE DEF n, k, s
<1>12. SigTyped'
  <2>1. temp' \in [Threads -> Links \cup {Nil}]
    BY <1>3, <1>4 DEF SigInv, SigTyped
  <2>2. gone \subseteq 1..n
    BY <1>2 DEF SigInv, SigTyped, n
  <2> QED
    BY <1>1, <1>2, <1>8, <2>1, <2>2 DEF SigInv, SigTyped
<1>13. CopiesPlaced'
  <2>1. ASSUME NEW h \in Sigs, NEW e \in Blocks PROVE IsInjective(delegates'[h][e])
    BY <1>6, <1>8 DEF SigInv, CopiesPlaced
  <2>2. ASSUME NEW h \in Sigs, NEW e \in Blocks PROVE Listed(h, e)' \subseteq ((1..copies) \ gone)'
    <3>1. n \in (1..copies)' /\ n \notin gone /\ (1..copies) \subseteq (1..copies)' /\ gone' = gone
      BY <1>1, <1>2 DEF SigInv, SigTyped, n
    <3>2. Listed(h, e)' \subseteq Listed(h, e) \cup {n}
      BY <1>9, <1>10
    <3> QED
      BY <1>11, <3>1, <3>2
  <2>3. ASSUME NEW h \in Sigs, NEW i \in Sigs, NEW b \in Blocks, NEW e \in Blocks,
               Listed(h, b)' \cap Listed(i, e)' # {}
        PROVE  h = i /\ b = e
    <3>1. PICK x : x \in Listed(h, b)' /\ x \in Listed(i, e)'
      BY <2>3
    <3>2. CASE x = n
      <4>1. n \notin Listed(h, b) /\ n \notin Listed(i, e)
        BY <1>2, <1>11
      <4>2. (h = g /\ b = bb) /\ (i = g /\ e = bb)
        BY <3>1, <3>2, <4>1, <1>10
      <4> QED
        BY <4>2
    <3>3. CASE x # n
      <4>1. x \in Listed(h, b) /\ x \in Listed(i, e)
        BY <3>1, <3>3, <1>9, <1>10
      <4> QED
        BY <4>1 DEF SigInv, CopiesPlaced
    <3> QED
      BY <3>2, <3>3
  <2>4. ASSUME NEW x \in ((1..copies) \ gone)' PROVE \E h \in Sigs, b \in Blocks : x \in Listed(h, b)'
    <3>1. CASE x = n
      BY <3>1, <1>3, <1>9
    <3>2. CASE x # n
      <4>1. x \in (1..copies) \ gone
        BY <2>4, <3>2, <1>1, <1>2 DEF n
      <4>2. PICK h \in Sigs, b \in Blocks : x \in Listed(h, b)
        BY <4>1 DEF SigInv, CopiesPlaced
      <4>3. x \in Listed(h, b)'
        BY <4>2, <1>9, <1>10
      <4> QED
        BY <4>3
    <3> QED
      BY <3>1, <3>2
  <2> QED
    BY <2>1, <2>2, <2>3, <2>4 DEF CopiesPlaced
<1>14. BlocksKept'
  <2>1. alive[g][bb]
    BY <1>1, <1>17 DEF SigInv, BlocksKept
  <2>2. ASSUME NEW h \in Sigs, NEW e \in Blocks, ~alive[h][e] PROVE delegates'[h][e] = <<>>
    <3>1. h # g \/ e # bb
      BY <2>1, <2>2
    <3>2. delegates[h][e] = <<>>
      BY <2>2 DEF SigInv, BlocksKept
    <3> QED
      BY <1>8, <3>1, <3>2
  <2>3. \A h \in Sigs, e \in Blocks : ~alive'[h][e] => delegates'[h][e] = <<>>
    BY <1>1, <2>2
  <2>4. /\ \A h \in Sigs, b \in Blocks : b > block'[h] => alive'[h][b]
        /\ \A h \in up' : alive'[h][block'[h]]
        /\ \A q \in Threads : old'[q] # Nil => old'[q].block < block'[old'[q].sig]
    BY <1>1 DEF SigInv, BlocksKept
  <2> QED
    BY <2>3, <2>4 DEF BlocksKept
<1>15. ConnectionsKnow'
  <2>1. Connections' \subseteq Connections \cup {k}
    BY <1>1, <1>4 DEF SigInv, SigTyped, Connections
  <2>2. k.copy = n /\ k.sig = g /\ k.block = bb
    BY <1>17 DEF k
  <2>3. ASSUME NEW j \in Connections' PROVE Knows(j)'
    <3>1. CASE j = k
      <4>1. j.copy \in 1..copies'
        BY <1>1, <1>2, <2>2, <3>1 DEF n
      <4>2. ASSUME NEW h \in Sigs, NEW b \in Blocks, j.copy \in Listed(h, b)' PROVE h = j.sig /\ b = j.block
        <5>1. n \notin Listed(h, b)
          BY <1>2, <1>11
        <5>2. h = g /\ b = bb
          BY <1>10, <2>2, <3>1, <4>2, <5>1
        <5> QED
          BY <5>2, <2>2, <3>1
      <4> QED
        BY <4>1, <4>2 DEF Knows
    <3>2. CASE j # k
      <4>1. Knows(j)
        BY <2>1, <2>3, <3>2 DEF SigInv, ConnectionsKnow
      <4>2. j.copy \in 1..copies' /\ j.copy # n
        BY <1>1, <1>2, <4>1 DEF Knows, n
      <4>3. ASSUME NEW h \in Sigs, NEW b \in Blocks, j.copy \in Listed(h, b)' PROVE h = j.sig /\ b = j.block
        <5>1. j.copy \in Listed(h, b)
          BY <1>9, <1>10, <4>2, <4>3
        <5> QED
          BY <4>1, <5>1 DEF Knows
      <4> QED
        BY <4>2, <4>3 DEF Knows
    <3> QED
      BY <3>1, <3>2
  <2> QED
    BY <2>3 DEF ConnectionsKnow
<1>16. EmissionsFaithful'
  BY <1>1, StillFaithful
<1> QED
  BY <1>12, <1>13, <1>14, <1>15, <1>16 DEF SigInv

(* What the connection held before is withdrawn.                           *)
LEMMA MoveAssignKeeps ==
  ASSUME SigInv, NEW p \in Threads, NEW c \in Conns, MoveAssign(p, c) PROVE SigInv'
<1>1. /\ temp[p] # Nil
      /\ conn' = [conn EXCEPT ![c] = temp[p]] /\ temp' = [temp EXCEPT ![p] = Nil]
      /\ UNCHANGED <<up, block, alive, old, emit, copies>>
  BY DEF MoveAssign
<1>2. conn' \in [Conns -> Links \cup {Nil}] /\ temp' \in [Threads -> Links \cup {Nil}]
  BY <1>1 DEF SigInv, SigTyped
<1>3. Connections' \subseteq Connections
  BY <1>1 DEF SigInv, SigTyped, Connections
<1>4. EmissionsFaithful'
  BY <1>1, StillFaithful
<1>5. CASE conn[c] = Nil
  <2>1. UNCHANGED <<delegates, gone>>
    BY <1>5 DEF MoveAssign
  <2>2. SigTyped'
    BY <1>1, <1>2, <2>1 DEF SigInv, SigTyped
  <2>3. CopiesPlaced' /\ BlocksKept'
    BY <1>1, <2>1 DEF SigInv, CopiesPlaced, BlocksKept, Listed
  <2>4. ConnectionsKnow'
    BY <1>1, <1>3, <2>1 DEF SigInv, ConnectionsKnow, Knows, Listed
  <2> QED
    BY <1>4, <2>2, <2>3, <2>4 DEF SigInv
<1>6. CASE conn[c] # Nil
  <2>1. DisconnectImpl(conn[c]) /\ gone' = gone \cup {conn[c].copy}
    BY <1>6 DEF MoveAssign
  <2>2. conn[c] \in Connections /\ conn[c] \in Links
    BY <1>6 DEF Connections, SigInv, SigTyped
  <2>3. /\ conn[c].copy \in 1..copies
        /\ delegates' \in [Sigs -> [Blocks -> Seq(Copies)]]
        /\ \A g \in Sigs, b \in Blocks :
             IsInjective(delegates'[g][b]) /\ Listed(g, b)' = Listed(g, b) \ {conn[c].copy}
        /\ \A g \in Sigs, b \in Blocks : ~alive[g][b] => delegates'[g][b] = <<>>
    BY <2>1, <2>2, DisconnectFacts
  <2>4. CopiesPlaced' /\ ConnectionsKnow'
    <3>1. {conn[c].copy} \subseteq 1..copies
      BY <2>3
    <3> QED
      BY <1>1, <1>3, <2>1, <2>3, <3>1, Withdrawn
  <2>5. SigTyped'
    BY <1>1, <1>2, <2>1, <2>3 DEF SigInv, SigTyped
  <2>6. BlocksKept'
    BY <1>1, <2>3 DEF SigInv, BlocksKept
  <2> QED
    BY <1>4, <2>4, <2>5, <2>6 DEF SigInv
<1> QED
  BY <1>5, <1>6

LEMMA DisconnectKeeps ==
  ASSUME SigInv, NEW p \in Threads, NEW c \in Conns, Disconnect(p, c) PROVE SigInv'
<1>1. /\ conn[c] # Nil /\ DisconnectImpl(conn[c]) /\ gone' = gone \cup {conn[c].copy}
      /\ conn' = [conn EXCEPT ![c] = Nil]
      /\ UNCHANGED <<up, block, alive, temp, old, emit, copies>>
  BY DEF Disconnect
<1>2. conn' \in [Conns -> Links \cup {Nil}]
  BY <1>1 DEF SigInv, SigTyped
<1>3. Connections' \subseteq Connections
  BY <1>1 DEF SigInv, SigTyped, Connections
<1>4. EmissionsFaithful'
  BY <1>1, StillFaithful
<1>5. conn[c] \in Connections /\ conn[c] \in Links
  BY <1>1 DEF Connections, SigInv, SigTyped
<1>6. /\ conn[c].copy \in 1..copies
      /\ delegates' \in [Sigs -> [Blocks -> Seq(Copies)]]
      /\ \A g \in Sigs, b \in Blocks :
           IsInjective(delegates'[g][b]) /\ Listed(g, b)' = Listed(g, b) \ {conn[c].copy}
      /\ \A g \in Sigs, b \in Blocks : ~alive[g][b] => delegates'[g][b] = <<>>
  BY <1>1, <1>5, DisconnectFacts
<1>7. CopiesPlaced' /\ ConnectionsKnow'
  <2>1. {conn[c].copy} \subseteq 1..copies
    BY <1>6
  <2> QED
    BY <1>1, <1>3, <1>6, <2>1, Withdrawn
<1>8. SigTyped'
  BY <1>1, <1>2, <1>6 DEF SigInv, SigTyped
<1>9. BlocksKept'
  BY <1>1, <1>6 DEF SigInv, BlocksKept
<1> QED
  BY <1>4, <1>7, <1>8, <1>9 DEF SigInv

(* The signal moves on to a block it never had.                            *)
LEMMA ClearSwapKeeps ==
  ASSUME SigInv, NEW p \in Threads, NEW g \in Sigs, ClearSwap(p, g) PROVE SigInv'
<1>1. /\ g \in up /\ block[g] < MaxBlocks
      /\ old' = [old EXCEPT ![p] = [sig |-> g, block |-> block[g]]]
      /\ block' = [block EXCEPT ![g] = @ + 1]
      /\ UNCHANGED <<up, alive, delegates, conn, temp, emit, copies, gone>>
  BY DEF ClearSwap
<1>2. block[g] \in Blocks /\ block[g] \in Nat /\ block[g] + 1 \in Blocks
  BY <1>1, Consts DEF SigInv, SigTyped
<1>3. \A h \in Sigs : block'[h] = IF h = g THEN block[g] + 1 ELSE block[h]
  BY <1>1 DEF SigInv, SigTyped
<1>4. SigTyped'
  <2>1. block' \in [Sigs -> Blocks]
    BY <1>1, <1>2 DEF SigInv, SigTyped
  <2>2. [sig |-> g, block |-> block[g]] \in [sig : Sigs, block : Blocks]
    BY <1>2
  <2>3. old' \in [Threads -> [sig : Sigs, block : Blocks] \cup {Nil}]
    BY <1>1, <2>2 DEF SigInv, SigTyped
  <2> QED
    BY <1>1, <2>1, <2>3 DEF SigInv, SigTyped
<1>5. CopiesPlaced' /\ ConnectionsKnow'
  <2>1. Connections' = Connections
    BY <1>1 DEF Connections
  <2>2. CopiesPlaced'
    BY <1>1 DEF SigInv, CopiesPlaced, Listed
  <2> QED
    BY <1>1, <2>1, <2>2 DEF SigInv, ConnectionsKnow, Knows, Listed
<1>6. BlocksKept'
  <2>1. ASSUME NEW h \in Sigs, NEW b \in Blocks, b > block'[h] PROVE alive'[h][b]
    <3>1. block[h] \in Nat /\ b \in Nat
      BY Consts DEF SigInv, SigTyped
    <3>2. b > block[h]
      BY <1>2, <1>3, <2>1, <3>1
    <3> QED
      BY <1>1, <3>2 DEF SigInv, BlocksKept
  <2>2. ASSUME NEW h \in up' PROVE alive'[h][block'[h]]
    <3>1. h \in up /\ h \in Sigs
      BY <1>1, <2>2 DEF SigInv, SigTyped
    <3>2. CASE h = g
      <4>1. block'[h] = block[h] + 1 /\ block'[h] \in Blocks /\ block'[h] > block[h]
        BY <1>2, <1>3, <3>1, <3>2
      <4> QED
        BY <1>1, <3>1, <4>1 DEF SigInv, BlocksKept
    <3>3. CASE h # g
      BY <1>1, <1>3, <3>1, <3>3 DEF SigInv, BlocksKept
    <3> QED
      BY <3>2, <3>3
  <2>3. ASSUME NEW q \in Threads, old'[q] # Nil PROVE old'[q].block < block'[old'[q].sig]
    <3>1. CASE q = p
      <4>1. old'[q] = [sig |-> g, block |-> block[g]]
        BY <1>1, <3>1 DEF SigInv, SigTyped
      <4>2. old'[q].sig = g /\ old'[q].block = block[g]
        BY <4>1
      <4> QED
        BY <1>2, <1>3, <4>2
    <3>2. CASE q # p
      <4>1. old'[q] = old[q]
        BY <1>1, <3>2 DEF SigInv, SigTyped
      <4>2. old[q].block < block[old[q].sig] /\ old[q].sig \in Sigs /\ old[q].block \in Blocks
        BY <2>3, <4>1 DEF SigInv, SigTyped, BlocksKept
      <4>3. old[q].block \in Nat /\ block[old[q].sig] \in Nat
        <5>1. block[old[q].sig] \in Blocks
          BY <4>2 DEF SigInv, SigTyped
        <5> QED
          BY <4>2, <5>1, Consts
      <4>4. block'[old[q].sig] >= block[old[q].sig] /\ block'[old[q].sig] \in Nat
        BY <1>2, <1>3, <4>2, <4>3
      <4> QED
        BY <4>1, <4>2, <4>3, <4>4
    <3> QED
      BY <3>1, <3>2
  <2>4. \A h \in Sigs, b \in Blocks : ~alive'[h][b] => delegates'[h][b] = <<>>
    BY <1>1 DEF SigInv, BlocksKept
  <2> QED
    BY <2>1, <2>2, <2>3, <2>4 DEF BlocksKept
<1>7. EmissionsFaithful'
  BY <1>1, StillFaithful
<1> QED
  BY <1>4, <1>5, <1>6, <1>7 DEF SigInv

(* A block dies and is emptied: that of a signal, or an older one.         *)
LEMMA EmptiedKeeps ==
  ASSUME SigInv, NEW g \in Sigs, NEW b \in Blocks,
         up' \subseteq up, b <= block[g], b = block[g] => g \notin up',
         alive' = [alive EXCEPT ![g][b] = FALSE],
         gone' = gone \cup ToSet(delegates[g][b]),
         delegates' = [delegates EXCEPT ![g][b] = <<>>],
         old' \in [Threads -> [sig : Sigs, block : Blocks] \cup {Nil}],
         \A q \in Threads : old'[q] \in {old[q], Nil},
         UNCHANGED <<block, conn, temp, emit, copies>>
  PROVE  SigInv'
<1>1. /\ ToSet(delegates[g][b]) \subseteq 1..copies
      /\ delegates' \in [Sigs -> [Blocks -> Seq(Copies)]]
      /\ \A h \in Sigs, e \in Blocks :
           IsInjective(delegates'[h][e]) /\ Listed(h, e)' = Listed(h, e) \ ToSet(delegates[g][b])
      /\ delegates'[g][b] = <<>>
      /\ \A h \in Sigs, e \in Blocks : ~alive[h][e] => delegates'[h][e] = <<>>
  BY EmptyFacts
<1>2. Connections' = Connections
  BY DEF Connections
<1>3. CopiesPlaced' /\ ConnectionsKnow'
  BY <1>1, <1>2, Withdrawn
<1>4. /\ alive' \in [Sigs -> [Blocks -> BOOLEAN]]
      /\ \A h \in Sigs, e \in Blocks : h # g \/ e # b => alive'[h][e] = alive[h][e]
  BY DEF SigInv, SigTyped
<1>5. SigTyped'
  BY <1>1, <1>4 DEF SigInv, SigTyped
<1>6. BlocksKept'
  <2>1. ASSUME NEW h \in Sigs, NEW e \in Blocks, ~alive'[h][e] PROVE delegates'[h][e] = <<>>
    BY <1>1, <1>4, <2>1
  <2>2. ASSUME NEW h \in Sigs, NEW e \in Blocks, e > block'[h] PROVE alive'[h][e]
    <3>1. block[h] \in Nat /\ e \in Nat /\ b \in Nat
      BY Consts DEF SigInv, SigTyped
    <3>2. e > block[h] /\ (h # g \/ e # b)
      BY <2>2, <3>1
    <3> QED
      BY <1>4, <3>2 DEF SigInv, BlocksKept
  <2>3. ASSUME NEW h \in up' PROVE alive'[h][block'[h]]
    <3>1. h \in up /\ h \in Sigs /\ block[h] \in Blocks
      BY <2>3 DEF SigInv, SigTyped
    <3>2. h # g \/ block[h] # b
      BY <2>3
    <3> QED
      BY <1>4, <3>1, <3>2 DEF SigInv, BlocksKept
  <2>4. ASSUME NEW q \in Threads, old'[q] # Nil PROVE old'[q].block < block'[old'[q].sig]
    BY <2>4 DEF SigInv, BlocksKept
  <2> QED
    BY <2>1, <2>2, <2>3, <2>4 DEF BlocksKept
<1>7. EmissionsFaithful'
  BY StillFaithful
<1> QED
  BY <1>3, <1>5, <1>6, <1>7 DEF SigInv

LEMMA ClearOldKeeps ==
  ASSUME SigInv, NEW p \in Threads, ClearOld(p) PROVE SigInv'
<1> DEFINE g == old[p].sig
           b == old[p].block
<1>1. /\ old[p] # Nil
      /\ alive' = [alive EXCEPT ![g][b] = FALSE]
      /\ gone' = gone \cup ToSet(delegates[g][b])
      /\ delegates' = [delegates EXCEPT ![g][b] = <<>>]
      /\ old' = [old EXCEPT ![p] = Nil]
      /\ UNCHANGED <<up, block, conn, temp, emit, copies>>
  BY DEF ClearOld
<1>2. g \in Sigs /\ b \in Blocks /\ b < block[g]
  BY <1>1 DEF SigInv, SigTyped, BlocksKept
<1>3. b \in Nat /\ block[g] \in Nat
  BY <1>2, Consts DEF SigInv, SigTyped
<1>4. /\ old' \in [Threads -> [sig : Sigs, block : Blocks] \cup {Nil}]
      /\ \A q \in Threads : old'[q] \in {old[q], Nil}
  BY <1>1 DEF SigInv, SigTyped
<1> HIDE DEF g, b
<1>5. b <= block[g] /\ b # block[g]
  BY <1>2, <1>3
<1>6. up' \subseteq up
  BY <1>1
<1> QED
  BY <1>1, <1>2, <1>4, <1>5, <1>6, EmptiedKeeps

LEMMA DestroyKeeps ==
  ASSUME SigInv, NEW p \in Threads, NEW g \in Sigs, Destroy(p, g) PROVE SigInv'
<1> DEFINE b == block[g]
<1>1. /\ up' = up \ {g}
      /\ alive' = [alive EXCEPT ![g][b] = FALSE]
      /\ gone' = gone \cup ToSet(delegates[g][b])
      /\ delegates' = [delegates EXCEPT ![g][b] = <<>>]
      /\ UNCHANGED <<block, conn, temp, old, emit, copies>>
  BY DEF Destroy, Now
<1>2. b \in Blocks /\ b \in Nat
  BY Consts DEF SigInv, SigTyped
<1>3. /\ old' \in [Threads -> [sig : Sigs, block : Blocks] \cup {Nil}]
      /\ \A q \in Threads : old'[q] \in {old[q], Nil}
  BY <1>1 DEF SigInv, SigTyped
<1>4. b <= block[g] /\ up' \subseteq up /\ g \notin up'
  BY <1>1, <1>2
<1> HIDE DEF b
<1> QED
  BY <1>1, <1>2, <1>3, <1>4, EmptiedKeeps

-----------------------------------------------------------------------------
(* Only emissions change.                                                  *)
LEMMA EmitFrame ==
  ASSUME SigInv, UNCHANGED <<up, block, alive, delegates, conn, temp, old, copies, gone>>,
         emit' \in [Threads -> Emissions], EmissionsFaithful'
  PROVE  SigInv'
<1>0. /\ up' = up /\ block' = block /\ alive' = alive /\ delegates' = delegates /\ conn' = conn
      /\ temp' = temp /\ old' = old /\ copies' = copies /\ gone' = gone
  OBVIOUS
<1>1. SigTyped'
  BY <1>0 DEF SigInv, SigTyped
<1>2. CopiesPlaced' /\ BlocksKept'
  <2>1. CopiesPlaced'
    <3>1. \A g \in Sigs, b \in Blocks : Listed(g, b)' = Listed(g, b) /\ delegates'[g][b] = delegates[g][b]
      BY <1>0 DEF Listed
    <3>2. CopiesPlaced
      BY DEF SigInv
    <3> QED
      BY <1>0, <3>1, <3>2 DEF CopiesPlaced
  <2>2. BlocksKept'
    BY <1>0 DEF SigInv, BlocksKept
  <2> QED
    BY <2>1, <2>2
<1>3. ConnectionsKnow'
  BY DEF SigInv, ConnectionsKnow, Connections, Knows, Listed
<1> QED
  BY <1>1, <1>2, <1>3 DEF SigInv

(* The emission of one thread changes.                                     *)
LEMMA EmitOne ==
  ASSUME SigInv, UNCHANGED <<up, block, alive, delegates, conn, temp, old, copies, gone>>,
         NEW p \in Threads, NEW e \in Emissions, Faithful(e), emit' = [emit EXCEPT ![p] = e]
  PROVE  SigInv'
<1>1. emit' \in [Threads -> Emissions]
  BY DEF SigInv, SigTyped
<1>2. ASSUME NEW q \in Threads PROVE Faithful(emit'[q])
  <2>1. emit'[q] = IF q = p THEN e ELSE emit[q]
    BY DEF SigInv, SigTyped
  <2> QED
    BY <2>1 DEF SigInv, EmissionsFaithful
<1>3. EmissionsFaithful'
  BY <1>2 DEF EmissionsFaithful, Faithful
<1> QED
  BY <1>1, <1>3, EmitFrame

(* An emission begins with subscribers of whom none is gone.               *)
LEMMA BeginKeeps ==
  ASSUME SigInv, NEW p \in Threads, NEW snapshot \in Seq(Copies), ToSet(snapshot) \cap gone = {},
         Begin(p, snapshot), UNCHANGED <<up, block, alive, delegates, conn, temp, old, copies, gone>>
  PROVE  SigInv'
<1> DEFINE e == [todo |-> snapshot, run |-> Nil, had |-> snapshot,
                 before |-> gone, called |-> <<>>, on |-> TRUE]
<1>1. emit' = [emit EXCEPT ![p] = e]
  BY DEF Begin
<1>2. /\ e.todo = snapshot /\ e.run = Nil /\ e.had = snapshot
      /\ e.before = gone /\ e.called = <<>> /\ e.on = TRUE
  OBVIOUS
<1>3. gone \subseteq Copies
  BY Consts DEF SigInv, SigTyped
<1>4. e \in Emissions
  <2>1. <<>> \in Seq(Copies)
    OBVIOUS
  <2> QED
    BY <1>3, <2>1 DEF Emissions
<1>5. <<>> \o snapshot = snapshot
  OBVIOUS
<1> HIDE DEF e
<1>6. Faithful(e)
  <2>1. Nil \notin gone
    BY <1>3, Consts
  <2> QED
    BY <1>2, <1>5, <2>1 DEF Faithful
<1> QED
  BY <1>1, <1>4, <1>6, EmitOne

(* One more is called, one less is to be called.                           *)
LEMMA HeadTail ==
  ASSUME NEW X, NEW c \in Seq(X), NEW t \in Seq(X), t # <<>>
  PROVE  /\ Head(t) \in X /\ Tail(t) \in Seq(X) /\ Append(c, Head(t)) \in Seq(X)
         /\ Append(c, Head(t)) \o Tail(t) = c \o t
         /\ Head(t) \in ToSet(t) /\ ToSet(Tail(t)) \subseteq ToSet(t)
<1>1. Len(t) \in Nat /\ Len(t) > 0 /\ Len(c) \in Nat
  OBVIOUS
<1>2. Head(t) = t[1] /\ 1 \in DOMAIN t /\ Head(t) \in X
  BY <1>1
<1>3. /\ Tail(t) \in Seq(X) /\ Len(Tail(t)) = Len(t) - 1
      /\ \A i \in 1..Len(t) - 1 : Tail(t)[i] = t[i + 1]
  BY <1>1
<1>4. Append(c, Head(t)) \in Seq(X) /\ Len(Append(c, Head(t))) = Len(c) + 1
  BY <1>2
<1>5. ToSet(Tail(t)) \subseteq ToSet(t)
  <2>1. DOMAIN Tail(t) = 1..Len(t) - 1 /\ DOMAIN t = 1..Len(t)
    BY <1>3
  <2>2. \A i \in DOMAIN Tail(t) : i + 1 \in DOMAIN t /\ Tail(t)[i] = t[i + 1]
    BY <1>1, <1>3, <2>1
  <2> QED
    BY <2>2 DEF ToSet
<1> DEFINE x == Head(t)
           r == Tail(t)
           a == Append(c, x)
<1>6. /\ a \in Seq(X) /\ r \in Seq(X) /\ Len(a) = Len(c) + 1 /\ Len(r) = Len(t) - 1
      /\ \A i \in 1..Len(c) : a[i] = c[i]
      /\ a[Len(c) + 1] = t[1]
      /\ \A i \in 1..Len(t) - 1 : r[i] = t[i + 1]
  BY <1>1, <1>2, <1>3, <1>4
<1> HIDE DEF x, r, a
<1>7. a \o r = c \o t
  <2>1. a \o r \in Seq(X) /\ c \o t \in Seq(X)
    BY <1>6
  <2>2. Len(a \o r) = Len(c \o t)
    <3>1. Len(a \o r) = Len(a) + Len(r) /\ Len(c \o t) = Len(c) + Len(t)
      BY <1>6, ConcatProperties
    <3> QED
      BY <1>1, <1>6, <3>1
  <2>3. ASSUME NEW i \in 1..Len(c \o t) PROVE (a \o r)[i] = (c \o t)[i]
    <3>1. i \in Nat /\ i >= 1 /\ i <= Len(c) + Len(t)
      BY <1>1, <2>3
    <3>2. CASE i <= Len(c)
      BY <1>1, <1>6, <3>1, <3>2
    <3>3. CASE i = Len(c) + 1
      BY <1>1, <1>6, <3>1, <3>3
    <3>4. CASE i > Len(c) + 1
      <4> DEFINE j == i - Len(a)
      <4>1. j \in 1..Len(t) - 1 /\ (a \o r)[i] = r[j]
        BY <1>1, <1>6, <3>1, <3>4
      <4>2. (c \o t)[i] = t[j + 1]
        BY <1>1, <1>6, <3>1, <3>4
      <4> QED
        BY <1>6, <4>1, <4>2
    <3>5. i <= Len(c) \/ i = Len(c) + 1 \/ i > Len(c) + 1
      BY <1>1, <3>1
    <3> QED
      BY <3>2, <3>3, <3>4, <3>5
  <2> QED
    BY <2>1, <2>2, <2>3, SeqEqual
<1>8. Append(c, Head(t)) \o Tail(t) = c \o t
  BY <1>7 DEF a, r, x
<1>9. Head(t) \in ToSet(t)
  BY <1>2 DEF ToSet
<1> QED
  BY <1>2, <1>3, <1>4, <1>5, <1>8, <1>9

LEMMA InvokeKeeps ==
  ASSUME SigInv, NEW p \in Threads, InvokeSnapshot(p) PROVE SigInv'
<1> DEFINE o == emit[p]
           e == [o EXCEPT !.run = Head(o.todo), !.called = Append(@, Head(o.todo)), !.todo = Tail(@)]
<1>1. o \in Emissions /\ Faithful(o)
  BY DEF SigInv, SigTyped, EmissionsFaithful
<1>2. o.on /\ o.todo # <<>> /\ UNCHANGED <<up, block, alive, delegates, conn, temp, old, copies, gone>>
  BY DEF InvokeSnapshot
<1>3. emit' = [emit EXCEPT ![p] = e]
  <2>1. emit' = [emit EXCEPT ![p].run = Head(emit[p].todo), ![p].called = Append(@, Head(emit[p].todo)),
                             ![p].todo = Tail(@)]
    BY DEF InvokeSnapshot, NextSubscriber
  <2> QED
    BY <2>1 DEF SigInv, SigTyped
<1> HIDE DEF o
<1>4. /\ o.todo \in Seq(Copies) /\ o.called \in Seq(Copies) /\ o.had \in Seq(Copies)
      /\ o.before \subseteq Copies /\ o.on \in BOOLEAN
  BY <1>1 DEF Emissions
<1>5. /\ Head(o.todo) \in Copies /\ Tail(o.todo) \in Seq(Copies) /\ Append(o.called, Head(o.todo)) \in Seq(Copies)
      /\ Append(o.called, Head(o.todo)) \o Tail(o.todo) = o.called \o o.todo
      /\ Head(o.todo) \in ToSet(o.todo) /\ ToSet(Tail(o.todo)) \subseteq ToSet(o.todo)
  BY <1>2, <1>4, HeadTail
<1>6. /\ e.todo = Tail(o.todo) /\ e.run = Head(o.todo) /\ e.had = o.had /\ e.before = o.before
      /\ e.called = Append(o.called, Head(o.todo)) /\ e.on = o.on
  BY <1>1 DEF Emissions
<1>8. e \in Emissions
  <2>1. \A r \in Copies, c, s \in Seq(Copies) :
          [o EXCEPT !.run = r, !.called = c, !.todo = s] \in Emissions
    BY <1>1 DEF Emissions
  <2>2. e = [o EXCEPT !.run = Head(o.todo), !.called = Append(o.called, Head(o.todo)), !.todo = Tail(o.todo)]
    BY <1>1 DEF Emissions
  <2> HIDE DEF e
  <2> QED
    BY <1>5, <2>1, <2>2
<1> HIDE DEF e
<1>9. Faithful(e)
  <2>1. e.called \o e.todo = e.had
    BY <1>1, <1>5, <1>6 DEF Faithful
  <2>2. ToSet(e.todo) \cap e.before = {} /\ e.run \notin e.before
    BY <1>1, <1>5, <1>6 DEF Faithful
  <2> QED
    BY <1>2, <1>6, <2>1, <2>2 DEF Faithful
<1> QED
  BY <1>2, <1>3, <1>8, <1>9, EmitOne

LEMMA EmittingKeeps ==
  ASSUME SigInv, NEW p \in Threads, SigEmitting(p) PROVE SigInv'
<1>1. CASE SubscriberReturns(p)
  <2> DEFINE o == emit[p]
             e == [o EXCEPT !.run = Nil]
  <2>1. o \in Emissions /\ Faithful(o)
    BY DEF SigInv, SigTyped, EmissionsFaithful
  <2>2. UNCHANGED <<up, block, alive, delegates, conn, temp, old, copies, gone>>
    BY <1>1 DEF SubscriberReturns
  <2>3. emit' = [emit EXCEPT ![p] = e]
    BY <1>1 DEF SubscriberReturns, SigInv, SigTyped, Emissions
  <2> HIDE DEF o
  <2>4. /\ e.todo = o.todo /\ e.run = Nil /\ e.had = o.had /\ e.before = o.before
        /\ e.called = o.called /\ e.on = o.on
    BY <2>1 DEF Emissions
  <2>5. e \in Emissions
    BY <2>1 DEF Emissions
  <2> HIDE DEF e
  <2>6. Nil \notin o.before
    BY <2>1, Consts DEF Emissions
  <2>7. Faithful(e)
    BY <2>1, <2>4, <2>6 DEF Faithful
  <2> QED
    BY <2>2, <2>3, <2>5, <2>7, EmitOne
<1>2. CASE EmitReturns(p)
  BY <1>2, QuietIsFaithful, EmitOne DEF EmitReturns
<1> QED
  BY <1>1, <1>2 DEF SigEmitting

LEMMA EmitKeeps ==
  ASSUME SigInv, NEW p \in Threads, NEW g \in Sigs, Emit(p, g) PROVE SigInv'
<1>1. block[g] \in Blocks
  BY DEF SigInv, SigTyped
<1>2. Now(g) \in Seq(Copies) /\ ToSet(Now(g)) \cap gone = {}
  BY <1>1 DEF SigInv, SigTyped, CopiesPlaced, Listed, Now
<1> QED
  BY <1>2, BeginKeeps DEF Emit, GetSnapshot

LEMMA UseKeeps ==
  ASSUME SigInv, NEW p \in Threads, SigUse(p) PROVE SigInv'
  BY ConnectKeeps, ClearSwapKeeps, MoveAssignKeeps, DisconnectKeeps, ClearOldKeeps DEF SigUse

(* What the runs check of the signals.                                     *)
LEMMA SigHolds == SigInv => SigTypeOK /\ ListedIffConnected /\ EmissionsExact
<1> SUFFICES ASSUME SigInv PROVE SigTypeOK /\ ListedIffConnected /\ EmissionsExact
  OBVIOUS
<1>1. SigTypeOK
  <2>1. up \subseteq Sigs /\ copies \in 0..MaxCopies /\ gone \subseteq Copies
    BY Consts DEF SigInv, SigTyped
  <2>2. \A g \in Sigs : block[g] \in Blocks /\ \A b \in Blocks : alive[g][b] \in BOOLEAN
    BY DEF SigInv, SigTyped
  <2>3. \A g \in Sigs, b \in Blocks : IsInjective(delegates[g][b])
    BY DEF SigInv, CopiesPlaced
  <2>4. ASSUME NEW p \in Threads PROVE emit[p].run \in Copies \cup {Nil} /\ (emit[p].run # Nil => emit[p].on)
    BY DEF SigInv, SigTyped, Emissions, EmissionsFaithful, Faithful
  <2> QED
    BY <2>1, <2>2, <2>3, <2>4 DEF SigTypeOK
<1>2. ListedIffConnected
  BY DEF SigInv, CopiesPlaced, Listed, ListedIffConnected
<1>3. DisconnectIsFinal
  BY DEF SigInv, EmissionsFaithful, Faithful, DisconnectIsFinal
<1>4. \A p \in Threads : emit[p].on /\ emit[p].todo = <<>> /\ emit[p].run = Nil => emit[p].called = emit[p].had
  <2> SUFFICES ASSUME NEW p \in Threads, emit[p].todo = <<>> PROVE emit[p].called = emit[p].had
    OBVIOUS
  <2>1. emit[p].called \in Seq(Copies) /\ emit[p].called \o emit[p].todo = emit[p].had
    BY DEF SigInv, SigTyped, Emissions, EmissionsFaithful, Faithful
  <2> QED
    BY <2>1
<1>5. StayingIsCalledOnce
  BY <1>4 DEF StayingIsCalledOnce
<1> QED
  BY <1>1, <1>2, <1>3, <1>5 DEF EmissionsExact

-----------------------------------------------------------------------------
(* Timers: the inductive invariant.                                        *)

TimersLinked ==
    /\ up \subseteq Sigs /\ timers \in Seq(Sigs) /\ stopped \in BOOLEAN
    /\ enabled \in [Sigs -> BOOLEAN] /\ once \in [Sigs -> BOOLEAN]
    /\ IsInjective(timers) /\ ListedWhileNeeded

(* A timer that expires in due ticks and has fired ago[1] ticks ago, and   *)
(* ago[2] the time before, has kept to its period so far.                  *)
InPace(due, ago, period) ==
    /\ ago[1] >= -due \/ ago[1] >= period
    /\ ago[2] >= period - due \/ ago[2] >= period

Ranged(due, ago, period) == due \in -MaxLag..period /\ ago \in (0..period) \X (0..period)

TimersPaced ==
    /\ left \in [Sigs -> Int] /\ since \in [Sigs -> Nat \X Nat]
    /\ \A t \in Sigs :
         Ranged(left[t], since[t], Timeout[t]) /\ (enabled[t] => InPace(left[t], since[t], Timeout[t]))

MessagesOnce ==
    /\ queue \in Seq(Paced) /\ serving \in Paced \cup {Nil} /\ pending \subseteq Paced
    /\ IsInjective(queue) /\ Len(queue) <= Cap /\ serving \notin ToSet(queue)

TimerInv == SigInv /\ TimersLinked /\ TimersPaced /\ MessagesOnce

-----------------------------------------------------------------------------
LEMMA TimerConsts ==
  /\ Ticker \in Threads /\ Paced \subseteq Copies /\ Nil \notin Paced
  /\ \A t \in Sigs : Timeout[t] \in Nat /\ Timeout[t] > 0
  /\ Cap \in Nat /\ MaxLag \in Nat
<1>1. /\ Ticker \in Threads /\ Paced \subseteq Copies /\ Cap \in Nat /\ MaxLag \in Nat
      /\ Timeout \in [Sigs -> Nat \ {0}]
  BY TimerConstants
<1>2. \A t \in Sigs : Timeout[t] \in Nat /\ Timeout[t] > 0
  BY <1>1
<1> QED
  BY <1>1, <1>2, Consts

LEMMA TimerInitInv == Init => TimerInv
<1> SUFFICES ASSUME Init PROVE TimerInv
  OBVIOUS
<1>1. SigInv
  BY SigInitInv DEF Init
<1>2. <<>> \in Seq(Sigs) /\ <<>> \in Seq(Paced) /\ ToSet(<<>>) = {} /\ IsInjective(<<>>) /\ Len(<<>>) = 0
  BY DEF ToSet, IsInjective
<1>3. TimersLinked
  <2>1. up \subseteq Sigs
    BY DEF Init, SigInit
  <2>2. ListedWhileNeeded
    BY <1>2 DEF Init, ListedWhileNeeded
  <2> QED
    BY <1>2, <2>1, <2>2 DEF Init, TimersLinked
<1>4. TimersPaced
  <2>1. left \in [Sigs -> Int] /\ since \in [Sigs -> Nat \X Nat]
    BY DEF Init
  <2>2. ASSUME NEW t \in Sigs PROVE Ranged(left[t], since[t], Timeout[t]) /\ ~enabled[t]
    <3>1. left[t] = 0 /\ since[t] = <<0, 0>> /\ enabled[t] = FALSE
      BY DEF Init
    <3> QED
      BY <3>1, TimerConsts DEF Ranged
  <2> QED
    BY <2>1, <2>2 DEF TimersPaced
<1>5. MessagesOnce
  BY <1>2, TimerConsts DEF Init, MessagesOnce
<1> QED
  BY <1>1, <1>3, <1>4, <1>5 DEF TimerInv

(* What the timers are left alone by.                                      *)
LEMMA TimerFrame ==
  ASSUME TimerInv, SigInv', UNCHANGED <<up, timerVars, pacedVars>> PROVE TimerInv'
<1>1. /\ up' = up /\ timers' = timers /\ enabled' = enabled /\ once' = once /\ left' = left
      /\ stopped' = stopped /\ since' = since
      /\ queue' = queue /\ serving' = serving /\ pending' = pending
  BY DEF timerVars, pacedVars
<1>2. TimersLinked'
  BY <1>1 DEF TimerInv, TimersLinked, ListedWhileNeeded
<1>3. TimersPaced'
  BY <1>1 DEF TimerInv, TimersPaced, Ranged, InPace
<1>4. MessagesOnce'
  BY <1>1 DEF TimerInv, MessagesOnce
<1> QED
  BY <1>2, <1>3, <1>4 DEF TimerInv

LEMMA MessagesFrame == ASSUME MessagesOnce, UNCHANGED pacedVars PROVE MessagesOnce'
<1>1. queue' = queue /\ serving' = serving /\ pending' = pending
  BY DEF pacedVars
<1> QED
  BY <1>1 DEF MessagesOnce

LEMMA SigFrame == ASSUME SigInv, UNCHANGED subscribers PROVE SigInv'
<1>1. /\ UNCHANGED <<up, block, alive, delegates, conn, temp, old, copies, gone>>
      /\ emit' = emit
  BY DEF subscribers
<1>2. emit' \in [Threads -> Emissions]
  BY <1>1 DEF SigInv, SigTyped
<1> QED
  BY <1>1, <1>2, EmitFrame, StillFaithful

LEMMA StartKeeps ==
  ASSUME TimerInv, NEW p \in Threads, NEW t \in Sigs, NEW single \in BOOLEAN, Start(p, t, single)
  PROVE  TimerInv'
<1>1. /\ t \in up
      /\ once' = [once EXCEPT ![t] = single]
      /\ left' = [left EXCEPT ![t] = Timeout[t]]
      /\ enabled' = [enabled EXCEPT ![t] = TRUE]
      /\ Link(t)
      /\ since' = [since EXCEPT ![t] = <<Timeout[t], 0>>]
      /\ UNCHANGED subscribers /\ stopped' = stopped /\ UNCHANGED pacedVars
  BY DEF Start
<1>2. up' = up
  BY <1>1 DEF subscribers
<1>3. timers' \in Seq(Sigs) /\ IsInjective(timers') /\ ToSet(timers') = ToSet(timers) \cup {t}
  <2>1. CASE t \in ToSet(timers)
    BY <1>1, <2>1 DEF Link, TimerInv, TimersLinked
  <2>2. CASE t \notin ToSet(timers)
    <3>1. timers' = <<t>> \o timers
      BY <1>1, <2>2 DEF Link
    <3>2. timers \in Seq(Sigs) /\ IsInjective(timers)
      BY DEF TimerInv, TimersLinked
    <3> QED
      BY <2>2, <3>1, <3>2, ConsFacts
  <2> QED
    BY <2>1, <2>2
<1>4. \A u \in Sigs : u # t => enabled'[u] = enabled[u] /\ left'[u] = left[u] /\ since'[u] = since[u]
  BY <1>1 DEF TimerInv, TimersLinked, TimersPaced
<1>5. enabled'[t] = TRUE /\ left'[t] = Timeout[t] /\ since'[t] = <<Timeout[t], 0>>
  BY <1>1 DEF TimerInv, TimersLinked, TimersPaced
<1>6. TimersLinked'
  <2>1. enabled' \in [Sigs -> BOOLEAN] /\ once' \in [Sigs -> BOOLEAN]
    BY <1>1 DEF TimerInv, TimersLinked
  <2>2. ASSUME NEW u \in Sigs
        PROVE  /\ enabled'[u] => u \in ToSet(timers')
               /\ u \in ToSet(timers') => u \in up' /\ (enabled'[u] \/ stopped')
    <3>1. CASE u = t
      BY <1>1, <1>2, <1>3, <1>5, <3>1
    <3>2. CASE u # t
      BY <1>1, <1>2, <1>3, <1>4, <3>2 DEF TimerInv, TimersLinked, ListedWhileNeeded
    <3> QED
      BY <3>1, <3>2
  <2>3. ListedWhileNeeded'
    BY <2>2 DEF ListedWhileNeeded
  <2> QED
    BY <1>1, <1>2, <1>3, <2>1, <2>3 DEF TimerInv, TimersLinked
<1>7. TimersPaced'
  <2>1. Timeout[t] \in Nat /\ Timeout[t] > 0 /\ MaxLag \in Nat
    BY TimerConsts
  <2>2. left' \in [Sigs -> Int] /\ since' \in [Sigs -> Nat \X Nat]
    <3>1. left \in [Sigs -> Int] /\ since \in [Sigs -> Nat \X Nat] /\ <<Timeout[t], 0>> \in Nat \X Nat
      BY <2>1 DEF TimerInv, TimersPaced
    <3> QED
      BY <1>1, <2>1, <3>1
  <2>3. ASSUME NEW u \in Sigs
        PROVE  Ranged(left'[u], since'[u], Timeout[u]) /\ (enabled'[u] => InPace(left'[u], since'[u], Timeout[u]))
    <3>1. CASE u = t
      <4>1. Ranged(Timeout[t], <<Timeout[t], 0>>, Timeout[t])
        BY <2>1 DEF Ranged
      <4>2. InPace(Timeout[t], <<Timeout[t], 0>>, Timeout[t])
        BY <2>1 DEF InPace
      <4> QED
        BY <1>5, <3>1, <4>1, <4>2
    <3>2. CASE u # t
      BY <1>4, <3>2 DEF TimerInv, TimersPaced
    <3> QED
      BY <3>1, <3>2
  <2> QED
    BY <2>2, <2>3 DEF TimersPaced, Ranged, InPace
<1>8. SigInv' /\ MessagesOnce'
  BY <1>1, SigFrame, MessagesFrame DEF TimerInv
<1> QED
  BY <1>6, <1>7, <1>8 DEF TimerInv

LEMMA StopKeeps ==
  ASSUME TimerInv, NEW p \in Threads, NEW t \in Sigs, Stop(p, t) PROVE TimerInv'
<1>1. /\ enabled' = [enabled EXCEPT ![t] = FALSE] /\ stopped' = TRUE
      /\ UNCHANGED subscribers /\ UNCHANGED <<timers, once, left, since>> /\ UNCHANGED pacedVars
  BY DEF Stop
<1>2. up' = up /\ timers' = timers /\ once' = once /\ left' = left /\ since' = since
  BY <1>1 DEF subscribers
<1>3. \A u \in Sigs : enabled'[u] => enabled[u]
  BY <1>1 DEF TimerInv, TimersLinked
<1>4. TimersLinked'
  <2>1. enabled' \in [Sigs -> BOOLEAN]
    BY <1>1 DEF TimerInv, TimersLinked
  <2>2. ListedWhileNeeded'
    BY <1>1, <1>2, <1>3 DEF TimerInv, TimersLinked, ListedWhileNeeded
  <2> QED
    BY <1>1, <1>2, <2>1, <2>2 DEF TimerInv, TimersLinked
<1>5. TimersPaced'
  BY <1>2, <1>3 DEF TimerInv, TimersPaced, Ranged, InPace
<1>6. SigInv' /\ MessagesOnce'
  BY <1>1, SigFrame, MessagesFrame DEF TimerInv
<1> QED
  BY <1>4, <1>5, <1>6 DEF TimerInv

LEMMA DestroyTimerKeeps ==
  ASSUME TimerInv, NEW p \in Threads, NEW t \in Sigs, DestroyTimer(p, t) PROVE TimerInv'
<1>1. /\ Destroy(p, t) /\ timers' = Select(timers, Sigs \ {t}) /\ stopped' = stopped
      /\ enabled' = [enabled EXCEPT ![t] = FALSE]
      /\ left' = [left EXCEPT ![t] = 0] /\ since' = [since EXCEPT ![t] = <<0, 0>>]
      /\ once' = once /\ UNCHANGED pacedVars
  BY DEF DestroyTimer, Unlink
<1>2. up' = up \ {t}
  BY <1>1 DEF Destroy
<1>3. timers' \in Seq(Sigs) /\ IsInjective(timers') /\ ToSet(timers') = ToSet(timers) \ {t}
  <2>1. timers \in Seq(Sigs) /\ IsInjective(timers) /\ ToSet(timers) \subseteq Sigs
    BY DEF TimerInv, TimersLinked, ToSet
  <2>2. /\ Select(timers, Sigs \ {t}) \in Seq(Sigs)
        /\ ToSet(Select(timers, Sigs \ {t})) = ToSet(timers) \cap (Sigs \ {t})
        /\ IsInjective(Select(timers, Sigs \ {t}))
    BY <2>1, SelectFacts
  <2> QED
    BY <1>1, <2>1, <2>2
<1>4. \A u \in Sigs : u # t => enabled'[u] = enabled[u] /\ left'[u] = left[u] /\ since'[u] = since[u]
  BY <1>1 DEF TimerInv, TimersLinked, TimersPaced
<1>5. enabled'[t] = FALSE /\ left'[t] = 0 /\ since'[t] = <<0, 0>>
  BY <1>1 DEF TimerInv, TimersLinked, TimersPaced
<1>6. TimersLinked'
  <2>1. enabled' \in [Sigs -> BOOLEAN] /\ up' \subseteq Sigs
    BY <1>1, <1>2 DEF TimerInv, TimersLinked
  <2>2. ASSUME NEW u \in Sigs
        PROVE  /\ enabled'[u] => u \in ToSet(timers')
               /\ u \in ToSet(timers') => u \in up' /\ (enabled'[u] \/ stopped')
    <3>1. CASE u = t
      BY <1>3, <1>5, <3>1
    <3>2. CASE u # t
      BY <1>1, <1>2, <1>3, <1>4, <3>2 DEF TimerInv, TimersLinked, ListedWhileNeeded
    <3> QED
      BY <3>1, <3>2
  <2>3. ListedWhileNeeded'
    BY <2>2 DEF ListedWhileNeeded
  <2> QED
    BY <1>1, <1>3, <2>1, <2>3 DEF TimerInv, TimersLinked
<1>7. TimersPaced'
  <2>1. left' \in [Sigs -> Int] /\ since' \in [Sigs -> Nat \X Nat]
    BY <1>1 DEF TimerInv, TimersPaced
  <2>2. ASSUME NEW u \in Sigs
        PROVE  Ranged(left'[u], since'[u], Timeout[u]) /\ (enabled'[u] => InPace(left'[u], since'[u], Timeout[u]))
    <3>1. CASE u = t
      <4>1. Ranged(0, <<0, 0>>, Timeout[t])
        BY TimerConsts DEF Ranged
      <4> QED
        BY <1>5, <3>1, <4>1
    <3>2. CASE u # t
      BY <1>4, <3>2 DEF TimerInv, TimersPaced
    <3> QED
      BY <3>1, <3>2
  <2> QED
    BY <2>1, <2>2 DEF TimersPaced, Ranged, InPace
<1>8. SigInv' /\ MessagesOnce'
  BY <1>1, DestroyKeeps, MessagesFrame DEF TimerInv
<1> QED
  BY <1>6, <1>7, <1>8 DEF TimerInv

-----------------------------------------------------------------------------
(* Time passes.                                                            *)
LEMMA TickKeepsTimers == ASSUME TimerInv, Tick PROVE TimerInv'
<1>1. /\ \A t \in Sigs : enabled[t] => left[t] > -MaxLag
      /\ left' = [t \in Sigs |-> IF enabled[t] THEN left[t] - 1 ELSE left[t]]
      /\ since' = [t \in Sigs |-> IF enabled[t] THEN <<Older(since[t][1], t), Older(since[t][2], t)>> ELSE since[t]]
      /\ UNCHANGED sigVars /\ UNCHANGED <<timers, enabled, once, stopped>> /\ UNCHANGED pacedVars
  BY DEF Tick
<1>2. /\ timers' = timers /\ enabled' = enabled /\ once' = once /\ stopped' = stopped
      /\ UNCHANGED subscribers /\ up' = up
  BY <1>1 DEF sigVars, subscribers
<1>3. TimersLinked'
  BY <1>2 DEF TimerInv, TimersLinked, ListedWhileNeeded
<1>4. ASSUME NEW t \in Sigs
      PROVE  /\ left'[t] \in Int /\ since'[t] \in Nat \X Nat
             /\ Ranged(left'[t], since'[t], Timeout[t]) /\ (enabled'[t] => InPace(left'[t], since'[t], Timeout[t]))
  <2> DEFINE T == Timeout[t]
  <2>1. T \in Nat /\ MaxLag \in Nat
    BY TimerConsts
  <2>2. left[t] \in Int /\ since[t] \in Nat \X Nat /\ Ranged(left[t], since[t], T)
    BY DEF TimerInv, TimersPaced
  <2>3. enabled[t] => InPace(left[t], since[t], T)
    BY DEF TimerInv, TimersPaced
  <2>4. PICK a \in Nat, b \in Nat : since[t] = <<a, b>>
    BY <2>2
  <2>5. PICK d \in Int : left[t] = d
    BY <2>2
  <2>6. -MaxLag <= d /\ d <= T /\ a <= T /\ b <= T
    BY <2>1, <2>2, <2>4, <2>5 DEF Ranged
  <2>7. CASE enabled[t]
    <3>1. d > -MaxLag /\ (a >= -d \/ a >= T) /\ (b >= T - d \/ b >= T)
      BY <1>1, <2>3, <2>4, <2>5, <2>7 DEF InPace
    <3>2. left'[t] = d - 1 /\ since'[t] = <<Older(a, t), Older(b, t)>>
      BY <1>1, <2>4, <2>5, <2>7
    <3>3. PICK m, n : m = Older(a, t) /\ n = Older(b, t)
      OBVIOUS
    <3>4. /\ m \in Nat /\ n \in Nat /\ m <= T /\ n <= T
          /\ m = a + 1 \/ (m = a /\ a >= T)
          /\ n = b + 1 \/ (n = b /\ b >= T)
      BY <2>1, <2>6, <3>3 DEF Older
    <3> HIDE DEF T
    <3>5. Ranged(d - 1, <<m, n>>, T)
      <4>1. d - 1 \in -MaxLag..T
        BY <2>1, <2>6, <3>1
      <4>2. m \in 0..T /\ n \in 0..T
        BY <2>1, <3>4
      <4> QED
        BY <4>1, <4>2 DEF Ranged
    <3>6. InPace(d - 1, <<m, n>>, T)
      <4>1. m >= -(d - 1) \/ m >= T
        BY <2>1, <3>1, <3>4
      <4>2. n >= T - (d - 1) \/ n >= T
        BY <2>1, <3>1, <3>4
      <4> QED
        BY <4>1, <4>2 DEF InPace
    <3>7. d - 1 \in Int /\ <<m, n>> \in Nat \X Nat
      BY <3>4
    <3> QED
      BY <3>2, <3>3, <3>5, <3>6, <3>7 DEF T
  <2>8. CASE ~enabled[t]
    <3>1. left'[t] = left[t] /\ since'[t] = since[t] /\ ~enabled'[t]
      BY <1>1, <1>2, <2>8
    <3> QED
      BY <2>2, <3>1
  <2> QED
    BY <2>7, <2>8
<1>5. TimersPaced'
  <2>1. left' = [t \in Sigs |-> left'[t]] /\ since' = [t \in Sigs |-> since'[t]]
    BY <1>1
  <2>2. left' \in [Sigs -> Int] /\ since' \in [Sigs -> Nat \X Nat]
    BY <1>4, <2>1
  <2> QED
    BY <1>4, <2>2 DEF TimersPaced, Ranged, InPace
<1>6. SigInv' /\ MessagesOnce'
  BY <1>1, <1>2, SigFrame, MessagesFrame DEF TimerInv
<1> QED
  BY <1>3, <1>5, <1>6 DEF TimerInv

(* What is left of the list when stopped timers have been swept out of it. *)
LEMMA SweepFacts ==
  ASSUME TimersLinked
  PROVE  /\ Sweep \in Seq(Sigs) /\ IsInjective(Sweep) /\ ToSet(Sweep) \subseteq ToSet(timers)
         /\ \A t \in Sigs : t \in ToSet(Sweep) <=> enabled[t]
<1>1. timers \in Seq(Sigs) /\ IsInjective(timers)
  BY DEF TimersLinked
<1>2. \A t \in Sigs : /\ enabled[t] => t \in ToSet(timers)
                      /\ t \in ToSet(timers) => enabled[t] \/ stopped
  BY DEF TimersLinked, ListedWhileNeeded
<1>3. CASE stopped
  <2> DEFINE E == {t \in Sigs : enabled[t]}
  <2>1. Sweep = Select(timers, E)
    BY <1>3 DEF Sweep
  <2> HIDE DEF E
  <2>2. /\ Select(timers, E) \in Seq(Sigs) /\ IsInjective(Select(timers, E))
        /\ ToSet(Select(timers, E)) = ToSet(timers) \cap E
    BY <1>1, SelectFacts
  <2>3. \A t \in Sigs : t \in E <=> enabled[t]
    BY DEF E
  <2> QED
    BY <1>2, <2>1, <2>2, <2>3
<1>4. CASE ~stopped
  <2>1. Sweep = timers
    BY <1>4 DEF Sweep
  <2> QED
    BY <1>1, <1>2, <1>4, <2>1
<1> QED
  BY <1>3, <1>4

(* Whether it was late or not: a timer that fires is in pace again.        *)
LEMMA RearmInPace ==
  ASSUME NEW period \in Nat, period > 0, MaxLag \in Nat, NEW d \in Int, d <= 0, d >= -MaxLag,
         NEW a \in Nat, a <= period, a >= -d \/ a >= period,
         NEW n, n = IF d + period < 0 THEN 0 ELSE d + period
  PROVE  n \in Int /\ Ranged(n, <<0, a>>, period) /\ InPace(n, <<0, a>>, period)
<1>1. n \in Int /\ n \in -MaxLag..period /\ n >= 0
  OBVIOUS
<1>2. a \in 0..period /\ 0 \in 0..period
  OBVIOUS
<1>3. 0 >= -n
  BY <1>1
<1>4. a >= period - n \/ a >= period
  BY <1>1
<1> QED
  BY <1>1, <1>2, <1>3, <1>4 DEF Ranged, InPace

(* Swept, fired, armed again, and their subscribers collected.             *)
LEMMA ProcessKeeps == ASSUME TimerInv, ProcessTimers PROVE TimerInv'
<1> DEFINE listed == Sweep
           E == {t \in Sigs : Expired(t)}
           due == Select(listed, E)
           snapshot == FlattenSeq([i \in DOMAIN due |-> GetSnapshot(due[i])])
<1>1. /\ timers' = listed /\ CheckExpired(ToSet(due))
      /\ since' = [t \in Sigs |-> IF t \in ToSet(due) THEN <<0, since[t][1]>> ELSE since[t]]
      /\ Begin(Ticker, snapshot)
      /\ UNCHANGED <<up, block, alive, delegates, conn, temp, old, copies, gone, ops, once, pacedVars>>
  BY DEF ProcessTimers
<1>2. /\ listed \in Seq(Sigs) /\ IsInjective(listed) /\ ToSet(listed) \subseteq ToSet(timers)
      /\ \A t \in Sigs : t \in ToSet(listed) <=> enabled[t]
  BY SweepFacts DEF TimerInv
<1>3. due \in Seq(Sigs) /\ ToSet(due) = ToSet(listed) \cap E
  <2> HIDE DEF listed, E
  <2> QED
    BY <1>2, SelectFacts
<1>4. \A t \in Sigs : t \in ToSet(due) <=> enabled[t] /\ left[t] <= 0
  <2> HIDE DEF listed, due
  <2> QED
    BY <1>2, <1>3 DEF E, Expired
<1>5. SigInv'
  <2> DEFINE parts == [i \in DOMAIN due |-> GetSnapshot(due[i])]
  <2> HIDE DEF due
  <2>1. ASSUME NEW i \in DOMAIN due
        PROVE  GetSnapshot(due[i]) \in Seq(Copies) /\ ToSet(GetSnapshot(due[i])) \cap gone = {}
    <3>1. due[i] \in Sigs
      BY <1>3, <2>1
    <3>2. PICK g \in Sigs : g = due[i]
      BY <3>1
    <3>3. block[g] \in Blocks
      BY DEF TimerInv, SigInv, SigTyped
    <3>4. delegates[g][block[g]] \in Seq(Copies) /\ ToSet(delegates[g][block[g]]) \cap gone = {}
      BY <3>3 DEF TimerInv, SigInv, SigTyped, CopiesPlaced, Listed
    <3> QED
      BY <3>2, <3>4 DEF GetSnapshot, Now
  <2>2. DOMAIN due = 1..Len(due) /\ Len(due) \in Nat
    BY <1>3
  <2>3. parts \in Seq(Seq(Copies)) /\ DOMAIN parts = DOMAIN due /\ \A i \in DOMAIN due : parts[i] = GetSnapshot(due[i])
    BY <2>1, <2>2
  <2>4. snapshot = FlattenSeq(parts)
    OBVIOUS
  <2> HIDE DEF parts, snapshot
  <2>5. /\ snapshot \in Seq(Copies)
        /\ \A x \in ToSet(snapshot) : \E i \in DOMAIN parts : x \in ToSet(parts[i])
    BY <2>3, <2>4, FlattenFacts
  <2>6. ToSet(snapshot) \cap gone = {}
    BY <2>1, <2>3, <2>5
  <2>7. SigInv /\ Ticker \in Threads
    BY TimerConsts DEF TimerInv
  <2> QED
    BY <1>1, <2>5, <2>6, <2>7, BeginKeeps
<1> DEFINE S == ToSet(due)
<1>6. /\ enabled' = [t \in Sigs |-> enabled[t] /\ ~(t \in S /\ once[t])]
      /\ stopped' = (\E t \in S : once[t])
      /\ left' = [t \in Sigs |-> IF t \in S /\ ~once[t] THEN Rearm(t) ELSE left[t]]
      /\ since' = [t \in Sigs |-> IF t \in S THEN <<0, since[t][1]>> ELSE since[t]]
  BY <1>1 DEF CheckExpired
<1>7. S \subseteq Sigs /\ \A t \in Sigs : t \in S <=> enabled[t] /\ left[t] <= 0
  <2> HIDE DEF due
  <2>1. ToSet(due) \subseteq Sigs
    BY <1>3 DEF ToSet
  <2> QED
    BY <1>4, <2>1
<1> HIDE DEF S, due, snapshot
<1>8. \A t \in Sigs : enabled'[t] <=> enabled[t] /\ ~(t \in S /\ once[t])
  BY <1>6
<1>9. TimersLinked'
  <2>1. timers' \in Seq(Sigs) /\ IsInjective(timers') /\ up' = up /\ once' = once
    BY <1>1, <1>2
  <2>2. enabled' \in [Sigs -> BOOLEAN] /\ stopped' \in BOOLEAN
    BY <1>6
  <2>3. ASSUME NEW t \in Sigs PROVE /\ enabled'[t] => t \in ToSet(timers')
                                    /\ t \in ToSet(timers') => t \in up' /\ (enabled'[t] \/ stopped')
    <3>1. t \in ToSet(timers') <=> enabled[t]
      BY <1>1, <1>2
    <3>2. t \in ToSet(timers') => t \in up
      BY <1>1, <1>2 DEF TimerInv, TimersLinked, ListedWhileNeeded
    <3>3. enabled[t] => enabled'[t] \/ stopped'
      <4>1. CASE t \in S /\ once[t]
        BY <1>6, <4>1
      <4>2. CASE ~(t \in S /\ once[t])
        BY <1>8, <4>2
      <4> QED
        BY <4>1, <4>2
    <3> QED
      BY <1>8, <2>1, <3>1, <3>2, <3>3
  <2>4. ListedWhileNeeded'
    BY <2>3 DEF ListedWhileNeeded
  <2>5. up \subseteq Sigs /\ once \in [Sigs -> BOOLEAN]
    BY DEF TimerInv, TimersLinked
  <2> QED
    BY <2>1, <2>2, <2>4, <2>5 DEF TimersLinked
<1>10. ASSUME NEW t \in Sigs
       PROVE  /\ left'[t] \in Int /\ since'[t] \in Nat \X Nat
              /\ Ranged(left'[t], since'[t], Timeout[t]) /\ (enabled'[t] => InPace(left'[t], since'[t], Timeout[t]))
  <2> DEFINE T == Timeout[t]
  <2>1. T \in Nat /\ T > 0 /\ MaxLag \in Nat
    BY TimerConsts
  <2>2. left[t] \in Int /\ since[t] \in Nat \X Nat /\ Ranged(left[t], since[t], T)
    BY DEF TimerInv, TimersPaced
  <2>3. enabled[t] => InPace(left[t], since[t], T)
    BY DEF TimerInv, TimersPaced
  <2>4. PICK a \in Nat, b \in Nat : since[t] = <<a, b>>
    BY <2>2
  <2>5. PICK d \in Int : left[t] = d
    BY <2>2
  <2>6. -MaxLag <= d /\ d <= T /\ a <= T /\ b <= T
    BY <2>1, <2>2, <2>4, <2>5 DEF Ranged
  <2>7. CASE t \notin S
    <3>1. left'[t] = left[t] /\ since'[t] = since[t]
      BY <1>6, <2>7
    <3>2. enabled'[t] => enabled[t]
      BY <1>8
    <3> QED
      BY <2>2, <2>3, <3>1, <3>2
  <2>8. CASE t \in S
    <3>1. enabled[t] /\ d <= 0
      BY <1>7, <2>5, <2>8
    <3>2. since'[t] = <<0, a>>
      BY <1>6, <2>4, <2>8
    <3>3. a >= -d \/ a >= T
      BY <2>3, <2>4, <2>5, <3>1 DEF InPace
    <3>4. CASE once[t]
      <4>1. left'[t] = d /\ ~enabled'[t]
        BY <1>6, <1>8, <2>5, <2>8, <3>4
      <4>2. Ranged(d, <<0, a>>, T) /\ d \in Int /\ <<0, a>> \in Nat \X Nat
        BY <2>1, <2>6 DEF Ranged
      <4> QED
        BY <3>2, <4>1, <4>2
    <3>5. CASE ~once[t]
      <4>1. left'[t] = IF d + T < 0 THEN 0 ELSE d + T
        BY <1>6, <2>5, <2>8, <3>5 DEF Rearm
      <4> HIDE DEF T
      <4>2. PICK n : n = IF d + T < 0 THEN 0 ELSE d + T
        OBVIOUS
      <4>3. n \in Int /\ Ranged(n, <<0, a>>, T) /\ InPace(n, <<0, a>>, T)
        BY <2>1, <2>6, <3>1, <3>3, <4>2, RearmInPace
      <4>4. <<0, a>> \in Nat \X Nat
        OBVIOUS
      <4> QED
        BY <3>2, <4>1, <4>2, <4>3, <4>4 DEF T
    <3> QED
      BY <3>4, <3>5
  <2> QED
    BY <2>7, <2>8
<1>11. TimersPaced'
  <2>1. left' = [t \in Sigs |-> left'[t]] /\ since' = [t \in Sigs |-> since'[t]]
    BY <1>6
  <2>2. left' \in [Sigs -> Int] /\ since' \in [Sigs -> Nat \X Nat]
    BY <1>10, <2>1
  <2> QED
    BY <1>10, <2>2 DEF TimersPaced, Ranged, InPace
<1>12. MessagesOnce'
  BY <1>1, MessagesFrame DEF TimerInv
<1> QED
  BY <1>5, <1>9, <1>11, <1>12 DEF TimerInv

-----------------------------------------------------------------------------
(* Messages to the worker.                                                 *)

(* A message is sent only when there is none.                              *)
LEMMA CallKeeps == ASSUME TimerInv, NEW p \in Threads, CallSubscriber(p) PROVE TimerInv'
<1> DEFINE x == Head(emit[p].todo)
<1>1. InvokeSnapshot(p) /\ UNCHANGED timerVars /\ serving' = serving
  BY DEF CallSubscriber
<1>2. SigInv'
  BY <1>1, InvokeKeeps DEF TimerInv
<1>3. /\ up' = up /\ timers' = timers /\ enabled' = enabled /\ once' = once /\ left' = left
      /\ stopped' = stopped /\ since' = since
  BY <1>1 DEF timerVars, InvokeSnapshot
<1>4. TimersLinked'
  BY <1>3 DEF TimerInv, TimersLinked, ListedWhileNeeded
<1>5. TimersPaced'
  BY <1>3 DEF TimerInv, TimersPaced, Ranged, InPace
<1>6. /\ queue \in Seq(Paced) /\ serving \in Paced \cup {Nil} /\ pending \subseteq Paced
      /\ IsInjective(queue) /\ Len(queue) <= Cap /\ serving \notin ToSet(queue)
  BY DEF TimerInv, MessagesOnce
<1>7. ASSUME queue' = queue, pending' \subseteq Paced PROVE MessagesOnce'
  BY <1>1, <1>6, <1>7 DEF MessagesOnce
<1>8. ASSUME x \in Paced, ~InFlight(x), Len(queue) < Cap, queue' = Append(queue, x), pending' = pending \ {x}
      PROVE  MessagesOnce'
  <2> HIDE DEF x
  <2>1. x \notin ToSet(queue) /\ serving # x
    BY <1>8 DEF InFlight
  <2>2. /\ queue' \in Seq(Paced) /\ ToSet(queue') = ToSet(queue) \cup {x} /\ IsInjective(queue')
    BY <1>6, <1>8, <2>1, AppendFacts
  <2>3. Len(queue') <= Cap
    <3>1. Len(queue') = Len(queue) + 1 /\ Len(queue) \in Nat
      BY <1>6, <1>8
    <3> QED
      BY <1>8, <3>1, TimerConsts
  <2> QED
    BY <1>1, <1>6, <1>8, <2>1, <2>2, <2>3 DEF MessagesOnce
<1>9. MessagesOnce'
  <2>1. CASE x \in Paced /\ TryFire(x)
    <3>1. CASE InFlight(x)
      BY <1>6, <1>7, <2>1, <3>1 DEF TryFire
    <3>2. CASE ~InFlight(x)
      <4>1. pending' = pending \ {x} /\ queue' = IF Len(queue) < Cap THEN Append(queue, x) ELSE queue
        BY <2>1, <3>2 DEF TryFire
      <4> QED
        BY <1>6, <1>7, <1>8, <2>1, <3>2, <4>1
    <3> QED
      BY <3>1, <3>2
  <2>2. CASE UNCHANGED <<queue, pending>>
    BY <1>6, <1>7, <2>2
  <2> QED
    BY <2>1, <2>2 DEF CallSubscriber
<1> QED
  BY <1>2, <1>4, <1>5, <1>9 DEF TimerInv

LEMMA WorkerKeeps == ASSUME TimerInv, Worker PROVE TimerInv'
<1>0. /\ queue \in Seq(Paced) /\ serving \in Paced \cup {Nil} /\ pending \subseteq Paced
      /\ IsInjective(queue) /\ Len(queue) <= Cap /\ serving \notin ToSet(queue)
  BY DEF TimerInv, MessagesOnce
<1>1. UNCHANGED sigVars /\ UNCHANGED timerVars /\ pending' = pending
  BY DEF Worker, InvokeTarget, TargetReturns
<1>2. /\ up' = up /\ timers' = timers /\ enabled' = enabled /\ once' = once /\ left' = left
      /\ stopped' = stopped /\ since' = since /\ UNCHANGED subscribers
  BY <1>1 DEF timerVars, sigVars, subscribers
<1>3. SigInv' /\ TimersLinked' /\ TimersPaced'
  <2>1. TimersLinked'
    BY <1>2 DEF TimerInv, TimersLinked, ListedWhileNeeded
  <2>2. TimersPaced'
    BY <1>2 DEF TimerInv, TimersPaced, Ranged, InPace
  <2> QED
    BY <1>2, <2>1, <2>2, SigFrame DEF TimerInv
<1>4. CASE InvokeTarget
  <2>1. queue # <<>> /\ serving' = Head(queue) /\ queue' = Tail(queue)
    BY <1>4 DEF InvokeTarget
  <2>2. Len(queue) \in Nat /\ Len(queue) > 0 /\ DOMAIN queue = 1..Len(queue)
    BY <1>0, <2>1
  <2>3. PICK q : q = Tail(queue)
    OBVIOUS
  <2>4. q \in Seq(Paced) /\ Len(q) = Len(queue) - 1 /\ DOMAIN q = 1..Len(queue) - 1
    BY <1>0, <2>2, <2>3
  <2>5. ASSUME NEW i \in DOMAIN q PROVE i + 1 \in DOMAIN queue /\ q[i] = queue[i + 1] /\ i + 1 # 1
    BY <1>0, <2>2, <2>3, <2>4
  <2>6. Head(queue) = queue[1] /\ 1 \in DOMAIN queue /\ Head(queue) \in Paced
    BY <1>0, <2>1, <2>2
  <2>7. IsInjective(q)
    <3> SUFFICES ASSUME NEW i \in DOMAIN q, NEW j \in DOMAIN q, q[i] = q[j] PROVE i = j
      BY DEF IsInjective
    <3>1. i + 1 = j + 1
      BY <1>0, <2>5 DEF IsInjective
    <3> QED
      BY <2>4, <3>1
  <2>8. Head(queue) \notin ToSet(q)
    BY <1>0, <2>5, <2>6 DEF IsInjective, ToSet
  <2>9. Len(q) <= Cap
    BY <1>0, <2>2, <2>4, TimerConsts
  <2> QED
    BY <1>0, <1>1, <1>3, <2>1, <2>3, <2>4, <2>6, <2>7, <2>8, <2>9 DEF TimerInv, MessagesOnce
<1>5. CASE TargetReturns
  <2>1. serving' = Nil /\ queue' = queue
    BY <1>5 DEF TargetReturns
  <2>2. Nil \notin ToSet(queue)
    BY <1>0, TimerConsts DEF ToSet
  <2> QED
    BY <1>0, <1>1, <1>3, <2>1, <2>2 DEF TimerInv, MessagesOnce
<1> QED
  BY <1>4, <1>5 DEF Worker

-----------------------------------------------------------------------------
(* Every step keeps the invariant.                                         *)
LEMMA TimerInvKept ==
  ASSUME TimerInv, [ClockNext]_allVars PROVE TimerInv'
<1>1. CASE UNCHANGED <<subscribers, timerVars, pacedVars>>
  <2>1. up' = up /\ UNCHANGED <<timerVars, pacedVars>>
    BY <1>1 DEF subscribers
  <2> QED
    BY <1>1, <2>1, SigFrame, TimerFrame DEF TimerInv
<1>2. CASE Next
  <2>1. ASSUME NEW p \in Threads, SigUse(p), UNCHANGED <<timerVars, pacedVars>> PROVE TimerInv'
    <3>1. up' = up
      BY <2>1 DEF SigUse, Connect, ClearSwap, MoveAssign, Disconnect, ClearOld
    <3> QED
      BY <2>1, <3>1, UseKeeps, TimerFrame DEF TimerInv
  <2>2. ASSUME NEW p \in Threads, NEW g \in Sigs, Emit(p, g), UNCHANGED <<timerVars, pacedVars>> PROVE TimerInv'
    <3>1. up' = up
      BY <2>2 DEF Emit
    <3> QED
      BY <2>2, <3>1, EmitKeeps, TimerFrame DEF TimerInv
  <2>3. ASSUME NEW p \in Threads, Emission(p) PROVE TimerInv'
    <3>1. CASE SigEmitting(p) /\ UNCHANGED <<timerVars, pacedVars>>
      <4>1. up' = up
        BY <3>1 DEF SigEmitting, SubscriberReturns, EmitReturns
      <4> QED
        BY <3>1, <4>1, EmittingKeeps, TimerFrame DEF TimerInv
    <3> QED
      BY <2>3, <3>1, CallKeeps DEF Emission
  <2>4. ASSUME NEW p \in Threads, NEW t \in Sigs,
               Stop(p, t) \/ DestroyTimer(p, t) \/ \E single \in BOOLEAN : Start(p, t, single)
        PROVE  TimerInv'
    BY <2>4, StopKeeps, DestroyTimerKeeps, StartKeeps
  <2> QED
    BY <1>2, <2>1, <2>2, <2>3, <2>4, TickKeepsTimers, ProcessKeeps, WorkerKeeps DEF Next
<1> QED
  BY <1>1, <1>2 DEF ClockNext, allVars, vars, sigVars

LEMMA ListsHold == TimerInv => ListsKept
<1> SUFFICES ASSUME TimerInv PROVE ListsKept
  OBVIOUS
<1>1. SigTypeOK /\ ListedIffConnected
  BY SigHolds DEF TimerInv
<1>2. ListedWhileNeeded /\ IsInjective(timers) /\ ToSet(timers) \subseteq Sigs
  BY DEF TimerInv, TimersLinked, ToSet
<1>3. \A t \in Sigs : left[t] \in -MaxLag..Timeout[t] /\ since[t] \in (0..Timeout[t]) \X (0..Timeout[t])
  BY DEF TimerInv, TimersPaced, Ranged
<1>4. Len(queue) <= Cap /\ serving \in Paced \cup {Nil} /\ pending \subseteq Paced
  BY DEF TimerInv, MessagesOnce
<1> QED
  BY <1>1, <1>2, <1>3, <1>4 DEF ListsKept, TypeOK

(* A timer that is due has had its period twice over, or was started.      *)
LEMMA DueInPace ==
  ASSUME TimerInv, NEW t \in ToSet(Sweep), Expired(t) PROVE since[t][2] >= Timeout[t]
<1>1. t \in Sigs
  BY SweepFacts DEF TimerInv, ToSet
<1>2. enabled[t] /\ left[t] <= 0 /\ left[t] \in Int /\ since[t] \in Nat \X Nat
  BY <1>1 DEF Expired, TimerInv, TimersPaced
<1>3. InPace(left[t], since[t], Timeout[t])
  BY <1>1, <1>2 DEF TimerInv, TimersPaced
<1>4. Timeout[t] \in Nat /\ since[t][2] \in Nat
  BY <1>1, <1>2, TimerConsts
<1> QED
  BY <1>2, <1>3, <1>4 DEF InPace

LEMMA OneHolds == TimerInv => OneInFlight
<1> SUFFICES ASSUME TimerInv, NEW x \in Paced
             PROVE  Cardinality({i \in DOMAIN queue : queue[i] = x}) + (IF serving = x THEN 1 ELSE 0) <= 1
  BY DEF OneInFlight
<1> DEFINE places == {i \in DOMAIN queue : queue[i] = x}
<1>1. CASE x \in ToSet(queue)
  <2>1. PICK i \in DOMAIN queue : queue[i] = x
    BY <1>1 DEF ToSet
  <2>2. places = {i}
    BY <2>1 DEF TimerInv, MessagesOnce, IsInjective
  <2>3. Cardinality(places) = 1
    BY <2>2, FS_Singleton
  <2>4. serving # x
    BY <1>1 DEF TimerInv, MessagesOnce
  <2> QED
    BY <2>3, <2>4
<1>2. CASE x \notin ToSet(queue)
  <2>1. places = {}
    BY <1>2 DEF ToSet
  <2>2. Cardinality(places) = 0
    BY <2>1, FS_EmptySet
  <2> QED
    BY <2>2
<1> QED
  BY <1>1, <1>2

-----------------------------------------------------------------------------
(* Any number of threads, signals, connections and timers: a subscriber is *)
(* in the list of its signal, in one place, from Connect() until it is     *)
(* disconnected, cleared or destroyed, by whichever thread and through     *)
(* whichever block; and the timers' linked list holds every enabled timer  *)
(* once and no destroyed one.                                              *)
THEOREM ListsAlwaysKept == ClockSpec => []ListsKept
<1>1. WatchInit => TimerInv
  BY TimerInitInv DEF WatchInit
<1>2. TimerInv /\ [ClockNext]_allVars => TimerInv'
  BY TimerInvKept
<1> QED
  BY <1>1, <1>2, ListsHold, PTL DEF ClockSpec

(* However many threads connect, disconnect, clear and emit at once, and   *)
(* ProcessTimers() among them: no emission calls a subscriber that was     *)
(* gone when it began, and each calls those that stay once, in the order   *)
(* of their connection.                                                    *)
THEOREM EmissionsAlwaysExact == ClockSpec => []EmissionsExact
<1>1. WatchInit => TimerInv
  BY TimerInitInv DEF WatchInit
<1>2. TimerInv /\ [ClockNext]_allVars => TimerInv'
  BY TimerInvKept
<1>3. TimerInv => EmissionsExact
  BY SigHolds DEF TimerInv
<1> QED
  BY <1>1, <1>2, <1>3, PTL DEF ClockSpec

(* For every period, every lag and every length of the worker's queue: a   *)
(* timer never fires before its first period is over nor three times       *)
(* within one period, and a TimerDelegate never has two messages with the  *)
(* worker.                                                                 *)
THEOREM PacingAlwaysHolds == ClockSpec => PacingHolds
<1>1. WatchInit => TimerInv
  BY TimerInitInv DEF WatchInit
<1>2. TimerInv /\ [ClockNext]_allVars => TimerInv'
  BY TimerInvKept
<1>3. TimerInv => (ProcessTimers => \A t \in ToSet(Sweep) : Expired(t) => since[t][2] >= Timeout[t])
  BY DueInPace
<1>4. ClockSpec => []OneInFlight
  BY <1>1, <1>2, OneHolds, PTL DEF ClockSpec
<1>5. ClockSpec => NoBurst
  BY <1>1, <1>2, <1>3, PTL DEF ClockSpec, NoBurst
<1> QED
  BY <1>4, <1>5 DEF PacingHolds

-----------------------------------------------------------------------------
(* The watchdog.                                                           *)

(* A loop that can go on is not kept waiting until the rest of the timeout *)
(* is over: the margin that the fraction of the timeout leaves (a fourth,  *)
(* on the standard library a tenth).                                       *)
Punctual ==
    \A part \in {WatchTimeout \div 4, WatchTimeout \div 10} :
        Late + (IF part = 0 THEN 1 ELSE part) <= WatchTimeout

-----------------------------------------------------------------------------
(* The inductive invariant.                                                *)

Typed ==
    /\ m_watchdogTimeout \in [Workers -> {"none", "set", "raw"}]
    /\ registry \in Seq(Workers)
    /\ check \in [todo : Seq(Workers), behind : Nat \cup {Nil}]
    /\ check.behind # Nil => check.todo # <<>>

(* Until CreateThread() has stored the timeout nobody destroys the object, *)
(* and the loop has looked in vain.                                        *)
Started == starting # Nil => starting.thread \in exists \cap unset

(* How long a loop that knows its timeout has given no sign of life: while *)
(* it waits, no longer than it waits; in a handler, as long as that has    *)
(* been running, and on most ports the wait before it.                     *)
Slack == IF wport = "stdlib" THEN 0 ELSE WaitTicks + Late

Informed(w) == m_watchdogTimeout[w] = "set" /\ w \notin unset /\ wport # "qt"

Signs(place, idle, quiet) ==
    /\ place # "forever"
    /\ place = "timed" => idle <= quiet /\ quiet <= WaitTicks + Late
    /\ place = "top" => idle <= WaitTicks + Late
    /\ place \in {"busy", "done"} => idle <= quiet + Slack \/ quiet > WatchTimeout

SignsOfLife == \A w \in Workers : Informed(w) => Signs(task[w], age[w], spent[w])

WInv == WatchTypeOK /\ RegistryKept /\ Typed /\ Started /\ SignsOfLife /\ AlarmsJustified

-----------------------------------------------------------------------------
(* How long a loop waits, by its port.                                     *)

LEMMA WaitFacts == WaitTicks \in Nat
BY WatchConstants DEF WaitTicks

LEMMA WaitsInTime ==
  ASSUME Punctual PROVE WaitTicks + Late <= WatchTimeout
BY WatchConstants DEF Punctual, WaitTicks

LEMMA CapFacts ==
  /\ AgeCap \in Nat /\ WatchTimeout + 1 <= AgeCap /\ WatchTimeout \in Nat /\ Late \in Nat
  /\ \A n, cap \in Nat : n <= cap => /\ OneMore(n, cap) \in 0..cap /\ n <= OneMore(n, cap)
                                     /\ OneMore(n, cap) <= n + 1
                                     /\ n < cap => OneMore(n, cap) = n + 1
BY WatchConstants DEF AgeCap, OneMore

LEMMA CapNumbers == AgeCap \in Nat /\ WatchTimeout \in Nat /\ Late \in Nat
BY CapFacts

LEMMA WithinCap == 0 \in 0..AgeCap
BY CapFacts

(* A step that moves one thread says nothing of the others.                *)
LEMMA OthersGiveSigns ==
  ASSUME SignsOfLife, wport' = wport, NEW w \in Workers,
         \A v \in Workers \ {w} :
           /\ task'[v] = task[v] /\ age'[v] = age[v] /\ spent'[v] = spent[v]
           /\ m_watchdogTimeout'[v] = m_watchdogTimeout[v]
           /\ v \in unset' <=> v \in unset,
         Informed(w)' => Signs(task[w], age[w], spent[w])'
  PROVE  SignsOfLife'
<1>1. WaitTicks' = WaitTicks /\ Slack' = Slack
  BY DEF WaitTicks, Slack
<1>2. ASSUME NEW v \in Workers, v # w, Informed(v)' PROVE Signs(task[v], age[v], spent[v])'
  <2>1. Informed(v)
    BY <1>2 DEF Informed
  <2>2. Signs(task[v], age[v], spent[v])
    BY <2>1 DEF SignsOfLife
  <2> QED
    BY <1>1, <1>2, <2>2 DEF Signs
<1> QED
  BY <1>2 DEF SignsOfLife

-----------------------------------------------------------------------------
LEMMA InitWInv == WatchInit => WInv
<1> SUFFICES ASSUME WatchInit PROVE WInv
  OBVIOUS
<1>1. registry = <<>> /\ check.todo = <<>> /\ check.behind = Nil /\ check = [todo |-> <<>>, behind |-> Nil]
  BY DEF WatchInit, NoCheck
<1>2. ToSet(registry) = {} /\ ToSet(check.todo) = {} /\ IsInjective(registry)
  BY <1>1 DEF ToSet, IsInjective
<1>3. WatchTypeOK
  BY <1>2, CapFacts DEF WatchInit, WatchTypeOK
<1>4. RegistryKept /\ Started /\ AlarmsJustified
  BY <1>2 DEF WatchInit, RegistryKept, Started, AlarmsJustified
<1>5. Typed
  BY <1>1 DEF WatchInit, Typed
<1>6. SignsOfLife
  BY DEF WatchInit, SignsOfLife, Informed, Signs
<1> QED
  BY <1>3, <1>4, <1>5, <1>6 DEF WInv

(* While no alarm has been raised, none is false.                          *)
LEMMA NoAlarm == alarm' = Nil => AlarmsJustified'
BY DEF AlarmsJustified

-----------------------------------------------------------------------------
(* The loop of a thread touches neither the list nor the timeouts.         *)
LEMMA LoopTypes ==
  ASSUME WInv, NEW w \in Workers, Loop(w) \/ Handles(w), UNCHANGED <<check, alarm>>
  PROVE  WatchTypeOK' /\ RegistryKept' /\ Typed' /\ Started'
<1>1. UNCHANGED <<exists, m_watchdogTimeout, m_exit, registry, starting, check>>
  BY DEF Loop, Handles, LoopTop, WaitEnds, Receive, HandlerReturns, ThreadCheck
<1>2. /\ task' \in [Workers -> {"none", "top", "timed", "forever", "busy", "done", "ended"}]
      /\ spent' \in [Workers -> 0..AgeCap]
  BY CapFacts DEF WInv, WatchTypeOK, Loop, Handles, LoopTop, WaitEnds, Receive, HandlerReturns,
     ThreadCheck, Goto, Waits
<1>3. age' \in [Workers -> 0..AgeCap] /\ unset' \subseteq Workers
  <2>1. age' = age \/ age' = [age EXCEPT ![w] = 0]
    BY DEF Loop, Handles, LoopTop, WaitEnds, Receive, HandlerReturns, ThreadCheck, AliveNow
  <2>2. unset' \subseteq unset \cup {w}
    BY DEF Loop, Handles, LoopTop, WaitEnds, Receive, HandlerReturns, ThreadCheck
  <2>3. age \in [Workers -> 0..AgeCap] /\ unset \subseteq Workers /\ 0 \in 0..AgeCap
    BY WithinCap DEF WInv, WatchTypeOK
  <2>4. age' \in [Workers -> 0..AgeCap]
    BY <2>1, <2>3
  <2> QED
    BY <2>2, <2>3, <2>4
<1>4. Started'
  BY <1>1 DEF WInv, Started, Loop, Handles, LoopTop, WaitEnds, Receive, HandlerReturns, ThreadCheck
<1>5. WatchTypeOK' /\ RegistryKept' /\ Typed'
  BY <1>1, <1>2, <1>3 DEF WInv, WatchTypeOK, RegistryKept, Typed
<1> QED
  BY <1>4, <1>5

LEMMA LoopSigns ==
  ASSUME WInv, Punctual, NEW w \in Workers, Loop(w) \/ Handles(w), UNCHANGED wport
  PROVE  SignsOfLife'
<1>1. /\ task \in [Workers -> {"none", "top", "timed", "forever", "busy", "done", "ended"}]
      /\ spent \in [Workers -> 0..AgeCap] /\ age \in [Workers -> 0..AgeCap]
      /\ m_watchdogTimeout' = m_watchdogTimeout
      /\ SignsOfLife
  BY DEF WInv, WatchTypeOK, Loop, Handles, LoopTop, WaitEnds, Receive, HandlerReturns, ThreadCheck
<1>2. /\ WaitTicks \in Nat /\ Late \in Nat /\ Slack \in Nat
      /\ WaitTicks' = WaitTicks /\ Slack' = Slack /\ age[w] \in Nat /\ spent[w] \in Nat
  BY <1>1, WaitFacts, CapFacts DEF Slack, WaitTicks
<1>3. Informed(w) => Signs(task[w], age[w], spent[w])
  BY <1>1 DEF SignsOfLife
<1>4. \A v \in Workers \ {w} :
        /\ task'[v] = task[v] /\ age'[v] = age[v] /\ spent'[v] = spent[v]
        /\ v \in unset' <=> v \in unset
  BY <1>1 DEF Loop, Handles, LoopTop, WaitEnds, Receive, HandlerReturns, ThreadCheck, Goto, AliveNow
<1>5. Informed(w)' => Signs(task[w], age[w], spent[w])'
  <2>1. CASE LoopTop(w)
    <3>1. CASE wport \in Rtos /\ w \in m_exit
      <4>1. task'[w] = "ended"
        BY <1>1, <2>1, <3>1 DEF LoopTop, Goto
      <4> QED
        BY <4>1 DEF Signs
    <3>2. CASE ~(wport \in Rtos /\ w \in m_exit)
      <4>1. task'[w] \in Waits(w) /\ spent'[w] = 0 /\ age'[w] = 0
        BY <1>1, <2>1, <3>2 DEF LoopTop, Goto, AliveNow
      <4>2. Informed(w)' => task'[w] = "timed"
        BY <1>1, <4>1 DEF Informed, Waits
      <4> QED
        BY <1>2, <4>1, <4>2 DEF Signs
    <3> QED
      BY <3>1, <3>2
  <2>2. CASE WaitEnds(w)
    <3>1. task[w] = "timed" /\ task'[w] = "top" /\ age'[w] = age[w] /\ unset' = unset
      BY <1>1, <2>2 DEF WaitEnds, Goto
    <3> QED
      BY <1>1, <1>2, <1>3, <3>1 DEF Signs, Informed
  <2>3. CASE Receive(w)
    <3>1. task[w] \in {"timed", "forever"} /\ task'[w] = "busy" /\ spent'[w] = 0 /\ unset' = unset
      BY <1>1, <2>3 DEF Receive, Goto
    <3>2. age'[w] = IF wport = "stdlib" THEN 0 ELSE age[w]
      BY <1>1, <2>3 DEF Receive, AliveNow
    <3> QED
      BY <1>1, <1>2, <1>3, <3>1, <3>2 DEF Signs, Informed, Slack
  <2>4. CASE HandlerReturns(w)
    <3>1. task[w] = "busy" /\ age' = age /\ unset' = unset
      BY <2>4 DEF HandlerReturns
    <3>2. wport # "qt" => task'[w] = "done" /\ spent' = spent
      BY <1>1, <2>4 DEF HandlerReturns
    <3> QED
      BY <1>1, <1>2, <1>3, <3>1, <3>2 DEF Signs, Informed
  <2>5. CASE ThreadCheck(w)
    <3>1. task'[w] = "busy" /\ age'[w] = 0 /\ spent'[w] = 0
      BY <1>1, <2>5 DEF ThreadCheck, AliveNow, Goto
    <3> QED
      BY <1>2, <3>1 DEF Signs
  <2> QED
    BY <2>1, <2>2, <2>3, <2>4, <2>5 DEF Loop, Handles
<1> QED
  BY <1>1, <1>4, <1>5, OthersGiveSigns

-----------------------------------------------------------------------------
(* The list.                                                               *)

(* Who is put at the head was not in the list.                             *)
LEMMA RegisterFacts ==
  ASSUME RegistryKept, registry \in Seq(Workers), NEW w \in Workers, Register(w)
  PROVE  /\ registry' \in Seq(Workers) /\ IsInjective(registry')
         /\ ToSet(registry') = ToSet(registry) \cup {w}
<1>1. CASE w \in ToSet(registry)
  BY <1>1 DEF Register, RegistryKept
<1>2. CASE w \notin ToSet(registry)
  <2>1. registry' = <<w>> \o registry
    BY <1>2 DEF Register
  <2>2. IsInjective(registry)
    BY DEF RegistryKept
  <2> QED
    BY <1>2, <2>1, <2>2, ConsFacts
<1> QED
  BY <1>1, <1>2

(* Who leaves the list is not in it any more, and nobody else leaves it.   *)
LEMMA UnregisterFacts ==
  ASSUME RegistryKept, registry \in Seq(Workers), NEW w \in Workers, Unregister(w)
  PROVE  /\ registry' \in Seq(Workers) /\ IsInjective(registry')
         /\ ToSet(registry') = ToSet(registry) \ {w}
<1>1. CASE w \notin ToSet(registry) /\ UNCHANGED registry
  BY <1>1 DEF RegistryKept
<1>2. ASSUME NEW i \in DOMAIN registry, registry[i] = w, registry' = RemoveAt(registry, i)
      PROVE  /\ registry' \in Seq(Workers) /\ IsInjective(registry')
             /\ ToSet(registry') = ToSet(registry) \ {w}
  <2>1. PICK r : r = SubSeq(registry, 1, i - 1) \o SubSeq(registry, i + 1, Len(registry))
    OBVIOUS
  <2>2. registry' = r
    BY <1>2, <2>1 DEF RemoveAt
  <2>3. i \in Nat /\ 1 <= i /\ i <= Len(registry) /\ Len(registry) \in Nat
    BY <1>2
  <2>4. PICK a : a = SubSeq(registry, 1, i - 1)
    OBVIOUS
  <2>5. PICK b : b = SubSeq(registry, i + 1, Len(registry))
    OBVIOUS
  <2>6. a \in Seq(Workers) /\ Len(a) = i - 1 /\ \A k \in 1..i - 1 : a[k] = registry[k]
    BY <2>3, <2>4
  <2>7. b \in Seq(Workers) /\ Len(b) = Len(registry) - i
        /\ \A k \in 1..Len(registry) - i : b[k] = registry[i + k]
    BY <2>3, <2>5
  <2>8. r = a \o b
    BY <2>1, <2>4, <2>5
  <2>9. r \in Seq(Workers) /\ Len(r) = Len(registry) - 1
    BY <2>3, <2>6, <2>7, <2>8
  <2>10. \A k \in 1..Len(registry) - 1 : r[k] = IF k < i THEN registry[k] ELSE registry[k + 1]
    <3> SUFFICES ASSUME NEW k \in 1..Len(registry) - 1
                 PROVE  r[k] = IF k < i THEN registry[k] ELSE registry[k + 1]
      OBVIOUS
    <3>1. CASE k < i
      <4>1. k \in 1..Len(a)
        BY <2>3, <2>6, <3>1
      <4>2. r[k] = a[k]
        BY <2>6, <2>7, <2>8, <4>1
      <4> QED
        BY <2>6, <3>1, <4>1, <4>2
    <3>2. CASE ~(k < i)
      <4>0. /\ i \in Nat /\ k \in Nat /\ Len(registry) \in Nat /\ ~(k < i) /\ k <= Len(registry) - 1
            /\ Len(a) = i - 1 /\ Len(b) = Len(registry) - i
        BY <2>3, <2>6, <2>7, <3>2
      <4>1. k - Len(a) \in 1..Len(b) /\ k - Len(a) = k - (i - 1) /\ i + (k - (i - 1)) = k + 1
        BY <4>0
      <4>2. r[k] = b[k - Len(a)]
        <5>1. /\ Len(a) \in Nat /\ Len(b) \in Nat /\ ~(k <= Len(a))
              /\ k \in 1..Len(a) + Len(b)
          BY <2>3, <2>6, <2>7, <3>2
        <5>2. \A n \in 1..Len(a) + Len(b) :
                (a \o b)[n] = IF n <= Len(a) THEN a[n] ELSE b[n - Len(a)]
          BY <2>6, <2>7, ConcatProperties, Zenon
        <5> QED
          BY <2>8, <5>1, <5>2
      <4>3. k - (i - 1) \in 1..Len(registry) - i
        BY <2>7, <4>1
      <4> QED
        BY <2>7, <3>2, <4>1, <4>2, <4>3
    <3> QED
      BY <3>1, <3>2
  <2>11. \A k \in 1..Len(registry) - 1 :
           LET n == IF k < i THEN k ELSE k + 1
           IN  n \in DOMAIN registry /\ n # i /\ r[k] = registry[n]
    BY <2>3, <2>10
  <2>12. DOMAIN r = 1..Len(registry) - 1 /\ DOMAIN registry = 1..Len(registry)
    BY <2>9
  <2>13. IsInjective(r)
    <3> SUFFICES ASSUME NEW j \in 1..Len(registry) - 1, NEW k \in 1..Len(registry) - 1, r[j] = r[k]
                 PROVE  j = k
      BY <2>12 DEF IsInjective
    <3>1. PICK m \in DOMAIN registry : m = (IF j < i THEN j ELSE j + 1) /\ r[j] = registry[m]
      BY <2>11
    <3>2. PICK n \in DOMAIN registry : n = (IF k < i THEN k ELSE k + 1) /\ r[k] = registry[n]
      BY <2>11
    <3>3. m = n
      BY <3>1, <3>2 DEF RegistryKept, IsInjective
    <3> QED
      BY <2>3, <3>1, <3>2, <3>3
  <2>14. ToSet(r) = ToSet(registry) \ {w}
    <3>1. ASSUME NEW k \in DOMAIN r PROVE r[k] \in ToSet(registry) /\ r[k] # w
      <4>1. PICK n \in DOMAIN registry : n # i /\ r[k] = registry[n]
        BY <2>11, <2>12
      <4> QED
        BY <1>2, <4>1 DEF ToSet, RegistryKept, IsInjective
    <3>2. ASSUME NEW n \in DOMAIN registry, registry[n] # w PROVE registry[n] \in ToSet(r)
      <4>1. n \in 1..Len(registry) /\ n # i
        BY <1>2, <2>12, <3>2
      <4>2. CASE n < i
        <5>1. n \in 1..Len(registry) - 1 /\ r[n] = registry[n]
          BY <2>3, <2>10, <4>1, <4>2
        <5> QED
          BY <2>12, <5>1 DEF ToSet
      <4>3. CASE n > i
        <5>1. n - 1 \in 1..Len(registry) - 1 /\ ~(n - 1 < i) /\ (n - 1) + 1 = n
          BY <2>3, <4>1, <4>3
        <5>2. r[n - 1] = registry[n]
          BY <2>10, <5>1
        <5> QED
          BY <2>12, <5>1, <5>2 DEF ToSet
      <4> QED
        BY <2>3, <4>1, <4>2, <4>3
    <3>3. \A x : x \in ToSet(r) <=> x \in ToSet(registry) \ {w}
      BY <3>1, <3>2 DEF ToSet
    <3> QED
      BY <3>3
  <2> QED
    BY <2>2, <2>9, <2>13, <2>14
<1> QED
  BY <1>1, <1>2 DEF Unregister

-----------------------------------------------------------------------------
(* The calls of the application.                                           *)

LEMMA CreateKeeps ==
  ASSUME WInv, NEW p \in Threads, NEW w \in Workers, NEW dog \in BOOLEAN, CreateThread(p, w, dog),
         UNCHANGED <<check, alarm, wport>>
  PROVE  WatchTypeOK' /\ RegistryKept' /\ Typed' /\ Started' /\ SignsOfLife'
<1>1. /\ task \in [Workers -> {"none", "top", "timed", "forever", "busy", "done", "ended"}]
      /\ spent \in [Workers -> 0..AgeCap] /\ age \in [Workers -> 0..AgeCap]
      /\ m_watchdogTimeout \in [Workers -> {"none", "set", "raw"}]
      /\ exists \subseteq Workers /\ m_exit \subseteq Workers /\ unset \subseteq Workers
      /\ RegistryKept /\ registry \in Seq(Workers) /\ SignsOfLife /\ 0 \in 0..AgeCap
  BY WithinCap DEF WInv, WatchTypeOK, Typed
<1>2. w \in exists /\ exists' = exists /\ m_exit' \subseteq Workers /\ starting = Nil
  BY <1>1 DEF CreateThread, Operation
<1>3. /\ task' = [task EXCEPT ![w] = task'[w]] /\ task'[w] \in {"top", "forever"}
      /\ spent' = [spent EXCEPT ![w] = 0]
      /\ task'[w] = "forever" => wport = "qt"
  BY <1>1 DEF CreateThread, FreeRTOSCreateThread, StartThread, Goto
<1>4. /\ task' \in [Workers -> {"none", "top", "timed", "forever", "busy", "done", "ended"}]
      /\ spent' \in [Workers -> 0..AgeCap]
  BY <1>1, <1>3
<1>5. WaitTicks' \in Nat /\ Late \in Nat
  BY WaitFacts, CapFacts DEF WaitTicks
<1>6. CASE wport = "freertos"
  <2>1. /\ age' = [age EXCEPT ![w] = 0] /\ Watch(w, dog) /\ task'[w] = "top"
        /\ starting' = starting /\ unset' = unset
    BY <1>1, <1>6 DEF CreateThread, FreeRTOSCreateThread, AliveNow, Goto
  <2>2. age' \in [Workers -> 0..AgeCap]
    BY <1>1, <2>1
  <2>3. /\ registry' \in Seq(Workers) /\ IsInjective(registry')
        /\ ToSet(registry') \subseteq ToSet(registry) \cup {w}
        /\ m_watchdogTimeout' \in [Workers -> {"none", "set", "raw"}]
        /\ \A v \in Workers : v # w => m_watchdogTimeout'[v] = m_watchdogTimeout[v]
        /\ m_watchdogTimeout[w] = "set" => m_watchdogTimeout'[w] = "set"
        /\ w \in ToSet(registry') => m_watchdogTimeout'[w] = "set"
    <3>1. CASE dog
      <4>1. Register(w) /\ m_watchdogTimeout' = [m_watchdogTimeout EXCEPT ![w] = "set"]
        BY <2>1, <3>1 DEF Watch
      <4> QED
        BY <1>1, <4>1, RegisterFacts
    <3>2. CASE ~dog
      <4>1. registry' = registry /\ m_watchdogTimeout' = m_watchdogTimeout
        BY <2>1, <3>2 DEF Watch
      <4> QED
        BY <1>1, <4>1 DEF RegistryKept
    <3> QED
      BY <3>1, <3>2
  <2>4. WatchTypeOK'
    BY <1>1, <1>2, <1>4, <2>1, <2>2 DEF WInv, WatchTypeOK
  <2>5. RegistryKept' /\ Typed' /\ Started'
    <3>1. RegistryKept'
      BY <1>1, <1>2, <2>3 DEF RegistryKept
    <3>2. Typed'
      BY <2>3 DEF WInv, Typed
    <3>3. Started'
      BY <1>2, <2>1 DEF Started
    <3> QED
      BY <3>1, <3>2, <3>3
  <2>6. Signs(task[w], age[w], spent[w])'
    <3>1. task'[w] = "top" /\ age'[w] = 0
      BY <1>1, <2>1
    <3> QED
      BY <1>5, <3>1 DEF Signs
  <2> QED
    BY <1>1, <1>3, <2>1, <2>3, <2>4, <2>5, <2>6, OthersGiveSigns
<1>7. CASE wport # "freertos"
  <2>1. /\ starting' = [thread |-> w, dog |-> dog] /\ unset' = unset \cup {w}
        /\ UNCHANGED <<age, m_watchdogTimeout, registry>>
    BY <1>7 DEF CreateThread, StartThread
  <2>2. WatchTypeOK' /\ RegistryKept' /\ Typed' /\ Started'
    BY <1>1, <1>2, <1>4, <2>1 DEF WInv, WatchTypeOK, RegistryKept, Typed, Started
  <2>3. ~Informed(w)'
    BY <2>1 DEF Informed
  <2> QED
    BY <1>1, <1>3, <2>1, <2>2, <2>3, OthersGiveSigns
<1> QED
  BY <1>6, <1>7

LEMMA ExitKeeps ==
  ASSUME WInv, NEW p \in Threads, NEW w \in Workers, ExitThread(p, w) \/ DestroyThread(p, w),
         UNCHANGED <<check, alarm, wport>>
  PROVE  WatchTypeOK' /\ RegistryKept' /\ Typed' /\ Started' /\ SignsOfLife'
<1>1. /\ task \in [Workers -> {"none", "top", "timed", "forever", "busy", "done", "ended"}]
      /\ spent \in [Workers -> 0..AgeCap]
      /\ RegistryKept /\ registry \in Seq(Workers) /\ SignsOfLife /\ 0 \in 0..AgeCap
  BY WithinCap DEF WInv, WatchTypeOK, Typed
<1>2. /\ task' = [task EXCEPT ![w] = "none"] /\ spent' = [spent EXCEPT ![w] = 0]
      /\ unset' = unset \ {w} /\ starting = Nil /\ UNCHANGED <<age, m_watchdogTimeout, starting>>
      /\ exists' \subseteq exists /\ m_exit' \subseteq m_exit \cup {w}
  BY DEF ExitThread, DestroyThread, Operation, Goto
<1>3. /\ task' \in [Workers -> {"none", "top", "timed", "forever", "busy", "done", "ended"}]
      /\ spent' \in [Workers -> 0..AgeCap]
  BY <1>1, <1>2
<1>4. /\ registry' \in Seq(Workers) /\ IsInjective(registry')
      /\ ToSet(registry') \subseteq ToSet(registry) /\ ToSet(registry') \subseteq exists'
  <2>1. CASE ExitThread(p, w)
    BY <1>1, <2>1 DEF ExitThread, RegistryKept
  <2>2. CASE DestroyThread(p, w)
    <3>1. Unregister(w) /\ exists' = exists \ {w}
      BY <2>2 DEF DestroyThread
    <3> QED
      BY <1>1, <3>1, UnregisterFacts DEF RegistryKept
  <2> QED
    BY <2>1, <2>2
<1>5. WatchTypeOK'
  BY <1>2, <1>3 DEF WInv, WatchTypeOK
<1>6. RegistryKept' /\ Typed' /\ Started'
  BY <1>1, <1>2, <1>4 DEF WInv, RegistryKept, Typed, Started
<1>7. Signs(task[w], age[w], spent[w])'
  BY <1>1, <1>2 DEF Signs
<1> QED
  BY <1>1, <1>2, <1>5, <1>6, <1>7, OthersGiveSigns

LEMMA StoreKeeps ==
  ASSUME WInv, StoreTimeout, UNCHANGED <<check, alarm, wport>>
  PROVE  WatchTypeOK' /\ RegistryKept' /\ Typed' /\ Started' /\ SignsOfLife'
<1>1. PICK w \in Workers : w = starting.thread /\ w \in exists /\ w \in unset
  BY DEF WInv, WatchTypeOK, Started, StoreTimeout
<1>2. /\ age \in [Workers -> 0..AgeCap] /\ m_watchdogTimeout \in [Workers -> {"none", "set", "raw"}]
      /\ RegistryKept /\ registry \in Seq(Workers) /\ SignsOfLife /\ 0 \in 0..AgeCap
  BY WithinCap DEF WInv, WatchTypeOK, Typed
<1>3. /\ starting' = Nil /\ age' = [age EXCEPT ![w] = 0] /\ Watch(w, starting.dog)
      /\ UNCHANGED <<exists, task, spent, m_exit, unset>>
  BY <1>1 DEF StoreTimeout, AliveNow
<1>4. /\ registry' \in Seq(Workers) /\ IsInjective(registry')
      /\ ToSet(registry') \subseteq ToSet(registry) \cup {w}
      /\ m_watchdogTimeout' \in [Workers -> {"none", "set", "raw"}]
      /\ \A v \in Workers : v # w => m_watchdogTimeout'[v] = m_watchdogTimeout[v]
      /\ w \in ToSet(registry') => m_watchdogTimeout'[w] = "set"
  <2>1. CASE starting.dog
    <3>1. Register(w) /\ m_watchdogTimeout' = [m_watchdogTimeout EXCEPT ![w] = "set"]
      BY <1>3, <2>1 DEF Watch
    <3> QED
      BY <1>2, <3>1, RegisterFacts
  <2>2. CASE ~starting.dog
    <3>1. registry' = registry /\ m_watchdogTimeout' = m_watchdogTimeout
      BY <1>3, <2>2 DEF Watch
    <3> QED
      BY <1>2, <3>1 DEF RegistryKept
  <2> QED
    BY <2>1, <2>2
<1>5. age' \in [Workers -> 0..AgeCap]
  BY <1>2, <1>3
<1>6. WatchTypeOK'
  BY <1>3, <1>5 DEF WInv, WatchTypeOK
<1>7. RegistryKept' /\ Typed' /\ Started'
  <2>1. RegistryKept'
    <3>1. \A v \in ToSet(registry') : v = w \/ (v \in ToSet(registry) /\ v \in Workers)
      BY <1>2, <1>4 DEF RegistryKept, WInv, WatchTypeOK
    <3> QED
      BY <1>1, <1>2, <1>3, <1>4, <3>1 DEF RegistryKept
  <2>2. Typed'
    BY <1>4 DEF WInv, Typed
  <2>3. Started'
    BY <1>3 DEF Started
  <2> QED
    BY <2>1, <2>2, <2>3
<1>8. ~Informed(w)'
  BY <1>1, <1>3 DEF Informed
<1>9. \A v \in Workers \ {w} : age'[v] = age[v]
  BY <1>2, <1>3
<1> QED
  BY <1>2, <1>3, <1>4, <1>6, <1>7, <1>8, <1>9, OthersGiveSigns

-----------------------------------------------------------------------------
(* The thread that looks.                                                  *)

LEMMA SnapshotFacts ==
  ASSUME registry \in Seq(Workers) PROVE Snapshot \in Seq(Workers)
<1>1. PICK n : n = IF Len(registry) < MaxWatched THEN Len(registry) ELSE MaxWatched
  OBVIOUS
<1>2. n \in Nat /\ n <= Len(registry)
  BY <1>1, WatchConstants
<1>3. SubSeq(registry, 1, n) \in Seq(Workers)
  BY <1>2
<1> QED
  BY <1>1, <1>3 DEF Snapshot

LEMMA ElementsOf ==
  ASSUME NEW s \in Seq(Workers) PROVE ToSet(s) \subseteq Workers
BY DEF ToSet

(* An alarm is raised for a thread that has given no sign of life for      *)
(* longer than its timeout, and that is long enough to tell.               *)
LEMMA ChecksKeep ==
  ASSUME WInv, Punctual, Checks, UNCHANGED <<loopVars, wport>>
  PROVE  WInv'
<1>1. UNCHANGED <<exists, task, spent, age, m_watchdogTimeout, m_exit, registry, starting, unset, wport>>
  BY DEF loopVars
<1>2. RegistryKept' /\ Started' /\ SignsOfLife'
  <2>1. WaitTicks' = WaitTicks /\ Slack' = Slack
    BY <1>1 DEF WaitTicks, Slack
  <2>2. RegistryKept' /\ Started'
    BY <1>1 DEF WInv, RegistryKept, Started
  <2>3. SignsOfLife'
    BY <1>1, <2>1 DEF WInv, SignsOfLife, Informed, Signs
  <2> QED
    BY <2>2, <2>3
<1>3. /\ check \in [todo : Seq(Workers), behind : Nat \cup {Nil}]
      /\ check.behind # Nil => check.todo # <<>>
      /\ registry \in Seq(Workers)
  BY DEF WInv, Typed
<1>4. /\ check' \in [todo : Seq(Workers), behind : Nat \cup {Nil}]
      /\ check'.behind # Nil => check'.todo # <<>>
  <2>1. CASE WatchdogCheckAll
    <3>1. check' = [check EXCEPT !.todo = Snapshot] /\ check.behind = Nil
      BY <2>1 DEF WatchdogCheckAll, NoCheck
    <3> QED
      BY <1>3, <3>1, SnapshotFacts
  <2>2. CASE ReadNow
    BY <1>3, <2>2 DEF ReadNow
  <2>3. CASE WatchdogCheck
    <3>1. check' = [todo |-> Tail(check.todo), behind |-> Nil] /\ check.behind # Nil
      BY <2>3 DEF WatchdogCheck
    <3>2. Tail(check.todo) \in Seq(Workers)
      BY <1>3, <3>1
    <3> QED
      BY <3>1, <3>2
  <2> QED
    BY <2>1, <2>2, <2>3 DEF Checks
<1>5. WatchTypeOK' /\ Typed'
  <2>1. ToSet(check'.todo) \subseteq Workers
    BY <1>4, ElementsOf
  <2>2. WatchTypeOK'
    BY <1>1, <2>1 DEF WInv, WatchTypeOK
  <2>3. Typed'
    BY <1>1, <1>4 DEF WInv, Typed
  <2> QED
    BY <2>2, <2>3
<1>6. AlarmsJustified'
  <2>1. CASE WatchdogCheckAll \/ ReadNow
    <3>1. alarm' = alarm /\ WaitTicks' = WaitTicks
      BY <1>1, <2>1 DEF WatchdogCheckAll, ReadNow, WaitTicks
    <3> QED
      BY <1>1, <3>1 DEF WInv, AlarmsJustified
  <2>2. CASE WatchdogCheck
    <3>1. PICK w : w = Head(check.todo)
      OBVIOUS
    <3>2. PICK delta : delta = age[w] - check.behind
      OBVIOUS
    <3>3. w \notin exists => alarm' \in {Nil, [thread |-> w, delta |-> 0]}
      BY <2>2, <3>1 DEF WatchdogCheck
    <3>4. w \in exists =>
            alarm' = IF m_watchdogTimeout[w] = "set" /\ TooLong(delta)
                     THEN [thread |-> w, delta |-> delta] ELSE Nil
      BY <2>2, <3>1, <3>2 DEF WatchdogCheck
    <3>5. CASE alarm' = Nil
      BY <3>5, NoAlarm
    <3>6. CASE w \notin exists
      <4>1. alarm' # Nil => alarm'.thread = w
        BY <3>3, <3>6
      <4> QED
        BY <1>1, <3>6, <4>1 DEF AlarmsJustified
    <3>7. CASE alarm' # Nil /\ w \in exists
      <4>1. m_watchdogTimeout[w] = "set" /\ TooLong(delta) /\ alarm' = [thread |-> w, delta |-> delta]
        BY <3>4, <3>7
      <4>2. /\ w \in Workers /\ age[w] \in Nat /\ spent[w] \in Nat
            /\ task[w] \in {"none", "top", "timed", "forever", "busy", "done", "ended"}
            /\ check.behind \in Nat /\ SignsOfLife
        <5>1. check.behind \in Nat
          BY <1>3, <2>2 DEF WatchdogCheck
        <5>2. w \in Workers /\ SignsOfLife
          BY <3>7 DEF WInv, WatchTypeOK
        <5>3. age[w] \in 0..AgeCap /\ spent[w] \in 0..AgeCap
              /\ task[w] \in {"none", "top", "timed", "forever", "busy", "done", "ended"}
          BY <5>2 DEF WInv, WatchTypeOK
        <5> QED
          BY <5>1, <5>2, <5>3, CapNumbers
      <4>3. alarm'.thread = w /\ alarm'.delta = delta
        BY <4>1
      <4>4. CASE wport = "freertos" /\ delta < 0
        BY <1>1, <4>3, <4>4 DEF AlarmsJustified
      <4>5. CASE w \in unset \/ wport = "qt" \/ task[w] \in {"none", "ended"}
        BY <1>1, <4>3, <4>5 DEF AlarmsJustified
      <4>6. CASE ~(wport = "freertos" /\ delta < 0) /\ w \notin unset /\ wport # "qt"
                 /\ task[w] \notin {"none", "ended"}
        <5>1. age[w] > WatchTimeout
          BY <3>2, <4>1, <4>2, <4>6, CapNumbers DEF TooLong
        <5>2. Signs(task[w], age[w], spent[w])
          BY <4>1, <4>2, <4>6 DEF SignsOfLife, Informed
        <5>3. task[w] \in {"busy", "done"} /\ (age[w] <= spent[w] + Slack \/ spent[w] > WatchTimeout)
          BY <4>2, <4>6, <5>1, <5>2, WaitsInTime, WaitFacts, CapNumbers DEF Signs
        <5>4. spent[w] > WatchTimeout - (IF wport = "stdlib" THEN 0 ELSE WaitTicks + Late)
          BY <4>2, <5>1, <5>3, WaitFacts, CapNumbers DEF Slack
        <5>5. WaitTicks' = WaitTicks
          BY <1>1 DEF WaitTicks
        <5> QED
          BY <1>1, <4>3, <5>3, <5>4, <5>5 DEF AlarmsJustified
      <4> QED
        BY <4>4, <4>5, <4>6
    <3> QED
      BY <3>5, <3>6, <3>7
  <2> QED
    BY <2>1, <2>2 DEF Checks
<1> QED
  BY <1>2, <1>5, <1>6 DEF WInv

-----------------------------------------------------------------------------
(* Time passes for all threads at once, and for none that could go on.     *)
LEMMA TickKeeps ==
  ASSUME WInv, Punctual, WatchTick, UNCHANGED wport
  PROVE  WatchTypeOK' /\ RegistryKept' /\ Typed' /\ Started' /\ SignsOfLife'
<1>1. /\ UNCHANGED <<exists, task, m_watchdogTimeout, m_exit, registry, starting, unset, wport>>
      /\ RegistryKept /\ SignsOfLife
  BY DEF WInv, WatchTick
<1>2. /\ task \in [Workers -> {"none", "top", "timed", "forever", "busy", "done", "ended"}]
      /\ spent \in [Workers -> 0..AgeCap] /\ age \in [Workers -> 0..AgeCap]
      /\ check \in [todo : Seq(Workers), behind : Nat \cup {Nil}]
      /\ check.behind # Nil => check.todo # <<>>
  BY DEF WInv, WatchTypeOK, Typed
<1>3. ASSUME NEW v \in Workers
      PROVE  /\ age[v] \in Nat /\ age[v] <= AgeCap /\ spent[v] \in Nat /\ spent[v] <= AgeCap
             /\ age'[v] \in 0..AgeCap /\ age'[v] <= age[v] + 1
             /\ v \notin ToSet(registry) => age'[v] = age[v]
             /\ spent'[v] \in 0..AgeCap /\ spent'[v] \in {spent[v], OneMore(spent[v], WatchTimeout + 1)}
             /\ OnTime(v) \/ (task[v] = "busy" /\ v \in ToSet(registry))
                  => spent'[v] = OneMore(spent[v], WatchTimeout + 1)
  <2>1. age[v] \in Nat /\ age[v] <= AgeCap /\ spent[v] \in Nat /\ spent[v] <= AgeCap
    BY <1>2, CapNumbers
  <2>2. OneMore(age[v], AgeCap) \in 0..AgeCap /\ OneMore(age[v], AgeCap) <= age[v] + 1
    BY <2>1, CapFacts
  <2>3. OneMore(spent[v], WatchTimeout + 1) \in 0..AgeCap
    BY <2>1, CapNumbers, CapFacts DEF OneMore
  <2>4. age'[v] = IF v \in ToSet(registry) THEN OneMore(age[v], AgeCap) ELSE age[v]
    BY DEF WatchTick
  <2>5. spent'[v] = IF OnTime(v) \/ (task[v] = "busy" /\ v \in ToSet(registry))
                    THEN OneMore(spent[v], WatchTimeout + 1) ELSE spent[v]
    BY DEF WatchTick
  <2>6. age'[v] \in 0..AgeCap /\ age'[v] <= age[v] + 1
    BY <2>1, <2>2, <2>4, CapNumbers
  <2>7. spent'[v] \in 0..AgeCap
    BY <2>1, <2>3, <2>5, CapNumbers
  <2> QED
    BY <2>1, <2>4, <2>5, <2>6, <2>7
<1>4. age' \in [Workers -> 0..AgeCap] /\ spent' \in [Workers -> 0..AgeCap]
  <2>1. DOMAIN age' = Workers /\ age' = [v \in Workers |-> age'[v]]
        /\ DOMAIN spent' = Workers /\ spent' = [v \in Workers |-> spent'[v]]
    BY DEF WatchTick
  <2> QED
    BY <1>3, <2>1
<1>5. /\ check' \in [todo : Seq(Workers), behind : Nat \cup {Nil}] /\ check'.todo = check.todo
      /\ check'.behind # Nil => check.behind # Nil
  <2>1. CASE check.behind = Nil
    BY <1>2, <2>1 DEF WatchTick
  <2>2. CASE check.behind # Nil
    <3>1. check.behind \in Nat /\ check' = [check EXCEPT !.behind = check.behind + 1]
      BY <1>2, <2>2 DEF WatchTick
    <3>2. check' = [todo |-> check.todo, behind |-> check.behind + 1]
      BY <1>2, <3>1
    <3>3. check.behind + 1 \in Nat /\ check.todo \in Seq(Workers)
      BY <1>2, <3>1
    <3> QED
      BY <2>2, <3>2, <3>3
  <2> QED
    BY <2>1, <2>2
<1>6. WatchTypeOK'
  BY <1>1, <1>2, <1>4, <1>5 DEF WInv, WatchTypeOK
<1>7. RegistryKept' /\ Typed' /\ Started'
  <2>1. RegistryKept' /\ Started'
    BY <1>1 DEF WInv, RegistryKept, Started
  <2>2. Typed'
    BY <1>1, <1>2, <1>5 DEF WInv, Typed
  <2> QED
    BY <2>1, <2>2
<1>8. ASSUME NEW v \in Workers, Informed(v)' PROVE Signs(task[v], age[v], spent[v])'
  <2>1. WaitTicks' = WaitTicks /\ Slack' = Slack
    BY <1>1 DEF WaitTicks, Slack
  <2>2. Informed(v) /\ m_watchdogTimeout[v] = "set"
    BY <1>1, <1>8 DEF Informed
  <2>3. Signs(task[v], age[v], spent[v])
    BY <1>1, <2>2 DEF SignsOfLife
  <2>4. /\ task'[v] = task[v] /\ task[v] \notin {"top", "done"}
        /\ OnTime(v) => spent[v] < WaitTicks + Late
    BY <1>1 DEF WatchTick
  <2>5. WaitTicks \in Nat /\ Slack \in Nat /\ WaitTicks + Late <= WatchTimeout
    BY WaitFacts, WaitsInTime, CapNumbers DEF Slack
  <2>6. CASE task[v] = "timed"
    <3>1. OnTime(v) /\ spent[v] < WaitTicks + Late /\ age[v] <= spent[v]
      BY <2>2, <2>3, <2>4, <2>6 DEF OnTime, Signs
    <3>2. spent'[v] = spent[v] + 1
      <4>1. spent'[v] = IF spent[v] < WatchTimeout + 1 THEN spent[v] + 1 ELSE spent[v]
        BY <1>3, <3>1 DEF OneMore
      <4>2. spent[v] \in Nat
        BY <1>3
      <4> QED
        BY <2>5, <3>1, <4>1, <4>2, CapNumbers
    <3>3. age'[v] <= spent'[v] /\ spent'[v] <= WaitTicks + Late
      BY <1>3, <2>5, <3>1, <3>2, CapNumbers
    <3> QED
      BY <2>1, <2>4, <2>6, <3>3 DEF Signs
  <2>7. CASE task[v] = "busy"
    <3>1. age[v] <= spent[v] + Slack \/ spent[v] > WatchTimeout
      BY <2>3, <2>7 DEF Signs
    <3>2. CASE v \in ToSet(registry)
      <4>1. spent'[v] = IF spent[v] < WatchTimeout + 1 THEN spent[v] + 1 ELSE spent[v]
        BY <1>3, <2>7, <3>2 DEF OneMore
      <4>2. age'[v] <= spent'[v] + Slack \/ spent'[v] > WatchTimeout
        BY <1>3, <2>5, <3>1, <4>1, CapNumbers
      <4> QED
        BY <2>1, <2>4, <2>7, <4>2 DEF Signs
    <3>3. CASE v \notin ToSet(registry)
      <4>1. age'[v] = age[v] /\ spent'[v] = spent[v]
        BY <1>3, <2>7, <3>3 DEF WatchTick, OnTime
      <4> QED
        BY <2>1, <2>4, <2>7, <3>1, <4>1 DEF Signs
    <3> QED
      BY <3>2, <3>3
  <2>8. CASE task[v] \notin {"timed", "busy"}
    BY <2>3, <2>4, <2>8 DEF Signs
  <2> QED
    BY <2>6, <2>7, <2>8
<1>9. SignsOfLife'
  BY <1>8 DEF SignsOfLife
<1> QED
  BY <1>6, <1>7, <1>9

-----------------------------------------------------------------------------
LEMMA WInvKept ==
  ASSUME WInv, Punctual, [ClockNext]_allVars PROVE WInv'
<1>1. CASE UNCHANGED watchVars
  <2>1. /\ UNCHANGED <<wport, exists, task, spent, age, m_watchdogTimeout, m_exit, registry, starting, unset>>
        /\ UNCHANGED <<check, alarm>>
    BY <1>1 DEF watchVars, loopVars
  <2>2. WaitTicks' = WaitTicks /\ Slack' = Slack
    BY <2>1 DEF WaitTicks, Slack
  <2>3. WatchTypeOK' /\ RegistryKept' /\ Typed' /\ Started'
    BY <2>1 DEF WInv, WatchTypeOK, RegistryKept, Typed, Started
  <2>4. SignsOfLife' /\ AlarmsJustified'
    BY <2>1, <2>2 DEF WInv, SignsOfLife, Informed, Signs, AlarmsJustified
  <2> QED
    BY <2>3, <2>4 DEF WInv
<1>2. CASE alarm = Nil /\ WatchNext /\ UNCHANGED wport
  <2>1. CASE Checks /\ UNCHANGED <<ops, loopVars>>
    BY <1>2, <2>1, ChecksKeep
  <2>2. ASSUME NEW w \in Workers, Loop(w) \/ Handles(w), UNCHANGED <<ops, check, alarm>> PROVE WInv'
    BY <1>2, <2>2, LoopTypes, LoopSigns, NoAlarm DEF WInv
  <2>3. ASSUME NEW p \in Threads, NEW w \in Workers, Uses(p, w), UNCHANGED <<check, alarm>> PROVE WInv'
    <3>1. CASE ExitThread(p, w) \/ DestroyThread(p, w)
      BY <1>2, <2>3, <3>1, ExitKeeps, NoAlarm DEF WInv
    <3>2. ASSUME NEW dog \in BOOLEAN, CreateThread(p, w, dog) PROVE WInv'
      BY <1>2, <2>3, <3>2, CreateKeeps, NoAlarm DEF WInv
    <3> QED
      BY <2>3, <3>1, <3>2 DEF Uses
  <2>4. CASE StoreTimeout /\ UNCHANGED <<ops, check, alarm>>
    BY <1>2, <2>4, StoreKeeps, NoAlarm DEF WInv
  <2>5. CASE WatchTick /\ UNCHANGED ops
    <3>1. alarm' = Nil
      BY <1>2, <2>5 DEF WatchTick
    <3> QED
      BY <1>2, <2>5, <3>1, TickKeeps, NoAlarm DEF WInv
  <2> QED
    BY <1>2, <2>1, <2>2, <2>3, <2>4, <2>5 DEF WatchNext
<1> QED
  BY <1>1, <1>2 DEF ClockNext, allVars

(* Every port, any number of threads, any timeout: the list of watched     *)
(* threads holds each of them once and no destroyed one, through every     *)
(* order of creation, exit and destruction; and an alarm is raised for a   *)
(* thread that hangs in its handler, never for one that is idle, but for   *)
(* the cases that AlarmsJustified names, as long as loops are not delayed  *)
(* by more than what the watchdog's timeout leaves them.                   *)
THEOREM WatchdogAlwaysHolds ==
  ASSUME Punctual PROVE ClockSpec => []WatchdogHolds
<1>1. WInv => WatchdogHolds
  BY DEF WInv, WatchdogHolds
<1>2. WInv /\ [ClockNext]_allVars => WInv'
  BY WInvKept
<1> QED
  BY <1>1, <1>2, InitWInv, PTL DEF ClockSpec
=============================================================================
