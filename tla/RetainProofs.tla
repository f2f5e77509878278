------------------------------ MODULE RetainProofs ------------------------------
(***************************************************************************)
(* What Retain keeps, for any sequence and any set.  Each fact is by        *)
(* induction on the length, as the absence of a least counterexample.       *)
(***************************************************************************)
EXTENDS Retain, WellFoundedInduction, TLAPS

\* The least number that is in a set of them.
LEMMA Least ==
  ASSUME NEW D \in SUBSET Nat, D # {}
  PROVE  \E n \in D : \A k \in D : n <= k
<1>1. PICK n \in D : \A k \in D : <<k, n>> \notin OpToRel(<, Nat)
  BY NatLessThanWellFounded, WFMin
<1>2. \A a, b \in Nat : a < b => <<a, b>> \in OpToRel(<, Nat)
  BY DEF OpToRel
<1>3. \A k \in D : ~(k < n)
  BY <1>1, <1>2
<1>4. QED BY <1>3

\* The step of the recursion.
Kept(f, s, S, n) ==
  IF n = 0 THEN <<>> ELSE IF s[n] \in S THEN Append(f[n - 1], s[n]) ELSE f[n - 1]

IsKept(f, s, S, m) == f = [n \in 0 .. m |-> Kept(f, s, S, n)]

LEMMA KeptExists ==
  ASSUME NEW s, NEW S, NEW m \in Nat
  PROVE  \E f : IsKept(f, s, S, m)
<1> DEFINE D == {n \in Nat : ~ \E f : IsKept(f, s, S, n)}
<1>1. SUFFICES ASSUME D # {} PROVE FALSE
  OBVIOUS
<1>2. PICK n \in D : \A k \in D : n <= k
  <2> HIDE DEF D
  <2>1. D \subseteq Nat
    BY DEF D
  <2>2. QED BY <1>1, <2>1, Least
<1>3. n # 0
  <2> DEFINE f == [k \in 0 .. 0 |-> <<>>]
  <2>1. IsKept(f, s, S, 0)
    BY DEF IsKept, Kept
  <2>2. QED BY <2>1
<1>4. n - 1 \in Nat /\ n - 1 \notin D
  BY <1>2, <1>3
<1>5. PICK g : IsKept(g, s, S, n - 1)
  BY <1>4
<1> DEFINE f == [k \in 0 .. n |-> IF k < n THEN g[k] ELSE Kept(g, s, S, n)]
<1>6. \A k \in 0 .. n : f[k] = Kept(f, s, S, k)
  <2>1. SUFFICES ASSUME NEW k \in 0 .. n PROVE f[k] = Kept(f, s, S, k)
    OBVIOUS
  <2>2. k # 0 => f[k - 1] = g[k - 1]
    BY <1>4
  <2>3. Kept(f, s, S, k) = Kept(g, s, S, k)
    BY <2>2 DEF Kept
  <2>4. k < n => g[k] = Kept(g, s, S, k)
    BY <1>4, <1>5 DEF IsKept
  <2>5. QED BY <2>3, <2>4
<1>7. IsKept(f, s, S, n)
  <2> HIDE DEF f
  <2>1. f = [k \in 0 .. n |-> f[k]]
    BY DEF f
  <2>2. QED BY <1>6, <2>1 DEF IsKept
<1>8. QED BY <1>2, <1>7

LEMMA RetainIs ==
  ASSUME NEW s, NEW S, Len(s) \in Nat
  PROVE  \E f : IsKept(f, s, S, Len(s)) /\ Retain(s, S) = f[Len(s)]
<1> DEFINE f == CHOOSE f : IsKept(f, s, S, Len(s))
<1>1. IsKept(f, s, S, Len(s))
  BY KeptExists
<1>2. Retain(s, S) = f[Len(s)]
  BY DEF Retain, IsKept, Kept
<1>3. QED BY <1>1, <1>2

\* The recursion has one solution, which depends on no more than it reads.
LEMMA KeptAgree ==
  ASSUME NEW s, NEW t, NEW S, NEW U, NEW m \in Nat, NEW k \in Nat, m <= k,
         NEW f, NEW g, IsKept(f, s, S, m), IsKept(g, t, U, k),
         \A i \in 1 .. m : s[i] = t[i] /\ (s[i] \in S <=> t[i] \in U)
  PROVE  f[m] = g[m]
<1> DEFINE D == {n \in 0 .. m : f[n] # g[n]}
<1>1. SUFFICES ASSUME D # {} PROVE FALSE
  BY <1>1
<1>2. PICK n \in D : \A j \in D : n <= j
  <2> HIDE DEF D
  <2>1. D \subseteq Nat
    BY DEF D
  <2>2. QED BY <1>1, <2>1, Least
<1>3. n \in 0 .. m /\ n \in Nat /\ f[n] = Kept(f, s, S, n) /\ g[n] = Kept(g, t, U, n)
  <2>1. n \in 0 .. m /\ n \in 0 .. k
    BY <1>2
  <2>2. \A i \in 0 .. m : f[i] = Kept(f, s, S, i)
    BY DEF IsKept
  <2>3. \A i \in 0 .. k : g[i] = Kept(g, t, U, i)
    BY DEF IsKept
  <2>4. QED BY <2>1, <2>2, <2>3
<1>4. CASE n = 0
  BY <1>2, <1>3, <1>4 DEF Kept
<1>5. CASE n # 0
  <2>1. n - 1 \in 0 .. m /\ n \in 1 .. m
    BY <1>3, <1>5
  <2>2. f[n - 1] = g[n - 1]
    BY <1>2, <1>3, <2>1
  <2>3. f[n] = g[n]
    BY <1>3, <1>5, <2>1, <2>2 DEF Kept
  <2>4. QED BY <1>2, <2>3
<1>6. QED BY <1>4, <1>5

\* Where the elements that are kept were: in their order, and none is missing.
Embeds(e, r, s, n, S) ==
  /\ r \in Seq(S) /\ e \in [1 .. Len(r) -> 1 .. n]
  /\ \A i, j \in 1 .. Len(r) : i < j => e[i] < e[j]
  /\ \A i \in 1 .. Len(r) : r[i] = s[e[i]]
  /\ \A k \in 1 .. n : s[k] \in S => \E i \in 1 .. Len(r) : e[i] = k

LEMMA KeptEmbeds ==
  ASSUME NEW s, NEW S, NEW m \in Nat, NEW f, IsKept(f, s, S, m)
  PROVE  \E e : Embeds(e, f[m], s, m, S)
<1> DEFINE D == {n \in 0 .. m : ~ \E e : Embeds(e, f[n], s, n, S)}
<1>1. SUFFICES ASSUME D # {} PROVE FALSE
  BY <1>1
<1>2. PICK n \in D : \A j \in D : n <= j
  <2> HIDE DEF D
  <2>1. D \subseteq Nat
    BY DEF D
  <2>2. QED BY <1>1, <2>1, Least
<1>3. n \in 0 .. m /\ n \in Nat /\ f[n] = Kept(f, s, S, n)
  BY <1>2 DEF IsKept
<1>4. CASE n = 0
  <2> DEFINE e == [i \in 1 .. 0 |-> 0]
  <2>1. f[n] = <<>>
    BY <1>3, <1>4 DEF Kept
  <2>2. Embeds(e, <<>>, s, 0, S)
    BY DEF Embeds
  <2>3. QED BY <1>2, <1>4, <2>1, <2>2
<1>5. CASE n # 0
  <2>1. n - 1 \in 0 .. m /\ n - 1 \in Nat /\ n - 1 \notin D
    BY <1>2, <1>3, <1>5
  <2>2. PICK d : Embeds(d, f[n - 1], s, n - 1, S)
    BY <2>1
  <2> DEFINE q == f[n - 1]
  <2>3. /\ q \in Seq(S) /\ Len(q) \in Nat /\ d \in [1 .. Len(q) -> 1 .. n - 1]
        /\ \A i, j \in 1 .. Len(q) : i < j => d[i] < d[j]
        /\ \A i \in 1 .. Len(q) : q[i] = s[d[i]]
        /\ \A k \in 1 .. n - 1 : s[k] \in S => \E i \in 1 .. Len(q) : d[i] = k
    BY <2>2 DEF Embeds
  <2> HIDE DEF q
  <2>4. CASE s[n] \notin S
    <3>1. f[n] = q
      BY <1>3, <1>5, <2>4 DEF Kept, q
    <3>2. d \in [1 .. Len(q) -> 1 .. n]
      BY <1>3, <2>3
    <3>3. \A k \in 1 .. n : s[k] \in S => k \in 1 .. n - 1
      BY <1>3, <1>5, <2>4
    <3>4. Embeds(d, q, s, n, S)
      BY <2>3, <3>2, <3>3 DEF Embeds
    <3>5. QED BY <1>2, <3>1, <3>4
  <2>5. CASE s[n] \in S
    <3> DEFINE r == Append(q, s[n])
               e == [i \in 1 .. Len(q) + 1 |-> IF i <= Len(q) THEN d[i] ELSE n]
    <3>1. f[n] = r
      BY <1>3, <1>5, <2>5 DEF Kept, q
    <3>2. /\ r \in Seq(S) /\ Len(r) = Len(q) + 1 /\ r[Len(q) + 1] = s[n]
          /\ \A i \in 1 .. Len(q) : r[i] = q[i]
      BY <2>3, <2>5
    <3> HIDE DEF r
    <3>3. e \in [1 .. Len(r) -> 1 .. n] /\ e[Len(q) + 1] = n /\ \A i \in 1 .. Len(q) : e[i] = d[i]
      BY <1>3, <1>5, <2>3, <3>2
    <3>4. \A i \in 1 .. Len(q) : d[i] \in Nat /\ d[i] < n
      BY <1>3, <2>3
    <3> HIDE DEF e
    <3>5. \A i \in 1 .. Len(r) : i \in 1 .. Len(q) \/ i = Len(q) + 1
      BY <2>3, <3>2
    <3>6. \A i, j \in 1 .. Len(r) : i < j => e[i] < e[j]
      <4>1. SUFFICES ASSUME NEW i \in 1 .. Len(r), NEW j \in 1 .. Len(r), i < j PROVE e[i] < e[j]
        OBVIOUS
      <4>2. i \in 1 .. Len(q)
        BY <2>3, <3>2, <4>1
      <4>3. QED BY <2>3, <3>3, <3>4, <3>5, <4>1, <4>2
    <3>7. \A i \in 1 .. Len(r) : r[i] = s[e[i]]
      BY <2>3, <3>2, <3>3, <3>5
    <3>8. \A k \in 1 .. n : s[k] \in S => \E i \in 1 .. Len(r) : e[i] = k
      <4>1. SUFFICES ASSUME NEW k \in 1 .. n, s[k] \in S PROVE \E i \in 1 .. Len(r) : e[i] = k
        OBVIOUS
      <4>2. CASE k = n
        BY <2>3, <3>2, <3>3, <4>2
      <4>3. CASE k # n
        <5>1. k \in 1 .. n - 1
          BY <1>3, <4>3
        <5>2. PICK i \in 1 .. Len(q) : d[i] = k
          BY <2>3, <4>1, <5>1
        <5>3. i \in 1 .. Len(r)
          BY <2>3, <3>2
        <5>4. QED BY <3>3, <5>2, <5>3
      <4>4. QED BY <4>2, <4>3
    <3>9. Embeds(e, r, s, n, S)
      BY <3>2, <3>3, <3>6, <3>7, <3>8 DEF Embeds
    <3>10. QED BY <1>2, <3>1, <3>9
  <2>6. QED BY <2>4, <2>5
<1>6. QED BY <1>4, <1>5

-----------------------------------------------------------------------------
(* What the models use. *)

\* What is kept is in the set, in the order it was in, and nothing of it is
\* missing.
LEMMA RetainEmbeds ==
  ASSUME NEW s, NEW S, Len(s) \in Nat
  PROVE  \E e : Embeds(e, Retain(s, S), s, Len(s), S)
BY RetainIs, KeptEmbeds

\* Sequences that agree, and sets that agree on them, keep the same.
LEMMA RetainAgree ==
  ASSUME NEW s, NEW S, NEW U, Len(s) \in Nat, \A i \in 1 .. Len(s) : s[i] \in S <=> s[i] \in U
  PROVE  Retain(s, S) = Retain(s, U)
<1>1. PICK f : IsKept(f, s, S, Len(s)) /\ Retain(s, S) = f[Len(s)]
  BY RetainIs
<1>2. PICK g : IsKept(g, s, U, Len(s)) /\ Retain(s, U) = g[Len(s)]
  BY RetainIs
<1>3. QED BY <1>1, <1>2, KeptAgree

\* One more element.
LEMMA RetainAppend ==
  ASSUME NEW T, NEW s \in Seq(T), NEW x \in T, NEW S
  PROVE  Retain(Append(s, x), S) = IF x \in S THEN Append(Retain(s, S), x) ELSE Retain(s, S)
<1> DEFINE t == Append(s, x)
<1>1. /\ Len(s) \in Nat /\ Len(t) = Len(s) + 1 /\ t[Len(s) + 1] = x
      /\ \A i \in 1 .. Len(s) : t[i] = s[i]
  OBVIOUS
<1> HIDE DEF t
<1>2. PICK f : IsKept(f, s, S, Len(s)) /\ Retain(s, S) = f[Len(s)]
  BY <1>1, RetainIs
<1>3. PICK g : IsKept(g, t, S, Len(s) + 1) /\ Retain(t, S) = g[Len(s) + 1]
  BY <1>1, RetainIs
<1>4. f[Len(s)] = g[Len(s)]
  BY <1>1, <1>2, <1>3, KeptAgree
<1>5. g[Len(s) + 1] = Kept(g, t, S, Len(s) + 1)
  BY <1>1, <1>3 DEF IsKept
<1>6. QED BY <1>1, <1>2, <1>3, <1>4, <1>5 DEF Kept, t

\* Nothing is kept that is not of the sequence and in the set.
LEMMA RetainType ==
  ASSUME NEW T, NEW s \in Seq(T), NEW S
  PROVE  Retain(s, S) \in Seq(T \cap S)
<1>1. PICK e : Embeds(e, Retain(s, S), s, Len(s), S)
  BY RetainEmbeds
<1> DEFINE r == Retain(s, S)
<1> HIDE DEF r
<1>2. r \in Seq(S) /\ \A i \in 1 .. Len(r) : r[i] \in T \cap S
  BY <1>1 DEF Embeds, r
<1>3. QED BY <1>2 DEF r
=============================================================================
