--------------------------- MODULE FramingProofs ---------------------------
(* Proofs about Framing: for any radix, any messages and any way the transport *)
(* cuts their bytes into chunks.  The first two sections are about recursive   *)
(* functions and sequences in general.                                         *)
EXTENDS Framing, WellFoundedInduction, SequenceTheorems, TLAPS

-----------------------------------------------------------------------------
(* Recursive functions.  The induction theorems of the library take an operator *)
(* as a parameter; here a set takes its place.                                  *)

\* Strong induction over the natural numbers, for a set instead of a predicate.
LEMMA Induction ==
  ASSUME NEW Good \in SUBSET Nat,
         \A n \in Nat : (\A k \in Nat : k < n => k \in Good) => n \in Good
  PROVE  Good = Nat
  <1> DEFINE R == OpToRel(<, Nat)
             Bad == Nat \ Good
  <1>1. CASE Bad # {}
    <2>1. PICK n \in Bad : \A k \in Bad : <<k, n>> \notin R
      <3>1. IsWellFoundedOn(R, Nat)
        BY NatLessThanWellFounded, Zenon DEF OpToRel
      <3>2. Bad \in SUBSET Nat
        OBVIOUS
      <3> HIDE DEF R, Bad
      <3> QED
        BY <1>1, <3>1, <3>2, WFMin
    <2>2. \A k \in Nat : k < n => <<k, n>> \in R
      BY DEF OpToRel
    <2> HIDE DEF R
    <2> QED
      BY <2>1, <2>2
  <1> QED
    BY <1>1

\* F[<<f, d>>] computes f[d] from values of f for arguments of smaller size.
WellFounded(D, V, F, size) ==
  /\ V # {}
  /\ F \in [[D -> V] \X D -> V]
  /\ size \in [D -> Nat]
  /\ \A d \in D : \A g, h \in [D -> V] :
       (\A e \in D : size[e] < size[d] => g[e] = h[e]) => F[<<g, d>>] = F[<<h, d>>]

HasFunction(D, V, F) == \E f \in [D -> V] : \A d \in D : f[d] = F[<<f, d>>]

\* A recursive definition whose calls get smaller defines a function.
LEMMA Recursion ==
  ASSUME NEW D, NEW V, NEW F, NEW size, WellFounded(D, V, F, size)
  PROVE  HasFunction(D, V, F)
  <1> USE DEF WellFounded
  <1> DEFINE Solves(g, k) == \A d \in D : size[d] < k => g[d] = F[<<g, d>>]
  <1>1. ASSUME NEW k \in Nat, NEW g \in [D -> V], NEW h \in [D -> V],
               Solves(g, k), Solves(h, k)
        PROVE  \A d \in D : size[d] < k => g[d] = h[d]
    <2> DEFINE Good == {n \in Nat : \A d \in D : size[d] = n /\ n < k => g[d] = h[d]}
    <2>1. ASSUME NEW n \in Nat, \A m \in Nat : m < n => m \in Good,
                 NEW d \in D, size[d] = n, n < k
          PROVE  g[d] = h[d]
      <3>1. \A e \in D : size[e] < size[d] => g[e] = h[e]
        BY <2>1
      <3>2. F[<<g, d>>] = F[<<h, d>>]
        BY <3>1
      <3> QED
        BY <1>1, <2>1, <3>2
    <2>2. \A n \in Nat : (\A m \in Nat : m < n => m \in Good) => n \in Good
      BY <2>1
    <2>3. Good = Nat
      <3> HIDE DEF Good
      <3>1. Good \in SUBSET Nat
        BY DEF Good
      <3> QED
        BY <2>2, <3>1, Induction
    <2> QED
      BY <2>3
  <1>2. ASSUME NEW k \in Nat
        PROVE  \E g \in [D -> V] : Solves(g, k)
    <2> DEFINE Good == {n \in Nat : \E g \in [D -> V] : Solves(g, n)}
    <2>1. ASSUME NEW n \in Nat, \A m \in Nat : m < n => m \in Good
          PROVE  n \in Good
      <3>1. CASE n = 0
        <4>1. PICK v \in V : TRUE
          OBVIOUS
        <4>2. [d \in D |-> v] \in [D -> V] /\ Solves([d \in D |-> v], 0)
          OBVIOUS
        <4> QED
          BY <3>1, <4>2
      <3>2. CASE n # 0
        <4>1. n - 1 \in Nat /\ n - 1 < n
          BY <3>2
        <4>2. PICK g \in [D -> V] : Solves(g, n - 1)
          <5> HIDE DEF Solves
          <5> QED
            BY <2>1, <4>1
        <4> DEFINE h == [d \in D |-> F[<<g, d>>]]
        <4>3. h \in [D -> V]
          OBVIOUS
        <4>4. ASSUME NEW d \in D, size[d] < n
              PROVE  h[d] = F[<<h, d>>]
          <5>1. ASSUME NEW e \in D, size[e] < size[d]
                PROVE  g[e] = h[e]
            BY <4>2, <4>4, <5>1
          <5>2. F[<<g, d>>] = F[<<h, d>>]
            BY <4>3, <5>1
          <5> QED
            BY <5>2
        <4> QED
          BY <4>3, <4>4
      <3> QED
        BY <3>1, <3>2
    <2> HIDE DEF Good
    <2>2. Good = Nat
      <3>1. Good \in SUBSET Nat
        BY DEF Good
      <3> QED
        BY <2>1, <3>1, Induction
    <2> QED
      BY <2>2 DEF Good
  <1> DEFINE upTo == [d \in D |-> CHOOSE g \in [D -> V] : Solves(g, size[d] + 1)]
             f == [d \in D |-> upTo[d][d]]
  <1>3. ASSUME NEW d \in D
        PROVE  upTo[d] \in [D -> V] /\ Solves(upTo[d], size[d] + 1)
    <2> HIDE DEF Solves
    <2>1. size[d] + 1 \in Nat
      OBVIOUS
    <2>2. \E g \in [D -> V] : Solves(g, size[d] + 1)
      BY <1>2, <2>1
    <2> QED
      BY <2>2
  <1>4. ASSUME NEW d \in D
        PROVE  f[d] = F[<<f, d>>]
    <2>1. ASSUME NEW e \in D, size[e] < size[d]
          PROVE  f[e] = upTo[d][e]
      <3>1. Solves(upTo[d], size[e] + 1)
        <4>1. \A c \in D : size[c] < size[e] + 1 => size[c] < size[d] + 1
          BY <2>1
        <4> HIDE DEF upTo
        <4> QED
          BY <1>3, <4>1
      <3>2. size[e] + 1 \in Nat /\ size[e] < size[e] + 1
        OBVIOUS
      <3>3. upTo[e][e] = upTo[d][e]
        <4> HIDE DEF upTo, Solves
        <4> QED
          BY <1>1, <1>3, <3>1, <3>2
      <3> HIDE DEF upTo
      <3> QED
        BY <3>3
    <2>2. f[d] = F[<<upTo[d], d>>]
      <3>1. size[d] < size[d] + 1
        OBVIOUS
      <3> HIDE DEF upTo
      <3> QED
        BY <1>3, <3>1
    <2>3. f \in [D -> V]
      <3> HIDE DEF upTo
      <3> QED
        BY <1>3
    <2>4. F[<<f, d>>] = F[<<upTo[d], d>>]
      <3> HIDE DEF upTo, f
      <3> QED
        BY <1>3, <2>1, <2>3
    <2> QED
      BY <2>2, <2>4
  <1>5. f \in [D -> V]
    <2> HIDE DEF upTo
    <2> QED
      BY <1>3
  <1> HIDE DEF f
  <1> QED
    BY <1>4, <1>5 DEF HasFunction

-----------------------------------------------------------------------------
(* Flattened sequences.                                                    *)

\* FlattenSeq is a recursive function of the library.
LEMMA FlattenIs ==
  ASSUME NEW A, NEW s \in Seq(Seq(A)), s # << >>
  PROVE  \E f \in [1 .. Len(s) -> Seq(A)] :
           /\ \A i \in 1 .. Len(s) : f[i] = IF i = 1 THEN s[i] ELSE f[i - 1] \o s[i]
           /\ FlattenSeq(s) = f[Len(s)]
  <1> DEFINE V == Seq(A)
             D == 1 .. Len(s)
             step(f, i) == IF i = 1 THEN s[i] ELSE f[i - 1] \o s[i]
             F == [p \in [D -> V] \X D |-> step(p[1], p[2])]
             size == [i \in D |-> i]
             flatten[i \in 1 .. Len(s)] == IF i = 1 THEN s[i] ELSE flatten[i - 1] \o s[i]
  <1>1. ASSUME NEW i \in D
        PROVE  s[i] \in V /\ (i # 1 => i - 1 \in D /\ i - 1 < i)
    OBVIOUS
  <1>2. F \in [[D -> V] \X D -> V]
    <2>1. ASSUME NEW f \in [D -> V], NEW i \in D
          PROVE  step(f, i) \in V
      <3>1. i # 1 => f[i - 1] \in V
        BY <1>1
      <3> HIDE DEF D
      <3> QED
        BY <1>1, <3>1
    <2> HIDE DEF V, D, step
    <2> QED
      BY <2>1
  <1>3. \A f \in [D -> V], i \in D : F[<<f, i>>] = step(f, i)
    OBVIOUS
  <1>4. ASSUME NEW i \in D, NEW g \in [D -> V], NEW h \in [D -> V],
               \A e \in D : size[e] < size[i] => g[e] = h[e]
        PROVE  F[<<g, i>>] = F[<<h, i>>]
    <2>1. i # 1 => g[i - 1] = h[i - 1]
      BY <1>1, <1>4
    <2>2. step(g, i) = step(h, i)
      BY <2>1
    <2> HIDE DEF F, step
    <2> QED
      BY <1>3, <2>2
  <1>5. HasFunction(D, V, F)
    <2>1. << >> \in V
      OBVIOUS
    <2>2. size \in [D -> Nat]
      OBVIOUS
    <2> HIDE DEF F, V, D, size
    <2>3. WellFounded(D, V, F, size)
      BY <1>2, <1>4, <2>1, <2>2 DEF WellFounded
    <2> QED
      BY <2>3, Recursion
  <1>6. \E f \in [D -> V] : f = [i \in D |-> step(f, i)]
    <2> HIDE DEF F, step, V, D
    <2> QED
      BY <1>3, <1>5 DEF HasFunction
  <1>7. flatten = [i \in D |-> step(flatten, i)]
    BY <1>6
  <1>8. \A i \in D : flatten[i] = step(flatten, i)
    <2> HIDE DEF step, flatten
    <2> QED
      BY <1>7
  <1>9. \A i \in D : flatten[i] \in V
    <2> DEFINE Good == {n \in Nat : n \in D => flatten[n] \in V}
    <2> HIDE DEF flatten
    <2>1. ASSUME NEW n \in Nat, \A k \in Nat : k < n => k \in Good, n \in D
          PROVE  flatten[n] \in V
      <3>1. n # 1 => flatten[n - 1] \in V
        BY <1>1, <2>1
      <3>2. step(flatten, n) \in V
        BY <1>1, <2>1, <3>1
      <3> HIDE DEF step, V, D
      <3> QED
        BY <1>8, <2>1, <3>2
    <2>2. Good = Nat
      <3>1. Good \in SUBSET Nat /\ \A n \in Nat : (n \in D => flatten[n] \in V) => n \in Good
        OBVIOUS
      <3> HIDE DEF Good, V, D
      <3> QED
        BY <2>1, <3>1, Induction
    <2> HIDE DEF V, D
    <2> QED
      <3>1. D \subseteq Nat
        BY DEF D
      <3> QED
        BY <2>2, <3>1
  <1>10. FlattenSeq(s) = flatten[Len(s)]
    BY DEF FlattenSeq
  <1> QED
    <2> HIDE DEF flatten
    <2>1. flatten \in [D -> V]
      <3> HIDE DEF step, V, D
      <3> QED
        BY <1>7, <1>9
    <2> QED
      BY <1>8, <1>10, <2>1

\* FlattenSeq concatenates: one sequence more comes at the end.
LEMMA FlattenAppend ==
  ASSUME NEW A, NEW s \in Seq(Seq(A)), NEW e \in Seq(A)
  PROVE  /\ FlattenSeq(s) \in Seq(A)
         /\ FlattenSeq(Append(s, e)) = FlattenSeq(s) \o e
  <1> DEFINE t == Append(s, e)
  <1>1. t \in Seq(Seq(A)) /\ t # << >> /\ Len(t) = Len(s) + 1 /\ t[Len(t)] = e
    <2>1. Len(t) = Len(s) + 1 /\ t \in Seq(Seq(A))
      OBVIOUS
    <2>2. t[Len(s) + 1] = e
      OBVIOUS
    <2> QED
      BY <2>1, <2>2
  <1>2. \A i \in 1 .. Len(s) : t[i] = s[i]
    OBVIOUS
  <1> HIDE DEF t
  <1>3. PICK g \in [1 .. Len(t) -> Seq(A)] :
          /\ \A i \in 1 .. Len(t) : g[i] = IF i = 1 THEN t[i] ELSE g[i - 1] \o t[i]
          /\ FlattenSeq(t) = g[Len(t)]
    BY <1>1, FlattenIs
  <1>4. CASE s = << >>
    <2>1. FlattenSeq(s) = << >>
      BY <1>4 DEF FlattenSeq
    <2>2. Len(t) = 1
      BY <1>1, <1>4
    <2>3. g[1] = e
      <3>1. 1 \in 1 .. Len(t)
        BY <2>2
      <3> QED
        BY <1>1, <1>3, <2>2, <3>1
    <2> QED
      BY <1>1, <1>3, <2>1, <2>2, <2>3 DEF t
  <1>5. CASE s # << >>
    <2>1. PICK f \in [1 .. Len(s) -> Seq(A)] :
            /\ \A i \in 1 .. Len(s) : f[i] = IF i = 1 THEN s[i] ELSE f[i - 1] \o s[i]
            /\ FlattenSeq(s) = f[Len(s)]
      BY <1>5, FlattenIs
    <2> DEFINE Good == {n \in Nat : n \in 1 .. Len(s) => g[n] = f[n]}
    <2>2. ASSUME NEW n \in Nat, \A k \in Nat : k < n => k \in Good, n \in 1 .. Len(s)
          PROVE  g[n] = f[n]
      <3>0. n \in 1 .. Len(t)
        BY <1>1, <2>2
      <3>1. g[n] = IF n = 1 THEN t[n] ELSE g[n - 1] \o t[n]
        BY <1>3, <3>0
      <3>2. f[n] = IF n = 1 THEN s[n] ELSE f[n - 1] \o s[n]
        BY <2>1, <2>2
      <3>3. n # 1 => g[n - 1] = f[n - 1]
        <4>1. n # 1 => n - 1 \in Nat /\ n - 1 < n /\ n - 1 \in 1 .. Len(s)
          BY <2>2
        <4>2. n # 1 => n - 1 \in Good
          BY <2>2, <4>1
        <4> QED
          BY <4>1, <4>2
      <3>4. t[n] = s[n]
        BY <1>2, <2>2
      <3> QED
        BY <3>1, <3>2, <3>3, <3>4
    <2>3. Good = Nat
      <3>1. Good \in SUBSET Nat
            /\ \A n \in Nat : (n \in 1 .. Len(s) => g[n] = f[n]) => n \in Good
        OBVIOUS
      <3> HIDE DEF Good
      <3> QED
        BY <2>2, <3>1, Induction
    <2>4. Len(s) \in 1 .. Len(s) /\ Len(t) \in 1 .. Len(t) /\ Len(t) # 1 /\ Len(t) - 1 = Len(s)
      BY <1>1, <1>5
    <2>5. g[Len(s)] = f[Len(s)]
      BY <2>3, <2>4
    <2>6. g[Len(t)] = g[Len(s)] \o e
      BY <1>1, <1>3, <2>4
    <2> QED
      BY <1>3, <2>1, <2>4, <2>5, <2>6 DEF t
  <1> QED
    BY <1>4, <1>5

-----------------------------------------------------------------------------
(* Length prefixes.                                                        *)

\* What appendVarint writes for n, from what it writes for n \div Radix.
LEMMA VarintIs ==
  /\ EncodeVarint \in [Nat -> Seq(Bytes)]
  /\ \A n \in Nat : EncodeVarint[n] = IF n < Radix THEN <<n>>
                    ELSE <<Radix + (n % Radix)>> \o EncodeVarint[n \div Radix]
  <1> DEFINE V == Seq(Bytes)
             step(f, n) == IF n < Radix THEN <<n>>
                           ELSE <<Radix + (n % Radix)>> \o f[n \div Radix]
             F == [p \in [Nat -> V] \X Nat |-> step(p[1], p[2])]
             size == [n \in Nat |-> n]
  <1>1. ASSUME NEW n \in Nat
        PROVE  /\ n \div Radix \in Nat
               /\ n < Radix => <<n>> \in V
               /\ <<Radix + (n % Radix)>> \in V
               /\ n >= Radix => n \div Radix < n
    BY FramingAssumption DEF Bytes
  <1>2. F \in [[Nat -> V] \X Nat -> V]
    <2>1. ASSUME NEW f \in [Nat -> V], NEW n \in Nat
          PROVE  step(f, n) \in V
      BY <1>1
    <2> HIDE DEF V, step
    <2> QED
      BY <2>1
  <1>3. \A f \in [Nat -> V], n \in Nat : F[<<f, n>>] = step(f, n)
    OBVIOUS
  <1>4. ASSUME NEW n \in Nat, NEW g \in [Nat -> V], NEW h \in [Nat -> V],
               \A e \in Nat : size[e] < size[n] => g[e] = h[e]
        PROVE  F[<<g, n>>] = F[<<h, n>>]
    <2>1. n >= Radix => g[n \div Radix] = h[n \div Radix]
      BY <1>1, <1>4
    <2>2. step(g, n) = step(h, n)
      <3>1. CASE n < Radix
        BY <3>1
      <3>2. CASE n >= Radix
        BY <2>1, <3>2
      <3> QED
        BY <3>1, <3>2, FramingAssumption
    <2> HIDE DEF F, step
    <2> QED
      BY <1>3, <2>2
  <1>5. HasFunction(Nat, V, F)
    <2>1. << >> \in V
      OBVIOUS
    <2>2. size \in [Nat -> Nat]
      OBVIOUS
    <2> HIDE DEF F, V, size
    <2>3. WellFounded(Nat, V, F, size)
      BY <1>2, <1>4, <2>1, <2>2 DEF WellFounded
    <2> QED
      BY <2>3, Recursion
  <1>6. \E f \in [Nat -> V] : f = [n \in Nat |-> step(f, n)]
    <2> HIDE DEF F, step, V
    <2> QED
      BY <1>3, <1>5 DEF HasFunction
  <1>7. EncodeVarint = [n \in Nat |-> step(EncodeVarint, n)]
    BY <1>6 DEF EncodeVarint
  <1>8. \A n \in Nat : EncodeVarint[n] = step(EncodeVarint, n)
    <2> HIDE DEF step
    <2> QED
      BY <1>7
  <1>9. \A n \in Nat : EncodeVarint[n] \in V
    <2> DEFINE Good == {n \in Nat : EncodeVarint[n] \in V}
    <2>1. ASSUME NEW n \in Nat, \A k \in Nat : k < n => k \in Good
          PROVE  EncodeVarint[n] \in V
      <3>1. n >= Radix => EncodeVarint[n \div Radix] \in V
        BY <1>1, <2>1
      <3>2. step(EncodeVarint, n) \in V
        <4>1. CASE n < Radix
          BY <1>1, <4>1
        <4>2. CASE n >= Radix
          <5>1. step(EncodeVarint, n) = <<Radix + (n % Radix)>> \o EncodeVarint[n \div Radix]
            BY <4>2, FramingAssumption
          <5> QED
            BY <1>1, <3>1, <4>2, <5>1
        <4> QED
          BY <4>1, <4>2, FramingAssumption
      <3> HIDE DEF step, V
      <3> QED
        BY <1>8, <3>2
    <2>2. Good = Nat
      <3>1. Good \in SUBSET Nat /\ \A n \in Nat : EncodeVarint[n] \in V => n \in Good
        OBVIOUS
      <3> HIDE DEF Good, V
      <3> QED
        BY <2>1, <3>1, Induction
    <2> QED
      BY <2>2
  <1> QED
    <2>1. EncodeVarint \in [Nat -> V]
      <3> HIDE DEF step, V
      <3> QED
        BY <1>7, <1>9
    <2> QED
      BY <1>8, <2>1

\* All bytes but the last are marked.
Delimited(v) ==
  /\ Len(v) >= 1
  /\ v[Len(v)] < Radix
  /\ \A i \in 1 .. Len(v) - 1 : v[i] >= Radix

\* What appendVarint writes shows where it ends.
LEMMA VarintShape == \A n \in Nat : Delimited(EncodeVarint[n])
  <1> DEFINE Good == {n \in Nat : Delimited(EncodeVarint[n])}
  <1>1. ASSUME NEW n \in Nat, \A k \in Nat : k < n => k \in Good
        PROVE  Delimited(EncodeVarint[n])
    <2>1. CASE n < Radix
      <3>1. EncodeVarint[n] = <<n>>
        BY <2>1, VarintIs
      <3>2. Delimited(<<n>>)
        BY <2>1 DEF Delimited
      <3> QED
        BY <3>1, <3>2
    <2>2. CASE n >= Radix
      <3> DEFINE k == n \div Radix
                 w == EncodeVarint[k]
                 b == Radix + (n % Radix)
                 v == <<b>> \o w
      <3>1. k \in Nat /\ k < n /\ b \in Nat /\ b >= Radix
        BY <2>2, FramingAssumption
      <3>2. w \in Seq(Bytes) /\ Delimited(w)
        BY <1>1, <3>1, VarintIs
      <3>3. EncodeVarint[n] = v
        <4>1. ~(n < Radix)
          BY <2>2, FramingAssumption
        <4>2. EncodeVarint[n] = IF n < Radix THEN <<n>> ELSE v
          BY VarintIs
        <4> QED
          BY <4>1, <4>2
      <3> HIDE DEF k, w, b
      <3>4. /\ Len(v) = Len(w) + 1
            /\ v[1] = b
            /\ \A i \in 2 .. Len(w) + 1 : v[i] = w[i - 1]
        BY <3>2
      <3> HIDE DEF v
      <3>5. Len(w) \in Nat
        BY <3>2
      <3>6. v[Len(v)] < Radix
        <4>1. Len(w) + 1 \in 2 .. Len(w) + 1
          BY <3>2, <3>5 DEF Delimited
        <4> QED
          BY <3>2, <3>4, <3>5, <4>1 DEF Delimited
      <3>7. ASSUME NEW i \in 1 .. Len(v) - 1
            PROVE  v[i] >= Radix
        <4>1. CASE i = 1
          BY <3>1, <3>4, <4>1
        <4>2. CASE i # 1
          <5>1. i \in 2 .. Len(w) + 1 /\ i - 1 \in 1 .. Len(w) - 1
            BY <3>4, <3>5, <4>2
          <5> QED
            BY <3>2, <3>4, <5>1 DEF Delimited
        <4> QED
          BY <4>1, <4>2
      <3> QED
        BY <3>3, <3>4, <3>5, <3>6, <3>7 DEF Delimited
    <2> QED
      BY <2>1, <2>2, FramingAssumption
  <1>2. Good = Nat
    <2>1. Good \in SUBSET Nat /\ \A n \in Nat : Delimited(EncodeVarint[n]) => n \in Good
      OBVIOUS
    <2> HIDE DEF Good
    <2> QED
      BY <1>1, <2>1, Induction
  <1> QED
    BY <1>2

\* A varint ends at the first byte that is not marked, or past the buffer.
LEMMA VarintLengthIs ==
  ASSUME NEW buf \in Seq(Bytes), NEW at \in 1 .. Len(buf) + 1, NEW end \in at .. Len(buf) + 1,
         \A i \in at .. end - 1 : buf[i] >= Radix,
         end <= Len(buf) => buf[end] < Radix
  PROVE  VarintLength(buf, at) = 1 + end - at
  <1> DEFINE S == {i \in at .. Len(buf) : buf[i] < Radix} \cup {Len(buf) + 1}
  <1>1. end \in S
    OBVIOUS
  <1>2. ASSUME NEW i \in S
        PROVE  i \in Nat /\ end <= i
    <2>1. CASE i = Len(buf) + 1
      BY <2>1
    <2>2. CASE i \in at .. Len(buf) /\ buf[i] < Radix
      <3>1. ~(buf[i] >= Radix)
        BY <2>2, FramingAssumption DEF Bytes
      <3> QED
        BY <2>2, <3>1
    <2> QED
      BY <2>1, <2>2
  <1>3. Min(S) = end
    <2> HIDE DEF S
    <2>1. \A i \in S : (\A j \in S : i <= j) => i = end
      BY <1>1, <1>2
    <2> QED
      BY <1>1, <1>2, <2>1 DEF Min
  <1> QED
    BY <1>3 DEF VarintLength

\* VarintValue is a recursive function of the position.
LEMMA VarintValueIs ==
  ASSUME NEW buf \in Seq(Bytes)
  PROVE  \E f \in [1 .. Len(buf) + 1 -> Nat] :
           /\ \A i \in 1 .. Len(buf) + 1 :
                f[i] = IF i > Len(buf) THEN 0
                       ELSE IF buf[i] < Radix THEN buf[i]
                       ELSE (buf[i] % Radix) + Radix * f[i + 1]
           /\ \A at \in 1 .. Len(buf) + 1 : VarintValue(buf, at) = f[at]
  <1> DEFINE D == 1 .. Len(buf) + 1
             step(f, i) == IF i > Len(buf) THEN 0
                           ELSE IF buf[i] < Radix THEN buf[i]
                           ELSE (buf[i] % Radix) + Radix * f[i + 1]
             F == [p \in [D -> Nat] \X D |-> step(p[1], p[2])]
             size == [i \in D |-> Len(buf) + 1 - i]
             value[i \in 1 .. Len(buf) + 1] ==
               IF i > Len(buf) THEN 0
               ELSE IF buf[i] < Radix THEN buf[i]
               ELSE (buf[i] % Radix) + Radix * value[i + 1]
  <1>1. ASSUME NEW i \in D, i <= Len(buf)
        PROVE  buf[i] \in Nat /\ i + 1 \in D /\ size[i + 1] < size[i]
    BY <1>1, FramingAssumption DEF Bytes
  <1>2. ASSUME NEW f, NEW i \in D, i <= Len(buf) => f[i + 1] \in Nat
        PROVE  step(f, i) \in Nat
    <2>1. CASE i > Len(buf)
      BY <2>1
    <2>2. CASE i <= Len(buf)
      <3>1. buf[i] \in Nat /\ f[i + 1] \in Nat
        BY <1>1, <1>2, <2>2
      <3>2. (buf[i] % Radix) + Radix * f[i + 1] \in Nat
        BY <3>1, FramingAssumption
      <3> QED
        BY <3>1, <3>2
    <2> QED
      BY <2>1, <2>2
  <1>3. F \in [[D -> Nat] \X D -> Nat]
    <2>1. ASSUME NEW f \in [D -> Nat], NEW i \in D
          PROVE  step(f, i) \in Nat
      <3>1. i <= Len(buf) => f[i + 1] \in Nat
        BY <1>1
      <3> HIDE DEF step
      <3> QED
        BY <1>2, <3>1
    <2> HIDE DEF D, step
    <2> QED
      BY <2>1
  <1>4. \A f \in [D -> Nat], i \in D : F[<<f, i>>] = step(f, i)
    OBVIOUS
  <1>5. ASSUME NEW i \in D, NEW g \in [D -> Nat], NEW h \in [D -> Nat],
               \A e \in D : size[e] < size[i] => g[e] = h[e]
        PROVE  F[<<g, i>>] = F[<<h, i>>]
    <2>1. i <= Len(buf) => g[i + 1] = h[i + 1]
      BY <1>1, <1>5
    <2>2. step(g, i) = step(h, i)
      <3>1. CASE i > Len(buf)
        BY <3>1
      <3>2. CASE i <= Len(buf)
        BY <2>1, <3>2
      <3> QED
        BY <3>1, <3>2
    <2> HIDE DEF F, step
    <2> QED
      BY <1>4, <2>2
  <1>6. HasFunction(D, Nat, F)
    <2>1. 0 \in Nat
      OBVIOUS
    <2>2. size \in [D -> Nat]
      OBVIOUS
    <2> HIDE DEF F, D, size
    <2>3. WellFounded(D, Nat, F, size)
      BY <1>3, <1>5, <2>1, <2>2 DEF WellFounded
    <2> QED
      BY <2>3, Recursion
  <1>7. \E f \in [D -> Nat] : f = [i \in D |-> step(f, i)]
    <2> HIDE DEF F, step, D
    <2> QED
      BY <1>4, <1>6 DEF HasFunction
  <1>8. value = [i \in D |-> step(value, i)]
    BY <1>7
  <1>9. \A i \in D : value[i] = step(value, i)
    <2> HIDE DEF step, value
    <2> QED
      BY <1>8
  <1>10. \A i \in D : value[i] \in Nat
    <2> DEFINE Good == {n \in Nat : \A i \in D : size[i] = n => value[i] \in Nat}
    <2> HIDE DEF value
    <2>1. ASSUME NEW n \in Nat, \A k \in Nat : k < n => k \in Good, NEW i \in D, size[i] = n
          PROVE  value[i] \in Nat
      <3>1. i <= Len(buf) => value[i + 1] \in Nat
        <4>1. ASSUME i <= Len(buf)
              PROVE  size[i + 1] \in Good /\ i + 1 \in D
          <5>1. i + 1 \in D /\ size[i + 1] < n
            BY <1>1, <2>1, <4>1
          <5>2. size[i + 1] \in Nat
            BY <5>1
          <5> HIDE DEF Good, size, D
          <5> QED
            BY <2>1, <5>1, <5>2
        <4> QED
          BY <4>1
      <3> HIDE DEF step, D
      <3> QED
        BY <1>2, <1>9, <3>1
    <2>2. Good = Nat
      <3>1. Good \in SUBSET Nat
            /\ \A n \in Nat : (\A i \in D : size[i] = n => value[i] \in Nat) => n \in Good
        OBVIOUS
      <3> HIDE DEF Good, D, size
      <3> QED
        BY <2>1, <3>1, Induction
    <2>3. \A i \in D : size[i] \in Nat
      OBVIOUS
    <2> HIDE DEF D, size
    <2> QED
      BY <2>2, <2>3
  <1>11. \A at \in D : VarintValue(buf, at) = value[at]
    BY DEF VarintValue
  <1> QED
    <2> HIDE DEF value
    <2>1. value \in [D -> Nat]
      <3> HIDE DEF step, D
      <3> QED
        BY <1>8, <1>10
    <2> QED
      BY <1>9, <1>11, <2>1

\* The bytes of v stand in buf from position at on.
StandsAt(v, buf, at) ==
  /\ at + Len(v) <= Len(buf) + 1
  /\ \A i \in 1 .. Len(v) : buf[at + i - 1] = v[i]

\* readVarint gives back the number appendVarint wrote, and how long it is.
LEMMA VarintRoundTrip ==
  ASSUME NEW buf \in Seq(Bytes), NEW at \in 1 .. Len(buf), NEW n \in Nat,
         StandsAt(EncodeVarint[n], buf, at)
  PROVE  VarintLength(buf, at) = Len(EncodeVarint[n]) /\ VarintValue(buf, at) = n
  <1>1. VarintLength(buf, at) = Len(EncodeVarint[n])
    <2> DEFINE v == EncodeVarint[n]
               end == at + Len(v) - 1
    <2>1. v \in Seq(Bytes) /\ Delimited(v)
      BY VarintIs, VarintShape
    <2> HIDE DEF v
    <2>2. Len(v) \in Nat /\ Len(v) >= 1 /\ at + Len(v) <= Len(buf) + 1
      BY <2>1 DEF Delimited, StandsAt, v
    <2>3. end \in at .. Len(buf) + 1 /\ 1 + end - at = Len(v)
      BY <2>2
    <2>4. ASSUME NEW i \in at .. end - 1
          PROVE  buf[i] >= Radix
      <3>1. i - at + 1 \in 1 .. Len(v) - 1 /\ at + (i - at + 1) - 1 = i
        BY <2>2
      <3>2. buf[at + (i - at + 1) - 1] = v[i - at + 1]
        BY <2>2, <3>1 DEF StandsAt, v
      <3> QED
        BY <2>1, <3>1, <3>2 DEF Delimited
    <2>5. buf[end] < Radix
      <3>1. Len(v) \in 1 .. Len(v)
        BY <2>2
      <3>2. buf[at + Len(v) - 1] = v[Len(v)]
        BY <3>1 DEF StandsAt, v
      <3> QED
        BY <2>1, <3>2 DEF Delimited
    <2>6. VarintLength(buf, at) = 1 + end - at
      <3>1. at \in 1 .. Len(buf) + 1
        OBVIOUS
      <3> HIDE DEF end
      <3> QED
        BY <2>3, <2>4, <2>5, <3>1, VarintLengthIs
    <2> QED
      BY <2>3, <2>6 DEF v
  <1>2. VarintValue(buf, at) = n
    <2>1. PICK f \in [1 .. Len(buf) + 1 -> Nat] :
            /\ \A i \in 1 .. Len(buf) + 1 :
                 f[i] = IF i > Len(buf) THEN 0
                        ELSE IF buf[i] < Radix THEN buf[i]
                        ELSE (buf[i] % Radix) + Radix * f[i + 1]
            /\ \A i \in 1 .. Len(buf) + 1 : VarintValue(buf, i) = f[i]
      BY VarintValueIs
    <2> DEFINE Good == {k \in Nat : \A i \in 1 .. Len(buf) :
                                      StandsAt(EncodeVarint[k], buf, i) => f[i] = k}
    <2>2. ASSUME NEW k \in Nat, \A j \in Nat : j < k => j \in Good,
                 NEW i \in 1 .. Len(buf), StandsAt(EncodeVarint[k], buf, i)
          PROVE  f[i] = k
      <3>1. i \in 1 .. Len(buf) + 1 /\ ~(i > Len(buf))
        OBVIOUS
      <3>2. f[i] = IF buf[i] < Radix THEN buf[i] ELSE (buf[i] % Radix) + Radix * f[i + 1]
        BY <2>1, <3>1
      <3>3. CASE k < Radix
        <4>1. EncodeVarint[k] = <<k>>
          BY <3>3, VarintIs
        <4>2. StandsAt(<<k>>, buf, i)
          BY <2>2, <4>1
        <4>3. buf[i] = k
          BY <4>2 DEF StandsAt
        <4> QED
          BY <3>2, <3>3, <4>3
      <3>4. CASE k >= Radix
        <4> DEFINE q == k \div Radix
                   w == EncodeVarint[q]
                   b == Radix + (k % Radix)
                   v == <<b>> \o w
        <4>1. q \in Nat /\ q < k /\ b \in Nat /\ ~(b < Radix) /\ (b % Radix) + Radix * q = k
          BY <3>4, FramingAssumption
        <4>2. w \in Seq(Bytes) /\ Len(w) >= 1
          BY <4>1, VarintIs, VarintShape DEF Delimited
        <4>3. EncodeVarint[k] = v
          <5>1. ~(k < Radix)
            BY <3>4, FramingAssumption
          <5>2. EncodeVarint[k] = IF k < Radix THEN <<k>> ELSE v
            BY VarintIs
          <5> QED
            BY <5>1, <5>2
        <4>4. StandsAt(v, buf, i)
          BY <2>2, <4>3
        <4> HIDE DEF q, w, b
        <4>5. /\ Len(v) = Len(w) + 1
              /\ v[1] = b
              /\ \A j \in 1 .. Len(w) : v[j + 1] = w[j]
              /\ Len(w) \in Nat
          BY <4>2
        <4> HIDE DEF v
        <4>6. buf[i] = b
          <5>1. buf[i + 1 - 1] = v[1]
            BY <4>4, <4>5 DEF StandsAt
          <5> QED
            BY <4>5, <5>1
        <4>7. i + 1 \in 1 .. Len(buf)
          BY <4>2, <4>4, <4>5 DEF StandsAt
        <4>8. StandsAt(w, buf, i + 1)
          <5>1. i + 1 + Len(w) <= Len(buf) + 1
            BY <4>4, <4>5 DEF StandsAt
          <5>2. ASSUME NEW j \in 1 .. Len(w)
                PROVE  buf[(i + 1) + j - 1] = w[j]
            <6>1. j + 1 \in 1 .. Len(v) /\ i + (j + 1) - 1 = (i + 1) + j - 1
              BY <4>5
            <6> QED
              BY <4>4, <4>5, <6>1 DEF StandsAt
          <5> QED
            BY <5>1, <5>2 DEF StandsAt
        <4>9. f[i + 1] = q
          BY <2>2, <4>1, <4>7, <4>8 DEF w
        <4> QED
          BY <3>2, <4>1, <4>6, <4>9
      <3> QED
        BY <3>3, <3>4, FramingAssumption
    <2>3. Good = Nat
      <3>1. Good \in SUBSET Nat
            /\ \A k \in Nat : (\A i \in 1 .. Len(buf) :
                                  StandsAt(EncodeVarint[k], buf, i) => f[i] = k) => k \in Good
        OBVIOUS
      <3> HIDE DEF Good
      <3> QED
        BY <2>2, <3>1, Induction
    <2>4. f[at] = n
      BY <2>3
    <2> QED
      BY <2>1, <2>4
  <1> QED
    BY <1>1, <1>2

\* From the first byte of a message on, the parser finds it incomplete as long
\* as a byte of it is missing, and otherwise cuts out exactly this message.
LEMMA MessageRoundTrip ==
  ASSUME NEW buf \in Seq(Bytes), NEW at \in 1 .. Len(buf), NEW msg \in Seq(Bytes),
         NEW m, m = EncodeWithLengthPrefix(msg),
         \A i \in 1 .. Len(m) : at + i - 1 <= Len(buf) => buf[at + i - 1] = m[i]
  PROVE  LET from == at + VarintLength(buf, at)
             to == from + VarintValue(buf, at)
         IN  /\ to > Len(buf) + 1 <=> at + Len(m) > Len(buf) + 1
             /\ at + Len(m) <= Len(buf) + 1 => to = at + Len(m) /\ SubSeq(buf, from, to - 1) = msg
  <1> DEFINE n == Len(msg)
             v == EncodeVarint[n]
  <1>1. n \in Nat
    OBVIOUS
  <1>2. v \in Seq(Bytes) /\ Delimited(v)
    BY <1>1, VarintIs, VarintShape
  <1>3. m = v \o msg
    BY DEF EncodeWithLengthPrefix
  <1> HIDE DEF v
  <1>4. Len(v) \in Nat /\ Len(v) >= 1
    BY <1>2 DEF Delimited
  <1>5. /\ Len(m) = Len(v) + n
        /\ \A i \in 1 .. Len(v) : m[i] = v[i]
        /\ \A i \in 1 .. n : m[Len(v) + i] = msg[i]
    BY <1>2, <1>3
  <1>6. CASE at + Len(v) > Len(buf) + 1
    <2>1. ASSUME NEW i \in at .. Len(buf)
          PROVE  buf[i] >= Radix
      <3>1. i - at + 1 \in 1 .. Len(v) - 1 /\ i - at + 1 \in 1 .. Len(m)
            /\ at + (i - at + 1) - 1 = i
        BY <1>1, <1>4, <1>5, <1>6
      <3>2. buf[i] = v[i - at + 1]
        <4>1. m[i - at + 1] = v[i - at + 1]
          BY <1>4, <1>5, <3>1
        <4>2. buf[at + (i - at + 1) - 1] = m[i - at + 1]
          BY <3>1
        <4> QED
          BY <3>1, <4>1, <4>2
      <3> QED
        BY <1>2, <3>1, <3>2 DEF Delimited
    <2> DEFINE end == Len(buf) + 1
    <2>2. VarintLength(buf, at) = 1 + end - at
      <3>1. /\ at \in 1 .. Len(buf) + 1 /\ end \in at .. Len(buf) + 1 /\ ~(end <= Len(buf))
            /\ end - 1 = Len(buf)
        OBVIOUS
      <3> HIDE DEF end
      <3> QED
        BY <2>1, <3>1, VarintLengthIs
    <2>3. VarintValue(buf, at) \in Nat
      <3>1. at \in 1 .. Len(buf) + 1
        OBVIOUS
      <3>2. PICK f \in [1 .. Len(buf) + 1 -> Nat] :
              \A i \in 1 .. Len(buf) + 1 : VarintValue(buf, i) = f[i]
        BY VarintValueIs
      <3> QED
        BY <3>1, <3>2
    <2> QED
      BY <1>1, <1>4, <1>5, <1>6, <2>2, <2>3
  <1>7. CASE at + Len(v) <= Len(buf) + 1
    <2>1. StandsAt(v, buf, at)
      <3>1. ASSUME NEW i \in 1 .. Len(v)
            PROVE  buf[at + i - 1] = v[i]
        <4>1. i \in 1 .. Len(m) /\ at + i - 1 <= Len(buf)
          BY <1>1, <1>4, <1>5, <1>7
        <4> QED
          BY <1>5, <4>1
      <3> QED
        BY <1>7, <3>1 DEF StandsAt
    <2>2. VarintLength(buf, at) = Len(v) /\ VarintValue(buf, at) = n
      BY <1>1, <2>1, VarintRoundTrip DEF v
    <2>3. ASSUME at + Len(m) <= Len(buf) + 1
          PROVE  SubSeq(buf, at + Len(v), at + Len(v) + n - 1) = msg
      <3> DEFINE cut == SubSeq(buf, at + Len(v), at + Len(v) + n - 1)
      <3>1. cut \in Seq(Bytes) /\ Len(cut) = n
        BY <1>1, <1>4, <1>5, <2>3
      <3>2. ASSUME NEW i \in 1 .. n
            PROVE  cut[i] = msg[i]
        <4>1. cut[i] = buf[at + Len(v) + i - 1]
          BY <1>1, <1>4, <1>5, <2>3
        <4>2. Len(v) + i \in 1 .. Len(m) /\ at + (Len(v) + i) - 1 <= Len(buf)
              /\ at + (Len(v) + i) - 1 = at + Len(v) + i - 1
          BY <1>1, <1>4, <1>5, <2>3
        <4> QED
          BY <1>5, <4>1, <4>2
      <3> HIDE DEF cut
      <3> QED
        BY <3>1, <3>2, SeqEqual DEF cut
    <2> QED
      BY <1>1, <1>4, <1>5, <2>2, <2>3
  <1> QED
    BY <1>4, <1>6, <1>7

-----------------------------------------------------------------------------
(* The bytes of several messages.                                          *)

\* The bytes of the first k messages.
Encoded(msgs, k) == FlattenSeq([i \in 1 .. k |-> EncodeWithLengthPrefix(msgs[i])])

LEMMA MessageBytes ==
  ASSUME NEW msg \in Seq(Bytes)
  PROVE  EncodeWithLengthPrefix(msg) \in Seq(Bytes) /\ Len(EncodeWithLengthPrefix(msg)) >= 1
  <1> DEFINE v == EncodeVarint[Len(msg)]
  <1>1. v \in Seq(Bytes) /\ Len(v) >= 1
    BY VarintIs, VarintShape DEF Delimited
  <1> HIDE DEF v
  <1>2. v \o msg \in Seq(Bytes) /\ Len(v \o msg) >= 1
    BY <1>1
  <1> QED
    BY <1>2 DEF EncodeWithLengthPrefix, v

LEMMA EncodedStep ==
  ASSUME NEW msgs \in Seq(Seq(Bytes)), NEW k \in 0 .. Len(msgs)
  PROVE  /\ Encoded(msgs, 0) = << >>
         /\ Encoded(msgs, k) \in Seq(Bytes)
         /\ k < Len(msgs) =>
              Encoded(msgs, k + 1) = Encoded(msgs, k) \o EncodeWithLengthPrefix(msgs[k + 1])
  <1> DEFINE parts(j) == [i \in 1 .. j |-> EncodeWithLengthPrefix(msgs[i])]
  <1>1. \A i \in 1 .. Len(msgs) : EncodeWithLengthPrefix(msgs[i]) \in Seq(Bytes)
    BY MessageBytes
  <1>2. ASSUME NEW j \in 0 .. Len(msgs)
        PROVE  parts(j) \in Seq(Seq(Bytes)) /\ Len(parts(j)) = j
    <2>1. \A i \in 1 .. j : EncodeWithLengthPrefix(msgs[i]) \in Seq(Bytes)
      BY <1>1
    <2> QED
      BY <2>1
  <1>3. Encoded(msgs, 0) = << >>
    <2>1. parts(0) = << >>
      OBVIOUS
    <2> QED
      BY <2>1 DEF Encoded, FlattenSeq
  <1>4. Encoded(msgs, k) \in Seq(Bytes)
    <2>1. << >> \in Seq(Bytes)
      OBVIOUS
    <2> HIDE DEF parts
    <2>2. FlattenSeq(parts(k)) \in Seq(Bytes)
      BY <1>2, <2>1, FlattenAppend
    <2> QED
      BY <2>2 DEF Encoded, parts
  <1>5. ASSUME k < Len(msgs)
        PROVE  Encoded(msgs, k + 1) = Encoded(msgs, k) \o EncodeWithLengthPrefix(msgs[k + 1])
    <2> DEFINE e == EncodeWithLengthPrefix(msgs[k + 1])
    <2>1. e \in Seq(Bytes)
      BY <1>1, <1>5
    <2>2. parts(k + 1) = Append(parts(k), e)
      <3>1. k \in Nat /\ k + 1 \in 0 .. Len(msgs)
        BY <1>5
      <3>2. parts(k + 1) \in Seq(Seq(Bytes)) /\ Len(parts(k + 1)) = k + 1
        BY <1>2, <3>1
      <3>3. /\ Append(parts(k), e) \in Seq(Seq(Bytes))
            /\ Len(Append(parts(k), e)) = k + 1
            /\ \A i \in 1 .. k : Append(parts(k), e)[i] = parts(k)[i]
            /\ Append(parts(k), e)[k + 1] = e
        <4> HIDE DEF parts, e
        <4> QED
          BY <1>2, <2>1
      <3>4. \A i \in 1 .. k + 1 : parts(k + 1)[i] = Append(parts(k), e)[i]
        <4>1. \A i \in 1 .. k : parts(k + 1)[i] = parts(k)[i]
          BY <3>1
        <4>2. parts(k + 1)[k + 1] = e
          BY <3>1
        <4>3. \A i \in 1 .. k + 1 : i \in 1 .. k \/ i = k + 1
          BY <3>1
        <4> HIDE DEF parts, e
        <4> QED
          BY <3>3, <4>1, <4>2, <4>3
      <3> HIDE DEF parts, e
      <3> QED
        BY <3>2, <3>3, <3>4, SeqEqual
    <2> HIDE DEF parts, e
    <2>3. FlattenSeq(parts(k + 1)) = FlattenSeq(parts(k)) \o e
      BY <1>2, <2>1, <2>2, FlattenAppend
    <2> QED
      BY <2>3 DEF Encoded, parts, e
  <1> QED
    BY <1>3, <1>4, <1>5

LEMMA Associative ==
  ASSUME NEW A, NEW a \in Seq(A), NEW b \in Seq(A), NEW c \in Seq(A)
  PROVE  (a \o b) \o c = a \o (b \o c)
  BY ConcatAssociative

LEMMA Cancel ==
  ASSUME NEW A, NEW a \in Seq(A), NEW b \in Seq(A), NEW c \in Seq(A), a \o b = a \o c
  PROVE  b = c
  <1>1. Len(b) = Len(c)
    <2>1. Len(a \o b) = Len(a) + Len(b) /\ Len(a \o c) = Len(a) + Len(c)
      OBVIOUS
    <2> QED
      BY <2>1
  <1>2. ASSUME NEW i \in 1 .. Len(b)
        PROVE  b[i] = c[i]
    <2>1. (a \o b)[Len(a) + i] = b[i] /\ (a \o c)[Len(a) + i] = c[i]
      BY <1>1
    <2> QED
      BY <2>1
  <1> QED
    BY <1>1, <1>2, SeqEqual

LEMMA EncodedPrefix ==
  ASSUME NEW msgs \in Seq(Seq(Bytes)), NEW k \in 0 .. Len(msgs)
  PROVE  \E rest \in Seq(Bytes) : Encoded(msgs, Len(msgs)) = Encoded(msgs, k) \o rest
  <1> DEFINE Extends(j) == \E rest \in Seq(Bytes) : Encoded(msgs, k + j) = Encoded(msgs, k) \o rest
             Good == {j \in Nat : k + j <= Len(msgs) => Extends(j)}
  <1>1. ASSUME NEW j \in Nat, \A i \in Nat : i < j => i \in Good, k + j <= Len(msgs)
        PROVE  Extends(j)
    <2>1. CASE j = 0
      <3>1. Encoded(msgs, k) = Encoded(msgs, k) \o << >>
        BY EncodedStep
      <3>2. << >> \in Seq(Bytes) /\ k + j = k
        BY <2>1
      <3> QED
        BY <3>1, <3>2
    <2>2. CASE j # 0
      <3>1. /\ j - 1 \in Nat /\ j - 1 < j /\ k + (j - 1) \in 0 .. Len(msgs)
            /\ k + (j - 1) < Len(msgs) /\ (k + (j - 1)) + 1 = k + j
            /\ k + j \in 1 .. Len(msgs)
        BY <1>1, <2>2
      <3>2. Extends(j - 1)
        <4> HIDE DEF Extends
        <4>1. j - 1 \in Good /\ k + (j - 1) <= Len(msgs)
          <5> HIDE DEF Good
          <5> QED
            BY <1>1, <3>1
        <4> QED
          BY <4>1
      <3>3. PICK rest \in Seq(Bytes) : Encoded(msgs, k + (j - 1)) = Encoded(msgs, k) \o rest
        BY <3>2
      <3> DEFINE e == EncodeWithLengthPrefix(msgs[k + j])
      <3>4. e \in Seq(Bytes)
        BY <3>1, MessageBytes
      <3>5. Encoded(msgs, k + j) = Encoded(msgs, k + (j - 1)) \o e
        <4>1. Encoded(msgs, (k + (j - 1)) + 1)
                = Encoded(msgs, k + (j - 1)) \o EncodeWithLengthPrefix(msgs[(k + (j - 1)) + 1])
          BY <3>1, EncodedStep
        <4> QED
          BY <3>1, <4>1
      <3>6. Encoded(msgs, k) \in Seq(Bytes)
        BY EncodedStep
      <3> HIDE DEF e
      <3>7. rest \o e \in Seq(Bytes)
            /\ Encoded(msgs, k + j) = Encoded(msgs, k) \o (rest \o e)
        <4>1. (Encoded(msgs, k) \o rest) \o e = Encoded(msgs, k) \o (rest \o e)
          BY <3>4, <3>6, ConcatAssociative, SMTT(20)
        <4>2. Encoded(msgs, k + j) = (Encoded(msgs, k) \o rest) \o e
          BY <3>3, <3>5
        <4>3. rest \o e \in Seq(Bytes)
          BY <3>4
        <4> QED
          BY <4>1, <4>2, <4>3
      <3> QED
        BY <3>7
    <2> QED
      BY <2>1, <2>2
  <1>2. Good = Nat
    <2>1. Good \in SUBSET Nat /\ \A j \in Nat : (k + j <= Len(msgs) => Extends(j)) => j \in Good
      OBVIOUS
    <2> HIDE DEF Good, Extends
    <2> QED
      BY <1>1, <2>1, Induction
  <1>3. Len(msgs) - k \in Nat /\ k + (Len(msgs) - k) = Len(msgs)
    OBVIOUS
  <1>4. Extends(Len(msgs) - k)
    <2> HIDE DEF Extends
    <2> QED
      BY <1>2, <1>3
  <1> QED
    BY <1>3, <1>4

LEMMA EncodedNext ==
  ASSUME NEW msgs \in Seq(Seq(Bytes)), NEW k \in 0 .. Len(msgs), k < Len(msgs)
  PROVE  LET e == EncodeWithLengthPrefix(msgs[k + 1])
         IN  \E rest \in Seq(Bytes) :
               /\ e \o rest \in Seq(Bytes)
               /\ Encoded(msgs, Len(msgs)) = Encoded(msgs, k) \o (e \o rest)
               /\ Encoded(msgs, Len(msgs)) = Encoded(msgs, k + 1) \o rest
  <1> DEFINE e == EncodeWithLengthPrefix(msgs[k + 1])
  <1>1. k + 1 \in 0 .. Len(msgs) /\ k + 1 \in 1 .. Len(msgs)
    OBVIOUS
  <1>2. e \in Seq(Bytes) /\ Encoded(msgs, k) \in Seq(Bytes)
    BY <1>1, MessageBytes, EncodedStep
  <1>3. Encoded(msgs, k + 1) = Encoded(msgs, k) \o e
    BY EncodedStep
  <1>4. PICK rest \in Seq(Bytes) : Encoded(msgs, Len(msgs)) = Encoded(msgs, k + 1) \o rest
    BY <1>1, EncodedPrefix
  <1> HIDE DEF e
  <1>5. (Encoded(msgs, k) \o e) \o rest = Encoded(msgs, k) \o (e \o rest)
    BY <1>2, Associative, SMTT(30)
  <1>6. e \o rest \in Seq(Bytes)
    BY <1>2
  <1> QED
    BY <1>3, <1>4, <1>5, <1>6 DEF e

\* After the bytes of k messages come those of the next, or nothing.
LEMMA NextMessage ==
  ASSUME NEW msgs \in Seq(Seq(Bytes)), NEW k \in 0 .. Len(msgs), NEW left \in Seq(Bytes),
         Encoded(msgs, k) \o left = Encoded(msgs, Len(msgs))
  PROVE  /\ k = Len(msgs) => left = << >>
         /\ k < Len(msgs) =>
              \E rest \in Seq(Bytes) :
                /\ left = EncodeWithLengthPrefix(msgs[k + 1]) \o rest
                /\ Encoded(msgs, k + 1) \o rest = Encoded(msgs, Len(msgs))
  <1>1. Encoded(msgs, k) \in Seq(Bytes)
    BY EncodedStep
  <1>2. ASSUME k = Len(msgs)
        PROVE  left = << >>
    <2>1. Encoded(msgs, k) \o left = Encoded(msgs, k) \o << >> /\ << >> \in Seq(Bytes)
      BY <1>1, <1>2
    <2> QED
      BY <1>1, <2>1, Cancel
  <1>3. ASSUME k < Len(msgs)
        PROVE  \E rest \in Seq(Bytes) :
                 /\ left = EncodeWithLengthPrefix(msgs[k + 1]) \o rest
                 /\ Encoded(msgs, k + 1) \o rest = Encoded(msgs, Len(msgs))
    <2> DEFINE e == EncodeWithLengthPrefix(msgs[k + 1])
    <2>1. PICK rest \in Seq(Bytes) :
            /\ e \o rest \in Seq(Bytes)
            /\ Encoded(msgs, Len(msgs)) = Encoded(msgs, k) \o (e \o rest)
            /\ Encoded(msgs, Len(msgs)) = Encoded(msgs, k + 1) \o rest
      BY <1>3, EncodedNext
    <2> HIDE DEF e
    <2>2. left = e \o rest
      BY <1>1, <2>1, Cancel
    <2> QED
      BY <2>1, <2>2 DEF e
  <1> QED
    BY <1>2, <1>3

-----------------------------------------------------------------------------
(* The inductive invariant.                                                *)

\* What the parser has not read of the buffer.
Unread == IF phase = "parse" THEN SubSeq(buffer, offset, Len(buffer)) ELSE buffer

\* The bytes of the messages handled, those not read and those on the wire are
\* the bytes of the messages sent.
NothingSkipped ==
  ~Damaged =>
    /\ Len(handled) <= Len(sent)
    /\ \A i \in 1 .. Len(handled) : handled[i] = sent[i]
    /\ Encoded(sent, Len(handled)) \o (Unread \o wire) = Encoded(sent, Len(sent))
    /\ phase = "trim" => offset = 1

\* Between chunks the buffer does not hold all of the next message.
NothingLeftBehind ==
  ~Damaged /\ phase # "parse" /\ Len(handled) < Len(sent) =>
    Len(buffer) < Len(EncodeWithLengthPrefix(sent[Len(handled) + 1]))

IInv == TypeOK /\ NothingSkipped /\ NothingLeftBehind

\* When all bytes have been delivered and parsed, all messages have been handled.
EverythingHandled ==
  ~Damaged /\ phase = "await" /\ wire = << >> => handled = sent

LEMMA InitInv == Init => IInv
  <1> SUFFICES ASSUME Init PROVE IInv
    OBVIOUS
  <1>1. sent \in Seq(Seq(Bytes))
    <2>1. PICK n \in 0 .. MaxMessages : sent \in [1 .. n -> Payloads]
      BY DEF Init, BoundedSeq, SeqOf
    <2>2. n \in Nat
      BY <2>1, FramingAssumption
    <2> QED
      BY <2>1, <2>2, FramingAssumption
  <1>2. wire = Encoded(sent, Len(sent))
    <2>1. DOMAIN sent = 1 .. Len(sent)
      BY <1>1
    <2> QED
      BY <2>1 DEF Init, Encoded
  <1>3. Encoded(sent, 0) = << >> /\ wire \in Seq(Bytes)
    <2>1. 0 \in 0 .. Len(sent) /\ Len(sent) \in 0 .. Len(sent)
      BY <1>1
    <2> QED
      BY <1>1, <1>2, <2>1, EncodedStep
  <1> DEFINE start == buffer = << >> /\ offset = 1 /\ phase = "await" /\ handled = << >>
                      /\ straddled = FALSE /\ listed = FALSE
  <1>0. start
    BY DEF Init
  <1>4. TypeOK
    <2>1. << >> \in Seq(Bytes) /\ << >> \in Seq(Seq(Bytes)) /\ 1 \in Nat \ {0}
      OBVIOUS
    <2>2. phase # "parse" /\ phase \in {"await", "parse", "trim"} /\ straddled \in BOOLEAN
          /\ listed \in BOOLEAN
      BY <1>0
    <2> QED
      BY <1>1, <1>3, <1>0, <2>1, <2>2 DEF TypeOK
  <1>5. NothingSkipped
    <2>1. << >> \o (<< >> \o wire) = wire
      BY <1>3
    <2>2. Len(handled) = 0 /\ Len(handled) <= Len(sent) /\ 1 .. Len(handled) = {}
      BY <1>1, <1>0
    <2>3. Encoded(sent, Len(handled)) \o (Unread \o wire) = Encoded(sent, Len(sent))
      BY <1>2, <1>3, <1>0, <2>1, <2>2 DEF Unread
    <2> QED
      BY <1>0, <2>2, <2>3 DEF NothingSkipped
  <1>6. NothingLeftBehind
    <2>1. ASSUME Len(handled) < Len(sent)
          PROVE  Len(buffer) < Len(EncodeWithLengthPrefix(sent[Len(handled) + 1]))
      <3>1. handled = << >> /\ buffer = << >>
        BY <1>0
      <3>2. sent[1] \in Seq(Bytes)
        BY <1>1, <2>1, <3>1
      <3> DEFINE e == EncodeWithLengthPrefix(sent[1])
      <3>3. e \in Seq(Bytes) /\ Len(e) >= 1
        BY <3>2, MessageBytes
      <3> HIDE DEF e
      <3>4. Len(buffer) < Len(e)
        BY <3>1, <3>3
      <3> QED
        BY <3>1, <3>4 DEF e
    <2> QED
      BY <2>1 DEF NothingLeftBehind
  <1> QED
    BY <1>4, <1>5, <1>6 DEF IInv

\* The parser reads numbers.
LEMMA ReadTypes ==
  ASSUME NEW buf \in Seq(Bytes), NEW at \in 1 .. Len(buf)
  PROVE  VarintLength(buf, at) \in Nat \ {0} /\ VarintValue(buf, at) \in Nat
  <1>1. at \in 1 .. Len(buf) + 1
    OBVIOUS
  <1>2. VarintValue(buf, at) \in Nat
    <2>1. PICK f \in [1 .. Len(buf) + 1 -> Nat] :
            \A i \in 1 .. Len(buf) + 1 : VarintValue(buf, i) = f[i]
      BY VarintValueIs
    <2> QED
      BY <1>1, <2>1
  <1>3. VarintLength(buf, at) \in Nat \ {0}
    <2> DEFINE S == {i \in at .. Len(buf) : buf[i] < Radix} \cup {Len(buf) + 1}
    <2>1. S \in SUBSET Nat /\ S # {} /\ \A i \in S : at <= i
      OBVIOUS
    <2>2. \E i \in S : \A j \in S : i <= j
      <3> HIDE DEF S
      <3> DEFINE Good == Nat \ S
      <3>1. ASSUME \A i \in S : \E j \in S : ~(i <= j)
            PROVE  FALSE
        <4>1. \A n \in Nat : (\A k \in Nat : k < n => k \in Good) => n \in Good
          BY <2>1, <3>1
        <4>2. Good = Nat
          <5>1. Good \in SUBSET Nat
            OBVIOUS
          <5> HIDE DEF Good
          <5> QED
            BY <4>1, <5>1, Induction
        <4> QED
          BY <2>1, <4>2
      <3> QED
        BY <3>1
    <2>3. Min(S) \in S
      <3> HIDE DEF S
      <3> QED
        BY <2>2 DEF Min
    <2>4. Min(S) \in Nat /\ at <= Min(S)
      <3> HIDE DEF S
      <3> QED
        BY <2>1, <2>3
    <2>5. VarintLength(buf, at) = 1 + Min(S) - at
      BY DEF VarintLength
    <2> HIDE DEF S
    <2> QED
      BY <2>4, <2>5
  <1> QED
    BY <1>2, <1>3

\* A list spread into numbers is bytes, if not those of the list.
LEMMA SpreadIsBytes ==
  ASSUME wire \in Seq(Bytes), NEW n \in 1 .. Len(wire), NEW ends \in Lists(n)
  PROVE  SpreadList(ArraysOf(ends)) \in Seq(Bytes)
  <1>1. PICK k \in 1 .. MaxArrays :
          /\ ends \in [1 .. k -> 0 .. n]
          /\ \A i \in 2 .. k : ends[i - 1] <= ends[i]
    BY DEF Lists
  <1>2. k \in Nat /\ DOMAIN ends = 1 .. k
    BY <1>1, FramingAssumption
  <1> DEFINE spread == SpreadList(ArraysOf(ends))
  <1>3. ASSUME NEW i \in 1 .. k
        PROVE  spread[i] \in Bytes
    <2> DEFINE from == IF i = 1 THEN 1 ELSE ends[i - 1] + 1
               array == SubSeq(wire, from, ends[i])
    <2>1. spread[i] = IF Len(array) = 1 THEN array[1] ELSE 0
      BY <1>2 DEF SpreadList, ArraysOf
    <2>2. from \in Nat /\ from >= 1 /\ ends[i] \in Nat /\ ends[i] <= Len(wire)
      <3>1. ends[i] \in 0 .. n /\ n <= Len(wire) /\ Len(wire) \in Nat
        BY <1>1
      <3>2. i # 1 => ends[i - 1] \in 0 .. n
        BY <1>1
      <3> QED
        BY <3>1, <3>2
    <2> HIDE DEF from
    <2>3. array \in Seq(Bytes)
      BY <2>2
    <2> HIDE DEF array, spread
    <2>4. Len(array) = 1 => array[1] \in Bytes
      <3>1. array \in [1 .. Len(array) -> Bytes]
        BY <2>3
      <3> QED
        BY <3>1
    <2>5. 0 \in Bytes
      BY FramingAssumption DEF Bytes
    <2> QED
      BY <2>1, <2>4, <2>5
  <1>4. spread = [i \in 1 .. k |-> spread[i]]
    BY <1>2 DEF SpreadList, ArraysOf
  <1> HIDE DEF spread
  <1>5. spread \in [1 .. k -> Bytes]
    BY <1>3, <1>4
  <1>6. spread \in Seq(Bytes)
    BY <1>2, <1>5
  <1> QED
    BY <1>6 DEF spread

LEMMA TypeInductive ==
  ASSUME TypeOK, [Next]_vars
  PROVE  TypeOK'
  <1> USE DEF TypeOK
  <1>1. ASSUME NEW n \in 1 .. Len(wire), Chunk(n)
        PROVE  TypeOK'
    <2>1. SubSeq(wire, 1, n) \in Seq(Bytes) /\ SubSeq(wire, n + 1, Len(wire)) \in Seq(Bytes)
      BY <1>1
    <2>2. buffer' \in Seq(Bytes)
      BY <1>1, <2>1 DEF Chunk, Receive
    <2> QED
      BY <1>1, <2>1, <2>2 DEF Chunk, Receive
  <1>6. ASSUME NEW n \in 1 .. Len(wire), ListChunk(n)
        PROVE  TypeOK'
    <2>1. PICK ends \in Lists(n) : Receive(n, SpreadList(ArraysOf(ends)))
      BY <1>6 DEF ListChunk
    <2>2. SpreadList(ArraysOf(ends)) \in Seq(Bytes)
      BY <2>1, SpreadIsBytes
    <2>3. SubSeq(wire, n + 1, Len(wire)) \in Seq(Bytes)
      BY <1>6
    <2>4. buffer' \in Seq(Bytes)
      BY <2>1, <2>2 DEF Receive
    <2>5. listed'
      BY <1>6 DEF ListChunk
    <2> QED
      BY <2>1, <2>3, <2>4, <2>5 DEF Receive
  <1>2. CASE StopAtIncomplete
    <2>1. SubSeq(buffer, offset, Len(buffer)) \in Seq(Bytes)
      BY <1>2 DEF StopAtIncomplete
    <2> QED
      BY <1>2, <2>1 DEF StopAtIncomplete
  <1>3. CASE HandleMessage
    <2> DEFINE from == offset + VarintLength(buffer, offset)
               to == from + VarintValue(buffer, offset)
    <2>1. VarintLength(buffer, offset) \in Nat \ {0} /\ VarintValue(buffer, offset) \in Nat
      BY <1>3, ReadTypes DEF HandleMessage
    <2>2. from \in Nat /\ to \in Nat \ {0} /\ from >= 1 /\ to <= Len(buffer) + 1
      BY <1>3, <2>1 DEF HandleMessage, Incomplete
    <2>3. SubSeq(buffer, from, to - 1) \in Seq(Bytes)
      <3> HIDE DEF from, to
      <3> QED
        BY <2>2
    <2>4. handled' = Append(handled, SubSeq(buffer, from, to - 1)) /\ offset' = to
      BY <1>3 DEF HandleMessage
    <2> HIDE DEF from, to
    <2>5. handled' \in Seq(Seq(Bytes)) /\ offset' \in Nat \ {0} /\ offset' <= Len(buffer) + 1
      BY <2>2, <2>3, <2>4
    <2>6. UNCHANGED <<sent, wire, buffer, phase, straddled, listed>>
      BY <1>3 DEF HandleMessage
    <2> QED
      BY <2>5, <2>6
  <1>4. CASE Trim
    <2>1. offset <= Len(buffer) => SubSeq(buffer, offset, Len(buffer)) \in Seq(Bytes)
      OBVIOUS
    <2> QED
      BY <1>4, <2>1 DEF Trim
  <1>5. CASE UNCHANGED vars
    BY <1>5 DEF vars
  <1> QED
    BY <1>1, <1>2, <1>3, <1>4, <1>5, <1>6 DEF Next, Deliver, ReadLoop

LEMMA DropPrefix ==
  ASSUME NEW A, NEW a \in Seq(A), NEW b \in Seq(A), NEW c \in Seq(A), NEW d \in Seq(A)
  PROVE  a \o b = c \o d /\ Len(c) <= Len(a) => SubSeq(a, Len(c) + 1, Len(a)) \o b = d
  <1> DEFINE tail == SubSeq(a, Len(c) + 1, Len(a))
  <1>1. Len(a) \in Nat /\ Len(c) \in Nat
    OBVIOUS
  <1>2. /\ tail \in Seq(A)
        /\ Len(c) <= Len(a) => Len(tail) = Len(a) - Len(c)
        /\ \A i \in 1 .. Len(tail) : tail[i] = a[Len(c) + i]
    OBVIOUS
  <1> HIDE DEF tail
  <1>3. (c \o tail) \o b = c \o (tail \o b) /\ tail \o b \in Seq(A)
    BY <1>2, Associative, SMTT(20)
  <1> SUFFICES ASSUME a \o b = c \o d, Len(c) <= Len(a)
               PROVE  tail \o b = d
    BY DEF tail
  <1>4. ASSUME NEW i \in 1 .. Len(a)
        PROVE  a[i] = (c \o tail)[i]
    <2>1. CASE i <= Len(c)
      <3>1. (a \o b)[i] = a[i] /\ (c \o d)[i] = c[i]
        BY <2>1
      <3>2. (c \o tail)[i] = c[i]
        BY <1>2, <2>1
      <3> QED
        BY <3>1, <3>2
    <2>2. CASE i > Len(c)
      <3>1. i - Len(c) \in 1 .. Len(tail) /\ Len(c) + (i - Len(c)) = i
        BY <1>1, <1>2, <2>2
      <3>2. tail[i - Len(c)] = a[i]
        BY <1>2, <3>1
      <3>3. (c \o tail)[i] = tail[i - Len(c)]
        BY <1>2, <2>2, <3>1
      <3> QED
        BY <3>2, <3>3
    <2>3. i <= Len(c) \/ i > Len(c)
      BY <1>1
    <2> QED
      BY <2>1, <2>2, <2>3
  <1>5. a = c \o tail
    <2>1. c \o tail \in Seq(A) /\ Len(c \o tail) = Len(a)
      BY <1>1, <1>2
    <2> QED
      BY <1>4, <2>1, SeqEqual
  <1>6. c \o (tail \o b) = c \o d
    BY <1>3, <1>5
  <1> QED
    BY <1>3, <1>6, Cancel

\* What one round of the loop finds in the buffer: the beginning of the next
\* message, and all of it unless it is found incomplete.
LEMMA RoundReads ==
  ASSUME TypeOK, NothingSkipped, ~Damaged, phase = "parse", offset <= Len(buffer)
  PROVE  LET k == Len(handled)
             m == EncodeWithLengthPrefix(sent[k + 1])
             from == offset + VarintLength(buffer, offset)
             to == from + VarintValue(buffer, offset)
         IN  /\ k < Len(sent)
             /\ m \in Seq(Bytes)
             /\ Incomplete <=> offset + Len(m) > Len(buffer) + 1
             /\ ~Incomplete =>
                  /\ to = offset + Len(m)
                  /\ SubSeq(buffer, from, to - 1) = sent[k + 1]
                  /\ Encoded(sent, k + 1) \o (SubSeq(buffer, to, Len(buffer)) \o wire)
                       = Encoded(sent, Len(sent))
  <1> DEFINE k == Len(handled)
             m == EncodeWithLengthPrefix(sent[k + 1])
             from == offset + VarintLength(buffer, offset)
             to == from + VarintValue(buffer, offset)
             u == SubSeq(buffer, offset, Len(buffer))
  <1>1. /\ sent \in Seq(Seq(Bytes)) /\ wire \in Seq(Bytes) /\ buffer \in Seq(Bytes)
        /\ offset \in 1 .. Len(buffer)
        /\ k \in 0 .. Len(sent)
    BY DEF TypeOK, NothingSkipped
  <1>2. /\ u \in Seq(Bytes) /\ Len(u) = Len(buffer) + 1 - offset
        /\ \A i \in 1 .. Len(u) : u[i] = buffer[offset + i - 1]
    BY <1>1
  <1>3. Encoded(sent, k) \o (u \o wire) = Encoded(sent, Len(sent))
    BY DEF NothingSkipped, Unread
  <1> HIDE DEF u, k
  <1>4. u \o wire \in Seq(Bytes) /\ u \o wire # << >>
    <2>1. Len(u) \in Nat /\ Len(u) >= 1
      BY <1>1, <1>2
    <2>2. u \in Seq(Bytes) /\ wire \in Seq(Bytes)
      BY <1>1, <1>2
    <2>3. u \o wire \in Seq(Bytes) /\ Len(u \o wire) = Len(u) + Len(wire)
      BY <2>2, ConcatProperties
    <2> QED
      BY <2>1, <2>2, <2>3
  <1>5. k < Len(sent)
    <2>1. k # Len(sent)
      BY <1>1, <1>3, <1>4, NextMessage
    <2> QED
      BY <1>1, <2>1
  <1>6. sent[k + 1] \in Seq(Bytes)
    BY <1>1, <1>5
  <1>7. m \in Seq(Bytes)
    BY <1>6, MessageBytes
  <1>8. PICK rest \in Seq(Bytes) :
          u \o wire = m \o rest /\ Encoded(sent, k + 1) \o rest = Encoded(sent, Len(sent))
    BY <1>1, <1>3, <1>4, <1>5, NextMessage
  <1>9. \A i \in 1 .. Len(m) : offset + i - 1 <= Len(buffer) => buffer[offset + i - 1] = m[i]
    <2> HIDE DEF m
    <2>1. ASSUME NEW i \in 1 .. Len(m), offset + i - 1 <= Len(buffer)
          PROVE  buffer[offset + i - 1] = m[i]
      <3>1. i \in 1 .. Len(u)
        BY <1>1, <1>2, <2>1
      <3>2. (u \o wire)[i] = u[i]
        BY <1>1, <1>2, <3>1
      <3>3. (m \o rest)[i] = m[i]
        BY <1>7
      <3> QED
        BY <1>2, <1>8, <3>1, <3>2, <3>3
    <2> QED
      BY <2>1
  <1>10. /\ to > Len(buffer) + 1 <=> offset + Len(m) > Len(buffer) + 1
         /\ offset + Len(m) <= Len(buffer) + 1 =>
              to = offset + Len(m) /\ SubSeq(buffer, from, to - 1) = sent[k + 1]
    BY <1>1, <1>6, <1>9, MessageRoundTrip
  <1>11. Incomplete <=> to > Len(buffer) + 1
    BY DEF Incomplete
  <1> HIDE DEF m, from, to
  <1>12. ASSUME ~Incomplete
         PROVE  /\ to = offset + Len(m)
                /\ SubSeq(buffer, from, to - 1) = sent[k + 1]
                /\ Encoded(sent, k + 1) \o (SubSeq(buffer, to, Len(buffer)) \o wire)
                     = Encoded(sent, Len(sent))
    <2>1. offset + Len(m) <= Len(buffer) + 1
      BY <1>1, <1>7, <1>10, <1>11, <1>12
    <2>2. SubSeq(u, Len(m) + 1, Len(u)) \o wire = rest
      <3>1. Len(m) <= Len(u)
        BY <1>1, <1>2, <1>7, <2>1
      <3> QED
        BY <1>1, <1>2, <1>7, <1>8, <3>1, DropPrefix
    <2>3. SubSeq(u, Len(m) + 1, Len(u)) = SubSeq(buffer, to, Len(buffer))
      <3> DEFINE x == SubSeq(u, Len(m) + 1, Len(u))
                 y == SubSeq(buffer, to, Len(buffer))
      <3>1. /\ Len(m) \in Nat /\ to = offset + Len(m) /\ to \in Nat /\ to >= 1
            /\ to <= Len(buffer) + 1 /\ Len(m) <= Len(u) /\ Len(u) \in Nat /\ Len(buffer) \in Nat
        BY <1>1, <1>2, <1>7, <1>10, <2>1
      <3>2. x \in Seq(Bytes) /\ Len(x) = Len(u) - Len(m)
        <4>1. Len(m) + 1 \in 1 .. Len(u) + 1
          BY <3>1
        <4> QED
          BY <1>2, <3>1, <4>1
      <3>3. y \in Seq(Bytes) /\ Len(y) = Len(buffer) + 1 - to
        <4>1. to \in 1 .. Len(buffer) + 1 /\ buffer \in Seq(Bytes)
          BY <1>1, <3>1
        <4>2. y \in Seq(Bytes)
          BY <4>1
        <4>3. Len(y) = IF to <= Len(buffer) THEN Len(buffer) - to + 1 ELSE 0
          BY <4>1, <3>1
        <4> QED
          BY <3>1, <4>1, <4>2, <4>3
      <3>4. ASSUME NEW i \in 1 .. Len(x)
            PROVE  x[i] = y[i]
        <4>1. x[i] = u[Len(m) + i] /\ Len(m) + i \in 1 .. Len(u)
          BY <1>2, <3>1, <3>2
        <4>2. u[Len(m) + i] = buffer[offset + (Len(m) + i) - 1]
          BY <1>2, <4>1
        <4>3. y[i] = buffer[to + i - 1]
          BY <1>1, <1>2, <3>1, <3>2, <3>3
        <4>4. offset + (Len(m) + i) - 1 = to + i - 1
          BY <1>1, <3>1
        <4> QED
          BY <4>1, <4>2, <4>3, <4>4
      <3>5. Len(x) = Len(y)
        BY <1>1, <1>2, <3>1, <3>2, <3>3
      <3> HIDE DEF x, y
      <3> QED
        BY <3>2, <3>3, <3>4, <3>5, SeqEqual DEF x, y
    <2> QED
      BY <1>8, <1>10, <2>1, <2>2, <2>3
  <1> QED
    BY <1>5, <1>7, <1>10, <1>11, <1>12 DEF k, m, from, to

LEMMA MoveBytes ==
  ASSUME NEW A, NEW a \in Seq(A), NEW b \in Seq(A), NEW n \in 1 .. Len(b)
  PROVE  LET got == SubSeq(b, 1, n)
             left == SubSeq(b, n + 1, Len(b))
         IN  /\ a \o got \in Seq(A)
             /\ (a \o got) \o left = a \o b
  <1> DEFINE got == SubSeq(b, 1, n)
             left == SubSeq(b, n + 1, Len(b))
  <1>0. \A x, y \in Seq(A) : (a \o x) \o y = a \o (x \o y)
    BY Associative, SMTT(30)
  <1>1. got \in Seq(A) /\ left \in Seq(A) /\ Len(got) = n /\ Len(left) = Len(b) - n
    OBVIOUS
  <1>2. ASSUME NEW i \in 1 .. Len(b)
        PROVE  (got \o left)[i] = b[i]
    <2>1. CASE i <= n
      <3>1. got[i] = b[i]
        BY <2>1
      <3> HIDE DEF got, left
      <3> QED
        BY <1>1, <2>1, <3>1
    <2>2. CASE i > n
      <3>1. i - n \in 1 .. Len(left) /\ (n + 1) + (i - n) - 1 = i
        BY <1>1, <2>2
      <3>2. left[i - n] = b[i]
        BY <1>1, <3>1
      <3> HIDE DEF got, left
      <3>3. (got \o left)[i] = left[i - n]
        BY <1>1, <2>2, <3>1, SMTT(20)
      <3> QED
        BY <3>2, <3>3
    <2> QED
      BY <2>1, <2>2
  <1> HIDE DEF got, left
  <1>3. got \o left \in Seq(A) /\ Len(got \o left) = Len(got) + Len(left)
    BY <1>1, ConcatProperties
  <1>4. got \o left = b
    <2>1. Len(got \o left) = Len(b)
      BY <1>1, <1>3
    <2> QED
      BY <1>2, <1>3, <2>1, SeqEqual
  <1>5. a \o got \in Seq(A) /\ (a \o got) \o left = a \o (got \o left)
    <2>1. got \in Seq(A) /\ left \in Seq(A)
      BY <1>1
    <2>2. (a \o got) \o left = a \o (got \o left)
      BY <1>0, <2>1
    <2> QED
      BY <2>1, <2>2, ConcatProperties
  <1> QED
    BY <1>4, <1>5 DEF got, left

\* A chunk moves bytes from the wire to the end of the buffer.
LEMMA ChunkKeeps ==
  ASSUME IInv, NEW n \in 1 .. Len(wire), Chunk(n)
  PROVE  NothingSkipped' /\ NothingLeftBehind'
  <1> DEFINE got == SubSeq(wire, 1, n)
             left == SubSeq(wire, n + 1, Len(wire))
  <1>1. buffer \in Seq(Bytes) /\ wire \in Seq(Bytes)
    BY DEF IInv, TypeOK
  <1>2. buffer \o got \in Seq(Bytes) /\ (buffer \o got) \o left = buffer \o wire
    BY <1>1, MoveBytes
  <1>3. /\ buffer' = buffer \o got /\ wire' = left /\ offset' = 1 /\ phase' = "parse"
        /\ UNCHANGED <<sent, handled, straddled, listed>>
        /\ phase = "await"
    BY DEF Chunk, Receive
  <1> HIDE DEF got, left
  <1>4. Unread' \o wire' = Unread \o wire
    <2>1. Unread = buffer
      BY <1>3 DEF Unread
    <2>2. SubSeq(buffer \o got, 1, Len(buffer \o got)) = buffer \o got
      BY <1>2, SubSeqFull
    <2>3. Unread' = buffer \o got
      BY <1>3, <2>2 DEF Unread
    <2> QED
      BY <1>2, <1>3, <2>1, <2>3
  <1>5. NothingSkipped'
    BY <1>3, <1>4 DEF IInv, NothingSkipped, Damaged
  <1>6. NothingLeftBehind'
    BY <1>3 DEF NothingLeftBehind
  <1> QED
    BY <1>5, <1>6

\* An incomplete message at the beginning of the buffer stays there.
LEMMA StopKeeps ==
  ASSUME IInv, StopAtIncomplete
  PROVE  NothingSkipped' /\ NothingLeftBehind'
  <1> SUFFICES ASSUME ~Damaged' PROVE NothingSkipped' /\ NothingLeftBehind'
    BY DEF NothingSkipped, NothingLeftBehind
  <1>1. /\ phase = "parse" /\ offset <= Len(buffer) /\ Incomplete /\ phase' = "trim"
        /\ buffer' = SubSeq(buffer, offset, Len(buffer))
        /\ straddled' = (straddled \/ offset > 1)
        /\ UNCHANGED <<sent, wire, offset, handled, listed>>
    BY DEF StopAtIncomplete
  <1>2. buffer \in Seq(Bytes) /\ ~Damaged /\ offset = 1
    <2>1. ~straddled /\ ~listed /\ ~(offset > 1)
      BY <1>1 DEF Damaged
    <2> QED
      BY <2>1 DEF IInv, TypeOK, Damaged
  <1> DEFINE m == EncodeWithLengthPrefix(sent[Len(handled) + 1])
  <1>3. m \in Seq(Bytes) /\ offset + Len(m) > Len(buffer) + 1
    BY <1>1, <1>2, RoundReads DEF IInv
  <1> HIDE DEF m
  <1>4. Len(buffer') < Len(m)
    <2>1. Len(buffer') = Len(buffer)
      BY <1>1, <1>2
    <2> QED
      BY <1>2, <1>3, <2>1
  <1>5. Unread' = Unread
    BY <1>1 DEF Unread
  <1>6. NothingSkipped'
    BY <1>1, <1>2, <1>5 DEF IInv, NothingSkipped
  <1>7. NothingLeftBehind'
    BY <1>1, <1>4 DEF NothingLeftBehind, m
  <1> QED
    BY <1>6, <1>7

\* The message handled is the next one sent.
LEMMA HandleKeeps ==
  ASSUME IInv, HandleMessage
  PROVE  NothingSkipped' /\ NothingLeftBehind'
  <1> DEFINE k == Len(handled)
             from == offset + VarintLength(buffer, offset)
             to == from + VarintValue(buffer, offset)
             msg == SubSeq(buffer, from, to - 1)
  <1>1. /\ phase = "parse" /\ offset <= Len(buffer) /\ ~Incomplete /\ phase' = "parse"
        /\ handled' = Append(handled, msg) /\ offset' = to
        /\ UNCHANGED <<sent, wire, buffer, straddled, listed>>
    BY DEF HandleMessage
  <1>2. NothingLeftBehind'
    BY <1>1 DEF NothingLeftBehind
  <1>3. ASSUME ~Damaged
        PROVE  NothingSkipped'
    <2>1. /\ k < Len(sent)
          /\ msg = sent[k + 1]
          /\ Encoded(sent, k + 1) \o (SubSeq(buffer, to, Len(buffer)) \o wire)
               = Encoded(sent, Len(sent))
      BY <1>1, <1>3, RoundReads DEF IInv
    <2> HIDE DEF from, to, msg
    <2>2. handled \in Seq(Seq(Bytes)) /\ k \in Nat
      BY DEF IInv, TypeOK
    <2>3. Len(handled') = k + 1 /\ \A i \in 1 .. k : handled'[i] = handled[i]
      BY <1>1, <2>2
    <2>4. handled'[k + 1] = sent[k + 1]
      BY <1>1, <2>1, <2>2
    <2>5. \A i \in 1 .. k : handled[i] = sent[i]
      BY <1>3 DEF IInv, NothingSkipped
    <2>6. \A i \in 1 .. k + 1 : i \in 1 .. k \/ i = k + 1
      BY <2>2
    <2>7. k + 1 <= Len(sent)
      <3>1. Len(sent) \in Nat
        BY DEF IInv, TypeOK
      <3> QED
        BY <2>1, <2>2, <3>1
    <2>8. Unread' = SubSeq(buffer, to, Len(buffer))
      BY <1>1 DEF Unread
    <2> HIDE DEF k
    <2>9. \A i \in 1 .. k + 1 : handled'[i] = sent[i]
      BY <2>3, <2>4, <2>5, <2>6
    <2> QED
      BY <1>1, <2>1, <2>3, <2>7, <2>8, <2>9 DEF NothingSkipped
  <1>4. ASSUME Damaged
        PROVE  NothingSkipped'
    <2>1. Damaged'
      BY <1>1, <1>4 DEF Damaged
    <2> QED
      BY <2>1 DEF NothingSkipped
  <1> QED
    BY <1>2, <1>3, <1>4

\* Cutting the buffer loses nothing where it begins with what was not read.
LEMMA TrimKeeps ==
  ASSUME IInv, Trim
  PROVE  NothingSkipped' /\ NothingLeftBehind'
  <1> SUFFICES ASSUME ~Damaged' PROVE NothingSkipped' /\ NothingLeftBehind'
    BY DEF NothingSkipped, NothingLeftBehind
  <1>1. /\ phase = "trim" \/ (phase = "parse" /\ offset > Len(buffer))
        /\ buffer' = IF offset <= Len(buffer) THEN SubSeq(buffer, offset, Len(buffer)) ELSE << >>
        /\ phase' = "await"
        /\ UNCHANGED <<sent, wire, offset, handled, straddled, listed>>
    BY DEF Trim
  <1>2. /\ buffer \in Seq(Bytes) /\ ~Damaged /\ sent \in Seq(Seq(Bytes))
        /\ handled \in Seq(Seq(Bytes)) /\ offset \in Nat
    BY <1>1 DEF IInv, TypeOK, Damaged
  <1>3. buffer' = Unread
    <2>1. CASE phase = "trim"
      <3>1. offset = 1
        BY <1>2, <2>1 DEF IInv, NothingSkipped
      <3>2. Len(buffer) >= 1 => SubSeq(buffer, 1, Len(buffer)) = buffer
        BY <1>2
      <3>3. ~(1 <= Len(buffer)) => buffer = << >>
        BY <1>2
      <3> QED
        BY <1>1, <2>1, <3>1, <3>2, <3>3 DEF Unread
    <2>2. CASE phase = "parse" /\ offset > Len(buffer)
      <3>1. ~(offset <= Len(buffer))
        BY <1>2, <2>2
      <3>2. SubSeq(buffer, offset, Len(buffer)) = << >>
        BY <1>2, <2>2
      <3> QED
        BY <1>1, <2>2, <3>1, <3>2 DEF Unread
    <2> QED
      BY <1>1, <2>1, <2>2
  <1>4. NothingSkipped'
    <2>1. Unread' = Unread
      BY <1>1, <1>3 DEF Unread
    <2> QED
      BY <1>1, <1>2, <2>1 DEF IInv, NothingSkipped
  <1>5. NothingLeftBehind'
    <2>1. SUFFICES ASSUME Len(handled) < Len(sent)
                   PROVE  Len(buffer') < Len(EncodeWithLengthPrefix(sent[Len(handled) + 1]))
      BY <1>1 DEF NothingLeftBehind
    <2> DEFINE m == EncodeWithLengthPrefix(sent[Len(handled) + 1])
    <2>2. CASE phase = "trim"
      <3>1. buffer' = buffer
        BY <1>3, <2>2 DEF Unread
      <3> QED
        BY <1>2, <2>1, <2>2, <3>1 DEF IInv, NothingLeftBehind
    <2>3. CASE phase = "parse" /\ offset > Len(buffer)
      <3>1. Len(buffer') = 0
        <4>1. ~(offset <= Len(buffer))
          BY <1>2, <2>3
        <4> QED
          BY <1>1, <4>1
      <3>2. sent[Len(handled) + 1] \in Seq(Bytes)
        BY <1>2, <2>1
      <3>3. m \in Seq(Bytes) /\ Len(m) >= 1
        BY <3>2, MessageBytes
      <3> HIDE DEF m
      <3>4. Len(buffer') < Len(m)
        BY <3>1, <3>3
      <3> QED
        BY <3>4 DEF m
    <2> QED
      BY <1>1, <2>2, <2>3
  <1> QED
    BY <1>4, <1>5

\* A chunk may end anywhere, in a length prefix too: the bytes handled, not read
\* and on the wire are those of the messages sent, unless a chunk straddled or was
\* a list.
THEOREM Invariance == Spec => []IInv
  <1>1. Init => IInv
    BY InitInv
  <1>2. IInv /\ [Next]_vars => IInv'
    <2> SUFFICES ASSUME IInv, [Next]_vars PROVE IInv'
      OBVIOUS
    <2>1. TypeOK'
      BY TypeInductive DEF IInv
    <2>2. ASSUME NEW n \in 1 .. Len(wire), Chunk(n)
          PROVE  IInv'
      BY <2>1, <2>2, ChunkKeeps DEF IInv
    <2>7. ASSUME NEW n \in 1 .. Len(wire), ListChunk(n)
          PROVE  IInv'
      <3>1. Damaged'
        BY <2>7 DEF ListChunk, Damaged
      <3> QED
        BY <2>1, <3>1 DEF IInv, NothingSkipped, NothingLeftBehind
    <2>3. CASE StopAtIncomplete
      BY <2>1, <2>3, StopKeeps DEF IInv
    <2>4. CASE HandleMessage
      BY <2>1, <2>4, HandleKeeps DEF IInv
    <2>5. CASE Trim
      BY <2>1, <2>5, TrimKeeps DEF IInv
    <2>6. CASE UNCHANGED vars
      BY <2>1, <2>6 DEF vars, IInv, NothingSkipped, NothingLeftBehind, Unread, Damaged
    <2> QED
      BY <2>2, <2>3, <2>4, <2>5, <2>6, <2>7 DEF Next, Deliver, ReadLoop
  <1> QED
    BY <1>1, <1>2, PTL DEF Spec

\* The buffer of _readLoop holds bytes and its offset stays within reach.
THEOREM TypeCorrect == Spec => []TypeOK
  BY Invariance, PTL DEF IInv

\* The messages given to _handleMessage are the first ones sent, cut where they
\* were cut, for any messages and any chunks, as long as each chunk was an array and
\* none straddled two messages; what the conversion of a list leaves is not sent by
\* anybody, and nothing is claimed of it.
THEOREM MessagesStayInOrder == Spec => []MessagesInOrder
  <1>1. IInv => MessagesInOrder
    <2> SUFFICES ASSUME IInv, ~Damaged PROVE IsPrefix(handled, sent)
      BY DEF MessagesInOrder
    <2>1. /\ handled \in Seq(Seq(Bytes)) /\ sent \in Seq(Seq(Bytes))
          /\ Len(handled) <= Len(sent) /\ \A i \in 1 .. Len(handled) : handled[i] = sent[i]
      BY DEF IInv, TypeOK, NothingSkipped
    <2>2. SubSeq(sent, 1, Len(handled)) = SubSeq(handled, 1, Len(handled))
      BY <2>1
    <2> QED
      BY <2>1, <2>2 DEF IsPrefix
  <1> QED
    BY <1>1, Invariance, PTL

\* The loop never waits for more bytes with a message complete in the buffer: once
\* everything was delivered, as arrays none of which straddled two messages, and
\* parsed, every message has been handled.
THEOREM NothingIsLeft == Spec => []EverythingHandled
  <1>1. IInv => EverythingHandled
    <2> SUFFICES ASSUME IInv, ~Damaged, phase = "await", wire = << >>
                 PROVE  handled = sent
      BY DEF EverythingHandled
    <2> DEFINE k == Len(handled)
               m == EncodeWithLengthPrefix(sent[k + 1])
    <2>1. /\ handled \in Seq(Seq(Bytes)) /\ sent \in Seq(Seq(Bytes))
          /\ k <= Len(sent) /\ \A i \in 1 .. k : handled[i] = sent[i]
          /\ buffer \in Seq(Bytes)
      BY DEF IInv, TypeOK, NothingSkipped
    <2>2. Encoded(sent, k) \o buffer = Encoded(sent, Len(sent))
      <3>1. Unread \o wire = buffer
        BY <2>1 DEF Unread
      <3> QED
        BY <3>1 DEF IInv, NothingSkipped
    <2>3. k \in 0 .. Len(sent)
      BY <2>1
    <2> HIDE DEF k
    <2>4. k = Len(sent)
      <3> SUFFICES ASSUME k < Len(sent) PROVE FALSE
        BY <2>1, <2>3
      <3>1. PICK rest \in Seq(Bytes) : buffer = m \o rest
        BY <2>1, <2>2, <2>3, NextMessage
      <3>2. m \in Seq(Bytes)
        <4>1. sent[k + 1] \in Seq(Bytes)
          BY <2>1, <2>3
        <4> QED
          BY <4>1, MessageBytes
      <3>3. Len(buffer) < Len(m)
        BY DEF IInv, NothingLeftBehind, k
      <3> HIDE DEF m
      <3>4. Len(m \o rest) = Len(m) + Len(rest) /\ Len(m) \in Nat /\ Len(rest) \in Nat
        BY <3>1, <3>2
      <3> QED
        BY <3>1, <3>3, <3>4
    <2> QED
      BY <2>1, <2>4, SeqEqual DEF k
  <1> QED
    BY <1>1, Invariance, PTL

=============================================================================
