----------------------------- MODULE ListLemmas -----------------------------
(***************************************************************************)
(* Induction over lists, and what folds over lists compute.                *)
(*                                                                         *)
(* The community modules define FoldLeft by the recursive function of      *)
(* MapThenFoldSet over the subsets of the positions, which CHOOSE picks.   *)
(* ListFold says what such a choice is, from the empty list on.  Where a   *)
(* theorem would take a property or a step as an operator these take the   *)
(* set of the things that have it, or the function that makes it; a proof  *)
(* about a model's fold shows Folds by expanding FoldLeft, and then works  *)
(* with the two equations and ListInduction.                               *)
(***************************************************************************)
EXTENDS Integers, Sequences, FiniteSets, SequencesExt, WellFoundedInduction,
        FiniteSetTheorems, TLAPS

(* Induction over a set of numbers: the library's theorem takes the        *)
(* property as an operator, this one takes the set of the numbers that have *)
(* it.                                                                     *)
LEMMA SetInduction ==
    ASSUME NEW T, 0 \in T, \A n \in Nat : n \in T => n + 1 \in T
    PROVE  Nat \subseteq T
<1> DEFINE Bad == Nat \ T
<1> SUFFICES ASSUME Bad # {} PROVE FALSE
  OBVIOUS
<1>1. PICK m \in Bad : \A y \in Bad : <<y, m>> \notin OpToRel(<, Nat)
  BY WFMin, NatLessThanWellFounded, Zenon
<1>2. m # 0 /\ m - 1 \in Nat /\ m \in Nat
  <2>1. m \in Nat /\ m \notin T
    OBVIOUS
  <2> QED BY <2>1
<1>3. \A y \in Bad : ~(y < m)
  BY <1>1, Zenon DEF OpToRel
<1> QED
  BY <1>2, <1>3, m - 1 + 1 = m

(* The same, from 0 to n.                                                  *)
LEMMA IntervalInduction ==
    ASSUME NEW n \in Nat, NEW T, 0 \in T, \A i \in 1 .. n : i - 1 \in T => i \in T
    PROVE  0 .. n \subseteq T
<1> DEFINE U == {i \in Nat : i \in 0 .. n => i \in T}
<1>1. 0 \in U
  OBVIOUS
<1>2. ASSUME NEW i \in Nat, i \in U PROVE i + 1 \in U
  <2> SUFFICES ASSUME i + 1 \in 0 .. n PROVE i + 1 \in T
    OBVIOUS
  <2>1. i + 1 \in 1 .. n /\ i + 1 - 1 = i /\ i \in 0 .. n
    OBVIOUS
  <2> QED BY <1>2, <2>1
<1>3. Nat \subseteq U
  <2> HIDE DEF U
  <2> QED BY <1>1, <1>2, SetInduction
<1> QED BY <1>3

(* The least of a set of naturals is one of them.                          *)
LEMMA Least ==
    ASSUME NEW S, S \subseteq Nat, S # {}
    PROVE  Min(S) \in S /\ \A x \in S : Min(S) =< x
<1>1. PICK m \in S : \A y \in S : m =< y
  <2> SUFFICES ASSUME \A m \in S : \E y \in S : y < m PROVE FALSE
    OBVIOUS
  <2> DEFINE T == {n \in Nat : \A x \in S : n < x}
  <2>1. 0 \in T
    OBVIOUS
  <2>2. ASSUME NEW n \in Nat, n \in T PROVE n + 1 \in T
    <3> SUFFICES ASSUME NEW x \in S, ~(n + 1 < x) PROVE FALSE
      OBVIOUS
    <3>1. PICK y \in S : y < x
      OBVIOUS
    <3> QED BY <2>2, <3>1
  <2>3. Nat \subseteq T
    <3> HIDE DEF T
    <3> QED BY <2>1, <2>2, SetInduction
  <2>4. PICK x \in S : TRUE
    OBVIOUS
  <2>5. x \in T
    BY <2>3
  <2>6. x < x
    BY <2>5
  <2> QED BY <2>6
<1> QED BY <1>1 DEF Min

(* And the greatest of a set of them that has a bound.                     *)
LEMMA Greatest ==
    ASSUME NEW n \in Nat, NEW S, S \subseteq 1 .. n, S # {}
    PROVE  Max(S) \in S /\ \A x \in S : x =< Max(S)
<1> DEFINE R == {n - x : x \in S}
<1>1. R \subseteq Nat /\ R # {}
  <2>1. \A x \in S : n - x \in Nat
    OBVIOUS
  <2>2. \E x \in S : n - x \in R
    OBVIOUS
  <2>3. ASSUME NEW r \in R PROVE r \in Nat
    <3>1. PICK x \in S : r = n - x
      OBVIOUS
    <3> QED BY <2>1, <3>1
  <2> QED BY <2>2, <2>3
<1>2. PICK r \in R : \A y \in R : r =< y
  <2> HIDE DEF R
  <2> QED BY <1>1, Least
<1>3. PICK x \in S : r = n - x
  BY <1>2
<1>4. \A y \in S : x >= y
  <2> SUFFICES ASSUME NEW y \in S PROVE x >= y
    OBVIOUS
  <2>1. r =< n - y
    BY <1>2
  <2>2. S \subseteq Nat
    OBVIOUS
  <2>3. x \in Nat /\ y \in Nat
    BY <2>2
  <2> QED BY <1>3, <2>1, <2>3
<1>5. \A y \in S : Max(S) >= y
  BY <1>4, Zenon DEF Max
<1>6. Max(S) \in S
  BY <1>4, Zenon DEF Max
<1> QED BY <1>5, <1>6

(* The greatest of a set that n bounds and belongs to is n.                *)
LEMMA MaxInterval ==
    ASSUME NEW n \in Nat, NEW t, t \subseteq 1 .. n, n \in t
    PROVE  Max(t) = n
<1>1. \A y \in t : n >= y
  OBVIOUS
<1>2. \A x \in t : (\A y \in t : x >= y) => x = n
  OBVIOUS
<1> QED BY <1>1, <1>2, Zenon DEF Max

(* Induction over lists: a set that holds the empty list, and with a list  *)
(* every list one longer, holds them all.                                  *)
LEMMA ListInduction ==
    ASSUME NEW E, NEW T, <<>> \in T,
           \A s \in Seq(E), e \in E : s \in T => Append(s, e) \in T
    PROVE  Seq(E) \subseteq T
<1> DEFINE U == {n \in Nat : \A s \in Seq(E) : Len(s) = n => s \in T}
<1>1. 0 \in U
  <2> SUFFICES ASSUME NEW s \in Seq(E), Len(s) = 0 PROVE s \in T
    OBVIOUS
  <2> QED BY s = <<>>
<1>2. ASSUME NEW n \in Nat, n \in U PROVE n + 1 \in U
  <2> SUFFICES ASSUME NEW s \in Seq(E), Len(s) = n + 1 PROVE s \in T
    OBVIOUS
  <2> DEFINE t == SubSeq(s, 1, n)
  <2>1. t \in Seq(E) /\ Len(t) = n /\ s[n + 1] \in E
    OBVIOUS
  <2>2. s = Append(t, s[n + 1])
    OBVIOUS
  <2>3. t \in T
    BY <1>2, <2>1
  <2> HIDE DEF t
  <2> QED BY <2>1, <2>2, <2>3
<1>3. Nat \subseteq U
  <2> HIDE DEF U
  <2> QED BY <1>1, <1>2, SetInduction
<1> QED
  <2> SUFFICES ASSUME NEW s \in Seq(E) PROVE s \in T
    OBVIOUS
  <2>1. Len(s) \in U
    BY <1>3
  <2> QED BY <2>1

(* The recursion by which MapThenFoldSet is defined, over sets of          *)
(* positions.                                                              *)
Recursion(g, start, G, s) ==
    \A t \in SUBSET DOMAIN s :
        g[t] = IF t = {} THEN start ELSE G[<<g[t \ {Max(t)}], s[Max(t)]>>]

(* There is a function that satisfies the recursion of a fold over a list. *)
LEMMA RecursionExists ==
    ASSUME NEW E, NEW A, NEW start \in A, NEW G \in [A \X E -> A], NEW s \in Seq(E)
    PROVE  \E g \in [SUBSET DOMAIN s -> A] : Recursion(g, start, G, s)
<1> DEFINE Good == {q \in Seq(E) : \E g \in [SUBSET DOMAIN q -> A] : Recursion(g, start, G, q)}
<1>1. <<>> \in Good
  <2> DEFINE g == [t \in SUBSET DOMAIN <<>> |-> start]
  <2>1. g \in [SUBSET DOMAIN <<>> -> A] /\ <<>> \in Seq(E)
    OBVIOUS
  <2>2. Recursion(g, start, G, <<>>)
    BY DEF Recursion
  <2> HIDE DEF g
  <2> QED BY <2>1, <2>2
<1>2. ASSUME NEW q \in Seq(E), NEW e \in E, q \in Good PROVE Append(q, e) \in Good
  <2>1. PICK g \in [SUBSET DOMAIN q -> A] : Recursion(g, start, G, q)
    BY <1>2
  <2> DEFINE m == Len(q) + 1
             p == Append(q, e)
             h == [t \in SUBSET DOMAIN p |->
                     IF m \in t THEN G[<<g[t \ {m}], e>>] ELSE g[t]]
  <2>2. /\ DOMAIN p = 1 .. m /\ DOMAIN q = 1 .. m - 1 /\ p \in Seq(E)
        /\ p[m] = e /\ \A i \in 1 .. m - 1 : p[i] = q[i]
    OBVIOUS
  <2>3. \A i \in 1 .. m : i # m => i \in 1 .. m - 1
    OBVIOUS
  <2>4. /\ \A t \in SUBSET (1 .. m) : t \ {m} \in SUBSET (1 .. m - 1)
        /\ \A t \in SUBSET (1 .. m) : m \notin t => t \in SUBSET (1 .. m - 1)
    <3> HIDE DEF m
    <3> QED BY <2>3
  <2> HIDE DEF p
  <2>5. h \in [SUBSET DOMAIN p -> A]
    BY <2>2, <2>4
  <2>6. ASSUME NEW t \in SUBSET DOMAIN p
        PROVE  h[t] = IF t = {} THEN start ELSE G[<<h[t \ {Max(t)}], p[Max(t)]>>]
    <3>1. CASE m \in t
      <4>1. Max(t) = m
        <5>1. t \subseteq 1 .. m /\ m \in Nat
          BY <2>2
        <5> HIDE DEF m
        <5> QED BY <3>1, <5>1, MaxInterval
      <4>2. h[t \ {m}] = g[t \ {m}]
        BY <2>2
      <4>3. h[t] = G[<<g[t \ {m}], e>>]
        BY <3>1
      <4> HIDE DEF h, m
      <4> QED BY <2>2, <3>1, <4>1, <4>2, <4>3
    <3>2. CASE m \notin t
      <4>1. t \in SUBSET (1 .. m - 1)
        BY <2>2, <2>4, <3>2
      <4>2. CASE t = {}
        BY <2>1, <2>2, <4>1, <4>2 DEF Recursion
      <4>3. CASE t # {}
        <5>1. g[t] = G[<<g[t \ {Max(t)}], q[Max(t)]>>]
          BY <2>1, <2>2, <4>1, <4>3 DEF Recursion
        <5>2. h[t] = g[t] /\ h[t \ {Max(t)}] = g[t \ {Max(t)}]
          BY <3>2
        <5>3. Max(t) \in t
          BY <4>1, <4>3, Greatest
        <5> QED BY <2>2, <5>1, <5>2, <5>3, <4>1, <4>3
      <4> QED BY <4>2, <4>3
    <3> QED BY <3>1, <3>2
  <2>7. \E f \in [SUBSET DOMAIN p -> A] : Recursion(f, start, G, p)
    <3> HIDE DEF h
    <3> QED BY <2>5, <2>6 DEF Recursion
  <2> QED BY <2>2, <2>7 DEF p
<1>3. Seq(E) \subseteq Good
  <2> HIDE DEF Good
  <2> QED BY <1>1, <1>2, ListInduction
<1> QED BY <1>3

(* A run of G over s from start.                                           *)
Run(f, A, start, G, s) ==
    /\ f \in [0 .. Len(s) -> A] /\ f[0] = start
    /\ \A i \in 1 .. Len(s) : f[i] = G[<<f[i - 1], s[i]>>]

(* On the prefixes of the domain such a function is a run of the fold.     *)
LEMMA RecursionRuns ==
    ASSUME NEW E, NEW A, NEW start \in A, NEW G \in [A \X E -> A], NEW s \in Seq(E),
           NEW g, g[{}] = start,
           \A m \in 1 .. Len(s) :
              g[1 .. m - 1] \in A => g[1 .. m] = G[<<g[1 .. m - 1], s[m]>>],
           NEW f, f = [m \in 0 .. Len(s) |-> g[1 .. m]]
    PROVE  Run(f, A, start, G, s)
<1> DEFINE T == {m \in 0 .. Len(s) : g[1 .. m] \in A}
<1>0. 1 .. 0 = {} /\ Len(s) \in Nat
  OBVIOUS
<1>1. 0 \in T
  BY <1>0
<1>2. ASSUME NEW m \in 1 .. Len(s), m - 1 \in T PROVE m \in T
  <2>1. g[1 .. m - 1] \in A /\ m \in 0 .. Len(s)
    BY <1>2
  <2>2. g[1 .. m] = G[<<g[1 .. m - 1], s[m]>>]
    BY <2>1
  <2>3. <<g[1 .. m - 1], s[m]>> \in A \X E
    BY <2>1
  <2>4. g[1 .. m] \in A
    BY <2>2, <2>3
  <2> QED BY <2>1, <2>4
<1>3. 0 .. Len(s) \subseteq T
  <2> HIDE DEF T
  <2> QED BY <1>0, <1>1, <1>2, IntervalInduction
<1>4. \A m \in 0 .. Len(s) : g[1 .. m] \in A
  BY <1>3
<1>5. f \in [0 .. Len(s) -> A] /\ f[0] = start
  BY <1>0, <1>4
<1>6. ASSUME NEW m \in 1 .. Len(s) PROVE f[m] = G[<<f[m - 1], s[m]>>]
  <2>1. m \in 0 .. Len(s) /\ m - 1 \in 0 .. Len(s)
    BY <1>0
  <2> QED BY <1>4, <2>1
<1> QED BY <1>5, <1>6 DEF Run

(* Two runs agree as far as their lists do.                                *)
LEMMA RunUnique ==
    ASSUME NEW A, NEW start, NEW G, NEW s, NEW q, NEW f, NEW h,
           Len(s) \in Nat, Len(q) \in 0 .. Len(s), \A i \in 1 .. Len(q) : q[i] = s[i],
           Run(f, A, start, G, s), Run(h, A, start, G, q)
    PROVE  f[Len(q)] = h[Len(q)]
<1> DEFINE T == {m \in 0 .. Len(q) : f[m] = h[m]}
<1>1. 0 \in T
  BY DEF Run
<1>2. ASSUME NEW m \in 1 .. Len(q), m - 1 \in T PROVE m \in T
  <2>1. m \in 1 .. Len(s) /\ m \in 0 .. Len(q)
    OBVIOUS
  <2>2. f[m] = G[<<f[m - 1], s[m]>>]
    BY <2>1 DEF Run
  <2>3. h[m] = G[<<h[m - 1], q[m]>>]
    BY DEF Run
  <2> QED BY <1>2, <2>1, <2>2, <2>3
<1>3. 0 .. Len(q) \subseteq T
  <2> HIDE DEF T
  <2> QED BY <1>1, <1>2, IntervalInduction, Len(q) \in Nat
<1>4. Len(q) \in T
  <2> HIDE DEF T
  <2> QED BY <1>3
<1> QED BY <1>4

(* P[s] is what MapThenFoldSet makes of the list s.                        *)
Folds(P, E, A, start, G) ==
    \A s \in Seq(E) : \E it :
        /\ P[s] = it[DOMAIN s]
        /\ it[{}] = start
        /\ \A t \in SUBSET DOMAIN s :
              t # {} /\ it[t \ {Max(t)}] \in A
              => it[t] = G[<<it[t \ {Max(t)}], s[Max(t)]>>]

(* What a fold over lists computes: the start for the empty list, and one  *)
(* step more for a list one longer.                                        *)
LEMMA ListFold ==
    ASSUME NEW E, NEW A, NEW start \in A, NEW G \in [A \X E -> A], NEW P,
           Folds(P, E, A, start, G)
    PROVE  /\ P[<<>>] = start
           /\ \A s \in Seq(E), e \in E : P[Append(s, e)] = G[<<P[s], e>>]
           /\ \A s \in Seq(E) : P[s] \in A
<1> DEFINE Result(s, v) == \E f : Run(f, A, start, G, s) /\ f[Len(s)] = v
           F == [s \in Seq(E) |-> CHOOSE v : Result(s, v)]
<1>1. ASSUME NEW s \in Seq(E) PROVE \E f : Run(f, A, start, G, s)
  <2>1. PICK g \in [SUBSET DOMAIN s -> A] : Recursion(g, start, G, s)
    BY RecursionExists
  <2>2. DOMAIN s = 1 .. Len(s) /\ Len(s) \in Nat
    OBVIOUS
  <2>3. g[{}] = start
    BY <2>1 DEF Recursion
  <2>4. ASSUME NEW m \in 1 .. Len(s) PROVE g[1 .. m] = G[<<g[1 .. m - 1], s[m]>>]
    <3>1. Max(1 .. m) = m
      BY MaxInterval, m \in Nat, m \in 1 .. m
    <3>2. (1 .. m) \ {m} = 1 .. m - 1 /\ 1 .. m # {}
      <4>1. \A i : i \in (1 .. m) \ {m} <=> i \in 1 .. m - 1
        BY m \in Nat
      <4>2. m \in 1 .. m
        BY m \in Nat
      <4> QED BY <4>1, <4>2
    <3>3. 1 .. m \in SUBSET DOMAIN s
      BY <2>2
    <3>4. g[1 .. m] = IF 1 .. m = {} THEN start
                      ELSE G[<<g[(1 .. m) \ {Max(1 .. m)}], s[Max(1 .. m)]>>]
      BY <2>1, <3>3 DEF Recursion
    <3> QED BY <3>1, <3>2, <3>4
  <2>5. \A m \in 1 .. Len(s) :
            g[1 .. m - 1] \in A => g[1 .. m] = G[<<g[1 .. m - 1], s[m]>>]
    BY <2>4
  <2> QED BY <2>3, <2>5, RecursionRuns
<1>2. ASSUME NEW s \in Seq(E), NEW f, Run(f, A, start, G, s) PROVE F[s] = f[Len(s)]
  <2>1. Result(s, f[Len(s)])
    BY <1>2
  <2>2. ASSUME NEW v, Result(s, v) PROVE v = f[Len(s)]
    <3>1. PICK h : Run(h, A, start, G, s) /\ h[Len(s)] = v
      BY <2>2
    <3>2. Len(s) \in Nat /\ Len(s) \in 0 .. Len(s)
      OBVIOUS
    <3> QED BY <1>2, <3>1, <3>2, RunUnique
  <2>3. (CHOOSE v : Result(s, v)) = f[Len(s)]
    <3> HIDE DEF Result
    <3> QED BY <2>1, <2>2
  <2> QED BY <2>3
<1> HIDE DEF F
<1>3. ASSUME NEW s \in Seq(E) PROVE F[s] \in A
  <2>1. PICK f : Run(f, A, start, G, s)
    BY <1>1
  <2>2. f[Len(s)] \in A
    BY <2>1 DEF Run
  <2> QED BY <1>2, <2>1, <2>2
<1>4. F \in [Seq(E) -> A]
  <2> USE DEF F
  <2>1. \A s \in Seq(E) : F[s] \in A
    BY <1>3
  <2> QED BY <2>1
<1>5. F[<<>>] = start
  <2>1. PICK f : Run(f, A, start, G, <<>>)
    BY <1>1, <<>> \in Seq(E)
  <2>2. f[Len(<<>>)] = start
    BY <2>1, Len(<<>>) = 0 DEF Run
  <2> QED BY <1>2, <2>1, <2>2, <<>> \in Seq(E)
<1>6. ASSUME NEW s \in Seq(E), NEW e \in E PROVE F[Append(s, e)] = G[<<F[s], e>>]
  <2> DEFINE p == Append(s, e)
             n == Len(s)
  <2>1. /\ p \in Seq(E) /\ Len(p) = n + 1 /\ p[n + 1] = e /\ n \in Nat
        /\ n \in 0 .. Len(p) /\ \A i \in 1 .. n : s[i] = p[i]
    OBVIOUS
  <2>2. PICK f : Run(f, A, start, G, s)
    BY <1>1
  <2>3. PICK h : Run(h, A, start, G, p)
    BY <1>1, <2>1
  <2> HIDE DEF p
  <2>4. h[n] = f[n]
    <3>1. Len(p) \in Nat
      BY <2>1
    <3> QED BY <2>1, <2>2, <2>3, <3>1, RunUnique
  <2>5. h[n + 1] = G[<<h[n], e>>]
    <3>1. n + 1 \in 1 .. Len(p) /\ n + 1 - 1 = n
      BY <2>1
    <3> QED BY <2>1, <2>3, <3>1 DEF Run
  <2>6. F[p] = h[n + 1]
    BY <1>2, <2>1, <2>3
  <2>7. F[s] = f[n]
    BY <1>2, <2>2
  <2> QED BY <2>4, <2>5, <2>6, <2>7 DEF p
<1>7. ASSUME NEW s \in Seq(E), NEW g, g[{}] = start,
             \A m \in 1 .. Len(s) :
                g[1 .. m - 1] \in A => g[1 .. m] = G[<<g[1 .. m - 1], s[m]>>]
      PROVE  g[1 .. Len(s)] = F[s]
  <2> DEFINE f == [m \in 0 .. Len(s) |-> g[1 .. m]]
  <2>1. Run(f, A, start, G, s)
    <3>1. f = [m \in 0 .. Len(s) |-> g[1 .. m]]
      OBVIOUS
    <3> HIDE DEF f
    <3> QED BY <1>7, <3>1, RecursionRuns
  <2>2. F[s] = f[Len(s)]
    <3> HIDE DEF f
    <3> QED BY <1>2, <2>1
  <2>3. Len(s) \in 0 .. Len(s)
    OBVIOUS
  <2> QED BY <2>2, <2>3
<1>8. ASSUME NEW s \in Seq(E) PROVE P[s] = F[s]
  <2>1. PICK it : /\ P[s] = it[DOMAIN s]
                  /\ it[{}] = start
                  /\ \A t \in SUBSET DOMAIN s :
                        t # {} /\ it[t \ {Max(t)}] \in A
                        => it[t] = G[<<it[t \ {Max(t)}], s[Max(t)]>>]
    BY DEF Folds
  <2>2. DOMAIN s = 1 .. Len(s) /\ Len(s) \in Nat
    OBVIOUS
  <2>3. ASSUME NEW m \in 1 .. Len(s), it[1 .. m - 1] \in A
        PROVE  it[1 .. m] = G[<<it[1 .. m - 1], s[m]>>]
    <3>1. m \in Nat /\ m \in 1 .. m /\ 1 .. m \subseteq 1 .. m
      BY <2>2
    <3>2. Max(1 .. m) = m
      BY <3>1, MaxInterval
    <3>3. (1 .. m) \ {m} = 1 .. m - 1 /\ 1 .. m \in SUBSET DOMAIN s
      BY <2>2, <3>1
    <3> QED BY <2>1, <2>3, <3>1, <3>2, <3>3
  <2>4. it[1 .. Len(s)] = F[s]
    BY <1>7, <2>1, <2>3
  <2> QED BY <2>1, <2>2, <2>4
<1>9. ASSUME NEW s \in Seq(E), NEW e \in E PROVE P[Append(s, e)] = G[<<P[s], e>>]
  <2>1. Append(s, e) \in Seq(E)
    OBVIOUS
  <2>2. P[Append(s, e)] = F[Append(s, e)] /\ P[s] = F[s]
    BY <1>8, <2>1
  <2> QED BY <1>6, <2>2
<1>10. P[<<>>] = start
  <2>1. <<>> \in Seq(E)
    OBVIOUS
  <2> QED BY <1>5, <1>8, <2>1
<1>11. ASSUME NEW s \in Seq(E) PROVE P[s] \in A
  BY <1>3, <1>8
<1> QED BY <1>9, <1>10, <1>11

(* Where a list one longer has its elements.                               *)
LEMMA AppendDomain ==
    ASSUME NEW E, NEW s \in Seq(E), NEW e \in E
    PROVE  /\ Append(s, e) \in Seq(E)
           /\ DOMAIN Append(s, e) = DOMAIN s \cup {Len(s) + 1}
           /\ \A i \in DOMAIN s : Append(s, e)[i] = s[i]
           /\ Append(s, e)[Len(s) + 1] = e
           /\ DOMAIN s = 1 .. Len(s) /\ Len(s) \in Nat /\ Len(s) + 1 \notin DOMAIN s
OBVIOUS

(* Where two lists put together have theirs.                               *)
LEMMA ConcatAt ==
    ASSUME NEW E, NEW s \in Seq(E), NEW t \in Seq(E)
    PROVE  /\ s \o t \in Seq(E) /\ Len(s \o t) = Len(s) + Len(t)
           /\ \A j \in 1 .. Len(s) : (s \o t)[j] = s[j]
           /\ \A j \in 1 .. Len(t) : (s \o t)[Len(s) + j] = t[j]
OBVIOUS

(* Lists of one length with the same elements are the same.                *)
LEMMA ListsEqual ==
    ASSUME NEW E, NEW s \in Seq(E), NEW t \in Seq(E), Len(s) = Len(t),
           \A j \in 1 .. Len(s) : s[j] = t[j]
    PROVE  s = t
OBVIOUS

(* The last of some positions of a list is one of its positions.           *)
LEMMA MaxOfDomain ==
    ASSUME NEW E, NEW s \in Seq(E), NEW t \in SUBSET DOMAIN s, t # {}
    PROVE  Max(t) \in DOMAIN s /\ s[Max(t)] \in E
<1>1. DOMAIN s = 1 .. Len(s) /\ Len(s) \in Nat
  OBVIOUS
<1>2. Max(t) \in t
  BY <1>1, Greatest
<1> QED BY <1>2

(* The members up to a number.                                             *)
UpTo(S, i) == {j \in S : j <= i}

(* Of n numbers or more, one is the n-th from below.                       *)
LEMMA NthMember ==
    ASSUME NEW m \in Nat, NEW S, S \subseteq 1 .. m, NEW n \in 1 .. Cardinality(S)
    PROVE  \E i \in S : Cardinality(UpTo(S, i)) = n
<1> DEFINE U(i) == UpTo(S, i)
<1> SUFFICES ASSUME \A i \in S : Cardinality(U(i)) # n PROVE FALSE
  OBVIOUS
<1> USE DEF UpTo
<1> DEFINE T == {i \in 0 .. m : Cardinality(U(i)) < n}
<1>0. IsFiniteSet(S) /\ Cardinality(S) \in Nat /\ n \in Nat /\ n >= 1
  <2>1. IsFiniteSet(1 .. m)
    BY FS_Interval
  <2>2. IsFiniteSet(S)
    BY <2>1, FS_Subset
  <2>3. Cardinality(S) \in Nat
    BY <2>2, FS_CardinalityType
  <2> QED BY <2>2, <2>3
<1>1. \A j \in S : j \in Nat /\ 1 <= j /\ j <= m
  OBVIOUS
<1>2. ASSUME NEW i PROVE IsFiniteSet(U(i)) /\ Cardinality(U(i)) \in Nat
  <2>1. U(i) \subseteq S
    OBVIOUS
  <2> HIDE DEF U
  <2>2. IsFiniteSet(U(i))
    BY <1>0, <2>1, FS_Subset
  <2> QED BY <2>2, FS_CardinalityType
<1>3. 0 \in T
  <2>1. \A j \in S : ~(j <= 0)
    BY <1>1
  <2>4. U(0) = {}
    BY ONLY <2>1, Zenon
  <2>2. Cardinality(U(0)) = 0
    BY <2>4, FS_EmptySet
  <2> HIDE DEF U
  <2> QED BY <1>0, <2>2
<1>4. ASSUME NEW i \in 1 .. m, i - 1 \in T PROVE i \in T
  <2>1. i \in Nat /\ i - 1 \in Nat
    OBVIOUS
  <2>2. CASE i \in S
    <3>1. \A j \in S : j <= i <=> j <= i - 1 \/ j = i
      BY <1>1, <2>1
    <3>2. U(i) = U(i - 1) \cup {i} /\ i \notin U(i - 1)
      <4>1. \A j : j \in U(i) <=> j \in U(i - 1) \/ j = i
        BY ONLY <2>2, <3>1, Zenon
      <4>2. ~(i <= i - 1)
        BY <2>1
      <4>3. i \notin U(i - 1)
        BY ONLY <4>2, Zenon
      <4> HIDE DEF U
      <4> QED BY ONLY <4>1, <4>3
    <3>3. Cardinality(U(i)) # n
      BY <2>2
    <3> HIDE DEF U
    <3>4. Cardinality(U(i)) = Cardinality(U(i - 1)) + 1
      BY <1>2, <3>2, FS_AddElement
    <3>5. Cardinality(U(i - 1)) < n /\ Cardinality(U(i - 1)) \in Nat
      BY <1>2, <1>4
    <3> QED BY <1>0, <3>3, <3>4, <3>5
  <2>3. CASE i \notin S
    <3>1. \A j \in S : j <= i <=> j <= i - 1
      BY <1>1, <2>1, <2>3
    <3>2. U(i) = U(i - 1)
      BY <3>1
    <3>3. Cardinality(U(i - 1)) < n
      BY <1>4
    <3> HIDE DEF U
    <3> QED BY <3>2, <3>3
  <2> QED BY <2>2, <2>3
<1>5. m \in T
  <2> HIDE DEF T
  <2> QED BY <1>3, <1>4, IntervalInduction
<1>6. U(m) = S
  BY <1>1
<1>7. Cardinality(S) < n
  BY <1>5, <1>6
<1> QED BY <1>0, <1>7

(* The function that FlattenSeq is defined by.                             *)
Flattens(f, ss) ==
    f = [i \in 1 .. Len(ss) |-> IF i = 1 THEN ss[i] ELSE f[i - 1] \o ss[i]]

(* There is one.                                                           *)
LEMMA FlattensExists ==
    ASSUME NEW E, NEW ss \in Seq(Seq(E))
    PROVE  \E f \in [1 .. Len(ss) -> Seq(E)] : Flattens(f, ss)
<1> DEFINE L == Seq(E)
           Good == {q \in Seq(L) : \E f \in [1 .. Len(q) -> L] : Flattens(f, q)}
<1>0. \A x, y \in L : x \o y \in L
  OBVIOUS
<1> HIDE DEF L
<1>1. <<>> \in Good
  <2>1. Len(<<>>) = 0 /\ <<>> \in Seq(L)
    OBVIOUS
  <2> DEFINE f == [i \in 1 .. 0 |-> {}]
  <2>2. f \in [1 .. 0 -> L]
    OBVIOUS
  <2>3. Flattens(f, <<>>)
    BY <2>1 DEF Flattens
  <2> HIDE DEF f
  <2> QED BY <2>1, <2>2, <2>3
<1>2. ASSUME NEW q \in Seq(L), NEW s \in L, q \in Good PROVE Append(q, s) \in Good
  <2>1. PICK f \in [1 .. Len(q) -> L] : Flattens(f, q)
    BY <1>2
  <2> DEFINE n == Len(q)
             p == Append(q, s)
             last == IF n = 0 THEN s ELSE f[n] \o s
             h == [i \in 1 .. n + 1 |-> IF i = n + 1 THEN last ELSE f[i]]
  <2>2. /\ p \in Seq(L) /\ Len(p) = n + 1 /\ n \in Nat /\ p[n + 1] = s
        /\ \A i \in 1 .. n : p[i] = q[i]
    OBVIOUS
  <2>3. last \in L
    <3>1. CASE n = 0
      BY <3>1
    <3>2. CASE n # 0
      <4>1. n \in 1 .. n
        BY <2>2, <3>2
      <4> QED BY <1>0, <3>2, <4>1
    <3> QED BY <3>1, <3>2
  <2> HIDE DEF p, n, last
  <2>4. h \in [1 .. n + 1 -> L]
    BY <2>2, <2>3 DEF n
  <2>5. \A i \in 1 .. n : f[i] = IF i = 1 THEN q[i] ELSE f[i - 1] \o q[i]
    BY <2>1 DEF Flattens, n
  <2>6. ASSUME NEW i \in 1 .. n + 1 PROVE h[i] = IF i = 1 THEN p[i] ELSE h[i - 1] \o p[i]
    <3>1. CASE i = n + 1
      <4>1. h[i] = last
        BY <3>1
      <4>2. i # 1 => h[i - 1] = f[n]
        BY <2>2, <3>1
      <4> HIDE DEF h
      <4> QED BY <2>2, <3>1, <4>1, <4>2 DEF last
    <3>2. CASE i # n + 1
      <4>1. i \in 1 .. n /\ h[i] = f[i]
        BY <2>2, <3>2
      <4>2. i # 1 => h[i - 1] = f[i - 1]
        BY <2>2, <3>2, <4>1
      <4> HIDE DEF h
      <4> QED BY <2>2, <2>5, <4>1, <4>2
    <3> QED BY <3>1, <3>2
  <2>7. Flattens(h, p)
    <3>1. h = [i \in 1 .. n + 1 |-> h[i]]
      OBVIOUS
    <3> HIDE DEF h
    <3> QED BY <2>2, <2>6, <3>1 DEF Flattens
  <2> HIDE DEF h
  <2>8. p \in Good
    BY <2>2, <2>4, <2>7
  <2> QED BY <2>8 DEF p
<1>3. Seq(L) \subseteq Good
  <2> HIDE DEF Good
  <2> QED BY <1>1, <1>2, ListInduction
<1> QED BY <1>3 DEF L

(* And what FlattenSeq picks is one, and a list at each place.             *)
LEMMA FlattenFun ==
    ASSUME NEW E, NEW ss \in Seq(Seq(E)), Len(ss) # 0
    PROVE  \E f \in [1 .. Len(ss) -> Seq(E)] :
              FlattenSeq(ss) = f[Len(ss)]
              /\ \A i \in 1 .. Len(ss) : f[i] = IF i = 1 THEN ss[i] ELSE f[i - 1] \o ss[i]
<1> DEFINE f == CHOOSE g : Flattens(g, ss)
           n == Len(ss)
           L == Seq(E)
           T == {i \in 0 .. n : i # 0 => f[i] \in L}
<1>1. Flattens(f, ss)
  <2>1. \E g : Flattens(g, ss)
    BY FlattensExists
  <2> QED BY <2>1
<1>2. FlattenSeq(ss) = f[n]
  BY Zenon DEF FlattenSeq, Flattens
<1> HIDE DEF f
<1>3. /\ DOMAIN f = 1 .. n /\ f = [i \in 1 .. n |-> f[i]]
      /\ \A i \in 1 .. n : f[i] = IF i = 1 THEN ss[i] ELSE f[i - 1] \o ss[i]
  BY <1>1 DEF Flattens
<1>4. n \in Nat /\ (\A i \in 1 .. n : ss[i] \in L) /\ \A x, y \in L : x \o y \in L
  OBVIOUS
<1> HIDE DEF n, L
<1>5. 0 \in T
  BY <1>4
<1>6. ASSUME NEW i \in 1 .. n, i - 1 \in T PROVE i \in T
  <2>1. CASE i = 1
    <3>1. f[i] = ss[i] /\ ss[i] \in L
      BY <1>3, <1>4, <2>1
    <3> QED BY <1>4, <3>1
  <2>2. CASE i # 1
    <3>1. f[i - 1] \in L
      BY <1>4, <1>6, <2>2
    <3>2. ss[i] \in L
      BY <1>4
    <3>3. f[i] \in L
      BY <1>3, <1>4, <2>2, <3>1, <3>2
    <3> QED BY <1>4, <3>3
  <2> QED BY <2>1, <2>2
<1>7. 0 .. n \subseteq T
  <2> HIDE DEF T
  <2> QED BY <1>4, <1>5, <1>6, IntervalInduction
<1>8. \A i \in 1 .. n : f[i] \in L
  BY <1>4, <1>7
<1>9. f \in [1 .. n -> L]
  BY <1>3, <1>8
<1> QED BY <1>2, <1>3, <1>9 DEF n, L

(* FlattenSeq puts the lists one after the other.                          *)
LEMMA FlattenSteps ==
    ASSUME NEW E, NEW ss \in Seq(Seq(E)), NEW s \in Seq(E)
    PROVE  /\ FlattenSeq(<<>>) = <<>> /\ FlattenSeq(ss) \in Seq(E)
           /\ FlattenSeq(Append(ss, s)) = FlattenSeq(ss) \o s
<1> DEFINE n == Len(ss)
           q == Append(ss, s)
           L == Seq(E)
<1>1. /\ q \in Seq(L) /\ Len(q) = n + 1 /\ n \in Nat /\ q[n + 1] = s
      /\ \A i \in 1 .. n : q[i] = ss[i]
  OBVIOUS
<1>2. FlattenSeq(<<>>) = <<>>
  BY DEF FlattenSeq
<1> HIDE DEF q
<1>3. PICK h \in [1 .. n + 1 -> L] :
         FlattenSeq(q) = h[n + 1]
         /\ \A i \in 1 .. n + 1 : h[i] = IF i = 1 THEN q[i] ELSE h[i - 1] \o q[i]
  <2>1. Len(q) # 0
    BY <1>1
  <2>2. \E h \in [1 .. Len(q) -> L] :
           FlattenSeq(q) = h[Len(q)]
           /\ \A i \in 1 .. Len(q) : h[i] = IF i = 1 THEN q[i] ELSE h[i - 1] \o q[i]
    BY <1>1, <2>1, FlattenFun
  <2> QED BY <1>1, <2>2
<1>4. CASE n = 0
  <2>1. ss = <<>> /\ <<>> \o s = s /\ <<>> \in L
    BY <1>4
  <2>2. h[n + 1] = s
    BY <1>1, <1>3, <1>4
  <2> QED BY <1>2, <1>3, <2>1, <2>2 DEF q
<1>5. CASE n # 0
  <2>1. PICK f \in [1 .. n -> L] :
           FlattenSeq(ss) = f[n]
           /\ \A i \in 1 .. n : f[i] = IF i = 1 THEN ss[i] ELSE f[i - 1] \o ss[i]
    BY <1>5, FlattenFun
  <2> DEFINE T == {i \in 0 .. n : i # 0 => h[i] = f[i]}
  <2> HIDE DEF n
  <2>2. 0 \in T
    BY <1>1
  <2>3. ASSUME NEW i \in 1 .. n, i - 1 \in T PROVE i \in T
    <3>1. h[i] = IF i = 1 THEN ss[i] ELSE h[i - 1] \o ss[i]
      <4>1. i \in 1 .. n + 1 /\ q[i] = ss[i]
        BY <1>1
      <4>2. h[i] = IF i = 1 THEN q[i] ELSE h[i - 1] \o q[i]
        BY <1>3, <4>1
      <4> QED BY <4>1, <4>2
    <3>2. i # 1 => h[i - 1] = f[i - 1]
      BY <1>1, <2>3
    <3>3. f[i] = IF i = 1 THEN ss[i] ELSE f[i - 1] \o ss[i]
      BY <2>1
    <3>4. h[i] = f[i]
      BY <3>1, <3>2, <3>3
    <3> QED BY <1>1, <3>4
  <2>4. 0 .. n \subseteq T
    <3> HIDE DEF T
    <3> QED BY <1>1, <2>2, <2>3, IntervalInduction
  <2>5. h[n] = f[n] /\ f[n] \in L
    BY <1>1, <1>5, <2>4
  <2>6. h[n + 1] = h[n] \o s
    <3>1. n + 1 \in 1 .. n + 1 /\ n + 1 # 1 /\ n + 1 - 1 = n
      BY <1>1, <1>5
    <3>2. PICK m \in 1 .. n + 1 : m = n + 1
      BY <3>1
    <3>3. h[m] = IF m = 1 THEN q[m] ELSE h[m - 1] \o q[m]
      BY <1>3, <3>2
    <3> QED BY <1>1, <3>1, <3>2, <3>3
  <2> QED BY <1>2, <1>3, <2>1, <2>5, <2>6 DEF q
<1> QED BY <1>4, <1>5

(* SetToSeq lists a finite set.                                            *)
LEMMA SetListed ==
    ASSUME NEW S, IsFiniteSet(S)
    PROVE  /\ SetToSeq(S) \in Seq(S)
           /\ \A x \in S : \E i \in DOMAIN SetToSeq(S) : SetToSeq(S)[i] = x
<1> DEFINE n == Cardinality(S)
           Lists == {f \in [1 .. n -> S] : IsInjective(f)}
<1>1. n \in Nat /\ ExistsBijection(1 .. n, S)
  BY FS_CardinalityType
<1>2. \E f \in Bijection(1 .. n, S) : TRUE
  BY <1>1 DEF ExistsBijection
<1>3. \E f \in [1 .. n -> S] : IsInjective(f)
  BY <1>2 DEF Bijection, Injection
<1>4. SetToSeq(S) \in [1 .. n -> S] /\ IsInjective(SetToSeq(S))
  BY <1>3 DEF SetToSeq
<1>5. SetToSeq(S) \in Injection(1 .. n, S)
  BY <1>4 DEF Injection
<1>6. IsFiniteSet(1 .. n) /\ Cardinality(1 .. n) = n
  BY <1>1, FS_Interval
<1>7. SetToSeq(S) \in Surjection(1 .. n, S)
  <2> DEFINE f == SetToSeq(S)
             T == 1 .. n
  <2>1. f \in Injection(T, S) /\ Cardinality(T) = Cardinality(S)
    BY <1>5, <1>6
  <2> HIDE DEF f, T
  <2>2. Cardinality(T) = Cardinality(S) <=> f \in Surjection(T, S)
    BY <2>1, FS_Injection
  <2> QED BY <2>1, <2>2 DEF f, T
<1>8. \A x \in S : \E i \in 1 .. n : SetToSeq(S)[i] = x
  BY <1>7 DEF Surjection
<1> HIDE DEF n
<1>9. DOMAIN SetToSeq(S) = 1 .. n
  BY <1>4
<1>10. SetToSeq(S) \in Seq(S)
  BY <1>1, <1>4
<1> QED BY <1>8, <1>9, <1>10

(* A list with an element inserted: those before its place and those from  *)
(* there on.                                                               *)
LEMMA InsertedAt ==
    ASSUME NEW E, NEW l \in Seq(E), NEW e \in E, NEW k \in 1 .. Len(l) + 1
    PROVE  /\ InsertAt(l, k, e) \in Seq(E) /\ Len(InsertAt(l, k, e)) = Len(l) + 1
           /\ \A i \in 1 .. Len(l) + 1 :
                 InsertAt(l, k, e)[i] = IF i < k THEN l[i] ELSE IF i = k THEN e ELSE l[i - 1]
<1> DEFINE n == Len(l)
<1>1. n \in Nat /\ k \in Nat /\ 1 <= k /\ k <= n + 1 /\ \A i \in 1 .. n : l[i] \in E
  OBVIOUS
<1>2. PICK s \in Seq(E) : s = SubSeq(l, 1, k - 1) /\ Len(s) = k - 1 /\ \A i \in 1 .. k - 1 : s[i] = l[i]
  <2>1. /\ SubSeq(l, 1, k - 1) \in Seq(E) /\ Len(SubSeq(l, 1, k - 1)) = k - 1
        /\ \A i \in 1 .. k - 1 : SubSeq(l, 1, k - 1)[i] = l[i]
    BY <1>1
  <2> QED BY <2>1
<1>3. PICK t \in Seq(E) : t = SubSeq(l, k, n) /\ Len(t) = n - k + 1
                         /\ \A i \in 1 .. n - k + 1 : t[i] = l[k + i - 1]
  <2>1. /\ SubSeq(l, k, n) \in Seq(E) /\ Len(SubSeq(l, k, n)) = n - k + 1
        /\ \A i \in 1 .. n - k + 1 : SubSeq(l, k, n)[i] = l[k + i - 1]
    BY <1>1
  <2> QED BY <2>1
<1>4. PICK u \in Seq(E) : u = s \o <<e>> /\ Len(u) = k /\ (\A i \in 1 .. k - 1 : u[i] = s[i]) /\ u[k] = e
  <2>1. <<e>> \in Seq(E) /\ Len(<<e>>) = 1 /\ <<e>>[1] = e
    OBVIOUS
  <2>2. /\ s \o <<e>> \in Seq(E) /\ Len(s \o <<e>>) = k
        /\ (\A i \in 1 .. k - 1 : (s \o <<e>>)[i] = s[i]) /\ (s \o <<e>>)[k] = e
    BY <1>1, <1>2, <2>1
  <2> QED BY <2>2
<1>5. InsertAt(l, k, e) = u \o t
  BY <1>2, <1>3, <1>4 DEF InsertAt
<1>6. PICK v : v = u \o t
  OBVIOUS
<1>7. /\ v \in Seq(E) /\ Len(v) = n + 1 /\ (\A i \in 1 .. k : v[i] = u[i])
      /\ \A i \in 1 .. n - k + 1 : v[k + i] = t[i]
  <2>1. /\ u \o t \in Seq(E) /\ Len(u \o t) = Len(u) + Len(t)
        /\ \A j \in 1 .. Len(u) : (u \o t)[j] = u[j]
        /\ \A j \in 1 .. Len(t) : (u \o t)[Len(u) + j] = t[j]
    BY ConcatAt
  <2>2. Len(u) = k /\ Len(t) = n - k + 1 /\ Len(u) + Len(t) = n + 1
    <3>1. Len(u) = k /\ Len(t) = n - k + 1
      BY <1>3, <1>4
    <3> HIDE DEF n
    <3> QED BY <1>1, <3>1
  <2> HIDE DEF n
  <2> QED BY <1>6, <2>1, <2>2
<1> HIDE DEF n
<1>8. ASSUME NEW i \in 1 .. n + 1
      PROVE  v[i] = IF i < k THEN l[i] ELSE IF i = k THEN e ELSE l[i - 1]
  <2>1. CASE i < k
    <3>1. i \in 1 .. k /\ i \in 1 .. k - 1
      BY <1>1, <2>1
    <3>2. v[i] = u[i] /\ u[i] = s[i] /\ s[i] = l[i]
      BY <1>2, <1>4, <1>7, <3>1
    <3> QED BY <2>1, <3>2
  <2>2. CASE i = k
    BY <1>1, <1>4, <1>7, <2>2
  <2>3. CASE i > k
    <3>1. PICK j \in 1 .. n - k + 1 : j = i - k
      BY <1>1, <2>3
    <3>2. k + j = i /\ k + j - 1 = i - 1
      BY <1>1, <3>1
    <3>3. v[k + j] = t[j] /\ t[j] = l[k + j - 1]
      BY <1>3, <1>7
    <3>4. v[i] = l[i - 1]
      BY <3>2, <3>3
    <3>5. ~(i < k) /\ i # k
      BY <1>1, <2>3
    <3> QED BY <3>4, <3>5
  <2> QED BY <1>1, <2>1, <2>2, <2>3
<1> QED BY <1>5, <1>6, <1>7, <1>8 DEF n

(* A list with another last element.                                       *)
LEMMA LastSwapped ==
    ASSUME NEW E, NEW l \in Seq(E), l # <<>>, NEW e \in E
    PROVE  /\ Append(Front(l), e) \in Seq(E) /\ Len(Append(Front(l), e)) = Len(l)
           /\ \A i \in 1 .. Len(l) : Append(Front(l), e)[i] = IF i = Len(l) THEN e ELSE l[i]
<1> DEFINE n == Len(l)
<1>1. n \in Nat /\ n # 0 /\ n - 1 \in Nat /\ \A i \in 1 .. n : l[i] \in E
  OBVIOUS
<1>2. PICK f \in Seq(E) : f = Front(l) /\ Len(f) = n - 1 /\ \A i \in 1 .. n - 1 : f[i] = l[i]
  <2>1. /\ SubSeq(l, 1, n - 1) \in Seq(E) /\ Len(SubSeq(l, 1, n - 1)) = n - 1
        /\ \A i \in 1 .. n - 1 : SubSeq(l, 1, n - 1)[i] = l[i]
    BY <1>1
  <2> QED BY <2>1 DEF Front
<1> HIDE DEF n
<1>3. /\ Append(f, e) \in Seq(E) /\ Len(Append(f, e)) = n /\ Append(f, e)[n] = e
      /\ \A i \in 1 .. n - 1 : Append(f, e)[i] = f[i]
  BY <1>1, <1>2
<1>4. PICK v : v = Append(f, e)
  OBVIOUS
<1>5. v = Append(Front(l), e)
  BY <1>2, <1>4
<1>6. \A i \in 1 .. n : v[i] = IF i = n THEN e ELSE l[i]
  BY <1>1, <1>2, <1>3, <1>4
<1> QED BY <1>3, <1>4, <1>5, <1>6 DEF n

(* What two lists put together have.                                       *)
LEMMA ConcatRange ==
    ASSUME NEW E, NEW s \in Seq(E), NEW t \in Seq(E)
    PROVE  Range(s \o t) = Range(s) \cup Range(t)
<1>1. PICK u \in Seq(E) : /\ u = s \o t /\ Len(u) = Len(s) + Len(t)
                          /\ \A j \in 1 .. Len(s) : u[j] = s[j]
                          /\ \A j \in 1 .. Len(t) : u[Len(s) + j] = t[j]
  <2>1. /\ s \o t \in Seq(E) /\ Len(s \o t) = Len(s) + Len(t)
        /\ \A j \in 1 .. Len(s) : (s \o t)[j] = s[j]
        /\ \A j \in 1 .. Len(t) : (s \o t)[Len(s) + j] = t[j]
    BY ConcatAt
  <2> QED BY <2>1
<1>2. PICK m \in Nat : m = Len(s)
  OBVIOUS
<1>3. PICK n \in Nat : n = Len(t)
  OBVIOUS
<1>4. DOMAIN u = 1 .. m + n /\ DOMAIN s = 1 .. m /\ DOMAIN t = 1 .. n
  BY <1>1, <1>2, <1>3
<1>5. ASSUME NEW i \in 1 .. m + n PROVE u[i] \in Range(s) \cup Range(t)
  <2>1. CASE i <= m
    BY <1>1, <1>2, <1>4, <2>1 DEF Range
  <2>2. CASE i > m
    <3>1. PICK j \in 1 .. n : j = i - m
      BY <2>2
    <3>2. u[m + j] = t[j] /\ m + j = i
      BY <1>1, <1>2, <1>3, <3>1
    <3> QED BY <1>4, <3>2 DEF Range
  <2> QED BY <2>1, <2>2
<1>6. \A j \in 1 .. m : j \in 1 .. m + n
  OBVIOUS
<1>7. \A j \in 1 .. n : m + j \in 1 .. m + n
  OBVIOUS
<1>8. \A j \in 1 .. m : s[j] \in Range(u)
  BY <1>1, <1>2, <1>4, <1>6 DEF Range
<1>9. \A j \in 1 .. n : t[j] \in Range(u)
  BY <1>1, <1>2, <1>3, <1>4, <1>7 DEF Range
<1>10. /\ Range(u) = {u[i] : i \in 1 .. m + n} /\ Range(s) = {s[i] : i \in 1 .. m}
       /\ Range(t) = {t[i] : i \in 1 .. n}
  BY <1>4, Zenon DEF Range
<1>11. Range(u) \subseteq Range(s) \cup Range(t)
  BY <1>5, <1>10
<1>12. Range(s) \subseteq Range(u) /\ Range(t) \subseteq Range(u)
  BY <1>8, <1>9, <1>10
<1> HIDE DEF Range
<1> QED BY <1>1, <1>11, <1>12

(* What a list of lists put end to end has.                                *)
LEMMA FlattenRange ==
    ASSUME NEW E, NEW ss \in Seq(Seq(E))
    PROVE  /\ FlattenSeq(ss) \in Seq(E)
           /\ Range(FlattenSeq(ss)) = {x \in E : \E i \in DOMAIN ss : x \in Range(ss[i])}
<1> DEFINE U(q) == {x \in E : \E i \in DOMAIN q : x \in Range(q[i])}
           T == {q \in Seq(Seq(E)) : Range(FlattenSeq(q)) = U(q)}
<1>1. <<>> \in Seq(Seq(E)) /\ FlattenSeq(<<>>) = <<>> /\ \A q \in Seq(Seq(E)) : FlattenSeq(q) \in Seq(E)
  BY FlattenSteps
<1>2. <<>> \in T
  <2>1. Range(<<>>) = {} /\ U(<<>>) = {}
    BY DEF Range
  <2> HIDE DEF U
  <2> QED BY <1>1, <2>1
<1>3. ASSUME NEW q \in Seq(Seq(E)), NEW s \in Seq(E), q \in T PROVE Append(q, s) \in T
  <2>1. PICK k : k = Append(q, s)
    OBVIOUS
  <2>2. PICK a \in Seq(E) : a = FlattenSeq(q)
    BY <1>1
  <2>3. FlattenSeq(k) = a \o s
    BY <2>1, <2>2, FlattenSteps
  <2>4. Range(a \o s) = Range(a) \cup Range(s)
    BY ConcatRange
  <2>5. /\ k \in Seq(Seq(E)) /\ DOMAIN k = DOMAIN q \cup {Len(q) + 1}
        /\ (\A i \in DOMAIN q : k[i] = q[i]) /\ k[Len(q) + 1] = s
    BY <2>1, AppendDomain
  <2>6. Range(s) \subseteq E
    BY DEF Range
  <2>7. U(k) = U(q) \cup Range(s)
    BY <2>5, <2>6
  <2> HIDE DEF U
  <2> QED BY <1>3, <2>1, <2>2, <2>3, <2>4, <2>5, <2>7
<1>4. Seq(Seq(E)) \subseteq T
  <2> HIDE DEF T
  <2> QED BY <1>2, <1>3, ListInduction
<1> QED BY <1>1, <1>4

=============================================================================
