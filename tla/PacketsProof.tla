---------------------------- MODULE PacketsProof ----------------------------
(***************************************************************************)
(* What the compiled ruleset does for every state of rules.json and every  *)
(* packet: the kernel accepts its address sets, which hold what their      *)
(* elements cover; its chains nest no deeper than three; and a banned      *)
(* source gets nothing in or through.                                      *)
(***************************************************************************)
EXTENDS Packets, SequenceTheorems, ListLemmas

-----------------------------------------------------------------------------
(* Address sets: prefixes.                                                 *)

(* The powers of two are what their definition says.                       *)
LEMMA Powers ==
    /\ \A n \in 0 .. Width : Power[n] \in Nat \ {0}
    /\ Power[0] = 1 /\ \A n \in 1 .. Width : Power[n] = 2 * Power[n - 1]
<1> DEFINE N == Nat \ {0}
           Doubles(f, n) == f = [i \in 0 .. n |-> IF i = 0 THEN 1 ELSE 2 * f[i - 1]]
           T == {n \in 0 .. Width : \E f \in [0 .. n -> N] : Doubles(f, n)}
<1>0. Width \in Nat
  BY WidthAssumption
<1>1. 0 \in T
  <2> DEFINE f == [i \in 0 .. 0 |-> 1]
  <2>1. f \in [0 .. 0 -> N] /\ f[0] = 1 /\ f = [i \in 0 .. 0 |-> f[i]]
    OBVIOUS
  <2> HIDE DEF f
  <2>2. Doubles(f, 0)
    BY <2>1
  <2> QED BY <1>0, <2>1, <2>2
<1>2. ASSUME NEW n \in 1 .. Width, n - 1 \in T PROVE n \in T
  <2>1. PICK f \in [0 .. n - 1 -> N] : Doubles(f, n - 1)
    BY <1>2
  <2> DEFINE h == [i \in 0 .. n |-> IF i = n THEN 2 * f[n - 1] ELSE f[i]]
  <2>2. n \in Nat /\ n # 0 /\ n - 1 \in 0 .. n - 1 /\ f[n - 1] \in N
    BY <1>0
  <2>3. h \in [0 .. n -> N]
    BY <2>2
  <2>4. h = [i \in 0 .. n |-> h[i]]
    OBVIOUS
  <2>5. ASSUME NEW i \in 0 .. n PROVE h[i] = IF i = 0 THEN 1 ELSE 2 * h[i - 1]
    <3>1. CASE i = n
      <4>1. h[i] = 2 * f[n - 1] /\ h[i - 1] = f[n - 1]
        BY <2>2, <3>1
      <4> QED BY <2>2, <3>1, <4>1
    <3>2. CASE i # n
      <4>1. i \in 0 .. n - 1 /\ h[i] = f[i]
        BY <2>2, <3>2
      <4>2. i # 0 => h[i - 1] = f[i - 1]
        BY <2>2, <3>2, <4>1
      <4>3. f[i] = IF i = 0 THEN 1 ELSE 2 * f[i - 1]
        BY <2>1, <4>1
      <4> HIDE DEF h
      <4> QED BY <4>1, <4>2, <4>3
    <3> QED BY <3>1, <3>2
  <2> HIDE DEF h
  <2>6. Doubles(h, n)
    BY <2>4, <2>5
  <2> HIDE DEF Doubles, N
  <2> QED BY <1>0, <2>3, <2>6
<1>3. 0 .. Width \subseteq T
  <2> HIDE DEF T
  <2> QED BY <1>0, <1>1, <1>2, IntervalInduction
<1>4. PICK g \in [0 .. Width -> N] : Doubles(g, Width)
  <2>1. Width \in T
    <3> HIDE DEF T
    <3> QED BY <1>0, <1>3
  <2> QED BY <2>1
<1>5. Doubles(Power, Width)
  <2>1. \E f : Doubles(f, Width)
    BY <1>4
  <2>2. Power = CHOOSE f : Doubles(f, Width)
    BY Zenon DEF Power
  <2> HIDE DEF Doubles
  <2> QED BY <2>1, <2>2
<1> DEFINE U == {n \in 0 .. Width : Power[n] \in N}
<1>6. \A i \in 0 .. Width : Power[i] = IF i = 0 THEN 1 ELSE 2 * Power[i - 1]
  <2> PICK P : P = Power
    OBVIOUS
  <2>1. P = [i \in 0 .. Width |-> IF i = 0 THEN 1 ELSE 2 * P[i - 1]]
    BY <1>5
  <2>2. \A i \in 0 .. Width : P[i] = IF i = 0 THEN 1 ELSE 2 * P[i - 1]
    BY <2>1
  <2> QED BY <2>2
<1>7. 0 \in U
  BY <1>0, <1>6
<1>8. ASSUME NEW n \in 1 .. Width, n - 1 \in U PROVE n \in U
  <2>1. PICK a \in N : a = Power[n - 1]
    BY <1>8
  <2>2. n \in 0 .. Width /\ n # 0
    BY <1>0
  <2>3. Power[n] = 2 * a
    BY <1>6, <2>1, <2>2
  <2> QED BY <2>1, <2>2, <2>3
<1>9. 0 .. Width \subseteq U
  <2> HIDE DEF U
  <2> QED BY <1>0, <1>7, <1>8, IntervalInduction
<1> QED BY <1>0, <1>6, <1>9

(* A prefix divides the space.                                             *)
LEMMA PowerSplit ==
    ASSUME NEW k \in 0 .. Width
    PROVE  Power[Width - k] * Power[k] = Power[Width]
<1> DEFINE T == {n \in 0 .. Width : Power[Width - n] * Power[n] = Power[Width]}
<1>0. Width \in Nat
  BY WidthAssumption
<1>1. 0 \in T
  <2>1. Width - 0 = Width /\ Power[Width] \in Nat /\ Power[0] = 1
    BY <1>0, Powers
  <2> QED BY <1>0, <2>1
<1>2. ASSUME NEW n \in 1 .. Width, n - 1 \in T PROVE n \in T
  <2>1. PICK a \in Nat : a = Power[Width - n]
    BY <1>0, Powers
  <2>2. PICK b \in Nat : b = Power[n - 1]
    BY <1>0, Powers
  <2>3. Power[n] = 2 * b
    BY <2>2, Powers
  <2>4. Power[Width - (n - 1)] = 2 * a
    <3>1. Width - (n - 1) \in 1 .. Width /\ Width - (n - 1) - 1 = Width - n
      BY <1>0
    <3>2. PICK m \in 1 .. Width : m = Width - (n - 1)
      BY <3>1
    <3>3. Power[m] = 2 * Power[m - 1]
      BY Powers
    <3> QED BY <2>1, <3>1, <3>2, <3>3
  <2>5. (2 * a) * b = Power[Width]
    BY <1>2, <2>2, <2>4
  <2>6. a * (2 * b) = (2 * a) * b
    OBVIOUS
  <2> QED BY <2>1, <2>3, <2>5, <2>6
<1>3. 0 .. Width \subseteq T
  <2> HIDE DEF T
  <2> QED BY <1>0, <1>1, <1>2, IntervalInduction
<1> QED BY <1>3

(* A prefix starts at a multiple of its size, and ends within the space.   *)
LEMMA PrefixIs ==
    ASSUME NEW e \in Element
    PROVE  /\ Size(e) \in Nat \ {0} /\ First(e) \in Nat /\ Space \in Nat
           /\ First(e) <= e.addr /\ e.addr < First(e) + Size(e)
           /\ First(e) + Size(e) <= Space
<1>1. Width \in Nat /\ e.bits \in 0 .. Width /\ e.addr \in 0 .. Space - 1 /\ Width - e.bits \in 0 .. Width
  BY WidthAssumption DEF Element, Address
<1>2. PICK S \in Nat \ {0} : S = Size(e)
  BY <1>1, Powers DEF Size
<1>3. PICK m \in Nat \ {0} : m = Power[e.bits]
  BY <1>1, Powers
<1>4. Space = S * m /\ Space \in Nat
  BY <1>1, <1>2, <1>3, PowerSplit, Powers DEF Space, Size
<1>5. PICK a \in Nat : a = e.addr
  BY <1>1
<1>6. PICK r \in Int : r = a % S
  OBVIOUS
<1>7. PICK q \in Int : q = a \div S
  OBVIOUS
<1>8. a = S * q + r /\ 0 <= r /\ r < S
  <2>1. a = S * (a \div S) + (a % S)
    OBVIOUS
  <2>2. a % S \in 0 .. S - 1
    OBVIOUS
  <2> QED BY <1>6, <1>7, <2>1, <2>2
<1>9. First(e) = a - r
  BY <1>2, <1>5, <1>6 DEF First
<1>10. a < S * m
  BY <1>1, <1>4, <1>5
<1>11. q < m
  <2>1. q >= m => S * q >= S * m
    BY <1>2, <1>3
  <2> QED BY <1>8, <1>10, <2>1
<1>12. S * (q + 1) <= S * m
  BY <1>2, <1>3, <1>11
<1>13. S * (q + 1) = S * q + S
  BY <1>2
<1>14. q >= 0
  <2>1. q <= 0 - 1 => S * q <= 0 - S
    BY <1>2
  <2> QED BY <1>2, <1>8, <2>1
<1>15. S * q >= 0
  BY <1>2, <1>14
<1> QED BY <1>2, <1>4, <1>5, <1>8, <1>9, <1>12, <1>13, <1>15

-----------------------------------------------------------------------------
(* Sorting the intervals.                                                  *)

(* Intervals that end after their start, or nowhere.                       *)
Iv == {iv \in [start : Nat, end : Nat] : iv.end = Past \/ iv.start < iv.end}

(* Their starts do not fall.                                               *)
Ordered(l) == \A i, j \in DOMAIN l : i < j => l[i].start <= l[j].start

(* Where Insert puts an interval.                                          *)
Place(l, iv) == Min({i \in DOMAIN l : l[i].start > iv.start} \cup {Len(l) + 1})

(* All up to there start before it or with it, all behind it after it.     *)
LEMMA PlaceIs ==
    ASSUME NEW l \in Seq(Iv), NEW iv \in Iv
    PROVE  /\ Place(l, iv) \in 1 .. Len(l) + 1 /\ Len(l) \in Nat
           /\ \A i \in DOMAIN l : i < Place(l, iv) => l[i].start <= iv.start
           /\ Place(l, iv) \in DOMAIN l => iv.start < l[Place(l, iv)].start
<1> DEFINE n == Len(l)
           S == {i \in DOMAIN l : l[i].start > iv.start}
           T == S \cup {n + 1}
<1>1. n \in Nat /\ DOMAIN l = 1 .. n /\ (\A i \in 1 .. n : l[i] \in Iv /\ l[i].start \in Nat)
      /\ iv.start \in Nat
  BY DEF Iv
<1>2. PICK m : m = Place(l, iv)
  OBVIOUS
<1>3. T \subseteq Nat /\ T # {} /\ S \subseteq 1 .. n
  BY <1>1
<1>4. m \in T /\ \A x \in T : m <= x
  <2> HIDE DEF T
  <2>1. m = Min(T)
    BY <1>2, Zenon DEF Place, T
  <2> QED BY <1>3, <2>1, Least
<1> HIDE DEF n
<1>5. m \in 1 .. n + 1 /\ m <= n + 1
  BY <1>1, <1>3, <1>4
<1>6. \A i \in DOMAIN l : i < m => l[i].start <= iv.start
  <2>1. ASSUME NEW i \in 1 .. n, i < m, l[i].start > iv.start PROVE FALSE
    <3>1. i \in T
      BY <1>1, <2>1
    <3> HIDE DEF T
    <3> QED BY <1>1, <1>4, <1>5, <2>1, <3>1
  <2> QED BY <1>1, <2>1
<1>7. m \in DOMAIN l => iv.start < l[m].start
  BY <1>1, <1>4
<1> QED BY <1>1, <1>2, <1>5, <1>6, <1>7 DEF n

(* Inserting an interval leaves a list of intervals.                       *)
LEMMA InsertTyped ==
    ASSUME NEW l \in Seq(Iv), NEW iv \in Iv
    PROVE  Insert(l, iv) \in Seq(Iv)
<1>1. Insert(l, iv) = InsertAt(l, Place(l, iv), iv)
  BY Zenon DEF Insert, Place
<1> QED BY <1>1, PlaceIs, InsertedAt

(* In the order of the starts,                                             *)
LEMMA InsertOrdered ==
    ASSUME NEW l \in Seq(Iv), Ordered(l), NEW iv \in Iv
    PROVE  Ordered(Insert(l, iv))
<1> DEFINE n == Len(l)
           k == Place(l, iv)
           new == Insert(l, iv)
<1>1. new = InsertAt(l, k, iv)
  BY Zenon DEF Insert, Place
<1>2. /\ k \in 1 .. n + 1 /\ n \in Nat /\ DOMAIN l = 1 .. n
      /\ \A i \in DOMAIN l : i < k => l[i].start <= iv.start
      /\ k \in DOMAIN l => iv.start < l[k].start
  BY PlaceIs
<1>3. /\ Len(new) = n + 1 /\ new \in Seq(Iv) /\ DOMAIN new = 1 .. n + 1
      /\ \A i \in 1 .. n + 1 :
            new[i] = IF i < k THEN l[i] ELSE IF i = k THEN iv ELSE l[i - 1]
  <2>1. /\ InsertAt(l, k, iv) \in Seq(Iv) /\ Len(InsertAt(l, k, iv)) = n + 1
        /\ \A i \in 1 .. n + 1 :
              InsertAt(l, k, iv)[i] = IF i < k THEN l[i] ELSE IF i = k THEN iv ELSE l[i - 1]
    <3> HIDE DEF k, new
    <3> QED BY <1>2, InsertedAt
  <2> HIDE DEF n, k, new
  <2>2. new \in Seq(Iv) /\ Len(new) = n + 1 /\ DOMAIN new = 1 .. Len(new)
    BY <1>1, <2>1
  <2> QED BY <1>1, <2>1, <2>2
<1>4. iv.start \in Nat /\ \A i \in 1 .. n : l[i].start \in Nat
  BY DEF Iv
<1> HIDE DEF n, k, new
<1>5. \A i \in 1 .. n : i >= k => iv.start <= l[i].start
  <2>1. ASSUME NEW i \in 1 .. n, i >= k PROVE iv.start <= l[i].start
    <3>1. k \in 1 .. n
      BY <1>2, <2>1
    <3>2. l[k].start <= l[i].start
      BY <1>2, <1>4, <2>1, <3>1 DEF Ordered
    <3> QED BY <1>2, <1>4, <3>1, <3>2
  <2> QED BY <2>1
<1>6. ASSUME NEW i \in 1 .. n + 1, NEW j \in 1 .. n + 1, i < j
      PROVE  new[i].start <= new[j].start
  <2>1. CASE i < k /\ j < k
    <3>1. new[i] = l[i] /\ new[j] = l[j] /\ i \in 1 .. n /\ j \in 1 .. n
      BY <1>2, <1>3, <2>1
    <3> QED BY <1>2, <1>6, <3>1 DEF Ordered
  <2>2. CASE i < k /\ j = k
    BY <1>2, <1>3, <2>2
  <2>3. CASE i < k /\ j > k
    <3>1. new[i] = l[i] /\ new[j] = l[j - 1] /\ i \in 1 .. n /\ j - 1 \in 1 .. n /\ j - 1 >= k
      BY <1>2, <1>3, <2>3
    <3>2. l[i].start <= iv.start
      BY ONLY <1>2, <2>3, <3>1
    <3>3. PICK m \in 1 .. n : m = j - 1
      BY ONLY <3>1
    <3>4. iv.start <= l[j - 1].start
      BY ONLY <1>5, <3>1, <3>3
    <3>5. l[i].start \in Nat /\ l[j - 1].start \in Nat /\ iv.start \in Nat
      BY ONLY <1>4, <3>1, <3>3
    <3> QED BY ONLY <3>1, <3>2, <3>4, <3>5
  <2>4. CASE i = k /\ j > k
    <3>1. new[i] = iv /\ new[j] = l[j - 1] /\ j - 1 \in 1 .. n /\ j - 1 >= k
      BY <1>2, <1>3, <2>4
    <3>2. PICK m \in 1 .. n : m = j - 1
      BY ONLY <3>1
    <3>3. iv.start <= l[j - 1].start
      BY ONLY <1>5, <3>1, <3>2
    <3> QED BY ONLY <3>1, <3>3
  <2>5. CASE i > k /\ j > k
    <3>1. /\ new[i] = l[i - 1] /\ new[j] = l[j - 1] /\ i - 1 \in 1 .. n /\ j - 1 \in 1 .. n
          /\ i - 1 < j - 1
      BY <1>2, <1>3, <1>6, <2>5
    <3> QED BY <1>2, <3>1 DEF Ordered
  <2> QED BY <1>2, <1>6, <2>1, <2>2, <2>3, <2>4, <2>5
<1> QED BY <1>3, <1>6 DEF Ordered, new

(* with it and all that were there.                                        *)
LEMMA InsertKeeps ==
    ASSUME NEW l \in Seq(Iv), NEW iv \in Iv
    PROVE  Range(Insert(l, iv)) = Range(l) \cup {iv}
<1> DEFINE n == Len(l)
           k == Place(l, iv)
           new == Insert(l, iv)
<1>1. new = InsertAt(l, k, iv)
  BY Zenon DEF Insert, Place
<1>2. k \in 1 .. n + 1 /\ n \in Nat /\ DOMAIN l = 1 .. n
  BY PlaceIs
<1>3. /\ new \in Seq(Iv) /\ DOMAIN new = 1 .. n + 1
      /\ \A i \in 1 .. n + 1 :
            new[i] = IF i < k THEN l[i] ELSE IF i = k THEN iv ELSE l[i - 1]
  <2>1. /\ InsertAt(l, k, iv) \in Seq(Iv) /\ Len(InsertAt(l, k, iv)) = n + 1
        /\ \A i \in 1 .. n + 1 :
              InsertAt(l, k, iv)[i] = IF i < k THEN l[i] ELSE IF i = k THEN iv ELSE l[i - 1]
    <3> HIDE DEF k, new
    <3> QED BY <1>2, InsertedAt
  <2> HIDE DEF n, k, new
  <2>2. new \in Seq(Iv) /\ Len(new) = n + 1 /\ DOMAIN new = 1 .. Len(new)
    BY <1>1, <2>1
  <2> QED BY <1>1, <2>1, <2>2
<1> HIDE DEF n, k, new
<1>4. \A i \in 1 .. n + 1 : new[i] \in Range(l) \cup {iv}
  <2>1. ASSUME NEW i \in 1 .. n + 1 PROVE new[i] \in Range(l) \cup {iv}
    <3>1. i < k => i \in 1 .. n
      BY <1>2
    <3>2. i > k => i - 1 \in 1 .. n
      BY <1>2
    <3> QED BY <1>2, <1>3, <3>1, <3>2 DEF Range
  <2> QED BY <2>1
<1>5. \A i \in 1 .. n : l[i] \in Range(new)
  <2>1. ASSUME NEW i \in 1 .. n PROVE l[i] \in Range(new)
    <3>1. CASE i < k
      <4>1. i \in 1 .. n + 1 /\ new[i] = l[i]
        BY <1>2, <1>3, <3>1
      <4> QED BY <1>3, <4>1 DEF Range
    <3>2. CASE i >= k
      <4>1. i + 1 \in 1 .. n + 1 /\ i + 1 > k /\ i + 1 - 1 = i
        BY <1>2, <3>2
      <4>2. PICK j \in 1 .. n + 1 : j = i + 1
        BY <4>1
      <4>3. new[j] = l[j - 1]
        BY <1>2, <1>3, <4>1, <4>2
      <4> QED BY <1>3, <4>1, <4>2, <4>3 DEF Range
    <3> QED BY <1>2, <3>1, <3>2
  <2> QED BY <2>1
<1>6. iv \in Range(new)
  <2>1. k \in 1 .. n + 1 /\ DOMAIN new = 1 .. n + 1 /\ new[k] = iv
    BY ONLY <1>2, <1>3
  <2> QED BY ONLY <2>1, Zenon DEF Range
<1>7. Range(new) = {new[i] : i \in 1 .. n + 1} /\ Range(l) = {l[i] : i \in 1 .. n}
  BY <1>2, <1>3 DEF Range
<1> QED BY <1>4, <1>5, <1>6, <1>7 DEF new

(* What it is to insert the intervals of a list one by one.                *)
SortRight(l, dst) ==
    /\ FoldLeft(Insert, dst, <<>>) = dst
    /\ FoldLeft(Insert, dst, l) \in Seq(Iv)
    /\ \A r \in Iv : FoldLeft(Insert, dst, Append(l, r))
                 = Insert(FoldLeft(Insert, dst, l), r)

(* The fold does.                                                          *)
LEMMA SortFold ==
    ASSUME NEW dst \in Seq(Iv), NEW l \in Seq(Iv)
    PROVE  SortRight(l, dst)
<1> DEFINE A == Seq(Iv)
           E == Iv
           start == dst
           Op(a, x) == Insert(a, x)
           G == [y \in A \X E |-> Op(y[1], y[2])]
           P == [s \in Seq(E) |-> FoldLeft(Insert, dst, s)]
<1>1. G \in [A \X E -> A] /\ start \in A
  BY InsertTyped
<1>2. Folds(P, E, A, start, G)
  <2> SUFFICES ASSUME NEW s \in Seq(E)
               PROVE  \E it : /\ P[s] = it[DOMAIN s]
                              /\ it[{}] = start
                              /\ \A t \in SUBSET DOMAIN s :
                                    t # {} /\ it[t \ {Max(t)}] \in A
                                    => it[t] = G[<<it[t \ {Max(t)}], s[Max(t)]>>]
    BY DEF Folds
  <2> DEFINE Rec(it) == it = [t \in SUBSET DOMAIN s |->
                                IF t = {} THEN start ELSE Op(it[t \ {Max(t)}], s[Max(t)])]
  <2>1. FoldLeft(Insert, dst, s) = (CHOOSE it : Rec(it))[DOMAIN s]
    BY Zenon DEF FoldLeft, MapThenFoldSet
  <2> HIDE DEF start
  <2>2. \A t \in SUBSET DOMAIN s : t # {} => Max(t) \in DOMAIN s /\ s[Max(t)] \in E
    BY MaxOfDomain
  <2>3. PICK g \in [SUBSET DOMAIN s -> A] : Recursion(g, start, G, s)
    <3> HIDE DEF G, A, E
    <3> QED BY <1>1, RecursionExists
  <2>4. Rec(g)
    <3> HIDE DEF Op
    <3> QED BY <2>2, <2>3, Zenon DEF Recursion
  <2> DEFINE it == CHOOSE it : Rec(it)
  <2>5. Rec(it)
    <3> HIDE DEF Rec
    <3> QED BY <2>4
  <2>6. P[s] = it[DOMAIN s]
    BY <2>1
  <2> HIDE DEF it, Op, A, E
  <2>7. it[{}] = start
    BY <2>5
  <2>8. ASSUME NEW t \in SUBSET DOMAIN s, t # {}, it[t \ {Max(t)}] \in A
        PROVE  it[t] = G[<<it[t \ {Max(t)}], s[Max(t)]>>]
    <3>1. it[t] = Op(it[t \ {Max(t)}], s[Max(t)])
      BY <2>5, <2>8
    <3>2. <<it[t \ {Max(t)}], s[Max(t)]>> \in A \X E
      BY <2>2, <2>8
    <3> QED BY <3>1, <3>2
  <2> QED BY <2>6, <2>7, <2>8
<1>3. /\ P[<<>>] = start
      /\ \A s \in Seq(E), x \in E : P[Append(s, x)] = G[<<P[s], x>>]
      /\ \A s \in Seq(E) : P[s] \in A
  <2> HIDE DEF G, P, A, E, start
  <2> QED BY <1>1, <1>2, ListFold
<1>4. <<>> \in Seq(E) /\ \A x \in E : Append(l, x) \in Seq(E)
  OBVIOUS
<1>5. \A s \in Seq(E) : FoldLeft(Insert, dst, s) = P[s]
  OBVIOUS
<1>6. \A a \in A, x \in E : G[<<a, x>>] = Insert(a, x)
  OBVIOUS
<1> HIDE DEF P, G, A, E
<1>7. FoldLeft(Insert, dst, <<>>) = start
  BY <1>3, <1>4, <1>5
<1>8. FoldLeft(Insert, dst, l) \in A
  BY <1>3, <1>5 DEF E
<1>9. ASSUME NEW x \in E
      PROVE  FoldLeft(Insert, dst, Append(l, x))
             = Insert(FoldLeft(Insert, dst, l), x)
  <2>1. P[Append(l, x)] = G[<<P[l], x>>] /\ P[l] \in A
    BY <1>3 DEF E
  <2>2. G[<<P[l], x>>] = Insert(P[l], x)
    BY <1>6, <2>1
  <2>3. FoldLeft(Insert, dst, l) = P[l] /\ FoldLeft(Insert, dst, Append(l, x)) = P[Append(l, x)]
    BY <1>4, <1>5 DEF E
  <2> QED BY ONLY <2>1, <2>2, <2>3
<1> QED BY <1>7, <1>8, <1>9 DEF SortRight, A, E

(* The sorted list has what the list has, in order.                        *)
LEMMA Sorted ==
    ASSUME NEW l \in Seq(Iv)
    PROVE  LET sorted == FoldLeft(Insert, <<>>, l)
           IN  sorted \in Seq(Iv) /\ Ordered(sorted) /\ Range(sorted) = Range(l)
<1> DEFINE S(q) == FoldLeft(Insert, <<>>, q)
           T == {q \in Seq(Iv) : S(q) \in Seq(Iv) /\ Ordered(S(q)) /\ Range(S(q)) = Range(q)}
<1>0. <<>> \in Seq(Iv)
  OBVIOUS
<1>1. \A q \in Seq(Iv) : SortRight(q, <<>>)
  BY <1>0, SortFold
<1>2. S(<<>>) = <<>> /\ \A q \in Seq(Iv), x \in Iv : S(Append(q, x)) = Insert(S(q), x)
  BY <1>0, <1>1 DEF SortRight
<1> HIDE DEF S
<1>3. <<>> \in T
  <2>1. S(<<>>) = <<>>
    BY <1>2
  <2>2. Ordered(<<>>)
    BY DEF Ordered
  <2> QED BY <1>0, <2>1, <2>2
<1>4. ASSUME NEW q \in Seq(Iv), NEW x \in Iv, q \in T PROVE Append(q, x) \in T
  <2>1. /\ Append(q, x) \in Seq(Iv) /\ Insert(S(q), x) \in Seq(Iv)
        /\ Ordered(Insert(S(q), x)) /\ Range(Insert(S(q), x)) = Range(S(q)) \cup {x}
    BY <1>4, InsertTyped, InsertOrdered, InsertKeeps
  <2>2. Range(Append(q, x)) = Range(q) \cup {x}
    BY AppendDomain DEF Range
  <2> QED BY <1>2, <1>4, <2>1, <2>2
<1>5. Seq(Iv) \subseteq T
  <2> HIDE DEF T
  <2> QED BY <1>3, <1>4, ListInduction
<1> QED BY <1>5 DEF S

-----------------------------------------------------------------------------
(* Merging them.                                                           *)

(* An address an interval spans.                                           *)
Spans(iv, a) == iv.start <= a /\ (iv.end = Past \/ a < iv.end)

(* A merged list: intervals apart from one another.                        *)
MergedList(out) == out \in Seq(Iv) /\ out # <<>> /\ Insertable(out)

(* A list after another interval is merged into it.                        *)
LEMMA MergeStep ==
    ASSUME NEW out, MergedList(out), NEW iv \in Iv, out[Len(out)].start <= iv.start
    PROVE  LET new == MergeOne(out, iv)
           IN  /\ MergedList(new) /\ new[Len(new)].start <= iv.start
               /\ (out[Len(out)].end = Past => iv.end = Past)
                  => /\ new[Len(new)].end = Past <=> iv.end = Past
                     /\ \A a \in Nat : Holds(new, a) <=> Holds(out, a) \/ Spans(iv, a)
<1> DEFINE n == Len(out)
           last == out[n]
           grown == [last EXCEPT !.end = iv.end]
<1>1. out \in Seq(Iv) /\ n \in Nat \ {0} /\ DOMAIN out = 1 .. n /\ \A i \in 1 .. n : out[i] \in Iv
  BY DEF MergedList
<1>2. /\ last \in Iv /\ last.start \in Nat /\ last.end \in Nat /\ iv.start \in Nat /\ iv.end \in Nat
      /\ (last.end # Past => last.start < last.end) /\ (iv.end # Past => iv.start < iv.end)
      /\ last.start <= iv.start
  BY <1>1 DEF Iv
<1>3. \A i, j \in 1 .. n : i < j => out[i].end # Past /\ out[i].end < out[j].start
  BY <1>1 DEF MergedList, Insertable
<1>4. \A i \in 1 .. n : /\ out[i].start \in Nat /\ out[i].end \in Nat
                        /\ out[i].end # Past => out[i].start < out[i].end
  BY <1>1 DEF Iv
<1>5. CASE last.end # Past /\ iv.start > last.end
  <2>1. PICK new : new = Append(out, iv)
    OBVIOUS
  <2>2. MergeOne(out, iv) = new
    BY <1>5, <2>1, Zenon DEF MergeOne
  <2>3. /\ new \in Seq(Iv) /\ Len(new) = n + 1 /\ DOMAIN new = 1 .. n + 1 /\ new[n + 1] = iv
        /\ \A i \in 1 .. n : new[i] = out[i]
    <3>1. n + 1 \in Nat /\ Append(out, iv) \in Seq(Iv) /\ Len(Append(out, iv)) = n + 1
      BY <1>1
    <3>2. Append(out, iv)[n + 1] = iv /\ \A i \in 1 .. n : Append(out, iv)[i] = out[i]
      BY <1>1
    <3> QED BY <2>1, <3>1, <3>2
  <2> HIDE DEF n
  <2>4. new # <<>>
    BY <1>1, <2>3
  <2>5. ASSUME NEW i \in 1 .. n + 1, NEW j \in 1 .. n + 1, i < j
        PROVE  new[i].end # Past /\ new[i].end < new[j].start
    <3>1. i \in 1 .. n /\ new[i] = out[i]
      BY <1>1, <2>3, <2>5
    <3>2. CASE j \in 1 .. n
      BY <1>3, <2>3, <2>5, <3>1, <3>2
    <3>3. CASE j = n + 1
      <4>1. CASE i = n
        BY <1>5, <2>3, <3>1, <3>3, <4>1
      <4>2. CASE i < n
        <5>1. n \in 1 .. n
          BY <1>1
        <5>2. out[i].end # Past /\ out[i].end < last.start
          BY <1>3, <3>1, <4>2, <5>1
        <5>3. out[i].end \in Nat /\ new[j] = iv
          BY <1>4, <2>3, <3>1, <3>3
        <5> HIDE DEF last
        <5>4. out[i].end < iv.start
          BY <1>2, <1>5, <5>2, <5>3
        <5> QED BY <3>1, <5>2, <5>3, <5>4
      <4> QED BY <1>1, <3>1, <4>1, <4>2
    <3> QED BY <1>1, <3>2, <3>3
  <2>6. MergedList(new)
    BY <2>3, <2>4, <2>5 DEF MergedList, Insertable
  <2>7. ASSUME NEW a \in Nat PROVE Holds(new, a) <=> Holds(out, a) \/ Spans(iv, a)
    <3>1. Holds(new, a) <=> \E i \in 1 .. n + 1 : Spans(new[i], a)
      BY <2>3, Zenon DEF Holds, Spans
    <3>2. Holds(out, a) <=> \E i \in 1 .. n : Spans(out[i], a)
      BY <1>1, Zenon DEF Holds, Spans
    <3>3. 1 .. n + 1 = 1 .. n \cup {n + 1}
      BY <1>1
    <3> HIDE DEF Spans
    <3> QED BY <2>3, <3>1, <3>2, <3>3, Zenon
  <2>8. new[n + 1].start <= iv.start
    BY <1>2, <2>3
  <2> HIDE DEF last
  <2> QED BY <2>2, <2>3, <2>6, <2>7, <2>8, Zenon
<1>6. CASE ~(last.end # Past /\ iv.start > last.end) /\ (last.end = Past \/ iv.end = Past \/ iv.end > last.end)
  <2>1. PICK new : new = Append(Front(out), grown)
    OBVIOUS
  <2>2. MergeOne(out, iv) = new
    BY <1>6, <2>1, Zenon DEF MergeOne
  <2>3. PICK g : g = grown
    OBVIOUS
  <2>4. g \in Iv /\ g.start = last.start /\ g.end = iv.end
    <3>1. g \in [start : Nat, end : Nat] /\ g.start = last.start /\ g.end = iv.end
      <4> HIDE DEF last
      <4> QED BY <1>2, <2>3 DEF Iv
    <3> HIDE DEF last
    <3> QED BY <1>2, <3>1 DEF Iv
  <2>5. /\ new \in Seq(Iv) /\ Len(new) = n /\ DOMAIN new = 1 .. n
        /\ \A i \in 1 .. n : new[i] = IF i = n THEN g ELSE out[i]
    <3>1. new = Append(Front(out), g) /\ out # <<>>
      BY <2>1, <2>3 DEF MergedList
    <3>2. new \in Seq(Iv) /\ Len(new) = n /\ \A i \in 1 .. n : new[i] = IF i = n THEN g ELSE out[i]
      <4>1. /\ Append(Front(out), g) \in Seq(Iv) /\ Len(Append(Front(out), g)) = Len(out)
            /\ \A i \in 1 .. Len(out) :
                  Append(Front(out), g)[i] = IF i = Len(out) THEN g ELSE out[i]
        <5> HIDE DEF n
        <5> QED BY <1>1, <2>4, <3>1, LastSwapped
      <4> QED BY <3>1, <4>1
    <3> QED BY <3>2
  <2>6. n \in 1 .. n /\ new[n] = g
    <3>1. n \in 1 .. n
      BY ONLY <1>1
    <3> HIDE DEF n
    <3> QED BY ONLY <2>5, <3>1
  <2>7. ASSUME NEW i \in 1 .. n, NEW j \in 1 .. n, i < j
        PROVE  new[i].end # Past /\ new[i].end < new[j].start
    <3>1. i # n /\ new[i] = out[i]
      <4> HIDE DEF n
      <4> QED BY <1>1, <2>5, <2>7
    <3>2. new[j].start = out[j].start
      BY <2>4, <2>5
    <3> HIDE DEF n
    <3> QED BY <1>3, <2>7, <3>1, <3>2
  <2>8. MergedList(new)
    <3>1. new # <<>>
      BY <1>1, <2>5
    <3> HIDE DEF n
    <3> QED BY <2>5, <2>7, <3>1 DEF MergedList, Insertable
  <2>9. ASSUME last.end = Past => iv.end = Past, NEW a \in Nat
        PROVE  Holds(new, a) <=> Holds(out, a) \/ Spans(iv, a)
    <3>1. Holds(new, a) <=> \E i \in 1 .. n : Spans(new[i], a)
      BY <2>5, Zenon DEF Holds, Spans
    <3>2. Holds(out, a) <=> \E i \in 1 .. n : Spans(out[i], a)
      BY <1>1, Zenon DEF Holds, Spans
    <3>3. Spans(g, a) <=> Spans(last, a) \/ Spans(iv, a)
      <4> HIDE DEF last
      <4> QED BY <1>2, <1>6, <2>4, <2>9 DEF Spans
    <3>4. \A i \in 1 .. n : i # n => new[i] = out[i]
      BY <2>5
    <3> HIDE DEF n, Spans
    <3> QED BY <2>6, <3>1, <3>2, <3>3, <3>4, Zenon
  <2>10. new[n].start <= iv.start /\ new[n].end = iv.end
    BY <1>2, <2>4, <2>6
  <2> QED BY <2>2, <2>5, <2>8, <2>9, <2>10, Zenon
<1>7. CASE last.end # Past /\ ~(iv.start > last.end) /\ iv.end # Past /\ ~(iv.end > last.end)
  <2>1. MergeOne(out, iv) = out
    BY <1>7, Zenon DEF MergeOne
  <2>2. ASSUME NEW a \in Nat PROVE Holds(out, a) <=> Holds(out, a) \/ Spans(iv, a)
    <3>1. Spans(iv, a) => Spans(last, a)
      <4> HIDE DEF last
      <4> QED BY <1>2, <1>7 DEF Spans
    <3>2. n \in DOMAIN out
      BY <1>1
    <3>3. Spans(last, a) => Holds(out, a)
      BY <3>2, Zenon DEF Holds, Spans
    <3> QED BY <3>1, <3>3, Zenon
  <2> QED BY <1>2, <1>7, <2>1, <2>2, Zenon
<1> QED BY <1>5, <1>6, <1>7, Zenon

(* What the lists are made of, whatever their ends.                        *)
Raw == [start : Nat, end : Nat]

(* What it is to merge the intervals of a list one by one.                 *)
MergeRight(l, f) ==
    /\ FoldLeft(MergeOne, <<f>>, <<>>) = <<f>>
    /\ FoldLeft(MergeOne, <<f>>, l) \in Seq(Raw) \ {<<>>}
    /\ \A r \in Raw : FoldLeft(MergeOne, <<f>>, Append(l, r))
                 = MergeOne(FoldLeft(MergeOne, <<f>>, l), r)

(* The fold does.                                                          *)
LEMMA MergeFold ==
    ASSUME NEW f \in Raw, NEW l \in Seq(Raw)
    PROVE  MergeRight(l, f)
<1> DEFINE A == Seq(Raw) \ {<<>>}
           E == Raw
           start == <<f>>
           Op(a, x) == MergeOne(a, x)
           G == [y \in A \X E |-> Op(y[1], y[2])]
           P == [s \in Seq(E) |-> FoldLeft(MergeOne, <<f>>, s)]
<1>1. G \in [A \X E -> A] /\ start \in A
  <2>1. ASSUME NEW out \in Seq(Raw) \ {<<>>}, NEW x \in Raw
        PROVE  MergeOne(out, x) \in Seq(Raw) \ {<<>>}
    <3> DEFINE last == out[Len(out)]
    <3>1. last \in Raw
      OBVIOUS
    <3>2. [last EXCEPT !.end = x.end] \in Raw
      <4> HIDE DEF last
      <4> QED BY <3>1 DEF Raw
    <3>3. PICK g \in Raw : g = [last EXCEPT !.end = x.end]
      BY <3>2
    <3>4. Append(Front(out), g) \in Seq(Raw) /\ Len(Append(Front(out), g)) = Len(out)
      <4> HIDE DEF last
      <4> QED BY LastSwapped
    <3>5. Append(Front(out), g) # <<>>
      BY <3>4
    <3>6. Append(out, x) \in Seq(Raw) \ {<<>>}
      OBVIOUS
    <3>7. MergeOne(out, x) \in {Append(out, x), Append(Front(out), g), out}
      BY <3>3, Zenon DEF MergeOne
    <3> HIDE DEF last
    <3> QED BY ONLY <3>4, <3>5, <3>6, <3>7, out \in Seq(Raw) \ {<<>>}
  <2>2. <<f>> \in Seq(Raw) \ {<<>>}
    OBVIOUS
  <2> QED BY <2>1, <2>2
<1>2. Folds(P, E, A, start, G)
  <2> SUFFICES ASSUME NEW s \in Seq(E)
               PROVE  \E it : /\ P[s] = it[DOMAIN s]
                              /\ it[{}] = start
                              /\ \A t \in SUBSET DOMAIN s :
                                    t # {} /\ it[t \ {Max(t)}] \in A
                                    => it[t] = G[<<it[t \ {Max(t)}], s[Max(t)]>>]
    BY DEF Folds
  <2> DEFINE Rec(it) == it = [t \in SUBSET DOMAIN s |->
                                IF t = {} THEN start ELSE Op(it[t \ {Max(t)}], s[Max(t)])]
  <2>1. FoldLeft(MergeOne, <<f>>, s) = (CHOOSE it : Rec(it))[DOMAIN s]
    BY Zenon DEF FoldLeft, MapThenFoldSet
  <2> HIDE DEF start
  <2>2. \A t \in SUBSET DOMAIN s : t # {} => Max(t) \in DOMAIN s /\ s[Max(t)] \in E
    BY MaxOfDomain
  <2>3. PICK g \in [SUBSET DOMAIN s -> A] : Recursion(g, start, G, s)
    <3> HIDE DEF G, A, E
    <3> QED BY <1>1, RecursionExists
  <2>4. Rec(g)
    <3> HIDE DEF Op
    <3> QED BY <2>2, <2>3, Zenon DEF Recursion
  <2> DEFINE it == CHOOSE it : Rec(it)
  <2>5. Rec(it)
    <3> HIDE DEF Rec
    <3> QED BY <2>4
  <2>6. P[s] = it[DOMAIN s]
    BY <2>1
  <2> HIDE DEF it, Op, A, E
  <2>7. it[{}] = start
    BY <2>5
  <2>8. ASSUME NEW t \in SUBSET DOMAIN s, t # {}, it[t \ {Max(t)}] \in A
        PROVE  it[t] = G[<<it[t \ {Max(t)}], s[Max(t)]>>]
    <3>1. it[t] = Op(it[t \ {Max(t)}], s[Max(t)])
      BY <2>5, <2>8
    <3>2. <<it[t \ {Max(t)}], s[Max(t)]>> \in A \X E
      BY <2>2, <2>8
    <3> QED BY <3>1, <3>2
  <2> QED BY <2>6, <2>7, <2>8
<1>3. /\ P[<<>>] = start
      /\ \A s \in Seq(E), x \in E : P[Append(s, x)] = G[<<P[s], x>>]
      /\ \A s \in Seq(E) : P[s] \in A
  <2> HIDE DEF G, P, A, E, start
  <2> QED BY <1>1, <1>2, ListFold
<1>4. <<>> \in Seq(E) /\ \A x \in E : Append(l, x) \in Seq(E)
  OBVIOUS
<1>5. \A s \in Seq(E) : FoldLeft(MergeOne, <<f>>, s) = P[s]
  OBVIOUS
<1>6. \A a \in A, x \in E : G[<<a, x>>] = MergeOne(a, x)
  OBVIOUS
<1> HIDE DEF P, G, A, E
<1>7. FoldLeft(MergeOne, <<f>>, <<>>) = start
  BY <1>3, <1>4, <1>5
<1>8. FoldLeft(MergeOne, <<f>>, l) \in A
  BY <1>3, <1>5 DEF E
<1>9. ASSUME NEW x \in E
      PROVE  FoldLeft(MergeOne, <<f>>, Append(l, x))
             = MergeOne(FoldLeft(MergeOne, <<f>>, l), x)
  <2>1. P[Append(l, x)] = G[<<P[l], x>>] /\ P[l] \in A
    BY <1>3 DEF E
  <2>2. G[<<P[l], x>>] = MergeOne(P[l], x)
    BY <1>6, <2>1
  <2>3. FoldLeft(MergeOne, <<f>>, l) = P[l] /\ FoldLeft(MergeOne, <<f>>, Append(l, x)) = P[Append(l, x)]
    BY <1>4, <1>5 DEF E
  <2> QED BY ONLY <2>1, <2>2, <2>3
<1> QED BY <1>7, <1>8, <1>9 DEF MergeRight, A, E

(* No endless interval of a list holds one that ends.                      *)
EndlessHoldEndless(X) ==
    \A x, y \in X : x.end = Past /\ x.start <= y.start => y.end = Past

(* The last of the starts after a first and some more.                     *)
LastOf(f, q) == IF q = <<>> THEN f ELSE q[Len(q)]

(* Sorted intervals merge into a list of intervals that are apart, and     *)
(* that holds what they span if no endless one holds one that ends.        *)
LEMMA MergeSorted ==
    ASSUME NEW f \in Iv, NEW q \in Seq(Iv),
           \A i \in DOMAIN q : f.start <= q[i].start, Ordered(q)
    PROVE  LET out == FoldLeft(MergeOne, <<f>>, q)
           IN  /\ MergedList(out)
               /\ EndlessHoldEndless(Range(q) \cup {f})
                  => \A a \in Nat : Holds(out, a) <=> \E x \in Range(q) \cup {f} : Spans(x, a)
<1> DEFINE M(l) == FoldLeft(MergeOne, <<f>>, l)
           Fit(l) == (\A i \in DOMAIN l : f.start <= l[i].start) /\ Ordered(l)
           Good(l) == /\ MergedList(M(l)) /\ M(l)[Len(M(l))].start <= LastOf(f, l).start
                      /\ EndlessHoldEndless(Range(l) \cup {f})
                         => /\ M(l)[Len(M(l))].end = Past <=> LastOf(f, l).end = Past
                            /\ \A a \in Nat : Holds(M(l), a) <=> \E x \in Range(l) \cup {f} : Spans(x, a)
           T == {l \in Seq(Iv) : Fit(l) => Good(l)}
<1>1. f \in Raw /\ Iv \subseteq Raw /\ f.start \in Nat
  BY DEF Iv, Raw
<1>2. M(<<>>) = <<f>> /\ \A l \in Seq(Iv), x \in Iv : M(Append(l, x)) = MergeOne(M(l), x)
  <2>1. \A l \in Seq(Raw) : MergeRight(l, f)
    BY <1>1, MergeFold
  <2>2. <<>> \in Seq(Raw) /\ Seq(Iv) \subseteq Seq(Raw)
    BY <1>1
  <2> QED BY <1>1, <2>1, <2>2 DEF MergeRight
<1> HIDE DEF M
<1>3. <<>> \in T
  <2>1. <<f>> \in Seq(Iv) /\ Len(<<f>>) = 1 /\ <<f>>[1] = f /\ DOMAIN <<f>> = {1} /\ <<f>> # <<>>
    OBVIOUS
  <2>2. LastOf(f, <<>>) = f /\ <<>> \in Seq(Iv)
    BY DEF LastOf
  <2>3. Range(<<>>) = {}
    BY DEF Range
  <2>4. MergedList(<<f>>)
    BY <2>1 DEF MergedList, Insertable
  <2>5. \A a \in Nat : Holds(<<f>>, a) <=> Spans(f, a)
    <3> PICK s : s = <<f>>
      OBVIOUS
    <3>1. DOMAIN s = {1} /\ s[1] = f
      OBVIOUS
    <3>2. \A a \in Nat : Holds(s, a) <=> Spans(s[1], a)
      BY <3>1, Zenon DEF Holds, Spans
    <3> QED BY <3>1, <3>2
  <2>6. f.start <= f.start
    BY <1>1
  <2>7. Good(<<>>)
    <3> HIDE DEF Past
    <3> PICK s : s = <<f>>
      OBVIOUS
    <3>1. /\ M(<<>>) = s /\ s[Len(s)] = f /\ MergedList(s)
          /\ \A a \in Nat : Holds(s, a) <=> Spans(f, a)
      BY <1>2, <2>1, <2>4, <2>5
    <3> QED BY <2>2, <2>3, <2>6, <3>1, Zenon
  <2> HIDE DEF Good, Fit
  <2> QED BY <2>2, <2>7
<1>4. ASSUME NEW l \in Seq(Iv), NEW x \in Iv, l \in T PROVE Append(l, x) \in T
  <2> SUFFICES ASSUME Fit(Append(l, x)) PROVE Good(Append(l, x))
    BY AppendDomain
  <2>1. /\ DOMAIN Append(l, x) = DOMAIN l \cup {Len(l) + 1}
        /\ \A i \in DOMAIN l : Append(l, x)[i] = l[i]
        /\ Append(l, x)[Len(l) + 1] = x /\ Append(l, x) \in Seq(Iv)
        /\ DOMAIN l = 1 .. Len(l) /\ Len(l) \in Nat
    BY AppendDomain
  <2> DEFINE k == Append(l, x)
  <2>2. Len(k) = Len(l) + 1 /\ k # <<>>
    OBVIOUS
  <2> HIDE DEF k
  <2>3. Range(k) = Range(l) \cup {x} /\ LastOf(f, k) = x
    <3>1. k[Len(l) + 1] = x /\ DOMAIN k = DOMAIN l \cup {Len(l) + 1} /\ \A i \in DOMAIN l : k[i] = l[i]
      BY <2>1 DEF k
    <3> QED BY <2>2, <3>1 DEF Range, LastOf
  <2>4. Fit(l) /\ LastOf(f, l).start <= x.start
    <3>1. DOMAIN k = DOMAIN l \cup {Len(l) + 1} /\ (\A i \in DOMAIN l : k[i] = l[i]) /\ k[Len(l) + 1] = x
          /\ Fit(k)
      BY <2>1 DEF k
    <3>2. \A i \in DOMAIN l : i \in DOMAIN k /\ k[i] = l[i] /\ i < Len(l) + 1
      BY <2>1, <3>1
    <3>3. Ordered(l)
      BY <3>1, <3>2 DEF Ordered
    <3>4. l # <<>> => l[Len(l)].start <= x.start
      <4>1. l # <<>> => Len(l) \in DOMAIN l
        BY <2>1
      <4> QED BY <3>1, <3>2, <4>1 DEF Ordered
    <3>5. f.start <= x.start
      BY <3>1
    <3> QED BY <3>1, <3>2, <3>3, <3>4, <3>5 DEF LastOf
  <2>5. Good(l)
    BY <1>4, <2>4
  <2>6. M(k) = MergeOne(M(l), x)
    BY <1>2 DEF k
  <2>7. PICK o : o = M(l)
    OBVIOUS
  <2>8. PICK p : p = MergeOne(o, x)
    OBVIOUS
  <2>9. MergedList(o) /\ o[Len(o)].start <= x.start /\ o[Len(o)] \in Iv /\ LastOf(f, l) \in Iv
    <3>1. MergedList(o) /\ o[Len(o)].start <= LastOf(f, l).start
      BY <2>5, <2>7
    <3>2. o \in Seq(Iv) /\ Len(o) \in Nat \ {0}
      BY <3>1 DEF MergedList
    <3>3. o[Len(o)] \in Iv
      BY <3>2
    <3>4. LastOf(f, l) \in Iv
      BY DEF LastOf
    <3>5. x.start \in Nat /\ o[Len(o)].start \in Nat /\ LastOf(f, l).start \in Nat
      BY <3>3, <3>4 DEF Iv
    <3> QED BY <2>4, <3>1, <3>3, <3>4, <3>5
  <2>10. /\ MergedList(p) /\ p[Len(p)].start <= x.start
         /\ (o[Len(o)].end = Past => x.end = Past)
            => /\ p[Len(p)].end = Past <=> x.end = Past
               /\ \A a \in Nat : Holds(p, a) <=> Holds(o, a) \/ Spans(x, a)
    BY <2>8, <2>9, MergeStep
  <2>11. ASSUME EndlessHoldEndless(Range(k) \cup {f})
         PROVE  /\ p[Len(p)].end = Past <=> x.end = Past
                /\ \A a \in Nat : Holds(p, a) <=> \E y \in Range(k) \cup {f} : Spans(y, a)
    <3>1. EndlessHoldEndless(Range(l) \cup {f})
      BY <2>3, <2>11 DEF EndlessHoldEndless
    <3>2. LastOf(f, l) \in Range(k) \cup {f} /\ x \in Range(k) \cup {f}
      <4>1. l # <<>> => l[Len(l)] \in Range(l)
        BY <2>1 DEF Range
      <4> QED BY <2>3, <4>1 DEF LastOf
    <3>3. LastOf(f, l).end = Past => x.end = Past
      BY <2>4, <2>11, <3>2 DEF EndlessHoldEndless
    <3>4. o[Len(o)].end = Past <=> LastOf(f, l).end = Past
      BY <2>5, <2>7, <3>1
    <3>5. \A a \in Nat : Holds(o, a) <=> \E y \in Range(l) \cup {f} : Spans(y, a)
      BY <2>5, <2>7, <3>1
    <3> HIDE DEF Past
    <3> QED BY <2>3, <2>10, <3>3, <3>4, <3>5
  <2>12. M(k) = p /\ p[Len(p)].start <= LastOf(f, k).start
    BY <2>3, <2>6, <2>7, <2>8, <2>10
  <2>13. Good(k)
    BY <2>3, <2>10, <2>11, <2>12, Zenon
  <2> QED BY <2>13 DEF k
<1>5. Seq(Iv) \subseteq T
  <2> HIDE DEF T
  <2> QED BY <1>3, <1>4, ListInduction
<1>6. Good(q)
  BY <1>5
<1> QED BY <1>6 DEF M

(* All that is merged, whatever its order.                                 *)
LEMMA MergedAll ==
    ASSUME NEW l \in Seq(Iv)
    PROVE  /\ Insertable(mergeAddrIntervals(l))
           /\ EndlessHoldEndless(Range(l))
              => \A a \in Nat :
                    Holds(mergeAddrIntervals(l), a) <=> \E x \in Range(l) : Spans(x, a)
<1>1. CASE l = <<>>
  <2>1. mergeAddrIntervals(l) = <<>> /\ Range(l) = {}
    BY <1>1 DEF mergeAddrIntervals, Range
  <2> QED BY <2>1 DEF Insertable, Holds
<1>2. CASE l # <<>>
  <2>1. PICK s : s = FoldLeft(Insert, <<>>, l)
    OBVIOUS
  <2>2. s \in Seq(Iv) /\ Ordered(s) /\ Range(s) = Range(l)
    BY <2>1, Sorted
  <2>3. mergeAddrIntervals(l) = FoldLeft(MergeOne, <<s[1]>>, Tail(s))
    BY <1>2, <2>1, Zenon DEF mergeAddrIntervals
  <2>4. Range(l) # {}
    <3>1. 1 \in DOMAIN l
      BY <1>2
    <3> QED BY <3>1 DEF Range
  <2>5. s # <<>> /\ Len(s) \in Nat \ {0} /\ DOMAIN s = 1 .. Len(s)
    <3>1. Range(<<>>) = {}
      BY DEF Range
    <3> QED BY <2>2, <2>4, <3>1
  <2>6. PICK f : f = s[1]
    OBVIOUS
  <2>7. PICK q : q = Tail(s)
    OBVIOUS
  <2>8. /\ f \in Iv /\ q \in Seq(Iv) /\ DOMAIN q = 1 .. Len(s) - 1
        /\ \A i \in DOMAIN q : q[i] = s[i + 1]
    BY <2>2, <2>5, <2>6, <2>7
  <2>9. (\A i \in DOMAIN q : f.start <= q[i].start) /\ Ordered(q)
    <3>1. \A i \in DOMAIN q : i + 1 \in DOMAIN s /\ 1 < i + 1 /\ 1 \in DOMAIN s
      BY <2>5, <2>8
    <3>2. \A i \in DOMAIN q : f.start <= q[i].start
      BY <2>2, <2>6, <2>8, <3>1 DEF Ordered
    <3>3. \A i, j \in DOMAIN q : i < j => i + 1 < j + 1
      BY <2>8
    <3> QED BY <2>2, <2>8, <3>1, <3>2, <3>3 DEF Ordered
  <2>10. Range(q) \cup {f} = Range(s)
    <3>1. ASSUME NEW i \in DOMAIN s PROVE s[i] \in Range(q) \cup {f}
      <4>1. CASE i = 1
        BY <2>6, <4>1
      <4>2. CASE i # 1
        <5>1. i - 1 \in DOMAIN q /\ i - 1 + 1 = i
          BY <2>5, <2>8, <4>2
        <5>2. q[i - 1] = s[i]
          BY <2>8, <5>1
        <5> QED BY <5>1, <5>2 DEF Range
      <4> QED BY <4>1, <4>2
    <3>2. \A i \in DOMAIN q : i + 1 \in DOMAIN s
      BY <2>5, <2>8
    <3>3. 1 \in DOMAIN s
      BY <2>5
    <3> QED BY <2>6, <2>8, <3>1, <3>2, <3>3 DEF Range
  <2>11. mergeAddrIntervals(l) = FoldLeft(MergeOne, <<f>>, q)
    BY <2>3, <2>6, <2>7
  <2> HIDE DEF Past
  <2>12. PICK out : out = mergeAddrIntervals(l)
    OBVIOUS
  <2>13. /\ MergedList(out)
         /\ EndlessHoldEndless(Range(l))
            => \A a \in Nat : Holds(out, a) <=> \E x \in Range(l) : Spans(x, a)
    <3>1. out = FoldLeft(MergeOne, <<f>>, q)
      BY <2>11, <2>12
    <3>2. Range(q) \cup {f} = Range(l)
      BY <2>2, <2>10
    <3>3. /\ MergedList(FoldLeft(MergeOne, <<f>>, q))
          /\ EndlessHoldEndless(Range(q) \cup {f})
             => \A a \in Nat : Holds(FoldLeft(MergeOne, <<f>>, q), a)
                               <=> \E x \in Range(q) \cup {f} : Spans(x, a)
      BY <2>8, <2>9, MergeSorted, Zenon
    <3> QED BY <3>1, <3>2, <3>3
  <2> QED BY <2>12, <2>13 DEF MergedList
<1> QED BY <1>1, <1>2

-----------------------------------------------------------------------------
(* The interval of an element is what the element covers.                  *)
LEMMA IntervalIs ==
    ASSUME NEW e \in Element
    PROVE  /\ Interval(e) \in Iv /\ Interval(e).start = First(e)
           /\ Interval(e).end = Past <=> First(e) + Size(e) = Space
           /\ \A a \in Address : Spans(Interval(e), a) <=> a \in Covers(e)
<1>1. PICK f \in Nat : f = First(e)
  BY PrefixIs
<1>2. PICK s \in Nat \ {0} : s = Size(e)
  BY PrefixIs
<1>3. PICK n \in Nat : n = Space
  BY PrefixIs
<1>4. f + s <= n
  BY <1>1, <1>2, <1>3, PrefixIs
<1>5. PICK x : x = (f + s) % n
  OBVIOUS
<1>6. x = IF f + s = n THEN 0 ELSE f + s
  <2>1. CASE f + s = n
    BY <1>2, <1>4, <1>5, <2>1
  <2>2. CASE f + s < n
    BY <1>2, <1>4, <1>5, <2>2
  <2> QED BY <1>4, <2>1, <2>2
<1>7. PICK iv : iv = Interval(e)
  OBVIOUS
<1>8. iv = [start |-> f, end |-> x]
  BY <1>1, <1>2, <1>3, <1>5, <1>7, Zenon DEF Interval
<1>9. iv \in Iv /\ iv.start = f /\ iv.end = x
  BY <1>2, <1>6, <1>8 DEF Iv, Past
<1>10. iv.end = Past <=> f + s = n
  BY <1>2, <1>6, <1>9 DEF Past
<1>11. Covers(e) = f .. f + s - 1 /\ Address = 0 .. n - 1
  BY <1>1, <1>2, <1>3, Zenon DEF Covers, Address
<1>12. \A a \in Address : Spans(iv, a) <=> a \in Covers(e)
  BY <1>4, <1>6, <1>9, <1>11 DEF Spans, Past
<1> QED BY <1>1, <1>2, <1>3, <1>7, <1>9, <1>10, <1>12

(* The set of some elements is one the kernel accepts, and it holds what   *)
(* they cover.                                                             *)
LEMMA SetOf ==
    ASSUME NEW l \in Seq(Element), NEW v6 \in BOOLEAN
    PROVE  /\ Insertable(compileAddressSet(l, v6))
           /\ TopHoldsTop(Range(l))
              => \A a \in Address : Holds(compileAddressSet(l, v6), a)
                                    <=> \E e \in Range(l) : e.v6 = v6 /\ a \in Covers(e)
<1>1. PICK ss : ss = [i \in DOMAIN l |-> IF l[i].v6 = v6 THEN <<Interval(l[i])>> ELSE <<>>]
  OBVIOUS
<1>2. PICK ivs : ivs = FlattenSeq(ss)
  OBVIOUS
<1>3. compileAddressSet(l, v6) = mergeAddrIntervals(ivs)
  BY <1>1, <1>2, Zenon DEF compileAddressSet
<1>4. \A i \in DOMAIN l : l[i] \in Element /\ Interval(l[i]) \in Iv
  <2>1. \A i \in DOMAIN l : l[i] \in Element
    OBVIOUS
  <2> QED BY <2>1, IntervalIs
<1>5. ss \in Seq(Seq(Iv)) /\ DOMAIN ss = DOMAIN l
  <2>1. \A i \in DOMAIN l : (IF l[i].v6 = v6 THEN <<Interval(l[i])>> ELSE <<>>) \in Seq(Iv)
    BY <1>4
  <2>2. PICK n \in Nat : n = Len(l)
    OBVIOUS
  <2>3. DOMAIN l = 1 .. n
    BY <2>2
  <2>4. ss \in [1 .. n -> Seq(Iv)]
    BY <1>1, <2>1, <2>3
  <2> QED BY <2>3, <2>4
<1>6. \A i \in DOMAIN l : Range(ss[i]) = IF l[i].v6 = v6 THEN {Interval(l[i])} ELSE {}
  <2>1. \A i \in DOMAIN l : ss[i] = IF l[i].v6 = v6 THEN <<Interval(l[i])>> ELSE <<>>
    BY <1>1
  <2>2. Range(<<>>) = {} /\ \A x : Range(<<x>>) = {x}
    BY DEF Range
  <2> QED BY <2>1, <2>2
<1>7. ivs \in Seq(Iv) /\ Range(ivs) = {x \in Iv : \E i \in DOMAIN ss : x \in Range(ss[i])}
  BY <1>2, <1>5, FlattenRange
<1>8. Range(l) = {l[i] : i \in DOMAIN l} /\ Range(l) \subseteq Element
  BY DEF Range
<1>9. \A x : x \in Range(ivs) <=> \E e \in Range(l) : e.v6 = v6 /\ x = Interval(e)
  BY <1>4, <1>5, <1>6, <1>7, <1>8
<1>10. Insertable(mergeAddrIntervals(ivs))
  BY <1>7, MergedAll
<1>11. ASSUME TopHoldsTop(Range(l)), NEW a \in Address
       PROVE  Holds(mergeAddrIntervals(ivs), a) <=> \E e \in Range(l) : e.v6 = v6 /\ a \in Covers(e)
  <2>1. EndlessHoldEndless(Range(ivs))
    <3>1. ASSUME NEW e \in Range(l), NEW g \in Range(l), e.v6 = v6, g.v6 = v6,
                 Interval(e).end = Past, Interval(e).start <= Interval(g).start
          PROVE  Interval(g).end = Past
      <4>1. e \in Element /\ g \in Element
        BY <1>8
      <4>2. PICK fe \in Nat : fe = First(e)
        BY <4>1, PrefixIs
      <4>3. PICK fg \in Nat : fg = First(g)
        BY <4>1, PrefixIs
      <4>4. PICK n \in Nat : n = Space
        BY <4>1, PrefixIs
      <4>5. PICK se \in Nat \ {0} : se = Size(e)
        BY <4>1, PrefixIs
      <4>6. PICK sg \in Nat \ {0} : sg = Size(g)
        BY <4>1, PrefixIs
      <4>7. fe + se = n /\ fe <= fg /\ fg + sg <= n
        BY <3>1, <4>1, <4>2, <4>3, <4>4, <4>5, <4>6, IntervalIs, PrefixIs
      <4>8. Covers(e) = fe .. fe + se - 1 /\ Covers(g) = fg .. fg + sg - 1
        BY <4>2, <4>3, <4>5, <4>6, Zenon DEF Covers
      <4>9. n - 1 \in Covers(e) /\ Covers(g) \subseteq Covers(e)
        BY <4>7, <4>8
      <4>10. n - 1 \in Covers(g)
        BY <1>11, <3>1, <4>4, <4>9 DEF TopHoldsTop
      <4>11. fg + sg = n
        BY <4>7, <4>8, <4>10
      <4> QED BY <4>1, <4>3, <4>4, <4>6, <4>11, IntervalIs
    <3> QED BY <1>9, <3>1 DEF EndlessHoldEndless
  <2>2. a \in Nat
    <3>1. Width \in 0 .. Width /\ Space \in Nat
      BY WidthAssumption, Powers DEF Space
    <3> QED BY <3>1 DEF Address
  <2>3. Holds(mergeAddrIntervals(ivs), a) <=> \E x \in Range(ivs) : Spans(x, a)
    BY <1>7, <2>1, <2>2, MergedAll
  <2>4. \A e \in Range(l) : Spans(Interval(e), a) <=> a \in Covers(e)
    BY <1>8, IntervalIs
  <2> QED BY <1>9, <2>3, <2>4
<1> QED BY <1>3, <1>10, <1>11

(* A ban names an element.                                                 *)
LEMMA BanTyped ==
    ASSUME NEW s, IsState(s), NEW i \in DOMAIN s.bans
    PROVE  s.bans[i].element \in Element /\ s.bans[i] \in [element : Element, expired : BOOLEAN]
<1> PICK R : R = [element : Element, expired : BOOLEAN]
  OBVIOUS
<1>1. s.bans \in Seq(R)
  BY DEF IsState
<1>2. s.bans[i] \in R
  <2> PICK b : b = s.bans
    OBVIOUS
  <2>1. b \in Seq(R) /\ i \in DOMAIN b
    BY <1>1
  <2>2. b[i] \in R
    BY ONLY <2>1
  <2> QED BY <2>2
<1> QED BY <1>2

(* The set of the bans holds what they cover.                              *)
LEMMA BansListed ==
    ASSUME NEW s, IsState(s), NEW v6 \in BOOLEAN
    PROVE  /\ Insertable(ThreatBans(s, v6))
           /\ TopHoldsTop(LiveBans(s))
              => \A a \in Address : Holds(ThreatBans(s, v6), a)
                                    <=> \E e \in LiveBans(s) : e.v6 = v6 /\ a \in Covers(e)
<1>1. PICK b : b = s.bans
  OBVIOUS
<1>2. b \in Seq([element : Element, expired : BOOLEAN])
  BY <1>1 DEF IsState
<1>0. \A i \in DOMAIN b : b[i].element \in Element
  BY <1>1, BanTyped
<1>3. PICK ss : ss = [i \in DOMAIN b |-> IF b[i].expired THEN <<>> ELSE <<b[i].element>>]
  OBVIOUS
<1>4. PICK l : l = FlattenSeq(ss)
  OBVIOUS
<1>5. ThreatBans(s, v6) = compileAddressSet(l, v6)
  BY <1>1, <1>3, <1>4, Zenon DEF ThreatBans
<1>6. /\ ss \in Seq(Seq(Element)) /\ DOMAIN ss = DOMAIN b
      /\ \A i \in DOMAIN b : ss[i] = IF b[i].expired THEN <<>> ELSE <<b[i].element>>
  <2>1. PICK n \in Nat : n = Len(b)
    BY <1>2
  <2>2. DOMAIN b = 1 .. n /\ \A i \in 1 .. n : b[i].element \in Element
    <3>1. DOMAIN b = 1 .. n
      BY <1>2, <2>1
    <3> QED BY <1>0, <3>1
  <2>3. \A i \in 1 .. n : (IF b[i].expired THEN <<>> ELSE <<b[i].element>>) \in Seq(Element)
    BY <2>2
  <2>4. ss \in [1 .. n -> Seq(Element)]
    BY <1>3, <2>2, <2>3
  <2> QED BY <1>3, <2>2, <2>4
<1>7. l \in Seq(Element) /\ Range(l) = {x \in Element : \E i \in DOMAIN ss : x \in Range(ss[i])}
  BY <1>4, <1>6, FlattenRange
<1>8. Range(l) = LiveBans(s)
  <2>1. \A i \in DOMAIN b : Range(ss[i]) = IF b[i].expired THEN {} ELSE {b[i].element}
    <3>1. Range(<<>>) = {} /\ \A x : Range(<<x>>) = {x}
      BY DEF Range
    <3> QED BY <1>6, <3>1
  <2>2. ASSUME NEW x PROVE x \in Range(l) <=> \E i \in DOMAIN b : ~b[i].expired /\ x = b[i].element
    <3>1. x \in Range(l) <=> x \in Element /\ \E i \in DOMAIN b : x \in Range(ss[i])
      BY <1>6, <1>7
    <3>2. \A i \in DOMAIN b : x \in Range(ss[i]) <=> ~b[i].expired /\ x = b[i].element
      BY <2>1
    <3> HIDE DEF Range
    <3> QED BY <1>0, <3>1, <3>2
  <2>3. \A x : x \in LiveBans(s) <=> \E i \in DOMAIN b : ~b[i].expired /\ x = b[i].element
    BY <1>1 DEF LiveBans
  <2> QED BY <2>2, <2>3
<1> QED BY <1>5, <1>7, <1>8, SetOf

(* No endless ban holds one that ends: then the bans are complete.         *)
LEMMA LiveBansComplete ==
    ASSUME NEW s, IsState(s), TopHoldsTop(LiveBans(s)) PROVE BansComplete(s)
<1> SUFFICES ASSUME NEW v6 \in BOOLEAN, NEW i \in DOMAIN s.bans,
                    s.bans[i].element.v6 = v6, ~s.bans[i].expired
             PROVE  Covers(s.bans[i].element) \subseteq BannedAddresses(s, v6)
  BY DEF BansComplete
<1>1. PICK e : e = s.bans[i].element
  OBVIOUS
<1>2. e \in LiveBans(s) /\ e \in Element /\ e.v6 = v6
  <2>1. s.bans[i].element \in Element
    BY BanTyped
  <2> QED BY <1>1, <2>1 DEF LiveBans
<1>3. Covers(e) \subseteq Address
  <2>1. PICK f \in Nat : f = First(e)
    BY <1>2, PrefixIs
  <2>2. PICK k \in Nat : k = Size(e)
    BY <1>2, PrefixIs
  <2>3. PICK n \in Nat : n = Space
    BY <1>2, PrefixIs
  <2>4. f + k <= n
    BY <1>2, <2>1, <2>2, <2>3, PrefixIs
  <2>5. Covers(e) = f .. f + k - 1 /\ Address = 0 .. n - 1
    BY <2>1, <2>2, <2>3, Zenon DEF Covers, Address
  <2> QED BY <2>4, <2>5
<1>4. \A a \in Covers(e) : Holds(ThreatBans(s, v6), a)
  BY <1>2, <1>3, BansListed
<1> QED BY <1>1, <1>3, <1>4 DEF BannedAddresses

(* The state the kernel's ruleset was compiled from is one of the known.   *)
LEMMA Configured == Spec => [](config \in Config)
<1>1. Init => config \in Config
  BY DEF Init, Applicable
<1>2. ASSUME config \in Config, [Next]_vars PROVE config' \in Config
  BY <1>2 DEF Next, Apply, Arrive, Step, Matched, Missed, Metered, ChainEnd, Leave, Quiet,
              Decided, GoTo, Applicable, table, vars
<1> DEFINE I == config \in Config
<1>3. Init => I
  BY <1>1
<1>4. I /\ [Next]_vars => I'
  BY <1>2
<1> HIDE DEF I
<1>5. Spec => []I
  BY <1>3, <1>4, PTL DEF Spec
<1> QED BY <1>5 DEF I

(* compileAddressSet: the kernel accepts every set of every configuration. *)
THEOREM SetsAreInsertable == Spec => []SetsInsertable
<1> DEFINE I == config \in Config
<1>1. I => SetsInsertable
  <2> SUFFICES ASSUME config \in Config, NEW set \in AddressSets(content[config])
               PROVE  Insertable(set)
    BY DEF SetsInsertable
  <2>1. PICK s : s = content[config]
    OBVIOUS
  <2>2. IsState(s)
    BY <2>1, ContentAssumption
  <2>3. ASSUME NEW v6 \in BOOLEAN PROVE Insertable(ThreatBans(s, v6))
    BY <2>2, BansListed
  <2>4. ASSUME NEW n \in DOMAIN s.sets, NEW v6 \in BOOLEAN
        PROVE  Insertable(compileAddressSet(s.sets[n], v6))
    <3>1. s.sets[n] \in Seq(Element)
      BY <2>2 DEF IsState
    <3> QED BY <3>1, SetOf
  <2> QED BY <2>1, <2>3, <2>4 DEF AddressSets
<1>2. Spec => []I
  BY Configured
<1> HIDE DEF I
<1> QED BY <1>1, <1>2, PTL

-----------------------------------------------------------------------------
(* Sequences put together from literals.                                   *)

IsSeq(s) == \E S : s \in Seq(S)

(* Lists, one after the other.                                             *)
LEMMA Cat ==
    ASSUME NEW s, NEW t, IsSeq(s), IsSeq(t)
    PROVE  /\ IsSeq(s \o t)
           /\ Len(s \o t) = Len(s) + Len(t)
           /\ Len(s) \in Nat /\ Len(t) \in Nat
           /\ \A i \in 1 .. Len(s) + Len(t) :
                 (s \o t)[i] = IF i <= Len(s) THEN s[i] ELSE t[i - Len(s)]
<1>1. PICK S : s \in Seq(S)
  BY DEF IsSeq
<1>2. PICK T : t \in Seq(T)
  BY DEF IsSeq
<1>3. s \in Seq(S \cup T) /\ t \in Seq(S \cup T)
  BY <1>1, <1>2
<1>4. s \o t \in Seq(S \cup T)
  BY <1>3, ConcatProperties
<1>5. QED
  BY <1>3, <1>4, ConcatProperties DEF IsSeq

(* The list of nothing.                                                    *)
LEMMA Zero == IsSeq(<<>>) /\ Len(<<>>) = 0
BY <<>> \in Seq({}) DEF IsSeq

(* A list of one.                                                          *)
LEMMA One == ASSUME NEW a PROVE IsSeq(<<a>>) /\ Len(<<a>>) = 1
<1>1. <<a>> \in Seq({a})
  OBVIOUS
<1>2. QED
  BY <1>1 DEF IsSeq

(* A list of two.                                                          *)
LEMMA Two == ASSUME NEW a, NEW b PROVE IsSeq(<<a, b>>)
<1>1. <<a, b>> \in Seq({a, b})
  OBVIOUS
<1>2. QED
  BY <1>1 DEF IsSeq

(* A list of four.                                                         *)
LEMMA Four ==
    ASSUME NEW a, NEW b, NEW c, NEW d
    PROVE  IsSeq(<<a, b, c, d>>) /\ Len(<<a, b, c, d>>) = 4
<1>1. <<a, b, c, d>> \in Seq({a, b, c, d})
  OBVIOUS
<1>2. QED
  BY <1>1 DEF IsSeq

(* A list of five.                                                         *)
LEMMA Five ==
    ASSUME NEW a, NEW b, NEW c, NEW d, NEW e
    PROVE  IsSeq(<<a, b, c, d, e>>)
<1>1. <<a, b, c, d, e>> \in Seq({a, b, c, d, e})
  OBVIOUS
<1>2. QED
  BY <1>1 DEF IsSeq

(* The sequences that begin with another.                                  *)
Begins(l, s) == /\ IsSeq(l) /\ Len(l) \in Nat /\ Len(l) >= Len(s)
                /\ \A i \in 1 .. Len(s) : l[i] = s[i]

(* A list begins with its first part.                                      *)
LEMMA BeginsFirst ==
    ASSUME NEW s, NEW t, IsSeq(s), IsSeq(t) PROVE Begins(s \o t, s)
BY Cat DEF Begins

(* A list goes on.                                                         *)
LEMMA BeginsMore ==
    ASSUME NEW l, NEW s, NEW t, Begins(l, s), IsSeq(s), IsSeq(t)
    PROVE  Begins(l \o t, s)
<1>1. IsSeq(l) /\ Len(l) >= Len(s) /\ \A i \in 1 .. Len(s) : l[i] = s[i]
  BY DEF Begins
<1>2. IsSeq(l \o t) /\ Len(l \o t) = Len(l) + Len(t) /\ Len(t) \in Nat /\ Len(l) \in Nat
  BY <1>1, Cat
<1>3. \A i \in 1 .. Len(l) + Len(t) :
          (l \o t)[i] = IF i <= Len(l) THEN l[i] ELSE t[i - Len(l)]
  BY <1>1, Cat
<1>4. Len(s) \in Nat
  BY Cat
<1>5. QED
  BY <1>1, <1>2, <1>3, <1>4 DEF Begins

-----------------------------------------------------------------------------
(* What a banned packet is.                                                *)
LEMMA BannedIs ==
    ASSUME NEW s, NEW p, F!Banned(s, p), BansComplete(s), p.v6 \in BOOLEAN
    PROVE  p.hook \in {"input", "forward"} /\ p.saddr \in BannedAddresses(s, p.v6)
<1>1. \A e : F!Covers(e) = Covers(e)
  BY DEF F!Covers, F!First, F!Size, F!Power, Covers, First, Size, Power
<1>2. PICK i \in DOMAIN s.bans :
          ~s.bans[i].expired /\ F!InElements(<<s.bans[i].element>>, p, p.saddr)
  BY DEF F!Banned
<1>3. s.bans[i].element.v6 = p.v6 /\ p.saddr \in Covers(s.bans[i].element)
  BY <1>1, <1>2 DEF F!InElements
<1>4. Covers(s.bans[i].element) \subseteq BannedAddresses(s, p.v6)
  BY <1>2, <1>3 DEF BansComplete
<1>5. QED
  BY <1>3, <1>4 DEF F!Banned

-----------------------------------------------------------------------------
(* The beginning of the base and the before chains of the two hooks.       *)

Guarded == {"input", "forward"}
Skipped(s, h) == IF IPv6(s) THEN 0 ELSE IF h = "input" THEN 2 ELSE 1
Lo(h) == IF h = "input" THEN 1 ELSE 0

LoopbackRule(r) == \/ r = Accept(iif({"lo"}))
                   \/ r = Accept(nfproto(TRUE) \o iif({"lo"}))
DropRule(r) == \E on : r = Drop(on)

(* The base chain of input and forward: no IPv6 perhaps, then seven jumps. *)
LEMMA BaseShape ==
    ASSUME NEW s, ~s.panic, NEW h \in Guarded
    PROVE  /\ Len(Base(s, h)) = Skipped(s, h) + 7
           /\ \A i \in 1 .. Skipped(s, h) :
                 \/ DropRule(Base(s, h)[i])
                 \/ h = "input" /\ LoopbackRule(Base(s, h)[i])
           /\ Base(s, h)[Skipped(s, h) + 1] = jump(<<>>, <<"before-logging", h>>)
           /\ Base(s, h)[Skipped(s, h) + 2] = jump(<<>>, <<"before", h>>)
<1> DEFINE lo == <<Accept(nfproto(TRUE) \o iif({"lo"}))>>
           no == <<Drop(nfproto(TRUE))>>
           pre == IF IPv6(s) THEN <<>> ELSE NoIPv6(h)
<1>1. IsSeq(lo) /\ Len(lo) = 1 /\ IsSeq(no) /\ Len(no) = 1 /\ IsSeq(<<>>) /\ Len(<<>>) = 0
  BY Zero, One
<1>2. /\ lo[1] = Accept(nfproto(TRUE) \o iif({"lo"}))
      /\ no[1] = Drop(nfproto(TRUE))
  OBVIOUS
<1> HIDE DEF lo, no
<1>3. NoIPv6(h) = (IF h = "input" THEN lo ELSE <<>>) \o no
  BY DEF NoIPv6, Guarded, lo, no
<1>4. /\ IsSeq(pre) /\ Len(pre) = Skipped(s, h)
      /\ \A i \in 1 .. Skipped(s, h) :
            DropRule(pre[i]) \/ (h = "input" /\ LoopbackRule(pre[i]))
  <2>1. CASE IPv6(s)
    BY <2>1, <1>1 DEF Skipped
  <2>2. CASE ~IPv6(s) /\ h = "input"
    <3>1. pre = lo \o no /\ Skipped(s, h) = 2
      BY <2>2, <1>3 DEF Skipped
    <3>2. /\ IsSeq(lo \o no) /\ Len(lo \o no) = 2
          /\ (lo \o no)[1] = lo[1] /\ (lo \o no)[2] = no[1]
      <4>1. /\ IsSeq(lo \o no) /\ Len(lo \o no) = Len(lo) + Len(no)
            /\ \A i \in 1 .. Len(lo) + Len(no) :
                  (lo \o no)[i] = IF i <= Len(lo) THEN lo[i] ELSE no[i - Len(lo)]
        BY <1>1, Cat, Zenon
      <4>2. QED
        BY <1>1, <4>1
    <3>3. DropRule(no[1]) /\ LoopbackRule(lo[1])
      BY <1>2 DEF DropRule, LoopbackRule
    <3>4. \A i \in 1 .. 2 : i = 1 \/ i = 2
      OBVIOUS
    <3>5. QED
      BY <2>2, <3>1, <3>2, <3>3, <3>4
  <2>3. CASE ~IPv6(s) /\ h # "input"
    <3>1. pre = <<>> \o no /\ Skipped(s, h) = 1
      BY <2>3, <1>3 DEF Skipped
    <3>2. /\ IsSeq(<<>> \o no) /\ Len(<<>> \o no) = 1
          /\ (<<>> \o no)[1] = no[1]
      <4>1. /\ IsSeq(<<>> \o no) /\ Len(<<>> \o no) = Len(<<>>) + Len(no)
            /\ \A i \in 1 .. Len(<<>>) + Len(no) :
                  (<<>> \o no)[i] = IF i <= Len(<<>>) THEN <<>>[i] ELSE no[i - Len(<<>>)]
        BY <1>1, Cat, Zenon
      <4>2. QED
        BY <1>1, <4>1
    <3>3. DropRule(no[1])
      BY <1>2 DEF DropRule
    <3>4. \A i \in 1 .. 1 : i = 1
      OBVIOUS
    <3>5. QED
      BY <2>3, <3>1, <3>2, <3>3, <3>4
  <2>4. QED
    BY <2>1, <2>2, <2>3
<1>5. /\ IsSeq(Jumps(h)) /\ Len(Jumps(h)) = 7
      /\ Jumps(h)[1] = jump(<<>>, <<"before-logging", h>>)
      /\ Jumps(h)[2] = jump(<<>>, <<"before", h>>)
  <2>1. Jumps(h) \in Seq({Jumps(h)[i] : i \in 1 .. 7}) /\ Len(Jumps(h)) = 7
    BY DEF Jumps
  <2>2. /\ Jumps(h)[1] = jump(<<>>, << <<"before-logging", "before", "user", "after",
                                 "after-logging", "reject", "track">>[1], h>>)
        /\ Jumps(h)[2] = jump(<<>>, << <<"before-logging", "before", "user", "after",
                                 "after-logging", "reject", "track">>[2], h>>)
    BY DEF Jumps
  <2>3. QED
    BY <2>1, <2>2 DEF IsSeq
<1>6. Base(s, h) = pre \o Jumps(h)
  BY DEF Base
<1> HIDE DEF pre
<1>7. Skipped(s, h) \in Nat
  BY DEF Skipped
<1>8. /\ Len(pre \o Jumps(h)) = Len(pre) + Len(Jumps(h))
      /\ \A i \in 1 .. Len(pre) + Len(Jumps(h)) :
            (pre \o Jumps(h))[i] = IF i <= Len(pre) THEN pre[i] ELSE Jumps(h)[i - Len(pre)]
  BY <1>4, <1>5, Cat, Zenon
<1>9. \A i \in 1 .. Skipped(s, h) : Base(s, h)[i] = pre[i]
  BY <1>4, <1>5, <1>6, <1>7, <1>8
<1>10. /\ Base(s, h)[Skipped(s, h) + 1] = Jumps(h)[1]
       /\ Base(s, h)[Skipped(s, h) + 2] = Jumps(h)[2]
  BY <1>4, <1>5, <1>6, <1>7, <1>8
<1>11. QED
  BY <1>4, <1>5, <1>6, <1>8, <1>9, <1>10

(* The built-in chain: loopback on input, then the prefix with the bans.   *)
LEMMA BeforeShape ==
    ASSUME NEW s, NEW h \in Guarded
    PROVE  /\ Len(Before(s, h)) \in Nat /\ Len(Before(s, h)) >= Lo(h) + 4
           /\ h = "input" => Before(s, h)[1] = Accept(iif({"lo"}))
           /\ Before(s, h)[Lo(h) + 1] = RoutingHeader
           /\ Before(s, h)[Lo(h) + 2] = ThreatBan(s, FALSE)
           /\ Before(s, h)[Lo(h) + 3] = ThreatBan(s, TRUE)
<1> DEFINE prefix == BeforePrefix(s, h)
           ban4 == ThreatBan(s, FALSE)
           ban6 == ThreatBan(s, TRUE)
<1>1. /\ IsSeq(prefix) /\ Len(prefix) = 4
      /\ prefix[1] = RoutingHeader
      /\ prefix[2] = ban4
      /\ prefix[3] = ban6
  BY Four DEF BeforePrefix
<1> HIDE DEF prefix, ban4, ban6
<1> SUFFICES /\ Len(Before(s, h)) \in Nat /\ Len(Before(s, h)) >= Lo(h) + 4
             /\ h = "input" => Before(s, h)[1] = Accept(iif({"lo"}))
             /\ Before(s, h)[Lo(h) + 1] = RoutingHeader
             /\ Before(s, h)[Lo(h) + 2] = ban4
             /\ Before(s, h)[Lo(h) + 3] = ban6
  BY Zenon DEF ban4, ban6
<1>2. CASE h = "input"
  <2> DEFINE lo == <<Accept(iif({"lo"}))>>
             mid == <<EchoReply6,
                      jump(ctState({"invalid"}), <<"logging-deny", "">>),
                      Drop(ctState({"invalid"})),
                      ICMPv4>>
             more == <<Accept(ICMPv6({144, 145, 146, 147}))>>
             mdns4 == Discovery(FALSE, Mdns, 5353)
             mdns6 == Discovery(TRUE, Mdns, 5353)
             upnp4 == Discovery(FALSE, Upnp, 1900)
             upnp6 == Discovery(TRUE, Upnp, 1900)
             local == jump(nfproto(FALSE), <<"not-local", "">>)
             last == <<local, mdns4, mdns6, upnp4, upnp6>>
  <2>1. Before(s, h) = lo \o prefix \o mid \o beforeICMPv6Rules \o more
                       \o DHCPClient \o last
    BY <1>2 DEF Before, prefix
  <2>2. IsSeq(lo) /\ Len(lo) = 1 /\ lo[1] = Accept(iif({"lo"}))
    BY One
  <2> HIDE DEF local, mdns4, mdns6, upnp4, upnp6
  <2>3. IsSeq(mid) /\ IsSeq(more) /\ IsSeq(last)
    <3>1. IsSeq(mid)
      BY Four
    <3>2. IsSeq(more)
      BY One
    <3>3. IsSeq(last)
      BY Five
    <3> HIDE DEF mid, more, last
    <3>4. QED
      BY <3>1, <3>2, <3>3
  <2>4. IsSeq(beforeICMPv6Rules)
    BY Four DEF beforeICMPv6Rules
  <2>5. IsSeq(DHCPClient)
    BY Two DEF DHCPClient
  <2> HIDE DEF lo, mid, more, last
  <2>6. /\ IsSeq(lo \o prefix) /\ Len(lo \o prefix) = Len(lo) + Len(prefix)
        /\ \A i \in 1 .. Len(lo) + Len(prefix) :
              (lo \o prefix)[i] = IF i <= Len(lo) THEN lo[i] ELSE prefix[i - Len(lo)]
    BY <1>1, <2>2, Cat, Zenon
  <2>7. Begins(Before(s, h), lo \o prefix)
    <3>1. Begins(lo \o prefix \o mid, lo \o prefix)
      BY <2>3, <2>6, BeginsFirst
    <3>2. Begins(lo \o prefix \o mid \o beforeICMPv6Rules, lo \o prefix)
      BY <2>4, <2>6, <3>1, BeginsMore
    <3>3. Begins(lo \o prefix \o mid \o beforeICMPv6Rules \o more, lo \o prefix)
      BY <2>3, <2>6, <3>2, BeginsMore
    <3>4. Begins(lo \o prefix \o mid \o beforeICMPv6Rules \o more \o DHCPClient, lo \o prefix)
      BY <2>5, <2>6, <3>3, BeginsMore
    <3>5. QED
      BY <2>1, <2>3, <2>6, <3>4, BeginsMore
  <2>8. /\ (lo \o prefix)[1] = lo[1] /\ (lo \o prefix)[2] = prefix[1]
        /\ (lo \o prefix)[3] = prefix[2] /\ (lo \o prefix)[4] = prefix[3]
        /\ Len(lo \o prefix) = 5
    <3>1. \A i \in 2 .. 5 : (lo \o prefix)[i] = prefix[i - 1]
      BY <1>1, <2>2, <2>6
    <3>2. 2 - 1 = 1 /\ 3 - 1 = 2 /\ 4 - 1 = 3
      OBVIOUS
    <3>3. (lo \o prefix)[1] = lo[1] /\ Len(lo \o prefix) = 5
      BY <1>1, <2>2, <2>6
    <3>4. QED
      BY <3>1, <3>2, <3>3
  <2>9. /\ Len(Before(s, h)) \in Nat /\ Len(Before(s, h)) >= 5
        /\ \A i \in 1 .. 5 : Before(s, h)[i] = (lo \o prefix)[i]
    BY <2>7, <2>8 DEF Begins
  <2>10. /\ Before(s, h)[1] = Accept(iif({"lo"}))
         /\ Before(s, h)[2] = RoutingHeader
         /\ Before(s, h)[3] = ban4
         /\ Before(s, h)[4] = ban6
    BY <1>1, <2>2, <2>8, <2>9
  <2>11. Lo(h) + 1 = 2 /\ Lo(h) + 2 = 3 /\ Lo(h) + 3 = 4 /\ Lo(h) + 4 = 5
    BY <1>2 DEF Lo
  <2>12. QED
    BY <1>2, <2>9, <2>10, <2>11
<1>3. CASE h = "forward"
  <2> DEFINE rest == <<ICMPv4, Accept(ICMPv6({1, 2, 3, 4, 128, 129}))>>
  <2>1. Before(s, h) = prefix \o rest
    BY <1>3 DEF Before, prefix
  <2>2. IsSeq(rest)
    BY Two
  <2> HIDE DEF rest
  <2>3. Begins(Before(s, h), prefix)
    BY <1>1, <2>1, <2>2, BeginsFirst
  <2>4. /\ Len(Before(s, h)) \in Nat /\ Len(Before(s, h)) >= 4
        /\ \A i \in 1 .. 4 : Before(s, h)[i] = prefix[i]
    BY <1>1, <2>3 DEF Begins
  <2>5. /\ Before(s, h)[1] = RoutingHeader
        /\ Before(s, h)[2] = ban4
        /\ Before(s, h)[3] = ban6
    BY <1>1, <2>4
  <2>6. Lo(h) + 1 = 1 /\ Lo(h) + 2 = 2 /\ Lo(h) + 3 = 3 /\ Lo(h) + 4 = 4 /\ h # "input"
    BY <1>3 DEF Lo
  <2>7. QED
    BY <2>4, <2>5, <2>6
<1>4. QED
  BY <1>2, <1>3, Zenon DEF Guarded

(* The chain that logs before it.                                          *)
LEMMA LogShape ==
    ASSUME NEW s
    PROVE  /\ Len(BeforeLogging(s)) \in 0 .. 1
           /\ \A i \in 1 .. Len(BeforeLogging(s)) :
                 /\ BeforeLogging(s)[i].verdict = "continue"
                 /\ BeforeLogging(s)[i].meter = {}
<1>1. \A on : /\ Log(on).verdict = "continue" /\ Log(on).meter = {}
              /\ Limited(Log(on)).verdict = "continue" /\ Limited(Log(on)).meter = {}
  BY DEF Log, nft, NoMeter, Limited
<1>2. \/ BeforeLogging(s) = <<>>
      \/ \E on : BeforeLogging(s) = <<Log(on)>> \/ BeforeLogging(s) = <<Limited(Log(on))>>
  BY DEF BeforeLogging
<1>3. QED
  BY <1>1, <1>2

-----------------------------------------------------------------------------
(* Which of their rules a banned packet passes.                            *)

(* A rule that drops.                                                      *)
LEMMA DropIs ==
    ASSUME NEW r, DropRule(r) PROVE r.verdict = "drop" /\ ~r.limited /\ r.meter = {}
BY DEF DropRule, Drop, nft, NoMeter

(* A jump all packets take.                                                *)
LEMMA JumpIs ==
    ASSUME NEW to, NEW p
    PROVE  LET r == jump(<<>>, to)
           IN  /\ r.verdict = "jump" /\ r.to = to /\ ~r.limited /\ r.meter = {}
               /\ Passes(r, p)
BY DEF jump, nft, NoMeter, Passes

(* A loopback rule accepts what comes in by it alone.                      *)
LEMMA LoopbackIs ==
    ASSUME NEW r, LoopbackRule(r), NEW p
    PROVE  /\ r.verdict = "accept" /\ r.meter = {}
           /\ Passes(r, p) => p.in = "lo"
<1> DEFINE n == nfproto(TRUE)
<1>1. IsSeq(n) /\ Len(n) = 1
  BY One DEF nfproto
<1> HIDE DEF n
<1>2. IsSeq(iif({"lo"})) /\ Len(iif({"lo"})) = 1 /\ iif({"lo"})[1] = <<"in", {"lo"}>>
  BY One DEF iif
<1>3. /\ IsSeq(n \o iif({"lo"})) /\ Len(n \o iif({"lo"})) = Len(n) + Len(iif({"lo"}))
      /\ \A i \in 1 .. Len(n) + Len(iif({"lo"})) :
            (n \o iif({"lo"}))[i] = IF i <= Len(n) THEN n[i] ELSE iif({"lo"})[i - Len(n)]
  BY <1>1, <1>2, Cat, Zenon
<1>4. Len(n \o iif({"lo"})) = 2 /\ (n \o iif({"lo"}))[2] = <<"in", {"lo"}>>
  BY <1>1, <1>2, <1>3
<1>5. \E i \in DOMAIN r.on : r.on[i] = <<"in", {"lo"}>>
  <2>1. CASE r = Accept(iif({"lo"}))
    BY <2>1, <1>2 DEF Accept, nft, iif
  <2>2. CASE r = Accept(n \o iif({"lo"}))
    <3>1. r.on = n \o iif({"lo"})
      BY <2>2 DEF Accept, nft
    <3>2. PICK S : n \o iif({"lo"}) \in Seq(S)
      BY <1>3 DEF IsSeq
    <3>3. 2 \in DOMAIN (n \o iif({"lo"}))
      BY <1>4, <3>2
    <3>4. QED
      BY <1>4, <3>1, <3>3
  <2>3. QED
    BY <2>1, <2>2, Zenon DEF LoopbackRule, n
<1>6. Passes(r, p) => p.in = "lo"
  BY <1>5 DEF Passes
<1>7. r.verdict = "accept" /\ r.meter = {}
  <2>1. \E on : r = Accept(on)
    BY Zenon DEF LoopbackRule
  <2>2. QED
    BY <2>1 DEF Accept, nft, NoMeter
<1>8. QED
  BY <1>6, <1>7

(* A packet from a banned address passes the rule of the bans.             *)
LEMMA BanIs ==
    ASSUME NEW s, NEW p, NEW v6 \in BOOLEAN, p.v6 = v6, p.saddr \in BannedAddresses(s, v6)
    PROVE  Passes(ThreatBan(s, v6), p)
<1> DEFINE n == nfproto(v6)
           m == << <<"saddr", BannedAddresses(s, v6)>> >>
<1>1. IsSeq(n) /\ Len(n) = 1 /\ n[1] = <<"v6", {v6}>>
  BY One DEF nfproto
<1>2. IsSeq(m) /\ Len(m) = 1 /\ m[1] = <<"saddr", BannedAddresses(s, v6)>>
  BY One
<1>3. ThreatBan(s, v6).on = n \o m
  BY DEF ThreatBan, Drop, nft
<1> HIDE DEF n, m
<1>4. /\ IsSeq(n \o m) /\ Len(n \o m) = Len(n) + Len(m)
      /\ \A i \in 1 .. Len(n) + Len(m) :
            (n \o m)[i] = IF i <= Len(n) THEN n[i] ELSE m[i - Len(n)]
  BY <1>1, <1>2, Cat, Zenon
<1>5. (n \o m)[1] = <<"v6", {v6}>> /\ (n \o m)[2] = <<"saddr", BannedAddresses(s, v6)>>
  BY <1>1, <1>2, <1>4
<1>6. DOMAIN (n \o m) = 1 .. 2
  <2>1. PICK S : n \o m \in Seq(S)
    BY <1>4 DEF IsSeq
  <2>2. QED
    BY <1>1, <1>2, <1>4, <2>1
<1>7. \A i \in 1 .. 2 : i = 1 \/ i = 2
  OBVIOUS
<1>8. QED
  BY <1>3, <1>5, <1>6, <1>7 DEF Passes

-----------------------------------------------------------------------------
(* Where a banned packet can be: on its way to the rules that drop it.     *)

Shut(s, p) == F!Banned(s, p) /\ ~F!Loopback(p)

AtBase(s, p) ==
    /\ chain = <<"base", p.hook>> /\ stack = <<>>
    /\ pc \in 1 .. Skipped(s, p.hook) + 2
    /\ s.panic => pc = 1

AtLogging(s, p) ==
    /\ ~s.panic
    /\ chain = <<"before-logging", p.hook>> /\ pc \in 1 .. 2
    /\ stack = <<[chain |-> <<"base", p.hook>>, pc |-> Skipped(s, p.hook) + 2]>>

AtBefore(s, p) ==
    /\ ~s.panic
    /\ chain = <<"before", p.hook>>
    /\ pc \in 1 .. Lo(p.hook) + 3
    /\ pc = Lo(p.hook) + 3 => p.v6 = TRUE

BanInv ==
    /\ config \in Applicable /\ ruleset = compile(config)
    /\ pkt \in Packet \cup {NoPacket}
    /\ pkt = NoPacket => verdict = Undecided
    /\ pkt # NoPacket /\ Shut(content[config], pkt) =>
          /\ verdict # "accept"
          /\ verdict = Undecided =>
                \/ AtBase(content[config], pkt)
                \/ AtLogging(content[config], pkt)
                \/ AtBefore(content[config], pkt)

(* The chains of the table that is loaded.                                 *)
LEMMA Loaded ==
    ASSUME NEW s, s = content[config], ruleset = compile(config), NEW h \in Guarded
    PROVE  /\ ruleset[<<"base", h>>] = Base(s, h)
           /\ ruleset[<<"before-logging", h>>] = BeforeLogging(s)
           /\ ruleset[<<"before", h>>] = Before(s, h)
<1>1. \A part \in {"base", "before-logging", "before"} : <<part, h>> \in ChainName
  BY DEF ChainName, Hook, Guarded
<1>2. \A name \in ChainName : ruleset[name] = Chain(s, name)
  BY DEF compile
<1>3. /\ Chain(s, <<"base", h>>) = Base(s, h)
      /\ Chain(s, <<"before-logging", h>>) = BeforeLogging(s)
      /\ Chain(s, <<"before", h>>) = Before(s, h)
  BY DEF Chain
<1>4. QED
  BY <1>1, <1>2, <1>3

(* What a step at a rule without a meter does.                             *)
LEMMA StepAtRule ==
    ASSUME Step, AtRule, NEW r, r = Current, r.meter = {}
    PROVE  \/ Passes(r, pkt) /\ r.verdict \in {"accept", "drop", "reject"} /\ Decided(r.verdict)
           \/ Passes(r, pkt) /\ r.verdict = "continue" /\ GoTo(chain, pc + 1, stack)
           \/ /\ Passes(r, pkt) /\ r.verdict = "jump"
              /\ GoTo(r.to, 1, Append(stack, [chain |-> chain, pc |-> pc + 1]))
           \/ /\ Passes(r, pkt) /\ r.verdict = "return"
           \/ (Passes(r, pkt) => r.limited) /\ GoTo(chain, pc + 1, stack)
BY DEF Step, Matched, Missed, Metered, ChainEnd

(* A banned packet is dropped, or stays before the rules that drop it.     *)
LEMMA StepKeeps ==
    ASSUME BanInv, Step, NEW s, s = content[config], Shut(s, pkt), BansComplete(s),
           pkt.v6 \in BOOLEAN
    PROVE  verdict' # "accept"
           /\ (verdict' = Undecided => AtBase(s, pkt)' \/ AtLogging(s, pkt)' \/ AtBefore(s, pkt)')
<1> DEFINE h == pkt.hook
<1>1. /\ h \in Guarded /\ pkt.saddr \in BannedAddresses(s, pkt.v6)
      /\ ~(h = "input" /\ pkt.in = "lo")
  BY BannedIs DEF Shut, Guarded, F!Loopback
<1>2. pkt # NoPacket /\ verdict = Undecided
  BY DEF Step, Matched, Missed, Metered, ChainEnd, AtRule, Walking
<1>3. AtBase(s, pkt) \/ AtLogging(s, pkt) \/ AtBefore(s, pkt)
  BY <1>2 DEF BanInv
<1>4. /\ ruleset[<<"base", h>>] = Base(s, h)
      /\ ruleset[<<"before-logging", h>>] = BeforeLogging(s)
      /\ ruleset[<<"before", h>>] = Before(s, h)
  BY <1>1, Loaded DEF BanInv
<1>5. UNCHANGED pkt
  BY DEF Step, Matched, Missed, Metered, ChainEnd, Decided, GoTo
<1>6. Skipped(s, h) \in Nat /\ Lo(h) \in 0 .. 1 /\ (Lo(h) = 1 => h = "input")
  BY DEF Skipped, Lo
<1> HIDE DEF h
<1>7. ASSUME Decided("drop") PROVE verdict' = "drop"
  BY <1>7 DEF Decided
<1>8. ASSUME NEW c, NEW i, NEW k, GoTo(c, i, k)
      PROVE  chain' = c /\ pc' = i /\ stack' = k /\ verdict' = Undecided
  BY <1>2, <1>8 DEF GoTo
<1>9. CASE AtBase(s, pkt) /\ s.panic
  <2>1. ~AtRule /\ stack = <<>>
    BY <1>4, <1>9 DEF AtBase, AtRule, Base, h
  <2>2. Decided(BasePolicy(content[config], pkt.hook))
    BY <2>1 DEF Step, Matched, Missed, Metered, ChainEnd
  <2>3. Decided("drop")
    BY <1>9, <2>2 DEF BasePolicy
  <2>4. QED
    BY <1>7, <2>3 DEF Undecided
<1>10. CASE AtBase(s, pkt) /\ ~s.panic
  <2>1. /\ chain = <<"base", h>> /\ stack = <<>> /\ pc \in 1 .. Skipped(s, h) + 2
        /\ Current = Base(s, h)[pc]
    BY <1>4, <1>10 DEF AtBase, Current, h
  <2>2. AtRule
    BY <1>1, <1>2, <1>4, <1>6, <1>10, <2>1, BaseShape DEF AtRule, Walking
  <2>3. CASE pc \in 1 .. Skipped(s, h)
    <3>1. DropRule(Current) \/ (h = "input" /\ LoopbackRule(Current))
      BY <1>1, <1>10, <2>1, <2>3, BaseShape
    <3>2. Current.meter = {} /\ (Current.verdict = "drop" \/ ~Passes(Current, pkt))
      BY <1>1, <3>1, DropIs, LoopbackIs
    <3>3. Decided("drop") \/ GoTo(chain, pc + 1, stack)
      BY <2>2, <3>2, StepAtRule
    <3>4. CASE GoTo(chain, pc + 1, stack)
      <4>1. chain' = <<"base", h>> /\ pc' = pc + 1 /\ stack' = <<>> /\ verdict' = Undecided
        BY <1>8, <2>1, <3>4
      <4>2. pc + 1 \in 1 .. Skipped(s, h) + 2
        BY <1>6, <2>3
      <4>3. AtBase(s, pkt)'
        BY <1>5, <1>10, <4>1, <4>2 DEF AtBase, h
      <4>4. QED
        BY <4>1, <4>3 DEF Undecided
    <3>5. QED
      BY <1>7, <3>3, <3>4 DEF Undecided
  <2>4. CASE pc = Skipped(s, h) + 1
    <3>1. Current = jump(<<>>, <<"before-logging", h>>)
      BY <1>1, <1>10, <2>1, <2>4, BaseShape
    <3>2. GoTo(<<"before-logging", h>>, 1, Append(stack, [chain |-> chain, pc |-> pc + 1]))
      BY <2>2, <3>1, JumpIs, StepAtRule
    <3>3. pc + 1 = Skipped(s, h) + 2
      BY <1>6, <2>4
    <3>4. /\ chain' = <<"before-logging", h>> /\ pc' = 1 /\ verdict' = Undecided
          /\ stack' = <<[chain |-> <<"base", h>>, pc |-> Skipped(s, h) + 2]>>
      BY <1>8, <2>1, <3>2, <3>3
    <3>5. AtLogging(s, pkt)'
      BY <1>5, <1>10, <3>4 DEF AtLogging, h
    <3>6. QED
      BY <3>4, <3>5 DEF Undecided
  <2>5. CASE pc = Skipped(s, h) + 2
    <3>1. Current = jump(<<>>, <<"before", h>>)
      BY <1>1, <1>10, <2>1, <2>5, BaseShape
    <3>2. GoTo(<<"before", h>>, 1, Append(stack, [chain |-> chain, pc |-> pc + 1]))
      BY <2>2, <3>1, JumpIs, StepAtRule
    <3>3. chain' = <<"before", h>> /\ pc' = 1 /\ verdict' = Undecided
      BY <1>8, <3>2
    <3>4. 1 \in 1 .. Lo(h) + 3 /\ 1 # Lo(h) + 3
      BY <1>6
    <3>5. AtBefore(s, pkt)'
      BY <1>5, <1>10, <3>3, <3>4 DEF AtBefore, h
    <3>6. QED
      BY <3>3, <3>5 DEF Undecided
  <2>6. QED
    BY <1>6, <2>1, <2>3, <2>4, <2>5
<1>11. CASE AtLogging(s, pkt)
  <2>1. /\ ~s.panic /\ chain = <<"before-logging", h>> /\ pc \in 1 .. 2
        /\ stack = <<[chain |-> <<"base", h>>, pc |-> Skipped(s, h) + 2]>>
        /\ ruleset[chain] = BeforeLogging(s) /\ Current = BeforeLogging(s)[pc]
    BY <1>4, <1>11 DEF AtLogging, Current, h
  <2>2. CASE AtRule
    <3>1. pc = 1
      BY <2>1, <2>2, LogShape DEF AtRule
    <3>2. Current.verdict = "continue" /\ Current.meter = {}
      BY <2>1, <2>2, LogShape DEF AtRule
    <3>3. GoTo(chain, pc + 1, stack)
      BY <2>2, <3>2, StepAtRule
    <3>4. /\ chain' = <<"before-logging", h>> /\ pc' = 2 /\ verdict' = Undecided
          /\ stack' = <<[chain |-> <<"base", h>>, pc |-> Skipped(s, h) + 2]>>
      BY <1>8, <2>1, <3>1, <3>3
    <3>5. AtLogging(s, pkt)'
      BY <1>5, <2>1, <3>4 DEF AtLogging, h
    <3>6. QED
      BY <3>4, <3>5 DEF Undecided
  <2>3. CASE ~AtRule
    <3>1. stack # <<>>
      BY <2>1
    <3>2. GoTo(Last(stack).chain, Last(stack).pc, Front(stack))
      BY <2>3, <3>1 DEF Step, Matched, Missed, Metered, ChainEnd
    <3>3. /\ Last(stack) = [chain |-> <<"base", h>>, pc |-> Skipped(s, h) + 2]
          /\ Front(stack) = <<>>
      BY <2>1 DEF Last, Front
    <3>4. /\ chain' = <<"base", h>> /\ pc' = Skipped(s, h) + 2 /\ stack' = <<>>
          /\ verdict' = Undecided
      BY <1>8, <3>2, <3>3
    <3>5. AtBase(s, pkt)'
      BY <1>5, <1>6, <2>1, <3>4 DEF AtBase, h
    <3>6. QED
      BY <3>4, <3>5 DEF Undecided
  <2>4. QED
    BY <2>2, <2>3
<1>12. CASE AtBefore(s, pkt)
  <2>1. /\ ~s.panic /\ chain = <<"before", h>> /\ pc \in 1 .. Lo(h) + 3
        /\ pc = Lo(h) + 3 => pkt.v6 = TRUE
        /\ ruleset[chain] = Before(s, h) /\ Current = Before(s, h)[pc]
    BY <1>4, <1>12 DEF AtBefore, Current, h
  <2>2. AtRule
    <3>1. Len(Before(s, h)) \in Nat /\ Len(Before(s, h)) >= Lo(h) + 4
      BY <1>1, BeforeShape, Zenon
    <3>2. QED
      BY <1>2, <1>6, <2>1, <3>1 DEF AtRule, Walking
  <2>3. CASE pc = Lo(h) + 3
    <3>1. Current = ThreatBan(s, TRUE) /\ pkt.v6 = TRUE
      BY <1>1, <2>1, <2>3, BeforeShape, Zenon
    <3>2. DropRule(Current) /\ Passes(Current, pkt)
      BY <1>1, <3>1, BanIs, Zenon DEF ThreatBan, DropRule
    <3>3. Decided("drop")
      BY <2>2, <3>2, DropIs, StepAtRule
    <3>4. QED
      BY <1>7, <3>3 DEF Undecided
  <2>4. CASE pc # Lo(h) + 3
    <3>1. \/ DropRule(Current)
          \/ h = "input" /\ LoopbackRule(Current)
      <4>1. CASE pc = 1 /\ Lo(h) = 1
        BY <1>1, <1>6, <2>1, <4>1, BeforeShape DEF LoopbackRule
      <4>2. CASE pc = Lo(h) + 1
        BY <1>1, <2>1, <4>2, BeforeShape, Zenon DEF RoutingHeader, DropRule
      <4>3. CASE pc = Lo(h) + 2
        BY <1>1, <2>1, <4>3, BeforeShape, Zenon DEF ThreatBan, DropRule
      <4>4. QED
        BY <1>6, <2>1, <2>4, <4>1, <4>2, <4>3
    <3>2. Current.meter = {} /\ (Current.verdict = "drop" \/ ~Passes(Current, pkt))
      BY <1>1, <3>1, DropIs, LoopbackIs
    <3>3. Decided("drop") \/ GoTo(chain, pc + 1, stack)
      BY <2>2, <3>2, StepAtRule
    <3>4. CASE GoTo(chain, pc + 1, stack)
      <4>1. chain' = <<"before", h>> /\ pc' = pc + 1 /\ verdict' = Undecided
        BY <1>8, <2>1, <3>4
      <4>2. pc + 1 \in 1 .. Lo(h) + 3
        BY <1>6, <2>1, <2>4
      <4>3. ASSUME pc + 1 = Lo(h) + 3, ~(Passes(Current, pkt) /\ Current.verdict = "drop" /\ ~Current.limited)
            PROVE  pkt.v6 = TRUE
        <5>1. pc = Lo(h) + 2
          BY <1>6, <2>1, <4>3
        <5>2. Current = ThreatBan(s, FALSE)
          BY <1>1, <2>1, <5>1, BeforeShape, Zenon
        <5>3. DropRule(Current)
          BY <5>2, Zenon DEF ThreatBan, DropRule
        <5>4. ~Passes(Current, pkt)
          BY <4>3, <5>3, DropIs
        <5>5. pkt.v6 = FALSE => Passes(ThreatBan(s, FALSE), pkt)
          BY <1>1, BanIs, Zenon
        <5>6. QED
          BY <5>2, <5>4, <5>5, Zenon
      <4>4. CASE Passes(Current, pkt) /\ Current.verdict = "drop" /\ ~Current.limited
        <5>1. Decided("drop")
          BY <2>2, <3>2, <4>4, StepAtRule
        <5>2. QED
          BY <1>7, <5>1 DEF Undecided
      <4>5. CASE ~(Passes(Current, pkt) /\ Current.verdict = "drop" /\ ~Current.limited)
        <5>1. AtBefore(s, pkt)'
          BY <1>5, <2>1, <4>1, <4>2, <4>3, <4>5 DEF AtBefore, h
        <5>2. QED
          BY <4>1, <5>1 DEF Undecided
      <4>6. QED
        BY <4>4, <4>5
    <3>5. QED
      BY <1>7, <3>3, <3>4 DEF Undecided
  <2>5. QED
    BY <2>3, <2>4
<1>13. QED
  BY <1>3, <1>9, <1>10, <1>11, <1>12

(* A banned packet is never past the bans.                                 *)
LEMMA BanInvHolds ==
    ASSUME \A c \in Config : BansComplete(content[c])
    PROVE  Spec => []BanInv
<1>1. Init => BanInv
  BY DEF Init, BanInv
<1>2. BanInv /\ [Next]_vars => BanInv'
  <2> SUFFICES ASSUME BanInv, [Next]_vars PROVE BanInv'
    OBVIOUS
  <2>1. CASE Apply
    BY <2>1 DEF BanInv, Apply, where
  <2>2. CASE Arrive
    <3>1. /\ UNCHANGED <<config, ruleset, verdict>> /\ verdict = Undecided
          /\ pkt' \in Packet
          /\ chain' = <<"base", pkt'.hook>> /\ pc' = 1 /\ stack' = <<>>
      BY <2>2 DEF BanInv, Arrive, table
    <3>2. Skipped(content[config], pkt'.hook) \in Nat
      BY DEF Skipped
    <3>3. AtBase(content[config], pkt)'
      BY <3>1, <3>2 DEF AtBase
    <3>4. QED
      BY <3>1, <3>3 DEF BanInv, Undecided
  <2>3. CASE Step
    <3>1. UNCHANGED <<config, ruleset, pkt>> /\ pkt # NoPacket
      BY <2>3 DEF Step, Matched, Missed, Metered, ChainEnd, Decided, GoTo, table,
                  AtRule, Walking
    <3>2. config \in Config /\ pkt \in Packet
      BY <3>1 DEF BanInv, Applicable
    <3>3. PICK s : s = content[config]
      OBVIOUS
    <3>4. Shut(s, pkt) =>
            /\ verdict' # "accept"
            /\ verdict' = Undecided => AtBase(s, pkt)' \/ AtLogging(s, pkt)' \/ AtBefore(s, pkt)'
      <4>1. pkt.v6 \in BOOLEAN
        BY <3>2, HeaderAssumption
      <4> QED BY <2>3, <3>2, <3>3, <4>1, StepKeeps
    <3>5. s = content[config]'
      BY <3>1, <3>3
    <3>6. (Shut(content[config], pkt) => Shut(s, pkt))'
      BY <3>5
    <3>7. (AtBase(s, pkt) \/ AtLogging(s, pkt) \/ AtBefore(s, pkt)
            => \/ AtBase(content[config], pkt) \/ AtLogging(content[config], pkt)
               \/ AtBefore(content[config], pkt))'
      BY <3>5
    <3>8. Shut(s, pkt)' => Shut(s, pkt)
      BY <3>1 DEF Shut, F!Banned, F!Loopback, F!InElements
    <3>9. QED
      BY <3>1, <3>4, <3>6, <3>7, <3>8 DEF BanInv
  <2>4. CASE Leave
    BY <2>4 DEF BanInv, Leave, table
  <2>5. CASE Quiet
    BY <2>5 DEF BanInv, Quiet, table, where, AtBase, AtLogging, AtBefore
  <2>6. CASE UNCHANGED vars
    BY <2>6 DEF BanInv, vars, table, where, AtBase, AtLogging, AtBefore
  <2>7. QED
    BY <2>1, <2>2, <2>3, <2>4, <2>5, <2>6 DEF Next
<1>3. QED
  BY <1>1, <1>2, PTL DEF Spec

(* No packet of a banned source is accepted at input or forward, loopback  *)
(* aside: for any rules, sets, policies and log levels, with and without   *)
(* IPv6, whatever rulesets replace each other between packets.  Of the     *)
(* bans it takes that none that reaches the last address of its family     *)
(* holds one that does not: mergeAddrIntervals then ends the first early   *)
(* (SetsComplete).                                                         *)
THEOREM BansHold ==
    ASSUME \A c \in Config : TopHoldsTop(LiveBans(content[c]))
    PROVE  Spec => []BannedNeverAccepted
<1>1. BanInv => BannedNeverAccepted
  BY DEF BanInv, BannedNeverAccepted, Shut, Undecided
<1>2. \A c \in Config : BansComplete(content[c])
  BY ContentAssumption, LiveBansComplete
<1>3. Spec => []BanInv
  BY <1>2, BanInvHolds
<1> QED BY <1>1, <1>3, PTL

-----------------------------------------------------------------------------
(* Where jumps lead.                                                       *)

(* How deep a chain is called: a jump goes to a deeper one.                *)
Depth(name) ==
    CASE name[1] = "base" -> 0
      [] name[1] \in {"before-logging", "before", "user", "after", "after-logging",
                      "reject", "track"} -> 1
      [] name[1] = "logging-deny" -> 3
      [] OTHER -> 2

JumpsDeeper(r, d) == r.verdict = "jump" => r.to \in ChainName /\ Depth(r.to) > d
Nests(l, d) == IsSeq(l) /\ \A i \in DOMAIN l : JumpsDeeper(l[i], d)

(* There are four depths.                                                  *)
LEMMA DepthIs == \A name : Depth(name) \in 0 .. 3
BY DEF Depth

(* A list without a rule has no jump that does not go deeper,              *)
LEMMA NoneNests == ASSUME NEW d PROVE Nests(<<>>, d)
BY Zero DEF Nests

(* nor has a list of one rule that goes deeper.                            *)
LEMMA OneNests == ASSUME NEW d, NEW r, JumpsDeeper(r, d) PROVE Nests(<<r>>, d)
<1>1. DOMAIN <<r>> = {1} /\ <<r>>[1] = r
  OBVIOUS
<1> QED BY <1>1, One DEF Nests

(* Lists whose jumps go deeper, put together.                              *)
LEMMA CatNests ==
    ASSUME NEW d, NEW s, NEW t, Nests(s, d), Nests(t, d) PROVE Nests(s \o t, d)
<1>1. PICK A : s \in Seq(A)
  BY DEF Nests, IsSeq
<1>2. PICK B : t \in Seq(B)
  BY DEF Nests, IsSeq
<1>3. s \in Seq(A \cup B) /\ t \in Seq(A \cup B)
  BY <1>1, <1>2
<1>4. s \o t \in Seq(A \cup B) /\ Range(s \o t) = Range(s) \cup Range(t)
  BY <1>3, ConcatRange, ConcatAt
<1>5. \A x \in Range(s) \cup Range(t) : JumpsDeeper(x, d)
  BY DEF Nests, Range
<1>6. \A i \in DOMAIN (s \o t) : (s \o t)[i] \in Range(s \o t)
  BY DEF Range
<1> QED BY <1>4, <1>5, <1>6 DEF Nests, IsSeq

(* So do they if they come as a list of lists.                             *)
LEMMA FlattenNests ==
    ASSUME NEW d, NEW ss, IsSeq(ss), \A i \in DOMAIN ss : Nests(ss[i], d)
    PROVE  Nests(FlattenSeq(ss), d)
<1> DEFINE E == UNION {Range(ss[i]) : i \in DOMAIN ss}
<1>1. PICK A : ss \in Seq(A)
  BY DEF IsSeq
<1>2. \A i \in DOMAIN ss : ss[i] \in Seq(E)
  <2>1. ASSUME NEW i \in DOMAIN ss PROVE ss[i] \in Seq(E)
    <3>1. PICK l : l = ss[i]
      OBVIOUS
    <3>2. PICK B : l \in Seq(B)
      BY <3>1 DEF Nests, IsSeq
    <3>3. Range(l) \subseteq E
      BY <3>1
    <3>4. \A k \in DOMAIN l : l[k] \in Range(l)
      BY DEF Range
    <3> HIDE DEF E
    <3>5. \A k \in DOMAIN l : l[k] \in E
      BY <3>3, <3>4
    <3>6. l \in Seq(E)
      BY <3>2, <3>5
    <3> QED BY <3>1, <3>6
  <2> QED BY <2>1
<1> HIDE DEF E
<1>3. ss \in Seq(Seq(E))
  BY <1>1, <1>2
<1>4. FlattenSeq(ss) \in Seq(E) /\ Range(FlattenSeq(ss)) = {x \in E : \E i \in DOMAIN ss : x \in Range(ss[i])}
  BY <1>3, FlattenRange
<1>5. \A x \in Range(FlattenSeq(ss)) : JumpsDeeper(x, d)
  <2>1. \A i \in DOMAIN ss : \A x \in Range(ss[i]) : JumpsDeeper(x, d)
    BY DEF Nests, Range
  <2> QED BY <1>4, <2>1
<1>6. \A i \in DOMAIN FlattenSeq(ss) : FlattenSeq(ss)[i] \in Range(FlattenSeq(ss))
  BY DEF Range
<1> QED BY <1>4, <1>5, <1>6 DEF Nests, IsSeq

(* Rules that do not jump.                                                 *)
LEMMA StayRules ==
    ASSUME NEW d, NEW on
    PROVE  /\ JumpsDeeper(Accept(on), d) /\ JumpsDeeper(Drop(on), d) /\ JumpsDeeper(Reject(on), d)
           /\ JumpsDeeper(Return(on), d) /\ JumpsDeeper(Log(on), d)
           /\ JumpsDeeper(Limited(Return(on)), d) /\ JumpsDeeper(Limited(Log(on)), d)
           /\ \A st : JumpsDeeper(LogRule(st, on), d)
<1>1. \A r : Limited(r) = [r EXCEPT !.limited = TRUE]
  BY DEF Limited
<1>2. /\ Accept(on).verdict = "accept" /\ Drop(on).verdict = "drop" /\ Reject(on).verdict = "reject"
      /\ Return(on).verdict = "return" /\ Log(on).verdict = "continue"
      /\ Limited(Return(on)).verdict = "return" /\ Limited(Log(on)).verdict = "continue"
  BY <1>1 DEF Accept, Drop, Reject, Return, Log, nft
<1> QED BY <1>2 DEF JumpsDeeper, LogRule

(* Rules that do, to a deeper chain.                                       *)
LEMMA JumpNests ==
    ASSUME NEW d, NEW on, NEW to \in ChainName, Depth(to) > d
    PROVE  /\ JumpsDeeper(jump(on, to), d) /\ JumpsDeeper(Limited(jump(on, to)), d)
           /\ \A m : JumpsDeeper([jump(on, to) EXCEPT !.meter = m], d)
<1>1. /\ jump(on, to).to = to /\ Limited(jump(on, to)).to = to
      /\ \A m : [jump(on, to) EXCEPT !.meter = m].to = to
  BY DEF jump, nft, Limited
<1> QED BY <1>1 DEF JumpsDeeper

(* Lists of two rules, of three, of four and of five.                      *)
LEMMA TwoNests ==
    ASSUME NEW d, NEW a, NEW b, JumpsDeeper(a, d), JumpsDeeper(b, d)
    PROVE  Nests(<<a, b>>, d)
<1>1. DOMAIN <<a, b>> = 1 .. 2 /\ <<a, b>>[1] = a /\ <<a, b>>[2] = b
  OBVIOUS
<1>2. \A i \in 1 .. 2 : i = 1 \/ i = 2
  OBVIOUS
<1> QED BY <1>1, <1>2, Two DEF Nests

(* Three.                                                                  *)
LEMMA ThreeNests ==
    ASSUME NEW d, NEW a, NEW b, NEW c, JumpsDeeper(a, d), JumpsDeeper(b, d), JumpsDeeper(c, d)
    PROVE  Nests(<<a, b, c>>, d)
<1>1. /\ DOMAIN <<a, b, c>> = 1 .. 3 /\ <<a, b, c>>[1] = a /\ <<a, b, c>>[2] = b
      /\ <<a, b, c>>[3] = c /\ <<a, b, c>> \in Seq({a, b, c})
  OBVIOUS
<1>2. \A i \in 1 .. 3 : i = 1 \/ i = 2 \/ i = 3
  OBVIOUS
<1> QED BY <1>1, <1>2 DEF Nests, IsSeq

(* Four.                                                                   *)
LEMMA FourNests ==
    ASSUME NEW d, NEW a, NEW b, NEW c, NEW e,
           JumpsDeeper(a, d), JumpsDeeper(b, d), JumpsDeeper(c, d), JumpsDeeper(e, d)
    PROVE  Nests(<<a, b, c, e>>, d)
<1>1. /\ DOMAIN <<a, b, c, e>> = 1 .. 4 /\ <<a, b, c, e>>[1] = a /\ <<a, b, c, e>>[2] = b
      /\ <<a, b, c, e>>[3] = c /\ <<a, b, c, e>>[4] = e
  OBVIOUS
<1>2. \A i \in 1 .. 4 : i = 1 \/ i = 2 \/ i = 3 \/ i = 4
  OBVIOUS
<1> QED BY <1>1, <1>2, Four DEF Nests

(* Five.                                                                   *)
LEMMA FiveNests ==
    ASSUME NEW d, NEW a, NEW b, NEW c, NEW e, NEW f,
           JumpsDeeper(a, d), JumpsDeeper(b, d), JumpsDeeper(c, d), JumpsDeeper(e, d),
           JumpsDeeper(f, d)
    PROVE  Nests(<<a, b, c, e, f>>, d)
<1>1. /\ DOMAIN <<a, b, c, e, f>> = 1 .. 5
      /\ <<a, b, c, e, f>>[1] = a /\ <<a, b, c, e, f>>[2] = b /\ <<a, b, c, e, f>>[3] = c
      /\ <<a, b, c, e, f>>[4] = e /\ <<a, b, c, e, f>>[5] = f
  OBVIOUS
<1>2. \A i \in 1 .. 5 : i = 1 \/ i = 2 \/ i = 3 \/ i = 4 \/ i = 5
  OBVIOUS
<1> QED BY <1>1, <1>2, Five DEF Nests

(* The chains every packet of a hook goes through.                         *)
LEMMA BaseNests ==
    ASSUME NEW s, NEW h \in Hook PROVE Nests(Base(s, h), 0)
<1> DEFINE parts == <<"before-logging", "before", "user", "after", "after-logging", "reject", "track">>
<1>1. \A on : /\ JumpsDeeper(Accept(on), 0) /\ JumpsDeeper(Drop(on), 0)
  BY StayRules
<1>2. Nests(NoIPv6(h), 0)
  <2>1. Nests(<<Drop(nfproto(TRUE))>>, 0)
    BY <1>1, OneNests
  <2>2. \A on : Nests(<<Accept(on)>>, 0)
    BY <1>1, OneNests
  <2>3. \A l : Nests(l, 0) => Nests(l \o <<Drop(nfproto(TRUE))>>, 0)
    BY <2>1, CatNests
  <2>4. Nests(<<>>, 0)
    BY NoneNests
  <2>5. \/ NoIPv6(h) = <<>> \o <<Drop(nfproto(TRUE))>>
        \/ \E on : NoIPv6(h) = <<Accept(on)>> \o <<Drop(nfproto(TRUE))>>
    BY Zenon DEF NoIPv6
  <2> QED BY <2>2, <2>3, <2>4, <2>5
<1>3. Nests(Jumps(h), 0)
  <2>1. \A i \in 1 .. 7 : Jumps(h)[i] = jump(<<>>, <<parts[i], h>>)
    BY DEF Jumps
  <2>2. \A i \in 1 .. 7 : parts[i] \in {"before-logging", "before", "user", "after",
                                         "after-logging", "reject", "track"}
    OBVIOUS
  <2>3. ASSUME NEW part \in {"before-logging", "before", "user", "after",
                             "after-logging", "reject", "track"}
        PROVE  JumpsDeeper(jump(<<>>, <<part, h>>), 0)
    <3>1. <<part, h>> \in ChainName
      BY DEF ChainName
    <3>2. Depth(<<part, h>>) > 0
      BY DEF Depth
    <3> QED BY <3>1, <3>2, JumpNests
  <2>4. \A i \in 1 .. 7 : JumpsDeeper(Jumps(h)[i], 0)
    <3> HIDE DEF parts
    <3> QED BY <2>1, <2>2, <2>3
  <2>5. Jumps(h) \in Seq({Jumps(h)[i] : i \in 1 .. 7}) /\ DOMAIN Jumps(h) = 1 .. 7
    BY DEF Jumps
  <2> QED BY <2>4, <2>5 DEF Nests, IsSeq
<1>4. Nests(<<>>, 0) /\ Nests(<<>> \o Jumps(h), 0) /\ Nests(NoIPv6(h) \o Jumps(h), 0)
  BY <1>2, <1>3, NoneNests, CatNests
<1> QED BY <1>4, Zenon DEF Base

(* Announcements are accepted on the spot.                                 *)
LEMMA DiscoveryStays == \A v6, g, p : JumpsDeeper(Discovery(v6, g, p), 1)
BY StayRules, Zenon DEF Discovery

(* What comes before the rules of the user.                                *)
LEMMA BeforeNests ==
    ASSUME NEW s, NEW h \in Hook PROVE Nests(Before(s, h), 1)
<1>1. \A on : /\ JumpsDeeper(Accept(on), 1) /\ JumpsDeeper(Drop(on), 1)
  BY StayRules
<1>2. /\ JumpsDeeper(RoutingHeader, 1) /\ JumpsDeeper(ThreatBan(s, FALSE), 1)
      /\ JumpsDeeper(ThreatBan(s, TRUE), 1) /\ JumpsDeeper(Established, 1)
      /\ JumpsDeeper(EchoReply6, 1) /\ JumpsDeeper(ICMPv4, 1)
      /\ \A v6, g, p : JumpsDeeper(Discovery(v6, g, p), 1)
  BY <1>1, Zenon DEF RoutingHeader, ThreatBan, Established, EchoReply6, ICMPv4, Discovery
<1>3. Nests(BeforePrefix(s, h), 1)
  BY <1>2, FourNests DEF BeforePrefix
<1>4. Nests(beforeICMPv6Rules, 1)
  BY <1>1, FourNests DEF beforeICMPv6Rules
<1>5. Nests(DHCPClient, 1)
  <2>1. IsSeq(DHCPClient) /\ DOMAIN DHCPClient = 1 .. 2
    <3>1. IsSeq(DHCPClient)
      BY Two DEF DHCPClient
    <3>2. DOMAIN DHCPClient = 1 .. 2
      BY SMT DEF DHCPClient
    <3> QED BY <3>1, <3>2
  <2>2. DHCPClient[1].verdict = "accept" /\ DHCPClient[2].verdict = "accept"
    BY SMT DEF DHCPClient, Accept, nft
  <2>3. \A i \in 1 .. 2 : i = 1 \/ i = 2
    OBVIOUS
  <2> QED BY ONLY <2>1, <2>2, <2>3 DEF Nests, JumpsDeeper
<1>6. \A on : /\ JumpsDeeper(jump(on, <<"logging-deny", "">>), 1)
              /\ JumpsDeeper(jump(on, <<"not-local", "">>), 1)
              /\ JumpsDeeper(jump(on, <<"user-egress", "">>), 1)
  <2>1. /\ <<"logging-deny", "">> \in ChainName /\ <<"not-local", "">> \in ChainName
        /\ <<"user-egress", "">> \in ChainName
    BY DEF ChainName
  <2>2. /\ Depth(<<"logging-deny", "">>) > 1 /\ Depth(<<"not-local", "">>) > 1
        /\ Depth(<<"user-egress", "">>) > 1
    BY DEF Depth
  <2> QED BY <2>1, <2>2, JumpNests
<1>7. CASE h = "input"
  <2>1. PICK a : a = <<Accept(iif({"lo"}))>>
    OBVIOUS
  <2>2. PICK b : b = <<EchoReply6, jump(ctState({"invalid"}), <<"logging-deny", "">>),
                       Drop(ctState({"invalid"})), ICMPv4>>
    OBVIOUS
  <2>3. PICK c : c = <<Accept(ICMPv6({144, 145, 146, 147}))>>
    OBVIOUS
  <2> DEFINE local == jump(nfproto(FALSE), <<"not-local", "">>)
             mdns4 == Discovery(FALSE, Mdns, 5353)
             mdns6 == Discovery(TRUE, Mdns, 5353)
             upnp4 == Discovery(FALSE, Upnp, 1900)
             upnp6 == Discovery(TRUE, Upnp, 1900)
             e == <<local, mdns4, mdns6, upnp4, upnp6>>
  <2>5. Nests(a, 1) /\ Nests(c, 1)
    BY <1>1, <2>1, <2>3, OneNests
  <2>6. Nests(b, 1)
    BY <1>1, <1>2, <1>6, <2>2, FourNests
  <2>7. Nests(e, 1)
    <3>1. /\ JumpsDeeper(local, 1) /\ JumpsDeeper(mdns4, 1) /\ JumpsDeeper(mdns6, 1)
          /\ JumpsDeeper(upnp4, 1) /\ JumpsDeeper(upnp6, 1)
      <4>1. JumpsDeeper(local, 1)
        BY <1>6
      <4>2. PICK m : m = 5353
        OBVIOUS
      <4>3. PICK u : u = 1900
        OBVIOUS
      <4>4. /\ JumpsDeeper(Discovery(FALSE, Mdns, m), 1) /\ JumpsDeeper(Discovery(TRUE, Mdns, m), 1)
            /\ JumpsDeeper(Discovery(FALSE, Upnp, u), 1) /\ JumpsDeeper(Discovery(TRUE, Upnp, u), 1)
        BY ONLY DiscoveryStays, Zenon
      <4> HIDE DEF local, mdns4, mdns6, upnp4, upnp6
      <4>5. /\ mdns4 = Discovery(FALSE, Mdns, m) /\ mdns6 = Discovery(TRUE, Mdns, m)
            /\ upnp4 = Discovery(FALSE, Upnp, u) /\ upnp6 = Discovery(TRUE, Upnp, u)
        BY <4>2, <4>3 DEF mdns4, mdns6, upnp4, upnp6
      <4> QED BY <4>1, <4>4, <4>5
    <3> HIDE DEF local, mdns4, mdns6, upnp4, upnp6
    <3> QED BY <3>1, FiveNests
  <2>8. Before(s, h) = a \o BeforePrefix(s, h) \o b \o beforeICMPv6Rules \o c \o DHCPClient \o e
    <3>1. Before(s, h) = <<Accept(iif({"lo"}))>> \o BeforePrefix(s, h)
                         \o <<EchoReply6, jump(ctState({"invalid"}), <<"logging-deny", "">>),
                              Drop(ctState({"invalid"})), ICMPv4>>
                         \o beforeICMPv6Rules \o <<Accept(ICMPv6({144, 145, 146, 147}))>>
                         \o DHCPClient \o e
      BY <1>7 DEF Before
    <3> HIDE DEF e
    <3> QED BY <2>1, <2>2, <2>3, <3>1
  <2> HIDE DEF e
  <2>9. Nests(a \o BeforePrefix(s, h) \o b, 1)
    BY <1>3, <2>5, <2>6, CatNests
  <2>10. Nests(a \o BeforePrefix(s, h) \o b \o beforeICMPv6Rules \o c, 1)
    BY <1>4, <2>5, <2>9, CatNests
  <2> QED BY <1>5, <2>7, <2>8, <2>10, CatNests
<1>8. CASE h = "output"
  <2>1. PICK a : a = <<Accept(oif({"lo"})), RoutingHeader, Established>>
    OBVIOUS
  <2>2. PICK b : b = <<EchoReply6, jump(<<>>, <<"user-egress", "">>)>>
    OBVIOUS
  <2>3. Nests(a, 1)
    BY <1>1, <1>2, <2>1, ThreeNests
  <2>4. Nests(b, 1)
    BY <1>2, <1>6, <2>2, TwoNests
  <2>5. Before(s, h) = a \o beforeICMPv6Rules \o b
    BY <1>8, <2>1, <2>2 DEF Before
  <2> QED BY <1>4, <2>3, <2>4, <2>5, CatNests
<1>9. CASE h = "forward"
  <2>1. PICK a : a = <<ICMPv4, Accept(ICMPv6({1, 2, 3, 4, 128, 129}))>>
    OBVIOUS
  <2>2. Nests(a, 1)
    BY <1>1, <1>2, <2>1, TwoNests
  <2>3. Before(s, h) = BeforePrefix(s, h) \o a
    BY <1>9, <2>1 DEF Before
  <2> QED BY <1>3, <2>2, <2>3, CatNests
<1> QED BY <1>7, <1>8, <1>9 DEF Hook

(* A rule's own.                                                           *)
LEMMA RulesNest ==
    ASSUME NEW s, NEW r, NEW proto, NEW v6, ~Refused(r, v6), HookOf[r.direction] \in Hook
    PROVE  Nests(UserRules(s, r, proto, v6), 1) /\ Nests(LoggingRules(s, r, proto, v6), 2)
<1>1. PICK match : match = ruleMatch(s, r, proto, v6)
  OBVIOUS
<1>2. \A on : /\ JumpsDeeper(Accept(on), 1) /\ JumpsDeeper(Drop(on), 1) /\ JumpsDeeper(Reject(on), 1)
              /\ JumpsDeeper(Return(on), 2) /\ JumpsDeeper(Limited(Log(on)), 2)
  BY StayRules
<1>3. /\ <<"user-limit", "">> \in ChainName /\ <<"user-limit-accept", "">> \in ChainName
      /\ <<"user-logging", HookOf[r.direction]>> \in ChainName
  BY DEF ChainName
<1>4. /\ Depth(<<"user-limit", "">>) > 1 /\ Depth(<<"user-limit-accept", "">>) > 1
      /\ Depth(<<"user-logging", HookOf[r.direction]>>) > 1
  BY DEF Depth
<1>5. Nests(compileLimit(r, proto, v6, match), 1)
  <2>1. \A on, m : JumpsDeeper([jump(on, <<"user-limit", "">>) EXCEPT !.meter = m], 1)
    BY <1>3, <1>4, JumpNests
  <2>2. \A on : JumpsDeeper(jump(on, <<"user-limit-accept", "">>), 1)
    BY <1>3, <1>4, JumpNests
  <2> QED BY <2>1, <2>2, TwoNests DEF compileLimit
<1>6. Nests(ActionRules(r, proto, v6, match), 1)
  <2>1. \A on : Nests(<<Accept(on)>>, 1) /\ Nests(<<Drop(on)>>, 1) /\ Nests(<<Reject(on)>>, 1)
    BY <1>2, OneNests
  <2>2. r.action \in {"allow", "deny", "reject", "limit"}
    BY DEF Refused
  <2>3. ActionRules(r, proto, v6, match) \in
            {<<Accept(match)>>, <<Drop(match)>>, <<Reject(match)>>, compileLimit(r, proto, v6, match)}
    BY <2>2 DEF ActionRules
  <2> QED BY <1>5, <2>1, <2>3
<1>7. Nests(<<>>, 1) /\ \A on : Nests(<<jump(on, <<"user-logging", HookOf[r.direction]>>)>>, 1)
  BY <1>3, <1>4, JumpNests, OneNests, NoneNests
<1>8. Nests(UserRules(s, r, proto, v6), 1)
  <2>1. /\ Nests(<<>> \o ActionRules(r, proto, v6, match), 1)
        /\ \A on : Nests(<<jump(on, <<"user-logging", HookOf[r.direction]>>)>>
                         \o ActionRules(r, proto, v6, match), 1)
    BY <1>6, <1>7, CatNests
  <2> QED BY <1>1, <2>1, Zenon DEF UserRules
<1>9. Nests(LoggingRules(s, r, proto, v6), 2)
  <2>1. Nests(<<>>, 2) /\ \A on : Nests(<<Limited(Log(on)), Return(on)>>, 2)
    BY <1>2, NoneNests, TwoNests
  <2> QED BY <2>1, Zenon DEF LoggingRules
<1> QED BY <1>8, <1>9

(* The rules of a list.                                                    *)
LEMMA ListNests ==
    ASSUME NEW s, NEW list, IsSeq(list), NEW v6, NEW h \in Hook,
           \A i \in DOMAIN list : Live(list[i]) => ~Refused(list[i], v6)
    PROVE  /\ Nests(CompileList(s, list, v6, h, FALSE), 1)
           /\ Nests(CompileList(s, list, v6, h, TRUE), 2)
<1> DEFINE D(logging) == IF logging THEN 2 ELSE 1
<1>1. ASSUME NEW logging \in BOOLEAN, NEW i \in DOMAIN list
      PROVE  Nests(compileRule(s, list[i], v6, h, logging), D(logging))
  <2>1. PICK r : r = list[i]
    OBVIOUS
  <2>2. CASE ~Live(r) \/ HookOf[r.direction] # h
    <3>1. compileRule(s, r, v6, h, logging) = <<>>
      BY <2>2, Zenon DEF compileRule
    <3> QED BY <2>1, <3>1, NoneNests
  <2>3. CASE Live(r) /\ HookOf[r.direction] = h
    <3>1. PICK q : q = protoVariants(r)
      OBVIOUS
    <3>2. PICK ss : ss = [k \in DOMAIN q |-> IF logging THEN LoggingRules(s, r, q[k], v6)
                                             ELSE UserRules(s, r, q[k], v6)]
      OBVIOUS
    <3>3. compileRule(s, r, v6, h, logging) = FlattenSeq(ss)
      BY <2>3, <3>1, <3>2, Zenon DEF compileRule
    <3>4. IsSeq(ss) /\ DOMAIN ss = DOMAIN q
      <4>1. IsSeq(q)
        <5>1. IsSeq(<<r.proto>>) /\ IsSeq(<<"any">>) /\ IsSeq(<<>>)
              /\ IsSeq(<<"tcp">>) /\ IsSeq(<<"udp">>)
          BY Zero, One
        <5>2. \A a, b : IsSeq(a) /\ IsSeq(b) => IsSeq(a \o b)
          BY Cat
        <5> QED BY <3>1, <5>1, <5>2 DEF protoVariants
      <4>2. PICK A : q \in Seq(A)
        BY <4>1 DEF IsSeq
      <4>3. PICK n \in Nat : n = Len(q) /\ DOMAIN q = 1 .. n
        BY <4>2
      <4>4. ss \in [1 .. n -> Range(ss)]
        <5>1. DOMAIN ss = 1 .. n
          BY <3>2, <4>3
        <5>2. \A k \in DOMAIN ss : ss[k] \in Range(ss)
          BY DEF Range
        <5>3. ss = [k \in 1 .. n |-> ss[k]]
          BY <3>2, <4>3
        <5> QED BY <5>1, <5>2, <5>3
      <4>5. ss \in Seq(Range(ss))
        BY <4>4
      <4> QED BY <3>2, <4>5 DEF IsSeq
    <3>5. \A k \in DOMAIN q : Nests(UserRules(s, r, q[k], v6), 1) /\ Nests(LoggingRules(s, r, q[k], v6), 2)
      BY <2>1, <2>3, RulesNest
    <3>6. \A k \in DOMAIN ss : Nests(ss[k], D(logging))
      BY <3>2, <3>4, <3>5
    <3> HIDE DEF D
    <3> QED BY <2>1, <3>3, <3>4, <3>6, FlattenNests
  <2> QED BY <2>2, <2>3
<1>2. ASSUME NEW logging \in BOOLEAN PROVE Nests(CompileList(s, list, v6, h, logging), D(logging))
  <2>1. PICK ss : ss = [i \in DOMAIN list |-> compileRule(s, list[i], v6, h, logging)]
    OBVIOUS
  <2>2. CompileList(s, list, v6, h, logging) = FlattenSeq(ss)
    BY <2>1, Zenon DEF CompileList
  <2>3. PICK A : list \in Seq(A)
    BY DEF IsSeq
  <2>4. PICK n \in Nat : n = Len(list) /\ DOMAIN list = 1 .. n
    BY <2>3
  <2>5. ss \in [1 .. n -> Range(ss)]
    <3>1. DOMAIN ss = 1 .. n
      BY <2>1, <2>4
    <3>2. \A k \in DOMAIN ss : ss[k] \in Range(ss)
      BY DEF Range
    <3>3. ss = [k \in 1 .. n |-> ss[k]]
      BY <2>1, <2>4
    <3> QED BY <3>1, <3>2, <3>3
  <2>6. IsSeq(ss)
    BY <2>5 DEF IsSeq
  <2>7. \A i \in DOMAIN ss : Nests(ss[i], D(logging))
    <3> HIDE DEF D
    <3> QED BY <1>1, <2>1
  <2> HIDE DEF D
  <2> QED BY <2>2, <2>6, <2>7, FlattenNests
<1> QED BY <1>2

(* The logging chains, and those that hold a policy.                       *)
LEMMA LoggingNests ==
    ASSUME NEW s, NEW h, NEW d
    PROVE  /\ Nests(BeforeLogging(s), d) /\ Nests(AfterLogging(s, h), d)
           /\ Nests(LoggingDeny(s), d) /\ Nests(UserLimit(s), d)
           /\ Nests(RejectChain(s, h), d) /\ Nests(Track(s, h), d)
           /\ Nests(<<policyVerdict(PolicyFor(s, h))>>, d)
<1>1. \A on : /\ JumpsDeeper(Accept(on), d) /\ JumpsDeeper(Drop(on), d) /\ JumpsDeeper(Reject(on), d)
              /\ JumpsDeeper(Log(on), d) /\ JumpsDeeper(LogRule(s, on), d)
              /\ JumpsDeeper(Limited(Return(on)), d) /\ JumpsDeeper(Limited(Log(on)), d)
  BY StayRules
<1>2. /\ Nests(<<>>, d) /\ \A r : JumpsDeeper(r, d) => Nests(<<r>>, d)
      /\ \A q, r : JumpsDeeper(q, d) /\ JumpsDeeper(r, d) => Nests(<<q, r>>, d)
  BY NoneNests, OneNests, TwoNests
<1>3. Nests(BeforeLogging(s), d)
  BY <1>1, <1>2 DEF BeforeLogging
<1>4. Nests(AfterLogging(s, h), d)
  BY <1>1, <1>2, Zenon DEF AfterLogging
<1>5. Nests(LoggingDeny(s), d)
  <2>1. JumpsDeeper(IF Level(s) = "low" THEN Limited(Return(ctState({"invalid"})))
                    ELSE LogRule(s, ctState({"invalid"})), d)
    BY <1>1
  <2> QED BY <1>1, <1>2, <2>1, Zenon DEF LoggingDeny
<1>6. Nests(UserLimit(s), d)
  <2>1. Nests(<<Reject(<<>>)>>, d) /\ Nests(<<Limited(Log(<<>>))>>, d)
    BY <1>1, <1>2
  <2>2. /\ Nests(<<>> \o <<Reject(<<>>)>>, d)
        /\ Nests(<<Limited(Log(<<>>))>> \o <<Reject(<<>>)>>, d)
    BY <1>2, <2>1, CatNests
  <2> QED BY <2>2, Zenon DEF UserLimit
<1>7. Nests(RejectChain(s, h), d)
  BY <1>1, <1>2, Zenon DEF RejectChain
<1>8. Nests(Track(s, h), d)
  BY <1>1, <1>2, Zenon DEF Track
<1>9. Nests(<<policyVerdict(PolicyFor(s, h))>>, d)
  <2>1. JumpsDeeper(policyVerdict(PolicyFor(s, h)), d)
    BY <1>1 DEF policyVerdict
  <2> QED BY <1>2, <2>1
<1> QED BY <1>3, <1>4, <1>5, <1>6, <1>7, <1>8, <1>9

(* The noise that is not logged.                                           *)
LEMMA AfterNests == ASSUME NEW h \in Hook PROVE Nests(After(h), 1)
<1>1. \A on : JumpsDeeper(jump(on, <<"skip-to-policy", h>>), 1)
  <2>1. <<"skip-to-policy", h>> \in ChainName
    BY DEF ChainName
  <2>2. Depth(<<"skip-to-policy", h>>) > 1
    BY DEF Depth
  <2> QED BY <2>1, <2>2, JumpNests
<1>2. CASE h # "input"
  BY <1>2, NoneNests DEF After
<1>3. CASE h = "input"
  <2> DEFINE Skip(on) == jump(on, <<"skip-to-policy", h>>)
             a == Skip(nfproto(FALSE) \o fibAddrType({"broadcast"}))
             b == Skip(nfproto(FALSE) \o l4proto({"udp"}) \o dport({137, 138}))
             c == Skip(nfproto(FALSE) \o l4proto({"tcp"}) \o dport({139, 445}))
             e == Skip(nfproto(FALSE) \o l4proto({"udp"}) \o sport({67}) \o dport({68}))
             f == Skip(nfproto(TRUE) \o l4proto({"udp"}) \o dport({546, 547}))
  <2>1. After(h) = <<a, b, c, e, f>>
    BY <1>3 DEF After
  <2>2. JumpsDeeper(a, 1) /\ JumpsDeeper(b, 1) /\ JumpsDeeper(c, 1) /\ JumpsDeeper(e, 1) /\ JumpsDeeper(f, 1)
    BY <1>1
  <2> HIDE DEF a, b, c, e, f
  <2> QED BY <2>1, <2>2, FiveNests
<1> QED BY <1>2, <1>3

(* The chains of the user.                                                 *)
LEMMA UserNests ==
    ASSUME NEW s, IsState(s), Compiles(s), ~s.panic, NEW h \in Hook
    PROVE  Nests(User(s, h), 1) /\ Nests(UserLogging(s, h), 2)
<1>1. IsSeq(s.rules4) /\ IsSeq(s.rules6)
  BY DEF IsState, IsSeq
<1>2. /\ \A i \in DOMAIN s.rules4 : Live(s.rules4[i]) => ~Refused(s.rules4[i], FALSE)
      /\ \A i \in DOMAIN s.rules6 : Live(s.rules6[i]) => ~Refused(s.rules6[i], TRUE)
  BY Zenon DEF Compiles
<1>3. /\ Nests(CompileList(s, s.rules4, FALSE, h, FALSE), 1)
      /\ Nests(CompileList(s, s.rules4, FALSE, h, TRUE), 2)
  BY <1>1, <1>2, ListNests
<1>4. /\ Nests(CompileList(s, s.rules6, TRUE, h, FALSE), 1)
      /\ Nests(CompileList(s, s.rules6, TRUE, h, TRUE), 2)
  BY <1>1, <1>2, ListNests
<1>5. Nests(<<>>, 2) /\ Nests(<<Return(<<>>)>>, 2)
  BY StayRules, OneNests, NoneNests
<1>6. /\ Nests(<<>> \o CompileList(s, s.rules4, FALSE, h, TRUE), 2)
      /\ Nests(<<Return(<<>>)>> \o CompileList(s, s.rules4, FALSE, h, TRUE), 2)
  BY <1>3, <1>5, CatNests
<1>7. /\ Nests((<<>> \o CompileList(s, s.rules4, FALSE, h, TRUE)) \o CompileList(s, s.rules6, TRUE, h, TRUE), 2)
      /\ Nests((<<Return(<<>>)>> \o CompileList(s, s.rules4, FALSE, h, TRUE)) \o CompileList(s, s.rules6, TRUE, h, TRUE), 2)
  BY <1>4, <1>6, CatNests
<1>8. Nests(UserLogging(s, h), 2)
  BY <1>7, Zenon DEF UserLogging
<1>9. Nests(User(s, h), 1)
  BY <1>3, <1>4, CatNests, Zenon DEF User
<1> QED BY <1>8, <1>9

(* The logging chain of what is denied is the deepest.                     *)
LEMMA DenyDepth == Depth(<<"logging-deny", "">>) > 2
BY DEF Depth

(* The chains that are the same at every hook.                             *)
LEMMA SharedName ==
    ASSUME NEW S, NEW T, NEW name \in S \X T PROVE \E part \in S, k \in T : name = <<part, k>>
OBVIOUS

(* Every chain a packet can reach jumps to deeper chains only.             *)
LEMMA ChainNests ==
    ASSUME NEW s, IsState(s), Compiles(s), NEW name \in ChainName,
           s.panic => name[1] = "base"
    PROVE  Nests(Chain(s, name), Depth(name))
<1> DEFINE h == name[2]
<1>1. CASE name \in {"base", "before-logging", "before", "user", "after", "after-logging",
                     "user-logging", "reject", "track", "skip-to-policy"} \X Hook
  <2>1. PICK part \in {"base", "before-logging", "before", "user", "after", "after-logging",
                       "user-logging", "reject", "track", "skip-to-policy"}, k \in Hook :
            name = <<part, k>>
    BY <1>1
  <2>2. name[1] = part /\ name[2] = k
    BY <2>1
  <2>3. CASE part = "base"
    BY <2>2, <2>3, BaseNests DEF Chain, Depth
  <2>4. CASE part = "before-logging"
    BY <2>2, <2>4, LoggingNests DEF Chain, Depth
  <2>5. CASE part = "before"
    BY <2>2, <2>5, BeforeNests DEF Chain, Depth
  <2>6. CASE part = "user"
    BY <2>2, <2>6, UserNests DEF Chain, Depth
  <2>7. CASE part = "after"
    BY <2>2, <2>7, AfterNests DEF Chain, Depth
  <2>8. CASE part = "after-logging"
    BY <2>2, <2>8, LoggingNests DEF Chain, Depth
  <2>9. CASE part = "user-logging"
    BY <2>2, <2>9, UserNests DEF Chain, Depth
  <2>10. CASE part = "reject"
    BY <2>2, <2>10, LoggingNests DEF Chain, Depth
  <2>11. CASE part = "track"
    BY <2>2, <2>11, LoggingNests DEF Chain, Depth
  <2>12. CASE part = "skip-to-policy"
    BY <2>2, <2>12, LoggingNests DEF Chain, Depth
  <2> QED BY <2>1, <2>3, <2>4, <2>5, <2>6, <2>7, <2>8, <2>9, <2>10, <2>11, <2>12
<1>2. CASE name \in {"not-local", "logging-deny", "user-limit",
                     "user-limit-accept", "user-egress"} \X {""}
  <2>1. PICK part \in {"not-local", "logging-deny", "user-limit",
                       "user-limit-accept", "user-egress"} : name = <<part, "">>
    <3> DEFINE S == {"not-local", "logging-deny", "user-limit", "user-limit-accept", "user-egress"}
               T == {""}
    <3>1. name \in S \X T
      BY <1>2
    <3>2. \E part \in S, k \in T : name = <<part, k>>
      <4> HIDE DEF S, T
      <4> QED BY <3>1, SharedName
    <3> QED BY <3>2
  <2>2. name[1] = part
    BY <2>1
  <2>3. CASE part = "not-local"
    <3>1. \A on : JumpsDeeper(Limited(jump(on, <<"logging-deny", "">>)), 2)
      <4>1. <<"logging-deny", "">> \in ChainName
        BY DEF ChainName
      <4> QED BY <4>1, DenyDepth, JumpNests
    <3>2. \A on : JumpsDeeper(Return(on), 2) /\ JumpsDeeper(Drop(on), 2)
      BY StayRules
    <3>3. Nests(NotLocal, 2)
      BY <3>1, <3>2, ThreeNests DEF NotLocal
    <3> QED BY <2>2, <2>3, <3>3 DEF Chain, Depth
  <2>4. CASE part = "logging-deny"
    BY <2>2, <2>4, LoggingNests DEF Chain, Depth
  <2>5. CASE part = "user-limit"
    BY <2>2, <2>5, LoggingNests DEF Chain, Depth
  <2>6. CASE part = "user-limit-accept"
    <3>1. Nests(<<Accept(<<>>)>>, 2)
      BY StayRules, OneNests
    <3> QED BY <2>2, <2>6, <3>1 DEF Chain, Depth
  <2>7. CASE part = "user-egress"
    BY <2>2, <2>7, NoneNests DEF Chain, Depth
  <2> QED BY <2>1, <2>3, <2>4, <2>5, <2>6, <2>7
<1> QED BY <1>1, <1>2 DEF ChainName

-----------------------------------------------------------------------------
(* Where a packet is: in a chain no deeper than its calls are.             *)
Frame == [chain : ChainName, pc : Nat \ {0}]
NestInv ==
    /\ config \in Applicable /\ ruleset = compile(config)
    /\ pkt \in Packet \cup {NoPacket} /\ (pkt = NoPacket => verdict = Undecided)
    /\ verdict \in {Undecided, "accept", "drop", "reject"}
    /\ stack \in Seq(Frame) /\ pc \in Nat
    /\ Walking => /\ chain \in ChainName /\ pc # 0 /\ Len(stack) <= Depth(chain)
                  /\ \A i \in DOMAIN stack : i <= Depth(stack[i].chain) + 1
                  /\ content[config].panic => chain[1] = "base" /\ stack = <<>>
    /\ ~Walking => stack = <<>>
    /\ \A k \in DOMAIN spent : spent[k] \in 1 .. Burst

(* It gives the types.                                                     *)
LEMMA NestInvTypes == NestInv => TypeOK
<1> SUFFICES ASSUME NestInv PROVE TypeOK
  OBVIOUS
<1>1. Len(stack) <= 3
  <2>1. Len(stack) \in Nat
    BY DEF NestInv
  <2>2. CASE Walking
    <3>1. Depth(chain) \in 0 .. 3 /\ Len(stack) <= Depth(chain)
      BY <2>2, DepthIs DEF NestInv
    <3> QED BY <2>1, <3>1
  <2>3. CASE ~Walking
    BY <2>3 DEF NestInv
  <2> QED BY <2>2, <2>3
<1> QED BY <1>1 DEF NestInv, TypeOK, Applicable

(* The rule a packet has reached.                                          *)
LEMMA RuleReached ==
    ASSUME NestInv, AtRule
    PROVE  JumpsDeeper(Current, Depth(chain))
<1>1. PICK s : s = content[config]
  OBVIOUS
<1>2. config \in Config /\ IsState(s) /\ Compiles(s)
  BY <1>1, ContentAssumption DEF NestInv, Applicable
<1>3. chain \in ChainName /\ pc \in Nat \ {0} /\ (s.panic => chain[1] = "base")
  BY <1>1 DEF NestInv, AtRule
<1>4. ruleset[chain] = Chain(s, chain)
  BY <1>1, <1>3 DEF NestInv, compile
<1>5. PICK l : l = ruleset[chain]
  OBVIOUS
<1>6. Nests(l, Depth(chain))
  BY <1>2, <1>3, <1>4, <1>5, ChainNests
<1>7. pc <= Len(l)
  BY <1>5 DEF AtRule
<1>8. pc \in DOMAIN l
  <2>1. PICK A : l \in Seq(A)
    BY <1>6 DEF Nests, IsSeq
  <2> QED BY <1>3, <1>7, <2>1
<1> QED BY <1>5, <1>6, <1>8 DEF Nests, Current

(* A packet that goes on is where it may be.                               *)
LEMMA StepNests == ASSUME NestInv, Step PROVE NestInv'
<1>1. /\ Walking /\ chain \in ChainName /\ pc \in Nat \ {0} /\ Len(stack) <= Depth(chain)
      /\ \A i \in DOMAIN stack : i <= Depth(stack[i].chain) + 1
      /\ stack \in Seq(Frame)
      /\ content[config].panic => chain[1] = "base" /\ stack = <<>>
  BY DEF NestInv, Step, Matched, Missed, Metered, ChainEnd, AtRule
<1>2. /\ UNCHANGED <<config, ruleset, pkt>>
      /\ spent' = spent => \A k \in DOMAIN spent' : spent'[k] \in 1 .. Burst
  BY DEF NestInv, Step, Matched, Missed, Metered, ChainEnd, Decided, GoTo, table
<1>3. ASSUME NEW v \in {"accept", "drop", "reject"}, Decided(v) PROVE NestInv'
  <2>1. verdict' = v /\ pc' = 0 /\ stack' = <<>> /\ spent' = spent /\ UNCHANGED <<config, ruleset, pkt>>
    BY <1>3 DEF Decided, table
  <2>2. v # Undecided /\ pkt # NoPacket
    BY <1>1 DEF Undecided, Walking
  <2>3. ~Walking'
    BY <2>1, <2>2 DEF Walking
  <2>4. stack' \in Seq(Frame) /\ pc' \in Nat
    BY <2>1
  <2> QED BY <1>2, <2>1, <2>2, <2>3, <2>4 DEF NestInv
<1>4. ASSUME GoTo(chain, pc + 1, stack), \A k \in DOMAIN spent' : spent'[k] \in 1 .. Burst
      PROVE  NestInv'
  BY <1>1, <1>2, <1>4 DEF NestInv, GoTo, Walking
<1>5. ASSUME stack # <<>>, GoTo(Last(stack).chain, Last(stack).pc, Front(stack)), spent' = spent
      PROVE  NestInv'
  <2>1. PICK n \in Nat \ {0} : n = Len(stack)
    BY <1>1, <1>5
  <2>2. PICK top : top = stack[n]
    OBVIOUS
  <2>3. top \in Frame /\ n <= Depth(top.chain) + 1
    BY <1>1, <2>1, <2>2
  <2>4. top.chain \in ChainName /\ top.pc \in Nat \ {0}
    BY <2>3 DEF Frame
  <2>5. PICK f : f = Front(stack)
    OBVIOUS
  <2>6. f \in Seq(Frame) /\ Len(f) = n - 1 /\ DOMAIN f = 1 .. n - 1 /\ \A i \in 1 .. n - 1 : f[i] = stack[i]
    BY <1>1, <2>1, <2>5 DEF Front
  <2>7. chain' = top.chain /\ pc' = top.pc /\ stack' = f
    BY <1>5, <2>1, <2>2, <2>5 DEF GoTo, Last
  <2>8. Len(f) <= Depth(top.chain)
    BY <2>1, <2>3, <2>6, DepthIs
  <2>9. \A i \in DOMAIN f : i <= Depth(f[i].chain) + 1
    BY <1>1, <2>1, <2>6
  <2>10. Walking' /\ verdict' = verdict
    BY <1>1, <1>5 DEF GoTo, Walking
  <2>11. ~content[config].panic
    BY <1>1, <1>5
  <2> QED BY <1>1, <1>2, <1>5, <2>4, <2>6, <2>7, <2>8, <2>9, <2>10, <2>11 DEF NestInv
<1>6. ASSUME AtRule, Current.verdict = "jump", spent' = spent,
             GoTo(Current.to, 1, Append(stack, [chain |-> chain, pc |-> pc + 1]))
      PROVE  NestInv'
  <2>1. Current.to \in ChainName /\ Depth(Current.to) > Depth(chain)
    BY <1>6, RuleReached DEF JumpsDeeper
  <2>2. PICK to : to = Current.to
    OBVIOUS
  <2>3. PICK top : top = [chain |-> chain, pc |-> pc + 1]
    OBVIOUS
  <2>4. top \in Frame /\ top.chain = chain
    BY <1>1, <2>3 DEF Frame
  <2>5. PICK a : a = Append(stack, top)
    OBVIOUS
  <2>6. PICK n \in Nat : n = Len(stack) /\ DOMAIN stack = 1 .. n
    BY <1>1
  <2>7. a \in Seq(Frame) /\ Len(a) = n + 1 /\ DOMAIN a = 1 .. n + 1 /\ a[n + 1] = top
        /\ \A i \in 1 .. n : a[i] = stack[i]
    BY <1>1, <2>4, <2>5, <2>6
  <2>8. Depth(chain) \in 0 .. 3 /\ Depth(to) \in 0 .. 3
    BY DepthIs
  <2>9. Len(a) <= Depth(to)
    BY <1>1, <2>1, <2>2, <2>6, <2>7, <2>8
  <2>10. \A i \in DOMAIN a : i <= Depth(a[i].chain) + 1
    <3>1. \A i \in 1 .. n : i <= Depth(a[i].chain) + 1
      BY <1>1, <2>6, <2>7
    <3>2. n + 1 <= Depth(a[n + 1].chain) + 1
      BY <1>1, <2>4, <2>6, <2>7, <2>8
    <3> QED BY <2>7, <3>1, <3>2
  <2>11. chain' = to /\ pc' = 1 /\ stack' = a
    BY <1>6, <2>2, <2>3, <2>5 DEF GoTo
  <2>12. Walking' /\ verdict' = verdict
    BY <1>1, <1>6 DEF GoTo, Walking
  <2>13. ~content[config].panic
    <3>1. ASSUME content[config].panic PROVE FALSE
      <4>1. chain[1] = "base" /\ AtRule
        BY <1>1, <1>6, <3>1
      <4>2. ruleset[chain] = Base(content[config], chain[2])
        BY <1>1, <4>1 DEF NestInv, compile, Chain
      <4>3. ruleset[chain] = <<>>
        BY <3>1, <4>2 DEF Base
      <4> QED BY <1>1, <4>1, <4>3 DEF AtRule
    <3> QED BY <3>1
  <2> QED BY <1>1, <1>2, <1>6, <2>1, <2>2, <2>7, <2>9, <2>10, <2>11, <2>12, <2>13 DEF NestInv
<1>7. CASE Matched
  BY <1>1, <1>2, <1>3, <1>4, <1>5, <1>6, <1>7 DEF Matched
<1>8. CASE Missed
  BY <1>1, <1>2, <1>4, <1>8 DEF Missed
<1>9. CASE Metered
  <2>1. PICK m \in Current.meter : Count(spent, MeterKey(m)) < Burst
                                   /\ spent' = Incremented(spent, MeterKey(m))
    BY <1>9 DEF Metered
  <2>2. PICK k : k = MeterKey(m)
    OBVIOUS
  <2>3. Count(spent, k) \in Nat /\ Count(spent, k) < Burst
    BY <2>1, <2>2, BurstAssumption DEF NestInv, Count
  <2>4. \A x \in DOMAIN spent : Count(spent, x) \in 1 .. Burst
    BY DEF NestInv, Count
  <2>5. ASSUME NEW x \in DOMAIN spent' PROVE spent'[x] \in 1 .. Burst
    <3>1. x \in DOMAIN spent \cup {k} /\ spent'[x] = Count(spent, x) + IF x = k THEN 1 ELSE 0
      BY <2>1, <2>2, <2>5 DEF Incremented
    <3>2. CASE x = k
      BY <2>3, <3>1, <3>2, BurstAssumption
    <3>3. CASE x # k
      BY <2>4, <3>1, <3>3
    <3> QED BY <3>2, <3>3
  <2> QED BY <1>4, <1>9, <2>5 DEF Metered
<1>10. CASE ChainEnd
  <2>1. BasePolicy(content[config], pkt.hook) \in {"accept", "drop", "reject"}
    BY DEF BasePolicy
  <2> QED BY <1>3, <1>5, <1>10, <2>1 DEF ChainEnd
<1> QED BY <1>7, <1>8, <1>9, <1>10 DEF Step

(* A packet never leaves it.                                               *)
LEMMA NestInvHolds == Spec => []NestInv
<1>1. Init => NestInv
  <2> SUFFICES ASSUME Init PROVE NestInv
    OBVIOUS
  <2>1. pkt = NoPacket /\ verdict = Undecided /\ stack = <<>> /\ pc = 0 /\ spent = Empty
    BY DEF Init
  <2>2. stack \in Seq(Frame) /\ ~Walking
    BY <2>1 DEF Walking
  <2>3. DOMAIN Empty = {}
    BY DEF Empty
  <2> QED BY <2>1, <2>2, <2>3 DEF Init, NestInv
<1>2. NestInv /\ [Next]_vars => NestInv'
  <2> SUFFICES ASSUME NestInv, [Next]_vars PROVE NestInv'
    OBVIOUS
  <2>1. CASE Apply
    <3>1. DOMAIN Empty = {}
      BY DEF Empty
    <3>2. ~Walking /\ ~Walking'
      BY <2>1 DEF Apply, Walking
    <3> QED BY <2>1, <3>1, <3>2 DEF NestInv, Apply, where
  <2>2. CASE Arrive
    <3>1. pkt' \in Packet /\ pkt'.hook \in Hook
      BY <2>2, HeaderAssumption DEF Arrive
    <3>2. chain' = <<"base", pkt'.hook>> /\ pc' = 1 /\ stack' = <<>>
      BY <2>2 DEF Arrive
    <3>3. chain' \in ChainName /\ chain'[1] = "base"
      BY <3>1, <3>2 DEF ChainName
    <3>4. stack' \in Seq(Frame) /\ Len(stack') = 0 /\ DOMAIN stack' = {} /\ Depth(chain') \in 0 .. 3
      BY <3>2, DepthIs
    <3>5. UNCHANGED <<config, ruleset, verdict, spent>>
      BY <2>2 DEF Arrive, table
    <3>6. Walking'
      <4>1. NoPacket.hook \notin Hook
        BY DEF NoPacket, Hook
      <4>2. pkt' # NoPacket
        BY <3>1, <4>1
      <4>3. verdict' = Undecided
        BY <2>2, <3>5 DEF NestInv, Arrive
      <4> QED BY <4>2, <4>3 DEF Walking
    <3> QED BY <3>1, <3>2, <3>3, <3>4, <3>5, <3>6 DEF NestInv, Walking
  <2>3. CASE Step
    BY <2>3, StepNests
  <2>4. CASE Leave
    <3>1. ~Walking /\ ~Walking' /\ UNCHANGED <<config, ruleset, chain, pc, stack, spent>>
      BY <2>4 DEF Leave, Walking, table, where
    <3> QED BY <2>4, <3>1 DEF NestInv, Leave, Undecided
  <2>5. CASE Quiet
    <3>1. DOMAIN Empty = {}
      BY DEF Empty
    <3>2. ~Walking /\ ~Walking' /\ UNCHANGED <<config, ruleset, pkt, verdict, chain, pc, stack>>
      BY <2>5 DEF Quiet, Walking, table, where
    <3> QED BY <2>5, <3>1, <3>2 DEF NestInv, Quiet
  <2>6. CASE UNCHANGED vars
    BY <2>6 DEF NestInv, Walking, vars, table, where
  <2> QED BY <2>1, <2>2, <2>3, <2>4, <2>5, <2>6 DEF Next
<1> QED BY <1>1, <1>2, PTL DEF Spec

(* Type correctness; the kernel never nests the chains more than three     *)
(* deep, whatever the rules are.                                           *)
THEOREM PacketsTyping == Spec => []TypeOK
BY NestInvHolds, NestInvTypes, PTL

=============================================================================
