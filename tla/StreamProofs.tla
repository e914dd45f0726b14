----------------------------- MODULE StreamProofs -----------------------------
(***************************************************************************)
(* The two streams with flow control of their own: the streams of a smux    *)
(* session (SmuxStream) and the reliable stream of the DNS carrier (DnsRel),*)
(* for any number of streams, bytes, windows, losses and callers.  Both     *)
(* count bytes, so the lemmas about sums come first.                        *)
(***************************************************************************)
EXTENDS SmuxStream, DnsRel, FiniteSetTheorems, WellFoundedInduction, TLAPS

\* A set of numbers has a least one: what a proof by induction over a size rests on.
LEMMA LeastNat ==
    ASSUME NEW T, T \subseteq Nat, T # {}
    PROVE  \E x \in T : \A y \in T : x <= y
<1>1. PICK x \in T : \A y \in T : ~(<<y, x>> \in OpToRel(<, Nat))
  BY WFMin, NatLessThanWellFounded
<1>2. \A y \in T : ~(y < x)
  BY <1>1 DEF OpToRel
<1> QED
  BY <1>2

Pick(s) == CHOOSE x \in s : TRUE
Added(f, g, s) == IF s = {} THEN 0 ELSE f[Pick(s)] + g[s \ {Pick(s)}]
Adds(f, S, g) == g = [s \in SUBSET S |-> Added(f, g, s)]

\* A sum adds the elements one by one, in the order in which CHOOSE picks them.
LEMMA SumIs == ASSUME NEW f, NEW S PROVE SumFunctionOnSet(f, S) = (CHOOSE g : Adds(f, S, g))[S]
  BY DEF SumFunctionOnSet, FoldFunctionOnSet, MapThenFoldSet, Adds, Added, Pick

\* An element that is picked is one,
LEMMA Picked == ASSUME NEW s, s # {} PROVE Pick(s) \in s
  BY DEF Pick

\* and leaves one fewer.
LEMMA OneLess ==
    ASSUME NEW s, IsFiniteSet(s), NEW x \in s
    PROVE  /\ IsFiniteSet(s \ {x}) /\ Cardinality(s \ {x}) = Cardinality(s) - 1
           /\ Cardinality(s) \in Nat /\ Cardinality(s) > 0 /\ Cardinality(s \ {x}) \in Nat
<1>1. /\ IsFiniteSet(s \ {x}) /\ Cardinality(s \ {x}) = Cardinality(s) - 1
  BY FS_RemoveElement
<1>2. Cardinality(s) \in Nat /\ Cardinality(s \ {x}) \in Nat
  BY <1>1, FS_CardinalityType
<1> QED
  BY <1>1, <1>2

\* Some function adds up every subset of a finite set,
LEMMA AddsExists ==
    ASSUME NEW f, NEW S, IsFiniteSet(S)
    PROVE  \E g : Adds(f, S, g)
<1> DEFINE Upto(n) == {s \in SUBSET S : Cardinality(s) <= n}
           Part(n, g) == g = [s \in Upto(n) |-> Added(f, g, s)]
           Bad == {n \in Nat : ~\E g : Part(n, g)}
<1>0. \A s \in SUBSET S : IsFiniteSet(s) /\ Cardinality(s) \in Nat /\ Cardinality(s) <= Cardinality(S)
  BY FS_Subset, FS_CardinalityType
<1>1. ASSUME Bad # {} PROVE FALSE
  <2>1. PICK n \in Bad : \A y \in Bad : n <= y
    BY <1>1, LeastNat
  <2>2. CASE n = 0
    <3> DEFINE g == [s \in Upto(0) |-> 0]
    <3>1. \A s \in Upto(0) : s = {}
      BY <1>0, FS_EmptySet
    <3>2. \A s \in Upto(0) : Added(f, g, s) = 0
      BY <3>1 DEF Added
    <3>3. Part(0, g)
      BY <3>2
    <3> QED
      BY <2>1, <2>2, <3>3
  <2>3. CASE n # 0
    <3>0. n \in Nat /\ n - 1 \in Nat
      BY <2>1, <2>3
    <3>1. n - 1 \notin Bad
      <4> HIDE DEF Bad
      <4> QED
        BY <2>1, <3>0
    <3>2. PICK h : Part(n - 1, h)
      BY <3>0, <3>1
    <3> DEFINE g == [s \in Upto(n) |-> Added(f, h, s)]
    <3>3. ASSUME NEW s \in Upto(n), s # {}
          PROVE  g[s \ {Pick(s)}] = h[s \ {Pick(s)}]
      <4> DEFINE u == s \ {Pick(s)}
      <4>1. u \in Upto(n - 1) /\ u \in Upto(n)
        BY <1>0, <3>3, OneLess, Picked, <2>1
      <4>2. h[u] = Added(f, h, u)
        BY <3>2, <4>1
      <4>3. g[u] = Added(f, h, u)
        BY <4>1
      <4> QED
        BY <4>2, <4>3
    <3>4. \A s \in Upto(n) : Added(f, h, s) = Added(f, g, s)
      BY <3>3 DEF Added
    <3>5. Part(n, g)
      BY <3>4
    <3> QED
      BY <2>1, <3>5
  <2> QED
    BY <2>2, <2>3
<1>2. Cardinality(S) \in Nat
  BY FS_CardinalityType
<1>3. PICK g : Part(Cardinality(S), g)
  BY <1>1, <1>2
<1>4. Upto(Cardinality(S)) = SUBSET S
  BY <1>0
<1> QED
  BY <1>3, <1>4 DEF Adds

\* and two of them agree on the subsets that both have.
LEMMA AddsAgree ==
    ASSUME NEW f, NEW S, NEW T, NEW g, NEW h, Adds(f, S, g), Adds(f, T, h)
    PROVE  \A s : IsFiniteSet(s) /\ s \subseteq S /\ s \subseteq T => g[s] = h[s]
<1> DEFINE Odd(s) == IsFiniteSet(s) /\ s \subseteq S /\ s \subseteq T /\ g[s] # h[s]
           Bad == {n \in Nat : \E s \in SUBSET S : Odd(s) /\ Cardinality(s) = n}
<1>1. ASSUME Bad # {} PROVE FALSE
  <2>1. PICK n \in Bad : \A y \in Bad : n <= y
    BY <1>1, LeastNat
  <2>2. PICK s \in SUBSET S : Odd(s) /\ Cardinality(s) = n
    BY <2>1
  <2>3. g[s] = Added(f, g, s) /\ h[s] = Added(f, h, s)
    BY <2>2 DEF Adds
  <2>4. s # {}
    BY <2>2, <2>3 DEF Added
  <2> DEFINE u == s \ {Pick(s)}
  <2>5. IsFiniteSet(u) /\ Cardinality(u) = n - 1 /\ n - 1 \in Nat /\ u \subseteq S /\ u \subseteq T
    BY <2>2, <2>4, OneLess, Picked
  <2>6. n - 1 \notin Bad
    BY <2>1, <2>5
  <2>7. g[u] = h[u]
    BY <2>5, <2>6
  <2> QED
    BY <2>2, <2>3, <2>4, <2>7 DEF Added
<1>2. ASSUME NEW s, Odd(s) PROVE FALSE
  <2>1. Cardinality(s) \in Nat /\ s \in SUBSET S
    BY <1>2, FS_CardinalityType
  <2> QED
    BY <1>1, <1>2, <2>1
<1> QED
  BY <1>2

\* Nothing adds up to 0.
LEMMA SumEmpty == ASSUME NEW f PROVE SumFunctionOnSet(f, {}) = 0
<1>1. PICK g : Adds(f, {}, g)
  BY AddsExists, FS_EmptySet
<1> DEFINE c == CHOOSE h : Adds(f, {}, h)
<1>2. Adds(f, {}, c)
  BY <1>1
<1>3. c[{}] = 0
  BY <1>2 DEF Adds, Added
<1> QED
  BY <1>3, SumIs

\* A sum is what is picked and the sum of the rest.
LEMMA SumPick ==
    ASSUME NEW f, NEW S, IsFiniteSet(S), S # {}
    PROVE  SumFunctionOnSet(f, S) = f[Pick(S)] + SumFunctionOnSet(f, S \ {Pick(S)})
<1> DEFINE U == S \ {Pick(S)}
           c == CHOOSE g : Adds(f, S, g)
           d == CHOOSE g : Adds(f, U, g)
<1>1. IsFiniteSet(U)
  BY OneLess, Picked
<1>2. Adds(f, S, c)
  BY AddsExists
<1>3. Adds(f, U, d)
  BY <1>1, AddsExists
<1> HIDE DEF c, d
<1>4. c[S] = f[Pick(S)] + c[U]
  BY <1>2 DEF Adds, Added
<1>5. c[U] = d[U]
  BY <1>1, <1>2, <1>3, AddsAgree
<1> QED
  BY <1>4, <1>5, SumIs DEF c, d

\* The sum of integers is one.
LEMMA SumInt ==
    ASSUME NEW f, NEW S, IsFiniteSet(S), \A x \in S : f[x] \in Int
    PROVE  SumFunctionOnSet(f, S) \in Int
<1> DEFINE Odd(s) == SumFunctionOnSet(f, s) \notin Int
           Bad == {n \in Nat : \E s \in SUBSET S : Odd(s) /\ Cardinality(s) = n}
<1>0. \A s \in SUBSET S : IsFiniteSet(s) /\ Cardinality(s) \in Nat
  BY FS_Subset, FS_CardinalityType
<1>1. ASSUME Bad # {} PROVE FALSE
  <2>1. PICK n \in Bad : \A y \in Bad : n <= y
    BY <1>1, LeastNat
  <2>2. PICK s \in SUBSET S : Odd(s) /\ Cardinality(s) = n
    BY <2>1
  <2>3. s # {}
    BY <2>2, SumEmpty
  <2> DEFINE u == s \ {Pick(s)}
  <2>5. IsFiniteSet(u) /\ Cardinality(u) = n - 1 /\ n - 1 \in Nat /\ u \subseteq S
    BY <1>0, <2>2, <2>3, OneLess, Picked
  <2>6. n - 1 \notin Bad
    BY <2>1, <2>5
  <2>7. SumFunctionOnSet(f, u) \in Int
    BY <2>5, <2>6
  <2>8. SumFunctionOnSet(f, s) = f[Pick(s)] + SumFunctionOnSet(f, u) /\ f[Pick(s)] \in Int
    BY <1>0, <2>3, SumPick, Picked
  <2> QED
    BY <2>2, <2>7, <2>8
<1> QED
  BY <1>0, <1>1

\* It does not matter which element is added first,
LEMMA SumLess ==
    ASSUME NEW f, NEW S, IsFiniteSet(S), \A x \in S : f[x] \in Int
    PROVE  \A x \in S : SumFunctionOnSet(f, S) = f[x] + SumFunctionOnSet(f, S \ {x})
<1> DEFINE Sum(s) == SumFunctionOnSet(f, s)
           Odd(s) == \E x \in s : Sum(s) # f[x] + Sum(s \ {x})
           Bad == {n \in Nat : \E s \in SUBSET S : Odd(s) /\ Cardinality(s) = n}
<1>0. \A s \in SUBSET S : IsFiniteSet(s) /\ Cardinality(s) \in Nat /\ Sum(s) \in Int
  BY FS_Subset, FS_CardinalityType, SumInt
<1>1. ASSUME Bad # {} PROVE FALSE
  <2>1. PICK n \in Bad : \A y \in Bad : n <= y
    BY <1>1, LeastNat
  <2>2. PICK s \in SUBSET S : Odd(s) /\ Cardinality(s) = n
    BY <2>1
  <2>3. PICK x \in s : Sum(s) # f[x] + Sum(s \ {x})
    BY <2>2
  <2> DEFINE p == Pick(s)
  <2>4. p \in s /\ Sum(s) = f[p] + Sum(s \ {p})
    BY <1>0, <2>3, SumPick, Picked
  <2>5. x # p
    BY <2>3, <2>4
  <2>6. \A y \in s : s \ {y} \in SUBSET S /\ ~Odd(s \ {y})
    <3> TAKE y \in s
    <3>1. Cardinality(s \ {y}) = n - 1 /\ n - 1 \in Nat
      BY <1>0, <2>2, OneLess
    <3> QED
      BY <2>1, <3>1
  <2>7. Sum(s \ {p}) = f[x] + Sum((s \ {p}) \ {x})
    BY <2>3, <2>4, <2>5, <2>6
  <2>8. Sum(s \ {x}) = f[p] + Sum((s \ {x}) \ {p})
    BY <2>3, <2>4, <2>5, <2>6
  <2>9. (s \ {x}) \ {p} = (s \ {p}) \ {x}
    OBVIOUS
  <2>10. f[x] \in Int /\ f[p] \in Int /\ Sum((s \ {p}) \ {x}) \in Int
    BY <1>0, <2>3, <2>4
  <2>11. \A a, b, c \in Int : a + (b + c) = b + (a + c)
    OBVIOUS
  <2>12. Sum(s) = f[p] + (f[x] + Sum((s \ {p}) \ {x}))
    BY <2>4, <2>7
  <2>13. f[x] + Sum(s \ {x}) = f[x] + (f[p] + Sum((s \ {p}) \ {x}))
    BY <2>8, <2>9
  <2> HIDE DEF p, Sum
  <2> QED
    BY <2>3, <2>10, <2>11, <2>12, <2>13
<1> QED
  BY <1>0, <1>1

\* nor what the function is elsewhere.
LEMMA SumSame ==
    ASSUME NEW f, NEW g, NEW S, IsFiniteSet(S), \A x \in S : f[x] = g[x]
    PROVE  SumFunctionOnSet(f, S) = SumFunctionOnSet(g, S)
<1> DEFINE Odd(s) == SumFunctionOnSet(f, s) # SumFunctionOnSet(g, s)
           Bad == {n \in Nat : \E s \in SUBSET S : Odd(s) /\ Cardinality(s) = n}
<1>0. \A s \in SUBSET S : IsFiniteSet(s) /\ Cardinality(s) \in Nat
  BY FS_Subset, FS_CardinalityType
<1>1. ASSUME Bad # {} PROVE FALSE
  <2>1. PICK n \in Bad : \A y \in Bad : n <= y
    BY <1>1, LeastNat
  <2>2. PICK s \in SUBSET S : Odd(s) /\ Cardinality(s) = n
    BY <2>1
  <2>3. s # {}
    BY <2>2, SumEmpty
  <2> DEFINE u == s \ {Pick(s)}
  <2>4. Cardinality(u) = n - 1 /\ n - 1 \in Nat /\ u \in SUBSET S
    BY <1>0, <2>2, <2>3, OneLess, Picked
  <2>5. ~Odd(u)
    BY <2>1, <2>4
  <2>6. f[Pick(s)] = g[Pick(s)]
    BY <2>3, Picked
  <2> QED
    BY <1>0, <2>2, <2>3, <2>5, <2>6, SumPick
<1> QED
  BY <1>0, <1>1

\* One value changes, and the sum by as much.
LEMMA SumChange ==
    ASSUME NEW f, NEW g, NEW S, IsFiniteSet(S), NEW x \in S,
           \A y \in S : f[y] \in Int /\ g[y] \in Int, \A y \in S : y # x => f[y] = g[y]
    PROVE  SumFunctionOnSet(g, S) = SumFunctionOnSet(f, S) - f[x] + g[x]
<1> DEFINE U == S \ {x}
<1>1. IsFiniteSet(U)
  BY FS_RemoveElement
<1>2. SumFunctionOnSet(f, U) = SumFunctionOnSet(g, U)
  BY <1>1, SumSame
<1>3. SumFunctionOnSet(f, S) = f[x] + SumFunctionOnSet(f, U) /\ SumFunctionOnSet(g, S) = g[x] + SumFunctionOnSet(g, U)
  BY SumLess
<1>4. SumFunctionOnSet(f, U) \in Int /\ f[x] \in Int /\ g[x] \in Int
  BY <1>1, SumInt
<1>5. \A a, b, c \in Int : b + c = (a + c) - a + b
  OBVIOUS
<1> QED
  BY <1>2, <1>3, <1>4, <1>5

\* The sum of natural numbers is one.
LEMMA SumNat ==
    ASSUME NEW f, NEW S, IsFiniteSet(S), \A x \in S : f[x] \in Nat
    PROVE  SumFunctionOnSet(f, S) \in Nat
<1> DEFINE Odd(s) == SumFunctionOnSet(f, s) \notin Nat
           Bad == {n \in Nat : \E s \in SUBSET S : Odd(s) /\ Cardinality(s) = n}
<1>0. \A s \in SUBSET S : IsFiniteSet(s) /\ Cardinality(s) \in Nat
  BY FS_Subset, FS_CardinalityType
<1>1. ASSUME Bad # {} PROVE FALSE
  <2>1. PICK n \in Bad : \A y \in Bad : n <= y
    BY <1>1, LeastNat
  <2>2. PICK s \in SUBSET S : Odd(s) /\ Cardinality(s) = n
    BY <2>1
  <2>3. s # {}
    BY <2>2, SumEmpty
  <2> DEFINE u == s \ {Pick(s)}
  <2>4. Cardinality(u) = n - 1 /\ n - 1 \in Nat /\ u \in SUBSET S
    BY <1>0, <2>2, <2>3, OneLess, Picked
  <2>5. SumFunctionOnSet(f, u) \in Nat
    BY <2>1, <2>4
  <2>6. SumFunctionOnSet(f, s) = f[Pick(s)] + SumFunctionOnSet(f, u) /\ f[Pick(s)] \in Nat
    BY <1>0, <2>3, SumPick, Picked
  <2> QED
    BY <2>2, <2>5, <2>6
<1> QED
  BY <1>0, <1>1

\* g has one element more than f, at the end,
Grown(n, f, g) ==
    /\ DOMAIN f = 1..n /\ DOMAIN g = 1..(n + 1)
    /\ \A i \in 1..n : f[i] = g[i]
    /\ \A i \in 1..(n + 1) : g[i] \in Int

\* or one element less, at the front.
Shifted(n, f, g) ==
    /\ DOMAIN f = 1..(n + 1) /\ DOMAIN g = 1..n
    /\ \A i \in 1..n : g[i] = f[i + 1]
    /\ \A i \in 1..(n + 1) : f[i] \in Int

\* A value is added behind the last,
LEMMA SumGrows ==
    ASSUME NEW n \in Nat, NEW f, NEW g, Grown(n, f, g)
    PROVE  SumFunction(g) = SumFunction(f) + g[n + 1] /\ SumFunction(f) \in Int
<1> USE DEF Grown
<1>1. IsFiniteSet(1..n) /\ IsFiniteSet(1..(n + 1))
  BY FS_Interval
<1>2. n + 1 \in 1..(n + 1) /\ (1..(n + 1)) \ {n + 1} = 1..n /\ \A i \in 1..n : i \in 1..(n + 1)
  OBVIOUS
<1>3. SumFunctionOnSet(g, 1..(n + 1)) = g[n + 1] + SumFunctionOnSet(g, (1..(n + 1)) \ {n + 1})
  BY <1>1, <1>2, SumLess
<1>4. SumFunctionOnSet(f, 1..n) = SumFunctionOnSet(g, 1..n)
  BY <1>1, SumSame
<1>5. SumFunctionOnSet(f, 1..n) \in Int /\ g[n + 1] \in Int
  BY <1>1, <1>2, SumInt
<1> DEFINE a == SumFunctionOnSet(f, 1..n)
<1>6. SumFunction(g) = g[n + 1] + a /\ SumFunction(f) = a
  BY <1>2, <1>3, <1>4 DEF SumFunction
<1> HIDE DEF a
<1>7. a \in Int
  BY <1>5 DEF a
<1>8. \A x, y \in Int : x + y = y + x
  OBVIOUS
<1> QED
  BY <1>5, <1>6, <1>7, <1>8, Zenon

\* or the first one is taken away.
LEMMA SumShift ==
    ASSUME NEW m \in Nat, NEW p, NEW q, Shifted(m, p, q)
    PROVE  SumFunction(p) = p[1] + SumFunction(q) /\ SumFunction(q) \in Int
<1> DEFINE Odd(n) == \E f, g : Shifted(n, f, g) /\ ~(SumFunction(f) = f[1] + SumFunction(g) /\ SumFunction(g) \in Int)
           Bad == {n \in Nat : Odd(n)}
<1> SUFFICES ASSUME Bad # {} PROVE FALSE
  <2>1. ~Odd(m)
    <3> HIDE DEF Odd
    <3> QED
      OBVIOUS
  <2> QED
    BY <2>1
<1>1. PICK n \in Bad : \A y \in Bad : n <= y
  <2> HIDE DEF Odd
  <2> QED
    BY LeastNat
<1>2. n \in Nat /\ Odd(n)
  BY <1>1
<1>3. PICK f, g : Shifted(n, f, g) /\ ~(SumFunction(f) = f[1] + SumFunction(g) /\ SumFunction(g) \in Int)
  BY <1>2
<1>4. CASE n = 0
  <2>1. Grown(0, g, f) /\ f[1] \in Int
    BY <1>3, <1>4 DEF Grown, Shifted
  <2>2. SumFunction(f) = SumFunction(g) + f[0 + 1] /\ SumFunction(g) \in Int
    BY <2>1, SumGrows
  <2>3. SumFunction(f) = SumFunction(g) + f[1]
    BY <2>2
  <2>4. \A x, y \in Int : x + y = y + x
    OBVIOUS
  <2> QED
    BY <1>3, <2>1, <2>2, <2>3, <2>4, Zenon
<1>5. CASE n # 0
  <2>1. n - 1 \in Nat /\ ~(n <= n - 1) /\ (n - 1) + 1 = n
    BY <1>2, <1>5
  <2>2. ~Odd(n - 1)
    <3> HIDE DEF Odd
    <3> QED
      BY <1>1, <2>1
  <2> DEFINE f1 == [i \in 1..n |-> f[i]]
             g1 == [i \in 1..(n - 1) |-> g[i]]
  <2>3. /\ DOMAIN f = 1..(n + 1) /\ DOMAIN g = 1..n
        /\ \A i \in 1..n : g[i] = f[i + 1]
        /\ \A i \in 1..(n + 1) : f[i] \in Int
    BY <1>3 DEF Shifted
  <2>4. /\ DOMAIN f1 = 1..n /\ DOMAIN g1 = 1..(n - 1) /\ (\A i \in 1..n : f1[i] = f[i])
        /\ (\A i \in 1..(n - 1) : g1[i] = g[i])
    OBVIOUS
  <2> HIDE DEF f1, g1
  <2>5. \A i \in 1..(n - 1) : i \in 1..n /\ i + 1 \in 1..n
    BY <1>2
  <2>6. \A i \in 1..n : i \in 1..(n + 1) /\ i + 1 \in 1..(n + 1)
    BY <1>2
  <2>7. Shifted(n - 1, f1, g1)
    BY <2>1, <2>3, <2>4, <2>5, <2>6 DEF Shifted
  <2>8. SumFunction(f1) = f1[1] + SumFunction(g1) /\ SumFunction(g1) \in Int
    BY <2>2, <2>7
  <2>9. SumFunction(f) = SumFunction(f1) + f[n + 1]
    <3>1. Grown(n, f1, f)
      BY <2>3, <2>4 DEF Grown
    <3> QED
      BY <1>2, <3>1, SumGrows
  <2>10. SumFunction(g) = SumFunction(g1) + g[n]
    <3>1. \A i \in 1..n : g[i] \in Int
      BY <2>3, <2>6
    <3>2. Grown(n - 1, g1, g)
      BY <2>1, <2>3, <2>4, <3>1 DEF Grown
    <3>3. SumFunction(g) = SumFunction(g1) + g[(n - 1) + 1]
      BY <2>1, <3>2, SumGrows
    <3> QED
      BY <2>1, <3>3
  <2>11. g[n] = f[n + 1] /\ f1[1] = f[1] /\ f[1] \in Int /\ g[n] \in Int
    <3>1. n \in 1..n /\ 1 \in 1..n /\ 1 \in 1..(n + 1) /\ n + 1 \in 1..(n + 1)
      BY <1>2, <1>5
    <3> QED
      BY <2>3, <2>4, <3>1
  <2> DEFINE a == SumFunction(g1)
             b == f[1]
             c == g[n]
  <2>13. SumFunction(f) = (b + a) + c /\ SumFunction(g) = a + c /\ a \in Int /\ b \in Int /\ c \in Int
    BY <2>8, <2>9, <2>10, <2>11, Zenon
  <2> HIDE DEF a, b, c
  <2>14. SumFunction(f) = b + SumFunction(g) /\ SumFunction(g) \in Int
    BY <2>13
  <2> QED
    BY <1>3, <2>14 DEF b
<1> QED
  BY <1>4, <1>5

\* A sum of zeros.
LEMMA SumZero ==
    ASSUME NEW f, NEW S, IsFiniteSet(S), \A x \in S : f[x] = 0
    PROVE  SumFunctionOnSet(f, S) = 0
<1> DEFINE Odd(s) == SumFunctionOnSet(f, s) # 0
           Bad == {n \in Nat : \E s \in SUBSET S : Odd(s) /\ Cardinality(s) = n}
<1>0. \A s \in SUBSET S : IsFiniteSet(s) /\ Cardinality(s) \in Nat
  BY FS_Subset, FS_CardinalityType
<1>1. ASSUME Bad # {} PROVE FALSE
  <2>1. PICK n \in Bad : \A y \in Bad : n <= y
    BY <1>1, LeastNat
  <2>2. PICK s \in SUBSET S : Odd(s) /\ Cardinality(s) = n
    BY <2>1
  <2>3. s # {}
    BY <2>2, SumEmpty
  <2> DEFINE u == s \ {Pick(s)}
  <2>5. IsFiniteSet(u) /\ Cardinality(u) = n - 1 /\ n - 1 \in Nat /\ u \subseteq S
    BY <1>0, <2>2, <2>3, OneLess, Picked
  <2>6. n - 1 \notin Bad
    BY <2>1, <2>5
  <2>7. SumFunctionOnSet(f, u) = 0
    BY <2>5, <2>6
  <2>8. SumFunctionOnSet(f, s) = f[Pick(s)] + SumFunctionOnSet(f, u) /\ f[Pick(s)] = 0
    BY <1>0, <2>3, SumPick, Picked
  <2> QED
    BY <2>2, <2>7, <2>8
<1> QED
  BY <1>0, <1>1

\* The end of a sequence from its c-th element on.
LEMMA TailIs ==
    ASSUME NEW q \in Seq(Nat), NEW c \in Nat, c < Len(q)
    PROVE  /\ SubSeq(q, c + 1, Len(q)) \in Seq(Nat) /\ Len(SubSeq(q, c + 1, Len(q))) = Len(q) - c
           /\ \A i \in 1..(Len(q) - c) : SubSeq(q, c + 1, Len(q))[i] = q[c + i]
<1>1. PICK l \in Nat : l = Len(q)
  OBVIOUS
<1>2. c + 1 \in 1..l /\ l - c \in Nat /\ l - (c + 1) + 1 = l - c
  BY <1>1
<1>3. SubSeq(q, c + 1, l) \in Seq(Nat)
  BY <1>1, <1>2
<1>4. Len(SubSeq(q, c + 1, l)) = l - c
  BY <1>1, <1>2
<1>5. \A i \in 1..(l - c) : SubSeq(q, c + 1, l)[i] = q[c + i]
  BY <1>1, <1>2
<1> QED
  BY <1>1, <1>3, <1>4, <1>5

\* A function on 1..n is a sequence of length n.
LEMMA FunIsSeq ==
    ASSUME NEW R, NEW n \in Nat, NEW f \in [1..n -> R]
    PROVE  f \in Seq(R) /\ Len(f) = n
  OBVIOUS

\* The first c elements of a sequence.
LEMMA HeadIs ==
    ASSUME NEW q \in Seq(Nat), NEW c \in 1..Len(q)
    PROVE  /\ SubSeq(q, 1, c) \in Seq(Nat) /\ Len(SubSeq(q, 1, c)) = c
           /\ \A i \in 1..c : SubSeq(q, 1, c)[i] = q[i]
  OBVIOUS

-----------------------------------------------------------------------------
(* The streams of a smux session. *)


\* The steps that leave recvLoop, the bucket and bucketNotify alone.
LEMMA OthersKeepAwake ==
    ASSUME RecvLoopWoken, UNCHANGED <<recv, bucket, notify>>
    PROVE  RecvLoopWoken'
BY DEF RecvLoopWoken, HasTokens

\* A step that gives tokens back (returnTokens, streamClosed) tells recvLoop
\* whenever it leaves any in the bucket.
LEMMA TokensBackAwakes ==
    ASSUME RecvLoopWoken, NEW n, TokensBack(n), UNCHANGED recv
    PROVE  RecvLoopWoken'
BY DEF RecvLoopWoken, HasTokens, TokensBack

\* A step of a writer touches neither recvLoop nor its tokens.
LEMMA WriterAside ==
    ASSUME NEW s \in Streams, Writer(s) \/ OpenTimeout(s) \/ WriteTimeout(s)
    PROVE  UNCHANGED <<recv, bucket, notify>>
BY DEF Writer, OpenTimeout, WriteTimeout, OpenStream, Registered, LoadCounters, LoadWindow,
       NextFrame, Sleep, Close, Snd

\* recvLoop, which reads for every stream of the session, never sleeps on a
\* bucket that has tokens: whatever readers, Closes and window changes do at
\* the same time, no wake-up is lost (notifyBucket).
THEOREM NeverAsleep == Spec => []RecvLoopWoken
<1>1. Init => RecvLoopWoken
  BY DEF Init, At, RecvLoopWoken
<1>2. RecvLoopWoken /\ [Next]_vars => RecvLoopWoken'
  <2> SUFFICES ASSUME RecvLoopWoken, [Next]_vars
               PROVE  RecvLoopWoken'
    OBVIOUS
  <2>1. ASSUME NEW s \in Streams, Writer(s) \/ OpenTimeout(s) \/ WriteTimeout(s)
        PROVE  RecvLoopWoken'
    BY <2>1, WriterAside, OthersKeepAwake
  <2>2. ASSUME NEW s \in Streams, Reader(s)
        PROVE  RecvLoopWoken'
    <3>1. CASE ReturnTokens(s)
      BY <3>1, TokensBackAwakes DEF ReturnTokens, Rcv
    <3>2. CASE TryRead(s) \/ TryReadEmpty(s) \/ WaitRead(s) \/ ReaderUpdate(s)
      <4>1. UNCHANGED <<recv, bucket, notify>>
        BY <3>2 DEF TryRead, TryReadEmpty, WaitRead, ReaderUpdate, Rcv
      <4> QED BY <4>1, OthersKeepAwake
    <3> QED BY <2>2, <3>1, <3>2 DEF Reader
  <2>3. ASSUME NEW s \in Streams, SetReceiveWindow(s) \/ WindowSet(s)
        PROVE  RecvLoopWoken'
    <3>1. UNCHANGED <<recv, bucket, notify>>
      BY <2>3 DEF SetReceiveWindow, WindowSet, Rcv
    <3> QED BY <3>1, OthersKeepAwake
  <2>4. ASSUME NEW s \in Streams, Closer(s) \/ ReaderClose(s, TRUE)
        PROVE  RecvLoopWoken'
    <3>1. CASE ReaderClose(s, TRUE) \/ ReaderClose(s, FALSE)
      <4>1. UNCHANGED <<recv, bucket, notify>>
        BY <3>1 DEF ReaderClose, Rcv
      <4> QED BY <4>1, OthersKeepAwake
    <3>2. CASE StreamClosed(s)
      <4>1. UNCHANGED recv
        BY <3>2 DEF StreamClosed, Rcv
      <4>2. CASE TokensBack(Buffered(rcv[s]))
        BY <4>1, <4>2, TokensBackAwakes
      <4>3. CASE UNCHANGED <<bucket, notify>>
        BY <4>1, <4>3, OthersKeepAwake
      <4> QED BY <3>2, <4>2, <4>3 DEF StreamClosed
    <3> QED BY <2>4, <3>1, <3>2 DEF Closer
  <2>5. CASE SendLoop \/ RecvBack \/ StoreWindow
    <3>1. UNCHANGED <<recv, bucket, notify>>
      BY <2>5 DEF SendLoop, RecvBack, StoreWindow
    <3> QED BY <3>1, OthersKeepAwake
  <2>6. CASE RecvWait
    \* recvLoop goes to sleep only on an empty bucket
    BY <2>6 DEF RecvWait, At, RecvLoopWoken, HasTokens
  <2>7. CASE Recv
    BY <2>7 DEF Recv, RecvLoopWoken, HasTokens
  <2>8. CASE TakeTokens
    BY <2>8 DEF TakeTokens, At, RecvLoopWoken
  <2>9. CASE UNCHANGED vars
    BY <2>9, OthersKeepAwake DEF vars
  <2> QED BY <2>1, <2>2, <2>3, <2>4, <2>5, <2>6, <2>7, <2>8, <2>9 DEF Next
<1> QED BY <1>1, <1>2, PTL DEF Spec
-----------------------------------------------------------------------------
(* EOFMeansAll: what a reader is given.  The bytes of a stream that were      *)
(* written and not yet read lie, as successive runs, in its buffers and then  *)
(* on the wire; its SYN is ahead of them and its FIN behind.                  *)

sndFields == {"pc", "next", "bts", "inflight", "numWritten", "peerConsumed", "peerWindow", "chUpdate",
              "fin", "ok"}
rcvFields == {"known", "buf", "numRead", "incr", "window", "event", "fin", "die", "pc", "n", "tell",
              "consumed", "set", "setConsumed", "close", "got", "eof"}

Frames  == {"SYN", "FIN", "PSH"} \X Streams \X Seq(Nat)
Answers == ({"FIN"} \X Streams) \cup ({"UPD"} \X Streams \X Int \X Int)

Shape ==
    /\ DOMAIN snd = Streams /\ \A s \in Streams : DOMAIN snd[s] = sndFields
    /\ DOMAIN rcv = Streams /\ \A s \in Streams : DOMAIN rcv[s] = rcvFields
    /\ DOMAIN shaper = {"ctrl", "data"} /\ shaper.ctrl \in Seq(Frames) /\ shaper.data \in Seq(Frames)
    /\ wire \in Seq(Frames) /\ back \in Seq(Answers)
    /\ \A s \in Streams : rcv[s].buf \in Seq(Seq(Nat)) /\ rcv[s].got \in Seq(Nat)
    /\ recv.pc = "pushed" => recv.s \in Streams

\* The numbers that a grant is made of.
Counters(r) == r.numRead \in Int /\ r.window \in Int /\ r.consumed \in Int /\ r.setConsumed \in Int
Numbers ==
    /\ \A s \in Streams :
          /\ snd[s].inflight \in Int /\ snd[s].numWritten \in Int
          /\ snd[s].peerConsumed \in Int /\ snd[s].peerWindow \in Int
    /\ \A s \in Streams : Counters(rcv[s])
    /\ upd # None => upd.s \in Streams /\ upd.w \in Int

Waiting == {"open", "syn", "reg", "look", "win", "queue", "wait", "sleep"}
Closing == {"close", "fin", "done"}

\* A writer that goes on has not failed, and one that stops without failing has
\* written everything; what it was granted is part of what is left.
WriterMeans(r) ==
    /\ r.pc \in Waiting \cup Closing /\ (r.pc \in Waiting => r.ok)
    /\ r.next \in 1..(Total + 1) /\ (r.ok /\ r.pc \in Closing => r.next = Total + 1)
    /\ r.pc \in {"queue", "wait"} => r.bts \in Nat \ {0} /\ r.next + r.bts <= Total + 1

Run(p) == \A i \in 1..Len(p) : p[i] = p[1] + i - 1
End(p) == p[1] + Len(p) - 1

DataOf(f, s) == f[1] = "PSH" /\ f[2] = s
SynOf(f, s)  == f[1] = "SYN" /\ f[2] = s
FinOf(f, s)  == f[1] = "FIN" /\ f[2] = s

\* One frame of a stream is queued at a time: the bytes that come next, and its
\* writer waits for it or has given it up.
Queues ==
    /\ \A k \in 1..Len(shaper.ctrl) : shaper.ctrl[k][1] \in {"SYN", "FIN"}
    /\ \A k \in 1..Len(shaper.data) : shaper.data[k][1] = "PSH"
OneQueued(s) ==
    /\ \A k \in 1..Len(shaper.data) : DataOf(shaper.data[k], s) =>
          /\ Len(shaper.data[k][3]) > 0 /\ shaper.data[k][3][1] = snd[s].next /\ Run(shaper.data[k][3])
          /\ snd[s].pc \in {"wait"} \cup Closing
          /\ snd[s].ok => snd[s].pc = "wait" /\ Len(shaper.data[k][3]) = Size(snd[s])
    /\ \A j, k \in 1..Len(shaper.data) : DataOf(shaper.data[j], s) /\ DataOf(shaper.data[k], s) => j = k

DataQueued(s) == \E k \in 1..Len(shaper.data) : DataOf(shaper.data[k], s)

\* What is buffered and what is on the wire of a stream; a frame of another one
\* is an empty piece.
Piece(f, s) == IF DataOf(f, s) THEN f[3] ELSE << >>
Join(b, w, s) ==
    [k \in 1..(Len(b) + Len(w)) |-> IF k <= Len(b) THEN b[k] ELSE Piece(w[k - Len(b)], s)]
Line(s) == Join(rcv[s].buf, wire, s)

\* Its pieces are runs in the order of the bytes; those behind the first g and
\* before the n-th are all there, and what lies beyond follows them.
LineOK(L, g, n) ==
    /\ \A k \in 1..Len(L) : Run(L[k])
    /\ \A j, k \in 1..Len(L) : j < k /\ Len(L[j]) > 0 /\ Len(L[k]) > 0 => End(L[j]) < L[k][1]
    /\ \A k \in 1..Len(L) : Len(L[k]) > 0 => g < L[k][1] /\ (L[k][1] <= n \/ L[k][1] = g + 1)
    /\ \A b \in 1..Total : g < b /\ b < n =>
          \E k \in 1..Len(L) : Len(L[k]) > 0 /\ L[k][1] <= b /\ b <= End(L[k])
\* No byte is among them that the writer has yet to send.
LineBefore(L, g, n) == g < n /\ \A k \in 1..Len(L) : Len(L[k]) > 0 => End(L[k]) < n

Lines(s) == rcv[s].close # "done" =>
    /\ LineOK(Line(s), Len(rcv[s].got), snd[s].next)
    /\ snd[s].ok \/ DataQueued(s) => LineBefore(Line(s), Len(rcv[s].got), snd[s].next)

\* The SYN of a stream is sent once, and before its data.
SynOnWire(s) == \E k \in 1..Len(wire) : SynOf(wire[k], s)
SynQueued(s) == \E k \in 1..Len(shaper.ctrl) : SynOf(shaper.ctrl[k], s)
Started(s)   == rcv[s].known \/ rcv[s].close = "done"

SynOnce(s) ==
    /\ SynOnWire(s) \/ SynQueued(s) \/ snd[s].pc = "open" => ~rcv[s].known /\ rcv[s].close = "no"
    /\ SynOnWire(s) \/ SynQueued(s) => snd[s].pc # "open"
    /\ ~(SynOnWire(s) /\ SynQueued(s))
    /\ \A j, k \in 1..Len(wire) : SynOf(wire[j], s) /\ SynOf(wire[k], s) => j = k
    /\ \A j, k \in 1..Len(shaper.ctrl) : SynOf(shaper.ctrl[j], s) /\ SynOf(shaper.ctrl[k], s) => j = k

SynFirst(s) ==
    /\ snd[s].pc \notin {"open", "syn", "done"} \/ DataQueued(s) => Started(s) \/ SynOnWire(s)
    /\ \A k \in 1..Len(wire) : DataOf(wire[k], s) =>
          Started(s) \/ \E j \in 1..Len(wire) : j < k /\ SynOf(wire[j], s)

\* Of a stream whose Write succeeded the FIN comes last.
FinLast(s) == snd[s].ok =>
    /\ \A k \in 1..Len(shaper.ctrl) : FinOf(shaper.ctrl[k], s) => snd[s].pc \in {"fin", "done"}
    /\ \A k \in 1..Len(wire) : FinOf(wire[k], s) =>
          /\ snd[s].pc \in {"fin", "done"}
          /\ \A j \in 1..Len(wire) : DataOf(wire[j], s) => j < k
    /\ rcv[s].fin => snd[s].pc \in {"fin", "done"} /\ \A k \in 1..Len(wire) : ~DataOf(wire[k], s)

ReaderMeans(r) ==
    /\ r.close \in {"no", "fin", "done"}
    /\ r.close = "done" => ~r.known /\ r.buf = << >>
    /\ r.close # "no" => r.die
    /\ r.eof => r.pc = "done"
    /\ \A i \in 1..Len(r.got) : r.got[i] = i

EOFMeans(s) == rcv[s].eof /\ ~rcv[s].die /\ snd[s].ok => Len(rcv[s].got) = Total

StreamInv(s) == WriterMeans(snd[s]) /\ OneQueued(s) /\ Lines(s) /\ SynOnce(s) /\ SynFirst(s) /\ FinLast(s)
                /\ ReaderMeans(rcv[s]) /\ EOFMeans(s)
EOFInv == Shape /\ Numbers /\ Queues /\ \A s \in Streams : StreamInv(s)

-----------------------------------------------------------------------------
(* Pieces.                                                                    *)

\* The sizes are natural numbers.
LEMMA FrameSizes ==
    /\ Total \in Nat \ {0} /\ MaxFrameSize \in Nat \ {0} /\ Mod \in Nat \ {0}
    /\ MaxStreamBuffer \in Nat \ {0} /\ initialPeerWindow \in Nat \ {0}
    /\ Carried \subseteq Nat /\ Windows \subseteq Nat
BY SmuxAssumption

\* Read takes from the piece that comes next.
LEMMA HeadIsNext ==
    ASSUME NEW L \in Seq(Seq(Nat)), NEW g \in Nat, NEW n \in 1..(Total + 1), LineOK(L, g, n),
           Len(L) > 0, Len(L[1]) > 0
    PROVE  L[1][1] = g + 1
<1>1. L[1] \in Seq(Nat) /\ L[1][1] \in Nat /\ Len(L[1]) \in Nat
  OBVIOUS
<1>2. SUFFICES ASSUME L[1][1] # g + 1 PROVE FALSE
  OBVIOUS
<1>3. g + 1 < L[1][1] /\ L[1][1] <= n
  BY <1>1, <1>2 DEF LineOK
<1>4. g + 1 \in 1..Total /\ g < g + 1 /\ g + 1 < n
  BY <1>1, <1>3, FrameSizes, SMTT(30)
<1>5. PICK k \in 1..Len(L) : Len(L[k]) > 0 /\ L[k][1] <= g + 1
  BY <1>4 DEF LineOK
<1>6. k # 1 /\ 1 \in 1..Len(L) /\ 1 < k
  BY <1>1, <1>3, <1>5
<1>7. End(L[1]) < L[k][1] /\ L[k][1] \in Nat
  BY <1>5, <1>6, SMTT(30) DEF LineOK
<1> QED BY <1>1, <1>3, <1>5, <1>7, SMTT(30) DEF End

\* recvLoop, and a Read that empties its piece, take an empty piece out.
LEMMA WithoutEmpty ==
    ASSUME NEW L \in Seq(Seq(Nat)), NEW K \in Seq(Seq(Nat)), NEW g \in Nat, NEW n \in 1..(Total + 1),
           NEW m \in 1..Len(L), Len(L[m]) = 0, Len(L) = Len(K) + 1,
           \A k \in 1..Len(K) : K[k] = IF k < m THEN L[k] ELSE L[k + 1]
    PROVE  /\ LineOK(L, g, n) => LineOK(K, g, n)
           /\ LineBefore(L, g, n) => LineBefore(K, g, n)
<1> DEFINE at(k) == IF k < m THEN k ELSE k + 1
<1>1. \A k \in 1..Len(K) : at(k) \in 1..Len(L) /\ K[k] = L[at(k)]
  <2>1. Len(K) \in Nat /\ Len(L) \in Nat
    OBVIOUS
  <2> QED BY <2>1
<1>a. \A j, k \in 1..Len(K) : j < k => at(j) < at(k)
  BY SMTT(30)
<1> HIDE DEF at
<1>2. ASSUME LineOK(L, g, n) PROVE LineOK(K, g, n)
  <2>1. \A k \in 1..Len(K) : Run(K[k])
    BY <1>1, <1>2 DEF LineOK
  <2>2. ASSUME NEW j \in 1..Len(K), NEW k \in 1..Len(K), j < k, Len(K[j]) > 0, Len(K[k]) > 0
        PROVE  End(K[j]) < K[k][1]
    BY <1>1, <1>a, <1>2, <2>2 DEF LineOK
  <2>3. \A k \in 1..Len(K) : Len(K[k]) > 0 => g < K[k][1] /\ (K[k][1] <= n \/ K[k][1] = g + 1)
    BY <1>1, <1>2, SMTT(30) DEF LineOK
  <2>4. ASSUME NEW b \in 1..Total, g < b, b < n
        PROVE  \E k \in 1..Len(K) : Len(K[k]) > 0 /\ K[k][1] <= b /\ b <= End(K[k])
    <3>1. PICK k \in 1..Len(L) : Len(L[k]) > 0 /\ L[k][1] <= b /\ b <= End(L[k])
      BY <1>2, <2>4 DEF LineOK
    <3>2. k # m
      BY <3>1
    <3>3. PICK j \in 1..Len(K) : K[j] = L[k]
      <4>1. CASE k < m
        <5>1. PICK ln \in Nat : ln = Len(K)
          OBVIOUS
        <5>2. k \in 1..(ln + 1) /\ m \in 1..(ln + 1)
          BY <5>1
        <5>3. k \in 1..ln
          BY <4>1, <5>2
        <5>4. k \in 1..Len(K) /\ K[k] = L[k]
          BY <4>1, <5>1, <5>3
        <5> QED BY <5>4
      <4>2. CASE k > m
        <5>1. k - 1 \in 1..Len(K) /\ ~(k - 1 < m) /\ (k - 1) + 1 = k
          BY <4>2
        <5> QED BY <5>1
      <4>3. k < m \/ k > m
        BY <3>2
      <4> QED BY <4>1, <4>2, <4>3, Zenon
    <3> QED BY <3>1, <3>3
  <2> QED BY <2>1, <2>2, <2>3, <2>4 DEF LineOK
<1>3. ASSUME LineBefore(L, g, n) PROVE LineBefore(K, g, n)
  BY <1>1, <1>3 DEF LineBefore
<1> QED BY <1>2, <1>3

\* Read takes the first bytes of the piece that comes next.
LEMMA HeadTrimmed ==
    ASSUME NEW L \in Seq(Seq(Nat)), NEW K \in Seq(Seq(Nat)), NEW g \in Nat, NEW n \in 1..(Total + 1),
           LineOK(L, g, n), Len(L) > 0, Len(K) = Len(L),
           NEW m \in 1..Len(L[1]), K[1] = SubSeq(L[1], m + 1, Len(L[1])),
           \A k \in 2..Len(L) : K[k] = L[k]
    PROVE  /\ LineOK(K, g + m, n)
           /\ LineBefore(L, g, n) => LineBefore(K, g + m, n)
<1>1. L[1] \in Seq(Nat) /\ L[1][1] = g + 1 /\ Len(L[1]) > 0 /\ 1 \in 1..Len(L) /\ g + m \in Nat
  <2>1. 1 \in 1..Len(L)
    OBVIOUS
  <2>2. L[1] \in Seq(Nat)
    BY <2>1
  <2>3. Len(L[1]) > 0 /\ g + m \in Nat
    BY <2>2
  <2>4. L[1][1] = g + 1
    BY <2>3, HeadIsNext
  <2> QED BY <2>1, <2>2, <2>3, <2>4
<1>2. Len(K[1]) = Len(L[1]) - m /\ \A i \in 1..Len(K[1]) : K[1][i] = L[1][m + i]
  <2>1. PICK q \in Seq(Nat) : q = L[1]
    BY <1>1
  <2>2. K[1] = SubSeq(q, m + 1, Len(q)) /\ m \in 1..Len(q) /\ m \in Nat
    BY <2>1
  <2>3. CASE m < Len(q)
    BY <2>1, <2>2, <2>3, TailIs
  <2>4. CASE m = Len(q)
    BY <2>1, <2>2, <2>4
  <2>5. m < Len(q) \/ m = Len(q)
    BY <2>2
  <2> QED BY <2>3, <2>4, <2>5
<1>3. Run(L[1])
  BY <1>1 DEF LineOK
<1>4. \A i \in 1..Len(K[1]) : K[1][i] = g + m + i
  <2> SUFFICES ASSUME NEW i \in 1..Len(K[1]) PROVE K[1][i] = g + m + i
    OBVIOUS
  <2>1. m + i \in 1..Len(L[1])
    <3>1. PICK ln \in Nat : ln = Len(L[1])
      BY <1>1
    <3>2. m \in 1..ln /\ i \in 1..(ln - m)
      BY <1>2, <3>1
    <3>3. m + i \in 1..ln
      BY <3>2
    <3> QED BY <3>1, <3>3
  <2>2. L[1][m + i] = L[1][1] + (m + i) - 1
    BY <1>3, <2>1 DEF Run
  <2>3. K[1][i] = L[1][m + i] /\ i \in Int
    BY <1>1, <1>2
  <2>4. g + 1 + (m + i) - 1 = g + m + i
    BY <2>3
  <2> QED BY <1>1, <2>2, <2>3, <2>4, Zenon
<1>5. Run(K[1]) /\ (Len(K[1]) > 0 => K[1][1] = g + m + 1 /\ End(K[1]) = End(L[1]))
  <2>1. Len(K[1]) \in Nat
    BY <1>1, <1>2
  <2>2. Len(K[1]) > 0 => K[1][1] = g + m + 1
    BY <1>4, <2>1
  <2>3. ASSUME NEW i \in 1..Len(K[1]) PROVE K[1][i] = K[1][1] + i - 1
    <3>1. 1 \in 1..Len(K[1]) /\ i \in Int
      BY <2>1
    <3>2. K[1][i] = g + m + i /\ K[1][1] = g + m + 1
      BY <1>4, <3>1
    <3>3. g + m + i = g + m + 1 + i - 1
      BY <1>1, <3>1
    <3> QED BY <3>2, <3>3, Zenon
  <2>4. Len(K[1]) > 0 => End(K[1]) = End(L[1])
    <3>1. PICK ln \in Nat : ln = Len(L[1])
      BY <1>1
    <3>2. m \in 1..ln /\ Len(K[1]) = ln - m
      BY <1>2, <3>1
    <3>3. g + m + 1 + (ln - m) - 1 = g + 1 + ln - 1
      BY <3>2
    <3> QED BY <1>1, <2>2, <3>1, <3>2, <3>3 DEF End
  <2> QED BY <2>2, <2>3, <2>4 DEF Run
<1>6. \A k \in 2..Len(L) : Len(L[k]) > 0 => L[k][1] > End(L[1])
  BY <1>1, SMTT(30) DEF LineOK
<1>7. End(L[1]) = g + Len(L[1]) /\ Len(L[1]) \in Nat /\ m <= Len(L[1])
  <2>1. PICK ln \in Nat : ln = Len(L[1])
    BY <1>1
  <2>2. End(L[1]) = g + 1 + ln - 1
    BY <1>1, <2>1 DEF End
  <2>3. m \in 1..ln /\ g + 1 + ln - 1 = g + ln
    <3>1. \A i, j \in Nat : i + 1 + j - 1 = i + j
      OBVIOUS
    <3>2. m \in 1..ln
      BY <2>1, Zenon
    <3> QED BY <3>1, <3>2, Zenon
  <2>4. m <= ln
    BY <2>3
  <2> QED BY <2>1, <2>2, <2>3, <2>4
<1>b. \A k \in 1..Len(K) : k = 1 \/ (k \in 2..Len(L) /\ k \in 1..Len(L) /\ K[k] = L[k])
  <2>1. Len(L) \in Nat
    OBVIOUS
  <2> QED BY <2>1
<1>8. \A k \in 1..Len(K) : Run(K[k])
  BY <1>5, <1>b DEF LineOK
<1>9. ASSUME NEW j \in 1..Len(K), NEW k \in 1..Len(K), j < k, Len(K[j]) > 0, Len(K[k]) > 0
      PROVE  End(K[j]) < K[k][1]
  <2>1. k \in 2..Len(L) /\ K[k] = L[k]
    BY <1>9
  <2>2. CASE j = 1
    BY <1>5, <1>6, <1>9, <2>1, <2>2 DEF End
  <2>3. CASE j # 1
    BY <1>9, <1>b, <2>1, <2>3 DEF LineOK
  <2> QED BY <2>2, <2>3
<1>10. ASSUME NEW k \in 1..Len(K), Len(K[k]) > 0
       PROVE  g + m < K[k][1] /\ (K[k][1] <= n \/ K[k][1] = g + m + 1)
  <2>1. CASE k = 1
    <3>1. K[k][1] = g + m + 1
      BY <1>5, <1>10, <2>1
    <3> QED BY <1>1, <3>1
  <2>2. CASE k # 1
    <3>1. k \in 2..Len(L) /\ k \in 1..Len(L) /\ K[k] = L[k]
      BY <1>10, <1>b, <2>2
    <3>4. L[k][1] \in Nat
      BY <1>10, <3>1, SMTT(30)
    <3>2. L[k][1] > g + Len(L[1])
      BY <1>6, <1>7, <1>10, <3>1
    <3>3. L[k][1] <= n \/ L[k][1] = g + 1
      BY <1>10, <3>1 DEF LineOK
    <3>5. L[k][1] # g + 1 /\ g + m < L[k][1]
      BY <1>7, <3>2, <3>4, SMTT(30)
    <3> QED BY <3>1, <3>3, <3>5
  <2> QED BY <2>1, <2>2
<1>11. ASSUME NEW b \in 1..Total, g + m < b, b < n
       PROVE  \E k \in 1..Len(K) : Len(K[k]) > 0 /\ K[k][1] <= b /\ b <= End(K[k])
  <2>1. PICK k \in 1..Len(L) : Len(L[k]) > 0 /\ L[k][1] <= b /\ b <= End(L[k])
    <3>1. g < b
      BY <1>11
    <3> QED BY <1>11, <3>1 DEF LineOK
  <2>2. CASE k = 1
    <3>1. Len(K[1]) > 0
      BY <1>2, <1>7, <1>11, <2>1, <2>2
    <3>2. K[1][1] <= b /\ b <= End(K[1])
      <4>1. K[1][1] = g + m + 1 /\ g + m + 1 <= b
        BY <1>1, <1>5, <1>11, <3>1
      <4>2. End(K[1]) = End(L[1]) /\ b <= End(L[1])
        BY <1>5, <2>1, <2>2, <3>1
      <4> QED BY <4>1, <4>2
    <3> QED BY <1>1, <3>1, <3>2
  <2>3. CASE k # 1
    <3>1. k \in 1..Len(K) /\ K[k] = L[k]
      BY <1>b, <2>3
    <3> QED BY <2>1, <3>1
  <2> QED BY <2>2, <2>3
<1>12. ASSUME LineBefore(L, g, n) PROVE LineBefore(K, g + m, n)
  <2>1. End(L[1]) < n
    BY <1>1, <1>12 DEF LineBefore
  <2>2. ASSUME NEW k \in 1..Len(K), Len(K[k]) > 0 PROVE End(K[k]) < n
    <3>1. CASE k = 1
      BY <1>5, <2>1, <2>2, <3>1
    <3>2. CASE k # 1
      BY <1>12, <1>b, <2>2, <3>2 DEF LineBefore
    <3> QED BY <3>1, <3>2
  <2>3. g + m < n
    BY <1>7, <2>1
  <2> QED BY <2>2, <2>3 DEF LineBefore
<1> QED BY <1>8, <1>9, <1>10, <1>11, <1>12 DEF LineOK

\* sendLoop puts a frame behind them: one of the stream holds the bytes that
\* come next.
LEMMA PieceBehind ==
    ASSUME NEW L \in Seq(Seq(Nat)), NEW K \in Seq(Seq(Nat)), NEW g \in Nat, NEW n \in 1..(Total + 1),
           LineOK(L, g, n), LineBefore(L, g, n), NEW p \in Seq(Nat), Len(p) > 0, p[1] = n, Run(p),
           K = Append(L, p)
    PROVE  /\ LineOK(K, g, n)
           /\ n + Len(p) <= Total + 1 => LineOK(K, g, n + Len(p)) /\ LineBefore(K, g, n + Len(p))
<1>1. Len(K) = Len(L) + 1 /\ K[Len(L) + 1] = p /\ \A k \in 1..Len(L) : K[k] = L[k]
  OBVIOUS
<1>2. Len(L) \in Nat /\ Len(p) \in Nat /\ End(p) = n + Len(p) - 1
  BY DEF End
<1>3. \A k \in 1..Len(K) : k \in 1..Len(L) \/ (k = Len(L) + 1 /\ K[k] = p)
  BY <1>1, <1>2
<1>4. \A k \in 1..Len(K) : Run(K[k])
  BY <1>1, <1>3 DEF LineOK
<1>5. ASSUME NEW j \in 1..Len(K), NEW k \in 1..Len(K), j < k, Len(K[j]) > 0, Len(K[k]) > 0
      PROVE  End(K[j]) < K[k][1]
  <2>1. j \in 1..Len(L)
    BY <1>1, <1>2, <1>5
  <2>2. CASE k \in 1..Len(L)
    BY <1>1, <1>5, <2>1, <2>2 DEF LineOK
  <2>3. CASE k = Len(L) + 1 /\ K[k] = p
    BY <1>1, <1>5, <2>1, <2>3 DEF LineBefore
  <2> QED BY <1>3, <2>2, <2>3
<1>6. ASSUME NEW k \in 1..Len(K), Len(K[k]) > 0
      PROVE  g < K[k][1] /\ (K[k][1] <= n \/ K[k][1] = g + 1)
  <2>1. CASE k \in 1..Len(L)
    BY <1>1, <1>6, <2>1 DEF LineOK
  <2>2. CASE k = Len(L) + 1 /\ K[k] = p
    BY <2>2 DEF LineBefore
  <2> QED BY <1>3, <2>1, <2>2
<1>7. ASSUME NEW b \in 1..Total, g < b, b < n
      PROVE  \E k \in 1..Len(K) : Len(K[k]) > 0 /\ K[k][1] <= b /\ b <= End(K[k])
  <2>1. PICK k \in 1..Len(L) : Len(L[k]) > 0 /\ L[k][1] <= b /\ b <= End(L[k])
    BY <1>7 DEF LineOK
  <2>2. k \in 1..Len(K) /\ K[k] = L[k]
    BY <1>1, <1>2
  <2> QED BY <2>1, <2>2
<1>8. LineOK(K, g, n)
  BY <1>4, <1>5, <1>6, <1>7 DEF LineOK
<1>9. ASSUME n + Len(p) <= Total + 1 PROVE LineOK(K, g, n + Len(p)) /\ LineBefore(K, g, n + Len(p))
  <2>1. ASSUME NEW k \in 1..Len(K), Len(K[k]) > 0
        PROVE  g < K[k][1] /\ (K[k][1] <= n + Len(p) \/ K[k][1] = g + 1)
    <3>1. K[k][1] \in Nat
      BY <2>1, SMTT(30)
    <3>2. g < K[k][1] /\ (K[k][1] <= n \/ K[k][1] = g + 1)
      BY <1>6, <2>1
    <3>3. n \in Nat /\ Len(p) \in Nat
      BY <1>2
    <3> QED BY <3>1, <3>2, <3>3, SMTT(30)
  <2>2. ASSUME NEW b \in 1..Total, g < b, b < n + Len(p)
        PROVE  \E k \in 1..Len(K) : Len(K[k]) > 0 /\ K[k][1] <= b /\ b <= End(K[k])
    <3>1. CASE b < n
      BY <1>7, <2>2, <3>1
    <3>2. CASE n <= b
      <4>1. Len(L) + 1 \in 1..Len(K) /\ n <= b /\ b <= End(p)
        BY <1>1, <1>2, <2>2, <3>2
      <4> QED BY <1>1, <4>1
    <3>3. b < n \/ n <= b
      OBVIOUS
    <3> QED BY <3>1, <3>2, <3>3, Zenon
  <2>3. ASSUME NEW k \in 1..Len(K), Len(K[k]) > 0 PROVE End(K[k]) < n + Len(p)
    <3>1. CASE k \in 1..Len(L)
      <4>1. End(L[k]) < n /\ End(L[k]) \in Int
        BY <1>1, <2>3, <3>1, SMTT(30) DEF LineBefore, End
      <4> QED BY <1>1, <1>2, <3>1, <4>1
    <3>2. CASE k = Len(L) + 1 /\ K[k] = p
      BY <1>2, <3>2
    <3> QED BY <1>3, <3>1, <3>2
  <2>4. g < n + Len(p)
    BY <1>2 DEF LineBefore
  <2> QED BY <1>4, <1>5, <2>1, <2>2, <2>3, <2>4 DEF LineOK, LineBefore
<1> QED BY <1>8, <1>9

\* A frame of another stream, or one without data, adds nothing.
LEMMA EmptyBehind ==
    ASSUME NEW L \in Seq(Seq(Nat)), NEW K \in Seq(Seq(Nat)), NEW g \in Nat, NEW n \in 1..(Total + 1),
           K = Append(L, << >>)
    PROVE  /\ LineOK(L, g, n) => LineOK(K, g, n)
           /\ LineBefore(L, g, n) => LineBefore(K, g, n)
<1>1. Len(K) = Len(L) + 1 /\ K[Len(L) + 1] = << >> /\ \A k \in 1..Len(L) : K[k] = L[k]
  OBVIOUS
<1>2. \A k \in 1..Len(K) : (k \in 1..Len(L) /\ K[k] = L[k]) \/ K[k] = << >>
  BY <1>1
<1>a. \A k \in 1..Len(K) : Len(K[k]) > 0 => k \in 1..Len(L) /\ K[k] = L[k]
  <2>1. ~(Len(<< >>) > 0)
    OBVIOUS
  <2> QED BY <1>2, <2>1, Zenon
<1>3. Run(<< >>)
  BY DEF Run
<1>4. ASSUME LineOK(L, g, n) PROVE LineOK(K, g, n)
  <2>1. \A k \in 1..Len(K) : Run(K[k])
    BY <1>2, <1>3, <1>4 DEF LineOK
  <2>2. \A j, k \in 1..Len(K) : j < k /\ Len(K[j]) > 0 /\ Len(K[k]) > 0 => End(K[j]) < K[k][1]
    <3> SUFFICES ASSUME NEW j \in 1..Len(K), NEW k \in 1..Len(K), j < k, Len(K[j]) > 0, Len(K[k]) > 0
                 PROVE  End(K[j]) < K[k][1]
      OBVIOUS
    <3>1. j \in 1..Len(L) /\ K[j] = L[j]
      BY <1>a
    <3>2. k \in 1..Len(L) /\ K[k] = L[k]
      BY <1>a
    <3> QED BY <1>4, <3>1, <3>2 DEF LineOK
  <2>3. \A k \in 1..Len(K) : Len(K[k]) > 0 => g < K[k][1] /\ (K[k][1] <= n \/ K[k][1] = g + 1)
    <3> SUFFICES ASSUME NEW k \in 1..Len(K), Len(K[k]) > 0
                 PROVE  g < K[k][1] /\ (K[k][1] <= n \/ K[k][1] = g + 1)
      OBVIOUS
    <3>1. k \in 1..Len(L) /\ K[k] = L[k]
      BY <1>2
    <3> QED BY <1>4, <3>1 DEF LineOK
  <2>4. ASSUME NEW b \in 1..Total, g < b, b < n
        PROVE  \E k \in 1..Len(K) : Len(K[k]) > 0 /\ K[k][1] <= b /\ b <= End(K[k])
    <3>1. PICK k \in 1..Len(L) : Len(L[k]) > 0 /\ L[k][1] <= b /\ b <= End(L[k])
      BY <1>4, <2>4 DEF LineOK
    <3>2. k \in 1..Len(K) /\ K[k] = L[k]
      BY <1>1
    <3> QED BY <3>1, <3>2
  <2> QED BY <2>1, <2>2, <2>3, <2>4 DEF LineOK
<1>5. ASSUME LineBefore(L, g, n) PROVE LineBefore(K, g, n)
  BY <1>2, <1>5 DEF LineBefore
<1> QED BY <1>4, <1>5

-----------------------------------------------------------------------------
(* The shape of the ends and of what is between them.                         *)

\* A frame is put behind the others,
LEMMA Behind ==
    ASSUME NEW S, NEW q \in Seq(S), NEW f \in S, NEW r, r = Append(q, f)
    PROVE  /\ r \in Seq(S) /\ Len(r) = Len(q) + 1 /\ Len(q) \in Nat /\ Len(r) \in 1..Len(r) /\ r[Len(r)] = f
           /\ \A k \in 1..Len(q) : k \in 1..Len(r) /\ r[k] = q[k] /\ k < Len(r)
           /\ \A k \in 1..Len(r) : (k \in 1..Len(q) /\ r[k] = q[k]) \/ (k = Len(r) /\ r[k] = f)
OBVIOUS

\* or the first one is taken.
LEMMA Without ==
    ASSUME NEW S, NEW q \in Seq(S), q # << >>, NEW r, r = Tail(q)
    PROVE  /\ r \in Seq(S) /\ Len(q) = Len(r) + 1 /\ Len(r) \in Nat /\ 1 \in 1..Len(q) /\ Head(q) = q[1] /\ Head(q) \in S
           /\ \A k \in 1..Len(r) : k + 1 \in 1..Len(q) /\ r[k] = q[k + 1]
           /\ \A k \in 1..Len(q) : k # 1 => k - 1 \in 1..Len(r) /\ r[k - 1] = q[k]
OBVIOUS

\* One stream's writing end changes,
LEMMA SndIs ==
    ASSUME Shape, NEW s \in Streams, NEW r, snd' = [snd EXCEPT ![s] = r]
    PROVE  DOMAIN snd' = Streams /\ snd'[s] = r /\ \A t \in Streams : t # s => snd'[t] = snd[t]
BY DEF Shape

\* or its reading end.
LEMMA RcvIs ==
    ASSUME Shape, NEW s \in Streams, NEW r, rcv' = [rcv EXCEPT ![s] = r]
    PROVE  DOMAIN rcv' = Streams /\ rcv'[s] = r /\ \A t \in Streams : t # s => rcv'[t] = rcv[t]
BY DEF Shape

\* A write request is queued behind the others of its class.
LEMMA QueuedIs ==
    ASSUME Shape, NEW f \in Frames, NEW c \in {"ctrl", "data"}, shaper' = Queued(c, f)
    PROVE  /\ DOMAIN shaper' = {"ctrl", "data"} /\ shaper'.ctrl \in Seq(Frames) /\ shaper'.data \in Seq(Frames)
           /\ c = "ctrl" => shaper'.ctrl = Append(shaper.ctrl, f) /\ shaper'.data = shaper.data
           /\ c = "data" => shaper'.data = Append(shaper.data, f) /\ shaper'.ctrl = shaper.ctrl
<1>1. DOMAIN shaper' = {"ctrl", "data"}
  BY DEF Shape, Queued
<1>2. c = "ctrl" => shaper'.ctrl = Append(shaper.ctrl, f) /\ shaper'.data = shaper.data
  BY DEF Shape, Queued
<1>3. c = "data" => shaper'.data = Append(shaper.data, f) /\ shaper'.ctrl = shaper.ctrl
  BY DEF Shape, Queued
<1>4. shaper.ctrl \in Seq(Frames) /\ shaper.data \in Seq(Frames)
  BY DEF Shape
<1>5. Append(shaper.ctrl, f) \in Seq(Frames) /\ Append(shaper.data, f) \in Seq(Frames)
  BY <1>4
<1> QED BY <1>1, <1>2, <1>3, <1>4, <1>5

-----------------------------------------------------------------------------
(* What the writing end does.                                                 *)

\* The writer looks again or sleeps.
Goes(s) ==
    /\ snd[s].pc \in {"reg", "look", "win", "sleep"} /\ snd'[s].pc \in {"look", "win", "sleep"}
    /\ snd'[s].next = snd[s].next /\ snd'[s].ok = snd[s].ok /\ shaper' = shaper
\* Write fails.
Stops(s) ==
    /\ snd[s].pc \in {"win", "wait", "sleep"} /\ snd'[s].pc = "close"
    /\ snd'[s].next = snd[s].next /\ snd'[s].ok = FALSE /\ shaper' = shaper
Opens(s) ==
    /\ snd[s].pc = "open" /\ snd'[s].pc = "syn" /\ snd'[s].next = snd[s].next /\ snd'[s].ok = snd[s].ok
    /\ shaper' = Queued("ctrl", <<"SYN", s, << >>>>)
Ends(s) ==
    /\ \/ snd[s].pc = "syn" /\ snd'[s].pc = "done" /\ snd'[s].ok = FALSE
       \/ snd[s].pc = "close" /\ snd'[s].pc = "fin" /\ snd'[s].ok = snd[s].ok
    /\ snd'[s].next = snd[s].next
    /\ shaper' = Queued("ctrl", <<"FIN", s, << >>>>)
Writes(s) ==
    /\ snd[s].pc \in {"win", "queue"} /\ snd'[s].pc = "wait"
    /\ snd'[s].next = snd[s].next /\ snd'[s].ok = snd[s].ok
    /\ snd'[s].bts \in Nat \ {0} /\ snd[s].next + snd'[s].bts <= Total + 1
    /\ shaper' = Queued("data", Frame(s, snd'[s]))

WriterStep(s) == Goes(s) \/ Stops(s) \/ Opens(s) \/ Ends(s) \/ Writes(s)

\* A grant (writeV2) is part of what is left.
LEMMA GrantOK ==
    ASSUME NEW s \in Streams, Numbers, WriterMeans(snd[s])
    PROVE  Grant(snd[s]) \in Int /\ snd[s].next + Grant(snd[s]) <= Total + 1
<1>1. snd[s].next \in Int /\ snd[s].peerWindow \in Int /\ snd[s].inflight \in Int /\ Total \in Int
  BY FrameSizes DEF Numbers, WriterMeans
<1> QED BY <1>1 DEF Grant

\* Every step of a writer is of one of these kinds and leaves the rest alone.
LEMMA WriterSteps ==
    ASSUME EOFInv, NEW s \in Streams, Writer(s) \/ OpenTimeout(s) \/ WriteTimeout(s)
    PROVE  /\ DOMAIN snd' = Streams /\ DOMAIN snd'[s] = sndFields /\ \A t \in Streams : t # s => snd'[t] = snd[t]
           /\ UNCHANGED <<upd, wire, recv, rcv, back>>
           /\ snd'[s].inflight \in Int /\ snd'[s].numWritten \in Int
           /\ snd'[s].peerConsumed \in Int /\ snd'[s].peerWindow \in Int
           /\ WriterStep(s)
<1> DEFINE r == snd[s]
<1>1. Shape /\ Numbers /\ DOMAIN snd[s] = sndFields /\ WriterMeans(snd[s])
  BY DEF EOFInv, Shape, StreamInv
<1>2. snd[s].inflight \in Int /\ snd[s].numWritten \in Int /\ snd[s].peerConsumed \in Int /\ snd[s].peerWindow \in Int
  BY <1>1 DEF Numbers
<1>3. UNCHANGED <<upd, wire, recv, rcv, back>>
  BY DEF Writer, OpenStream, Registered, LoadCounters, LoadWindow, NextFrame, Sleep, Close, OpenTimeout,
         WriteTimeout, Snd
<1>4. ASSUME NEW x, DOMAIN x = sndFields, Snd(s, x)
      PROVE  DOMAIN snd' = Streams /\ snd'[s] = x /\ \A t \in Streams : t # s => snd'[t] = snd[t]
  BY <1>1, <1>4, SndIs DEF Snd
<1>5. CASE OpenStream(s)
  <2>1. PICK x : x = [snd[s] EXCEPT !.pc = "syn"] /\ Snd(s, x)
    BY <1>5 DEF OpenStream
  <2>2. DOMAIN x = sndFields /\ x.pc = "syn" /\ x.next = r.next /\ x.ok = r.ok /\ x.inflight = r.inflight
        /\ x.numWritten = r.numWritten /\ x.peerConsumed = r.peerConsumed /\ x.peerWindow = r.peerWindow
    BY <1>1, <2>1 DEF sndFields
  <2> QED BY <1>2, <1>3, <1>4, <1>5, <2>1, <2>2 DEF OpenStream, WriterStep, Opens
<1>6. CASE Registered(s)
  <2>1. PICK x : x = [snd[s] EXCEPT !.pc = "look"] /\ Snd(s, x)
    BY <1>6 DEF Registered
  <2>2. DOMAIN x = sndFields /\ x.pc = "look" /\ x.next = r.next /\ x.ok = r.ok /\ x.inflight = r.inflight
        /\ x.numWritten = r.numWritten /\ x.peerConsumed = r.peerConsumed /\ x.peerWindow = r.peerWindow
    BY <1>1, <2>1 DEF sndFields
  <2> QED BY <1>2, <1>3, <1>4, <1>6, <2>1, <2>2 DEF Registered, WriterStep, Goes
<1>7. CASE OpenTimeout(s)
  <2>1. PICK x : x = [snd[s] EXCEPT !.pc = "done", !.ok = FALSE] /\ Snd(s, x)
    BY <1>7 DEF OpenTimeout
  <2>2. DOMAIN x = sndFields /\ x.pc = "done" /\ x.next = r.next /\ x.ok = FALSE /\ x.inflight = r.inflight
        /\ x.numWritten = r.numWritten /\ x.peerConsumed = r.peerConsumed /\ x.peerWindow = r.peerWindow
    BY <1>1, <2>1 DEF sndFields
  <2> QED BY <1>2, <1>3, <1>4, <1>7, <2>1, <2>2 DEF OpenTimeout, WriterStep, Ends
<1>8. CASE LoadCounters(s)
  <2>1. PICK x : x = [snd[s] EXCEPT !.inflight = Minus(snd[s].numWritten, snd[s].peerConsumed), !.pc = "win"] /\ Snd(s, x)
    BY <1>8 DEF LoadCounters
  <2>2. DOMAIN x = sndFields /\ x.pc = "win" /\ x.next = r.next /\ x.ok = r.ok
        /\ x.inflight = Minus(snd[s].numWritten, snd[s].peerConsumed)
        /\ x.numWritten = r.numWritten /\ x.peerConsumed = r.peerConsumed /\ x.peerWindow = r.peerWindow
    BY <1>1, <2>1 DEF sndFields
  <2>3. Minus(snd[s].numWritten, snd[s].peerConsumed) \in Int
    BY <1>2, FrameSizes DEF Minus
  <2> QED BY <1>2, <1>3, <1>4, <1>8, <2>1, <2>2, <2>3 DEF LoadCounters, WriterStep, Goes
<1>9. CASE LoadWindow(s)
  <2>1. CASE snd[s].inflight < 0
    <3>1. PICK x : x = [snd[s] EXCEPT !.ok = FALSE, !.pc = "close"] /\ Snd(s, x) /\ shaper' = shaper
      BY <1>9, <2>1 DEF LoadWindow
    <3>2. DOMAIN x = sndFields /\ x.pc = "close" /\ x.next = r.next /\ x.ok = FALSE /\ x.inflight = r.inflight
          /\ x.numWritten = r.numWritten /\ x.peerConsumed = r.peerConsumed /\ x.peerWindow = r.peerWindow
      BY <1>1, <3>1 DEF sndFields
    <3> QED BY <1>2, <1>3, <1>4, <1>9, <3>1, <3>2 DEF LoadWindow, WriterStep, Stops
  <2>2. CASE ~(snd[s].inflight < 0)
    <3>1. PICK g : g = [snd[s] EXCEPT !.bts = Grant(snd[s]), !.pc = "wait"]
      OBVIOUS
    <3>2. DOMAIN g = sndFields /\ g.pc = "wait" /\ g.next = r.next /\ g.ok = r.ok /\ g.inflight = r.inflight
          /\ g.numWritten = r.numWritten /\ g.peerConsumed = r.peerConsumed /\ g.peerWindow = r.peerWindow
          /\ g.bts = Grant(snd[s])
      BY <1>1, <3>1 DEF sndFields
    <3>3. CASE g.bts <= 0
      <4>1. PICK x : x = [snd[s] EXCEPT !.pc = "sleep"] /\ Snd(s, x) /\ shaper' = shaper
        BY <1>9, <2>2, <3>1, <3>3 DEF LoadWindow
      <4>2. DOMAIN x = sndFields /\ x.pc = "sleep" /\ x.next = r.next /\ x.ok = r.ok /\ x.inflight = r.inflight
            /\ x.numWritten = r.numWritten /\ x.peerConsumed = r.peerConsumed /\ x.peerWindow = r.peerWindow
        BY <1>1, <4>1 DEF sndFields
      <4> QED BY <1>2, <1>3, <1>4, <1>9, <4>1, <4>2 DEF LoadWindow, WriterStep, Goes
    <3>4. CASE ~(g.bts <= 0)
      <4>1. Snd(s, g) /\ shaper' = Queued("data", Frame(s, g))
        BY <1>9, <2>2, <3>1, <3>4 DEF LoadWindow
      <4>2. g.bts \in Nat \ {0} /\ snd[s].next + g.bts <= Total + 1
        BY <1>1, <3>2, <3>4, GrantOK
      <4> QED BY <1>2, <1>3, <1>4, <1>9, <3>2, <4>1, <4>2 DEF LoadWindow, WriterStep, Writes
    <3> QED BY <3>3, <3>4
  <2> QED BY <2>1, <2>2
<1>10. CASE NextFrame(s)
  <2>1. PICK x : x = [snd[s] EXCEPT !.pc = "wait"] /\ Snd(s, x)
    BY <1>10 DEF NextFrame
  <2>2. DOMAIN x = sndFields /\ x.pc = "wait" /\ x.next = r.next /\ x.ok = r.ok /\ x.inflight = r.inflight
        /\ x.numWritten = r.numWritten /\ x.peerConsumed = r.peerConsumed /\ x.peerWindow = r.peerWindow
        /\ x.bts = r.bts
    BY <1>1, <2>1 DEF sndFields
  <2>3. Frame(s, x) = Frame(s, snd[s])
    BY <2>2 DEF Frame, Size
  <2>4. r.bts \in Nat \ {0} /\ r.next + r.bts <= Total + 1
    BY <1>1, <1>10 DEF NextFrame, WriterMeans
  <2> QED BY <1>2, <1>3, <1>4, <1>10, <2>1, <2>2, <2>3, <2>4 DEF NextFrame, WriterStep, Writes
<1>11. CASE Sleep(s)
  <2>1. CASE Snd(s, [snd[s] EXCEPT !.ok = FALSE, !.pc = "close"])
    <3>1. PICK x : x = [snd[s] EXCEPT !.ok = FALSE, !.pc = "close"] /\ Snd(s, x)
      BY <2>1
    <3>2. DOMAIN x = sndFields /\ x.pc = "close" /\ x.next = r.next /\ x.ok = FALSE /\ x.inflight = r.inflight
          /\ x.numWritten = r.numWritten /\ x.peerConsumed = r.peerConsumed /\ x.peerWindow = r.peerWindow
      BY <1>1, <3>1 DEF sndFields
    <3> QED BY <1>2, <1>3, <1>4, <1>11, <3>1, <3>2 DEF Sleep, WriterStep, Stops
  <2>2. CASE Snd(s, [snd[s] EXCEPT !.chUpdate = FALSE, !.pc = "look"])
    <3>1. PICK x : x = [snd[s] EXCEPT !.chUpdate = FALSE, !.pc = "look"] /\ Snd(s, x)
      BY <2>2
    <3>2. DOMAIN x = sndFields /\ x.pc = "look" /\ x.next = r.next /\ x.ok = r.ok /\ x.inflight = r.inflight
          /\ x.numWritten = r.numWritten /\ x.peerConsumed = r.peerConsumed /\ x.peerWindow = r.peerWindow
      BY <1>1, <3>1 DEF sndFields
    <3> QED BY <1>2, <1>3, <1>4, <1>11, <3>1, <3>2 DEF Sleep, WriterStep, Goes
  <2> QED BY <1>11, <2>1, <2>2 DEF Sleep
<1>12. CASE Close(s)
  <2>1. PICK x : x = [snd[s] EXCEPT !.pc = "fin"] /\ Snd(s, x)
    BY <1>12 DEF Close
  <2>2. DOMAIN x = sndFields /\ x.pc = "fin" /\ x.next = r.next /\ x.ok = r.ok /\ x.inflight = r.inflight
        /\ x.numWritten = r.numWritten /\ x.peerConsumed = r.peerConsumed /\ x.peerWindow = r.peerWindow
    BY <1>1, <2>1 DEF sndFields
  <2> QED BY <1>2, <1>3, <1>4, <1>12, <2>1, <2>2 DEF Close, WriterStep, Ends
<1>13. CASE WriteTimeout(s)
  <2>1. PICK x : x = [snd[s] EXCEPT !.ok = FALSE, !.pc = "close"] /\ Snd(s, x)
    BY <1>13 DEF WriteTimeout
  <2>2. DOMAIN x = sndFields /\ x.pc = "close" /\ x.next = r.next /\ x.ok = FALSE /\ x.inflight = r.inflight
        /\ x.numWritten = r.numWritten /\ x.peerConsumed = r.peerConsumed /\ x.peerWindow = r.peerWindow
    BY <1>1, <2>1 DEF sndFields
  <2> QED BY <1>2, <1>3, <1>4, <1>13, <2>1, <2>2 DEF WriteTimeout, WriterStep, Stops
<1> QED BY <1>5, <1>6, <1>7, <1>8, <1>9, <1>10, <1>11, <1>12, <1>13 DEF Writer

\* sendLoop: a control frame, or the data of a writer that waits for it or has
\* given it up.
SendsCtrl(f) ==
    /\ shaper.ctrl # << >> /\ f = Head(shaper.ctrl)
    /\ shaper'.ctrl = Tail(shaper.ctrl) /\ shaper'.data = shaper.data
    /\ snd'[f[2]].next = snd[f[2]].next /\ snd'[f[2]].ok = snd[f[2]].ok /\ snd'[f[2]].bts = snd[f[2]].bts
    /\ \/ snd'[f[2]].pc = snd[f[2]].pc
       \/ f[1] = "SYN" /\ snd[f[2]].pc = "syn" /\ snd'[f[2]].pc = "reg"
       \/ f[1] = "FIN" /\ snd[f[2]].pc = "fin" /\ snd'[f[2]].pc = "done"
SendsData(f) ==
    /\ shaper.data # << >> /\ f = Head(shaper.data)
    /\ shaper'.data = Tail(shaper.data) /\ shaper'.ctrl = shaper.ctrl
    /\ \/ /\ snd[f[2]].pc = "wait" /\ snd'[f[2]].ok = snd[f[2]].ok
          /\ snd'[f[2]].next = snd[f[2]].next + Len(f[3]) /\ snd'[f[2]].next <= Total + 1
          /\ snd'[f[2]].pc \in {"queue", "sleep", "close"} /\ WriterMeans(snd'[f[2]])
       \/ snd[f[2]].pc # "wait" /\ snd'[f[2]] = snd[f[2]]

Sends(f) == SendsCtrl(f) \/ SendsData(f)

\* A frame that was written leaves the writer with what is left.
LEMMA FrameWrittenOK ==
    ASSUME NEW r, DOMAIN r = sndFields, WriterMeans(r), r.pc = "wait", r.numWritten \in Int
    PROVE  /\ DOMAIN FrameWritten(r) = sndFields /\ FrameWritten(r).ok = r.ok
           /\ FrameWritten(r).next = r.next + Size(r) /\ FrameWritten(r).next <= Total + 1
           /\ FrameWritten(r).pc \in {"queue", "sleep", "close"} /\ WriterMeans(FrameWritten(r))
           /\ FrameWritten(r).inflight = r.inflight /\ FrameWritten(r).numWritten \in Int
           /\ FrameWritten(r).peerConsumed = r.peerConsumed /\ FrameWritten(r).peerWindow = r.peerWindow
<1>1. PICK w : w = [r EXCEPT !.numWritten = Plus(r.numWritten, Size(r)), !.next = r.next + Size(r), !.bts = r.bts - Size(r)]
  OBVIOUS
<1>2. DOMAIN w = sndFields /\ w.next = r.next + Size(r) /\ w.bts = r.bts - Size(r) /\ w.ok = r.ok
      /\ w.numWritten = Plus(r.numWritten, Size(r)) /\ w.inflight = r.inflight
      /\ w.peerConsumed = r.peerConsumed /\ w.peerWindow = r.peerWindow
  BY <1>1 DEF sndFields
<1>3. PICK p : p = IF w.bts > 0 THEN "queue" ELSE IF w.next <= Total THEN "sleep" ELSE "close"
  OBVIOUS
<1>4. PICK x : x = [w EXCEPT !.pc = p] /\ FrameWritten(r) = x
  BY <1>1, <1>3 DEF FrameWritten
<1>5. DOMAIN x = sndFields /\ x.next = w.next /\ x.bts = w.bts /\ x.ok = w.ok /\ x.numWritten = w.numWritten
      /\ x.inflight = w.inflight /\ x.peerConsumed = w.peerConsumed /\ x.peerWindow = w.peerWindow /\ x.pc = p
  BY <1>2, <1>4 DEF sndFields
<1>6. r.bts \in Nat \ {0} /\ r.next \in 1..(Total + 1) /\ r.next + r.bts <= Total + 1 /\ r.ok
  BY DEF WriterMeans, Waiting
<1>7. Size(r) \in Nat /\ Size(r) <= r.bts /\ Size(r) > 0
  BY <1>6, FrameSizes DEF Size
<1>8. w.next \in 1..(Total + 1) /\ w.bts \in Nat /\ w.next + w.bts <= Total + 1
  BY <1>2, <1>6, <1>7, FrameSizes
<1>9. Plus(r.numWritten, Size(r)) \in Int
  BY <1>7, FrameSizes DEF Plus
<1>10. p \in {"queue", "sleep", "close"} /\ (p = "queue" => w.bts > 0) /\ (p = "close" => ~(w.next <= Total))
  BY <1>3
<1>11. WriterMeans(x)
  <2>1. x.ok /\ x.next \in 1..(Total + 1)
    BY <1>2, <1>5, <1>6, <1>8
  <2>2. x.pc = "queue" => x.bts \in Nat \ {0} /\ x.next + x.bts <= Total + 1
    BY <1>5, <1>8, <1>10
  <2>3. x.pc = "close" => x.next = Total + 1
    BY <1>5, <1>8, <1>10, FrameSizes
  <2> QED BY <1>5, <1>10, <2>1, <2>2, <2>3 DEF WriterMeans, Waiting, Closing
<1>12. x.next <= Total + 1
  BY <1>5, <1>8
<1> QED BY <1>2, <1>4, <1>5, <1>9, <1>10, <1>11, <1>12

\* sendLoop puts the first control frame, or the first data frame, on the wire.
LEMMA SendSteps ==
    ASSUME EOFInv, SendLoop
    PROVE  \E f \in Frames :
             /\ wire' = Append(wire, f) /\ UNCHANGED <<upd, recv, rcv, back>>
             /\ DOMAIN shaper' = {"ctrl", "data"} /\ shaper'.ctrl \in Seq(Frames) /\ shaper'.data \in Seq(Frames)
             /\ DOMAIN snd' = Streams /\ DOMAIN snd'[f[2]] = sndFields
             /\ \A t \in Streams : t # f[2] => snd'[t] = snd[t]
             /\ snd'[f[2]].inflight \in Int /\ snd'[f[2]].numWritten \in Int
             /\ snd'[f[2]].peerConsumed \in Int /\ snd'[f[2]].peerWindow \in Int
             /\ Sends(f)
<1>1. PICK c : c = IF shaper.ctrl # << >> THEN "ctrl" ELSE "data"
  OBVIOUS
<1>2. c \in {"ctrl", "data"} /\ Shape /\ Numbers /\ Queues
  BY <1>1 DEF EOFInv
<1>3. PICK f : f = Head(shaper[c])
  OBVIOUS
<1>4. shaper[c] \in Seq(Frames) /\ shaper[c] # << >>
  BY <1>1, <1>2 DEF SendLoop, Shape
<1>5. f \in Frames /\ f[2] \in Streams /\ 1 \in 1..Len(shaper[c]) /\ f = shaper[c][1]
  <2>1. f \in Frames /\ 1 \in 1..Len(shaper[c]) /\ f = shaper[c][1]
    BY <1>3, <1>4
  <2> QED BY <2>1 DEF Frames
<1>6. PICK s \in Streams : s = f[2]
  BY <1>5
<1>7. wire' = Append(wire, f) /\ UNCHANGED <<upd, recv, rcv, back>>
  BY <1>1, <1>3 DEF SendLoop
<1>8. shaper' = [shaper EXCEPT ![c] = Tail(shaper[c])] /\ snd' = [snd EXCEPT ![s] = Result(snd[s], f[1])]
  BY <1>1, <1>2, <1>3, <1>6 DEF SendLoop, Shape
<1>9. Tail(shaper[c]) \in Seq(Frames)
  BY <1>4
<1>10. DOMAIN shaper' = {"ctrl", "data"} /\ shaper'[c] = Tail(shaper[c])
       /\ shaper'.ctrl \in Seq(Frames) /\ shaper'.data \in Seq(Frames)
       /\ (c = "ctrl" => shaper'.data = shaper.data) /\ (c = "data" => shaper'.ctrl = shaper.ctrl)
  BY <1>2, <1>8, <1>9 DEF Shape
<1>11. PICK x : x = Result(snd[s], f[1])
  OBVIOUS
<1>12. DOMAIN snd' = Streams /\ snd'[s] = x /\ \A t \in Streams : t # s => snd'[t] = snd[t]
  BY <1>2, <1>8, <1>11, SndIs
<1>13. DOMAIN snd[s] = sndFields /\ WriterMeans(snd[s]) /\ OneQueued(s)
       /\ snd[s].inflight \in Int /\ snd[s].numWritten \in Int /\ snd[s].peerConsumed \in Int /\ snd[s].peerWindow \in Int
  BY <1>2 DEF EOFInv, Shape, Numbers, StreamInv
<1>14. CASE c = "ctrl"
  <2>1. f[1] \in {"SYN", "FIN"}
    BY <1>2, <1>5, <1>14 DEF Queues
  <2>2. x = snd[s] \/ (f[1] = "SYN" /\ snd[s].pc = "syn" /\ x = [snd[s] EXCEPT !.pc = "reg"])
        \/ (f[1] = "FIN" /\ snd[s].pc = "fin" /\ x = [snd[s] EXCEPT !.pc = "done"])
    BY <1>11, <2>1 DEF Result
  <2>3. DOMAIN x = sndFields /\ x.next = snd[s].next /\ x.ok = snd[s].ok /\ x.bts = snd[s].bts
        /\ x.inflight = snd[s].inflight /\ x.numWritten = snd[s].numWritten
        /\ x.peerConsumed = snd[s].peerConsumed /\ x.peerWindow = snd[s].peerWindow
    BY <1>13, <2>2 DEF sndFields
  <2>4. x.pc = snd[s].pc \/ (f[1] = "SYN" /\ snd[s].pc = "syn" /\ x.pc = "reg")
        \/ (f[1] = "FIN" /\ snd[s].pc = "fin" /\ x.pc = "done")
    BY <1>13, <2>2 DEF sndFields
  <2>5. SendsCtrl(f)
    BY <1>3, <1>4, <1>6, <1>10, <1>12, <1>14, <2>3, <2>4 DEF SendsCtrl
  <2>6. DOMAIN snd'[s] = sndFields /\ snd'[s].inflight \in Int /\ snd'[s].numWritten \in Int
             /\ snd'[s].peerConsumed \in Int /\ snd'[s].peerWindow \in Int
    BY <1>12, <1>13, <2>3
  <2> QED BY <1>5, <1>6, <1>7, <1>10, <1>12, <2>5, <2>6 DEF Sends
<1>15. CASE c = "data"
  <2>1. f[1] = "PSH" /\ DataOf(f, s)
    BY <1>2, <1>5, <1>6, <1>15 DEF Queues, DataOf
  <2>2. CASE snd[s].pc = "wait"
    <3>1. x = FrameWritten(snd[s])
      BY <1>11, <2>1, <2>2 DEF Result
    <3>2. snd[s].ok
      BY <1>13, <2>2 DEF WriterMeans, Waiting
    <3>3. Len(f[3]) = Size(snd[s])
      BY <1>5, <1>13, <1>15, <2>1, <3>2 DEF OneQueued
    <3>4. SendsData(f)
      BY <1>3, <1>4, <1>6, <1>10, <1>12, <1>13, <1>15, <2>2, <3>1, <3>3, FrameWrittenOK DEF SendsData
    <3>5. DOMAIN snd'[s] = sndFields /\ snd'[s].inflight \in Int /\ snd'[s].numWritten \in Int
          /\ snd'[s].peerConsumed \in Int /\ snd'[s].peerWindow \in Int
      BY <1>12, <1>13, <2>2, <3>1, FrameWrittenOK
    <3> QED BY <1>5, <1>6, <1>7, <1>10, <1>12, <3>4, <3>5 DEF Sends
  <2>3. CASE snd[s].pc # "wait"
    <3>1. x = snd[s]
      BY <1>11, <2>1, <2>3 DEF Result
    <3>2. SendsData(f)
      BY <1>3, <1>4, <1>6, <1>10, <1>12, <1>15, <2>3, <3>1 DEF SendsData
    <3> QED BY <1>5, <1>6, <1>7, <1>10, <1>12, <1>13, <3>1, <3>2 DEF Sends
  <2> QED BY <2>2, <2>3
<1> QED BY <1>2, <1>14, <1>15

\* A window update or a FIN of the peer: of no concern to what is sent.
LEMMA ToldSteps ==
    ASSUME EOFInv, RecvBack \/ StoreWindow
    PROVE  /\ DOMAIN snd' = Streams /\ UNCHANGED <<shaper, wire, recv, rcv>>
           /\ \A t \in Streams : DOMAIN snd'[t] = sndFields
           /\ \A t \in Streams : /\ snd'[t].pc = snd[t].pc /\ snd'[t].next = snd[t].next
                                 /\ snd'[t].ok = snd[t].ok /\ snd'[t].bts = snd[t].bts
           /\ \A t \in Streams : /\ snd'[t].inflight \in Int /\ snd'[t].numWritten \in Int
                                 /\ snd'[t].peerConsumed \in Int /\ snd'[t].peerWindow \in Int
           /\ back' \in Seq(Answers) /\ (upd' # None => upd'.s \in Streams /\ upd'.w \in Int)
<1>1. Shape /\ Numbers /\ back \in Seq(Answers)
  BY DEF EOFInv, Shape
<1>2. UNCHANGED <<shaper, wire, recv, rcv>>
  BY DEF RecvBack, StoreWindow
<1>3. \A t \in Streams : DOMAIN snd[t] = sndFields
  BY <1>1 DEF Shape
<1>4. \A t \in Streams : /\ snd[t].inflight \in Int /\ snd[t].numWritten \in Int
                         /\ snd[t].peerConsumed \in Int /\ snd[t].peerWindow \in Int
  BY <1>1 DEF Numbers
<1>5. CASE StoreWindow
  <2>1. PICK s \in Streams : s = upd.s
    BY <1>1, <1>5 DEF Numbers, StoreWindow
  <2>2. upd.w \in Int /\ upd' = None /\ back' = back
    BY <1>1, <1>5 DEF Numbers, StoreWindow
  <2>3. PICK x : x = [snd[s] EXCEPT !.peerWindow = upd.w, !.chUpdate = TRUE]
    OBVIOUS
  <2>4. snd' = [snd EXCEPT ![s] = x]
    BY <1>1, <1>5, <2>1, <2>3 DEF StoreWindow, Shape
  <2>5. DOMAIN x = sndFields /\ x.pc = snd[s].pc /\ x.next = snd[s].next /\ x.ok = snd[s].ok /\ x.bts = snd[s].bts
        /\ x.inflight = snd[s].inflight /\ x.numWritten = snd[s].numWritten
        /\ x.peerConsumed = snd[s].peerConsumed /\ x.peerWindow = upd.w
    BY <1>3, <2>3 DEF sndFields
  <2>6. DOMAIN snd' = Streams /\ snd'[s] = x /\ \A t \in Streams : t # s => snd'[t] = snd[t]
    BY <1>1, <2>4, SndIs
  <2> QED BY <1>1, <1>2, <1>3, <1>4, <2>2, <2>5, <2>6
<1>6. CASE RecvBack
  <2>1. back # << >> /\ back' = Tail(back)
    BY <1>6 DEF RecvBack
  <2>2. back' \in Seq(Answers) /\ Head(back) \in Answers
    BY <1>1, <2>1
  <2>3. PICK f \in Answers : f = Head(back)
    BY <2>2
  <2>4. f[2] \in Streams /\ (f[1] # "FIN" => f[3] \in Int /\ f[4] \in Int)
    BY <2>3 DEF Answers
  <2>5. PICK s \in Streams : s = f[2]
    BY <2>4
  <2>6. CASE snd' = snd /\ upd' = upd
    BY <1>1, <1>2, <1>3, <1>4, <2>2, <2>6 DEF Shape, Numbers
  <2>7. CASE snd' = [snd EXCEPT ![s].fin = TRUE] /\ upd' = upd
    <3>1. PICK x : x = [snd[s] EXCEPT !.fin = TRUE]
      OBVIOUS
    <3>2. snd' = [snd EXCEPT ![s] = x]
      BY <1>1, <2>7, <3>1 DEF Shape
    <3>3. DOMAIN x = sndFields /\ x.pc = snd[s].pc /\ x.next = snd[s].next /\ x.ok = snd[s].ok /\ x.bts = snd[s].bts
          /\ x.inflight = snd[s].inflight /\ x.numWritten = snd[s].numWritten
          /\ x.peerConsumed = snd[s].peerConsumed /\ x.peerWindow = snd[s].peerWindow
      BY <1>3, <3>1 DEF sndFields
    <3>4. DOMAIN snd' = Streams /\ snd'[s] = x /\ \A t \in Streams : t # s => snd'[t] = snd[t]
      BY <1>1, <3>2, SndIs
    <3>5. upd' # None => upd'.s \in Streams /\ upd'.w \in Int
      BY <1>1, <2>7 DEF Numbers
    <3> QED BY <1>2, <1>3, <1>4, <2>2, <3>3, <3>4, <3>5
  <2>8. CASE f[1] # "FIN" /\ snd' = [snd EXCEPT ![s].peerConsumed = f[3]] /\ upd' = [s |-> s, w |-> f[4]]
    <3>1. PICK x : x = [snd[s] EXCEPT !.peerConsumed = f[3]]
      OBVIOUS
    <3>2. snd' = [snd EXCEPT ![s] = x]
      BY <1>1, <2>8, <3>1 DEF Shape
    <3>3. DOMAIN x = sndFields /\ x.pc = snd[s].pc /\ x.next = snd[s].next /\ x.ok = snd[s].ok /\ x.bts = snd[s].bts
          /\ x.inflight = snd[s].inflight /\ x.numWritten = snd[s].numWritten
          /\ x.peerConsumed = f[3] /\ x.peerWindow = snd[s].peerWindow
      BY <1>3, <3>1 DEF sndFields
    <3>4. DOMAIN snd' = Streams /\ snd'[s] = x /\ \A t \in Streams : t # s => snd'[t] = snd[t]
      BY <1>1, <3>2, SndIs
    <3>5. upd'.s \in Streams /\ upd'.w \in Int
      BY <2>4, <2>8
    <3> QED BY <1>2, <1>3, <1>4, <2>2, <2>4, <2>8, <3>3, <3>4, <3>5, SMTT(30)
  <2> QED BY <1>6, <2>3, <2>5, <2>6, <2>7, <2>8 DEF RecvBack
<1> QED BY <1>5, <1>6

-----------------------------------------------------------------------------
(* What the reading end does.                                                 *)

\* Nothing is given to the reader, and the stream is neither opened nor closed.
Rests(s) ==
    /\ rcv'[s].buf = rcv[s].buf /\ rcv'[s].got = rcv[s].got
    /\ rcv'[s].known = rcv[s].known /\ rcv'[s].close = rcv[s].close /\ rcv'[s].fin = rcv[s].fin
    /\ rcv'[s].eof = rcv[s].eof /\ rcv'[s].die = rcv[s].die
    /\ rcv[s].pc = "done" => rcv'[s].pc = "done"
\* Read gets the first n bytes of what is buffered.
Takes(s) ==
    /\ rcv[s].buf # << >> /\ rcv[s].pc # "done"
    /\ \E n \in 1..Len(Head(rcv[s].buf)) :
          /\ rcv'[s].got = rcv[s].got \o SubSeq(Head(rcv[s].buf), 1, n)
          /\ rcv'[s].buf = IF n = Len(Head(rcv[s].buf)) THEN Tail(rcv[s].buf)
                           ELSE <<SubSeq(Head(rcv[s].buf), n + 1, Len(Head(rcv[s].buf)))>> \o Tail(rcv[s].buf)
    /\ rcv'[s].known = rcv[s].known /\ rcv'[s].close = rcv[s].close /\ rcv'[s].fin = rcv[s].fin
    /\ rcv'[s].eof = rcv[s].eof /\ rcv'[s].die = rcv[s].die
\* Read returns EOF.
Hears(s) ==
    /\ rcv[s].fin /\ rcv[s].buf = << >>
    /\ rcv'[s].buf = rcv[s].buf /\ rcv'[s].got = rcv[s].got
    /\ rcv'[s].known = rcv[s].known /\ rcv'[s].close = rcv[s].close /\ rcv'[s].fin = rcv[s].fin
    /\ rcv'[s].die = rcv[s].die /\ rcv'[s].pc = "done"
\* Close.
LetsGo(s) ==
    /\ rcv[s].known /\ rcv[s].close = "no" /\ rcv'[s].close = "fin" /\ rcv'[s].die = TRUE
    /\ rcv'[s].buf = rcv[s].buf /\ rcv'[s].got = rcv[s].got /\ rcv'[s].known = rcv[s].known
    /\ rcv'[s].fin = rcv[s].fin /\ rcv'[s].eof = rcv[s].eof /\ rcv'[s].pc = rcv[s].pc
\* streamClosed.
Forgets(s) ==
    /\ rcv[s].close = "fin" /\ rcv'[s].close = "done" /\ rcv'[s].buf = << >> /\ rcv'[s].known = FALSE
    /\ rcv'[s].got = rcv[s].got /\ rcv'[s].fin = rcv[s].fin /\ rcv'[s].eof = rcv[s].eof
    /\ rcv'[s].die = rcv[s].die /\ rcv'[s].pc = rcv[s].pc

ReaderStep(s) == Rests(s) \/ Takes(s) \/ Hears(s) \/ LetsGo(s) \/ Forgets(s)

\* tryReadv2's bookkeeping touches nothing of the data.
LEMMA CountedOK ==
    ASSUME NEW r, DOMAIN r = rcvFields, NEW n \in Nat, r.numRead \in Int
    PROVE  /\ DOMAIN Counted(r, n) = rcvFields /\ Counted(r, n).numRead \in Int
           /\ Counted(r, n).buf = r.buf /\ Counted(r, n).got = r.got /\ Counted(r, n).known = r.known
           /\ Counted(r, n).close = r.close /\ Counted(r, n).fin = r.fin /\ Counted(r, n).eof = r.eof
           /\ Counted(r, n).die = r.die /\ Counted(r, n).window = r.window
           /\ Counted(r, n).consumed = r.consumed /\ Counted(r, n).setConsumed = r.setConsumed
<1>1. PICK c : c = [r EXCEPT !.numRead = Plus(r.numRead, n), !.incr = r.incr + n]
  OBVIOUS
<1>2. DOMAIN c = rcvFields /\ c.numRead = Plus(r.numRead, n)
      /\ c.buf = r.buf /\ c.got = r.got /\ c.known = r.known /\ c.close = r.close /\ c.fin = r.fin /\ c.eof = r.eof
      /\ c.die = r.die /\ c.window = r.window /\ c.consumed = r.consumed /\ c.setConsumed = r.setConsumed
  BY <1>1 DEF rcvFields
<1>3. PICK i, t : Counted(r, n) = [c EXCEPT !.incr = i, !.tell = t]
  BY <1>1 DEF Counted
<1>4. Plus(r.numRead, n) \in Int
  BY FrameSizes DEF Plus
<1> QED BY <1>2, <1>3, <1>4 DEF rcvFields

\* Every step of the reader, of SetReceiveWindow and of Close is of one of these
\* kinds and leaves the rest alone.
LEMMA ReaderSteps ==
    ASSUME EOFInv, NEW s \in Streams,
           Reader(s) \/ SetReceiveWindow(s) \/ WindowSet(s) \/ Closer(s) \/ ReaderClose(s, TRUE)
    PROVE  /\ DOMAIN rcv' = Streams /\ DOMAIN rcv'[s] = rcvFields /\ \A t \in Streams : t # s => rcv'[t] = rcv[t]
           /\ UNCHANGED <<snd, shaper, upd, wire, recv>> /\ back' \in Seq(Answers)
           /\ Counters(rcv'[s]) /\ ReaderStep(s)
<1>1. Shape /\ DOMAIN rcv[s] = rcvFields /\ Counters(rcv[s]) /\ back \in Seq(Answers)
  BY DEF EOFInv, Shape, Numbers
<1>2. UNCHANGED <<snd, shaper, upd, wire, recv>>
  BY DEF Reader, TryRead, TryReadEmpty, ReturnTokens, WaitRead, ReaderUpdate, SetReceiveWindow, WindowSet,
         Closer, ReaderClose, StreamClosed, Rcv
<1>3. ASSUME NEW x, DOMAIN x = rcvFields, Rcv(s, x)
      PROVE  DOMAIN rcv' = Streams /\ rcv'[s] = x /\ \A t \in Streams : t # s => rcv'[t] = rcv[t]
  BY <1>1, <1>3, RcvIs DEF Rcv
<1>4. \A c \in Int : Update(s, c) => back' \in Seq(Answers)
  <2> SUFFICES ASSUME NEW c \in Int, Update(s, c) PROVE back' \in Seq(Answers)
    OBVIOUS
  <2>1. <<"UPD", s, c, rcv[s].window>> \in Answers
    BY <1>1 DEF Answers, Counters
  <2> QED BY <1>1, <2>1 DEF Update
<1> DEFINE r == rcv[s]
           Same(x) == /\ DOMAIN x = rcvFields /\ x.buf = r.buf /\ x.got = r.got /\ x.known = r.known
                      /\ x.close = r.close /\ x.fin = r.fin /\ x.eof = r.eof /\ x.die = r.die
<1>5. ASSUME NEW x, Rcv(s, x), Same(x), Counters(x), r.pc = "done" => x.pc = "done", back' \in Seq(Answers)
      PROVE  /\ DOMAIN rcv' = Streams /\ DOMAIN rcv'[s] = rcvFields /\ \A t \in Streams : t # s => rcv'[t] = rcv[t]
             /\ Counters(rcv'[s]) /\ ReaderStep(s) /\ back' \in Seq(Answers)
  BY <1>3, <1>5 DEF ReaderStep, Rests
<1>6. CASE TryRead(s)
  <2>1. PICK n \in 1..Len(Head(r.buf)) : Rcv(s,
           [Counted(r, n) EXCEPT
              !.got = @ \o SubSeq(Head(r.buf), 1, n), !.n = n, !.pc = "tokens",
              !.buf = IF n = Len(Head(r.buf)) THEN Tail(@) ELSE <<SubSeq(Head(r.buf), n + 1, Len(Head(r.buf)))>> \o Tail(@)])
    BY <1>6 DEF TryRead
  <2>2. r.buf # << >> /\ r.pc = "read" /\ back' = back
    BY <1>6 DEF TryRead
  <2>3. n \in Nat
    BY <1>1, <2>2 DEF Shape
  <2>4. PICK c : c = Counted(r, n) /\ Same(c) /\ Counters(c)
    <3>1. r.numRead \in Int
      BY <1>1 DEF Counters
    <3>2. Same(Counted(r, n)) /\ Counters(Counted(r, n))
      BY <1>1, <2>3, <3>1, CountedOK DEF Counters
    <3> QED BY <3>2
  <2>5. PICK g, b : /\ g = r.got \o SubSeq(Head(r.buf), 1, n)
                    /\ b = IF n = Len(Head(r.buf)) THEN Tail(r.buf)
                           ELSE <<SubSeq(Head(r.buf), n + 1, Len(Head(r.buf)))>> \o Tail(r.buf)
    OBVIOUS
  <2>6. PICK x : x = [c EXCEPT !.got = g, !.n = n, !.pc = "tokens", !.buf = b]
    OBVIOUS
  <2>7. Rcv(s, x)
    BY <2>1, <2>4, <2>5, <2>6 DEF rcvFields
  <2>8. DOMAIN x = rcvFields /\ x.got = g /\ x.buf = b /\ x.known = r.known /\ x.close = r.close /\ x.fin = r.fin
        /\ x.eof = r.eof /\ x.die = r.die /\ Counters(x)
    BY <2>4, <2>6 DEF rcvFields, Counters
  <2>9. Takes(s)
    BY <1>3, <2>2, <2>5, <2>7, <2>8 DEF Takes
  <2> QED BY <1>1, <1>2, <1>3, <2>2, <2>7, <2>8, <2>9 DEF ReaderStep
<1>7. CASE TryReadEmpty(s)
  <2>1. PICK c : c = Counted(r, 0) /\ Same(c) /\ Counters(c)
    <3>1. r.numRead \in Int /\ 0 \in Nat
      BY <1>1 DEF Counters
    <3>2. Same(Counted(r, 0)) /\ Counters(Counted(r, 0))
      BY <1>1, <3>1, CountedOK DEF Counters
    <3> QED BY <3>2
  <2>2. PICK p : p = IF r.die THEN "done" ELSE "wait"
    OBVIOUS
  <2>3. PICK x : x = [c EXCEPT !.pc = p]
    OBVIOUS
  <2>4. Rcv(s, x) /\ r.pc = "read" /\ back' = back
    BY <1>7, <2>1, <2>2, <2>3 DEF TryReadEmpty
  <2>5. Same(x) /\ Counters(x)
    BY <2>1, <2>3 DEF rcvFields, Counters
  <2> QED BY <1>1, <1>2, <1>5, <2>4, <2>5
<1>8. CASE ReturnTokens(s)
  <2>1. PICK p : p = IF r.tell THEN "lock" ELSE "read"
    OBVIOUS
  <2>2. PICK x : x = [r EXCEPT !.n = 0, !.tell = FALSE, !.pc = p]
    OBVIOUS
  <2>3. Rcv(s, x) /\ r.pc = "tokens" /\ back' = back
    BY <1>8, <2>1, <2>2 DEF ReturnTokens
  <2>4. Same(x) /\ Counters(x)
    BY <1>1, <2>2 DEF rcvFields, Counters
  <2> QED BY <1>1, <1>2, <1>5, <2>3, <2>4
<1>9. CASE WaitRead(s)
  <2>1. back' = back /\ r.pc = "wait"
    BY <1>9 DEF WaitRead
  <2>2. CASE r.fin /\ r.buf = << >> /\ Rcv(s, [r EXCEPT !.eof = TRUE, !.pc = "done"])
    <3>1. PICK x : x = [r EXCEPT !.eof = TRUE, !.pc = "done"] /\ Rcv(s, x)
      BY <2>2
    <3>2. DOMAIN x = rcvFields /\ x.got = r.got /\ x.buf = r.buf /\ x.known = r.known /\ x.close = r.close /\ x.fin = r.fin
          /\ x.die = r.die /\ x.pc = "done" /\ Counters(x)
      BY <1>1, <3>1 DEF rcvFields, Counters
    <3>3. Hears(s)
      BY <1>3, <2>2, <3>1, <3>2 DEF Hears
    <3> QED BY <1>1, <1>2, <1>3, <2>1, <3>1, <3>2, <3>3 DEF ReaderStep
  <2>3. CASE Rcv(s, [r EXCEPT !.event = FALSE, !.pc = "read"])
    <3>1. PICK x : x = [r EXCEPT !.event = FALSE, !.pc = "read"] /\ Rcv(s, x)
      BY <2>3
    <3>2. Same(x) /\ Counters(x)
      BY <1>1, <3>1 DEF rcvFields, Counters
    <3> QED BY <1>1, <1>2, <1>5, <2>1, <3>1, <3>2
  <2>4. CASE Rcv(s, [r EXCEPT !.pc = "read"])
    <3>1. PICK x : x = [r EXCEPT !.pc = "read"] /\ Rcv(s, x)
      BY <2>4
    <3>2. Same(x) /\ Counters(x)
      BY <1>1, <3>1 DEF rcvFields, Counters
    <3> QED BY <1>1, <1>2, <1>5, <2>1, <3>1, <3>2
  <2>5. CASE Rcv(s, [r EXCEPT !.pc = "done"])
    <3>1. PICK x : x = [r EXCEPT !.pc = "done"] /\ Rcv(s, x)
      BY <2>5
    <3>2. Same(x) /\ Counters(x)
      BY <1>1, <3>1 DEF rcvFields, Counters
    <3> QED BY <1>1, <1>2, <1>5, <2>1, <3>1, <3>2
  <2> QED BY <1>9, <2>2, <2>3, <2>4, <2>5 DEF WaitRead, Final
<1>10. CASE ReaderUpdate(s)
  <2>1. CASE r.pc = "lock" /\ Rcv(s, [r EXCEPT !.consumed = r.numRead, !.pc = "count"]) /\ back' = back
    <3>1. PICK x : x = [r EXCEPT !.consumed = r.numRead, !.pc = "count"] /\ Rcv(s, x)
      BY <2>1
    <3>2. Same(x) /\ Counters(x)
      BY <1>1, <3>1 DEF rcvFields, Counters
    <3> QED BY <1>1, <1>2, <1>5, <2>1, <3>1, <3>2
  <2>2. CASE r.pc = "count" /\ Update(s, r.consumed) /\ Rcv(s, [r EXCEPT !.pc = "read"])
    <3>1. PICK x : x = [r EXCEPT !.pc = "read"] /\ Rcv(s, x)
      BY <2>2
    <3>2. Same(x) /\ Counters(x)
      BY <1>1, <3>1 DEF rcvFields, Counters
    <3>3. back' \in Seq(Answers)
      BY <1>1, <1>4, <2>2 DEF Counters
    <3> QED BY <1>2, <1>5, <2>2, <3>1, <3>2, <3>3
  <2> QED BY <1>10, <2>1, <2>2 DEF ReaderUpdate
<1>11. CASE SetReceiveWindow(s)
  <2>1. PICK w \in Windows : Rcv(s, [r EXCEPT !.window = w, !.set = "swapped"])
    BY <1>11 DEF SetReceiveWindow
  <2>2. PICK x : x = [r EXCEPT !.window = w, !.set = "swapped"] /\ Rcv(s, x)
    BY <2>1
  <2>3. w \in Int /\ back' = back
    <3>1. w \in Int
      BY FrameSizes
    <3> QED BY <1>11, <3>1 DEF SetReceiveWindow
  <2>4. Same(x) /\ Counters(x) /\ x.pc = r.pc
    BY <1>1, <2>2, <2>3 DEF rcvFields, Counters
  <2> QED BY <1>1, <1>2, <1>5, <2>2, <2>3, <2>4
<1>12. CASE WindowSet(s)
  <2>1. CASE Rcv(s, [r EXCEPT !.incr = 0, !.set = "lock"]) /\ back' = back
    <3>1. PICK x : x = [r EXCEPT !.incr = 0, !.set = "lock"] /\ Rcv(s, x)
      BY <2>1
    <3>2. Same(x) /\ Counters(x) /\ x.pc = r.pc
      BY <1>1, <3>1 DEF rcvFields, Counters
    <3> QED BY <1>1, <1>2, <1>5, <2>1, <3>1, <3>2
  <2>2. CASE Rcv(s, [r EXCEPT !.setConsumed = r.numRead, !.set = "count"]) /\ back' = back
    <3>1. PICK x : x = [r EXCEPT !.setConsumed = r.numRead, !.set = "count"] /\ Rcv(s, x)
      BY <2>2
    <3>2. Same(x) /\ Counters(x) /\ x.pc = r.pc
      BY <1>1, <3>1 DEF rcvFields, Counters
    <3> QED BY <1>1, <1>2, <1>5, <2>2, <3>1, <3>2
  <2>3. CASE Update(s, r.setConsumed) /\ Rcv(s, [r EXCEPT !.set = "no"])
    <3>1. PICK x : x = [r EXCEPT !.set = "no"] /\ Rcv(s, x)
      BY <2>3
    <3>2. Same(x) /\ Counters(x) /\ x.pc = r.pc
      BY <1>1, <3>1 DEF rcvFields, Counters
    <3>3. back' \in Seq(Answers)
      BY <1>1, <1>4, <2>3 DEF Counters
    <3> QED BY <1>2, <1>5, <3>1, <3>2, <3>3
  <2> QED BY <1>12, <2>1, <2>2, <2>3 DEF WindowSet
<1>13. CASE ReaderClose(s, TRUE) \/ ReaderClose(s, FALSE)
  <2>1. PICK x : x = [r EXCEPT !.die = TRUE, !.close = "fin"] /\ Rcv(s, x)
    BY <1>13 DEF ReaderClose
  <2>2. r.known /\ r.close = "no" /\ back' = Append(back, <<"FIN", s>>)
    BY <1>13 DEF ReaderClose
  <2>3. <<"FIN", s>> \in Answers
    BY DEF Answers
  <2>4. back' \in Seq(Answers)
    BY <1>1, <2>2, <2>3
  <2>5. DOMAIN x = rcvFields /\ x.got = r.got /\ x.buf = r.buf /\ x.known = r.known /\ x.close = "fin" /\ x.fin = r.fin
        /\ x.die = TRUE /\ x.eof = r.eof /\ x.pc = r.pc /\ Counters(x)
    BY <1>1, <2>1 DEF rcvFields, Counters
  <2>6. LetsGo(s)
    BY <1>3, <2>1, <2>2, <2>5 DEF LetsGo
  <2> QED BY <1>2, <1>3, <2>1, <2>4, <2>5, <2>6 DEF ReaderStep
<1>14. CASE StreamClosed(s)
  <2>1. PICK x : x = [r EXCEPT !.buf = << >>, !.known = FALSE, !.close = "done"] /\ Rcv(s, x)
    BY <1>14 DEF StreamClosed
  <2>2. r.close = "fin" /\ back' = back
    BY <1>14 DEF StreamClosed
  <2>3. DOMAIN x = rcvFields /\ x.got = r.got /\ x.buf = << >> /\ x.known = FALSE /\ x.close = "done" /\ x.fin = r.fin
        /\ x.die = r.die /\ x.eof = r.eof /\ x.pc = r.pc /\ Counters(x)
    BY <1>1, <2>1 DEF rcvFields, Counters
  <2>4. Forgets(s)
    BY <1>3, <2>1, <2>2, <2>3 DEF Forgets
  <2> QED BY <1>1, <1>2, <1>3, <2>1, <2>2, <2>3, <2>4 DEF ReaderStep
<1> QED BY <1>6, <1>7, <1>8, <1>9, <1>10, <1>11, <1>12, <1>13, <1>14 DEF Reader, Closer

\* recvLoop takes the next frame.
Gets(f) ==
    LET s == f[2]
    IN  /\ rcv'[s].got = rcv[s].got /\ rcv'[s].close = rcv[s].close /\ rcv'[s].eof = rcv[s].eof
        /\ rcv'[s].die = rcv[s].die /\ rcv'[s].pc = rcv[s].pc
        /\ \/ /\ f[1] = "SYN" /\ rcv'[s].known = TRUE
              /\ rcv'[s].buf = rcv[s].buf /\ rcv'[s].fin = rcv[s].fin
           \/ /\ f[1] = "FIN" /\ rcv'[s].known = rcv[s].known /\ rcv'[s].buf = rcv[s].buf
           \/ /\ f[1] = "PSH" /\ rcv[s].known /\ rcv'[s].known = rcv[s].known /\ rcv'[s].fin = rcv[s].fin
              /\ rcv'[s].buf = Append(rcv[s].buf, f[3])
           \/ /\ f[1] = "PSH" /\ ~rcv[s].known /\ rcv'[s].known = rcv[s].known /\ rcv'[s].fin = rcv[s].fin
              /\ rcv'[s].buf = rcv[s].buf

\* recvLoop takes the frame at the head of the wire.
LEMMA RecvSteps ==
    ASSUME EOFInv, Recv
    PROVE  \E f \in Frames :
             /\ wire # << >> /\ f = Head(wire) /\ wire' = Tail(wire) /\ UNCHANGED <<snd, shaper, upd, back>>
             /\ DOMAIN rcv' = Streams /\ DOMAIN rcv'[f[2]] = rcvFields
             /\ \A t \in Streams : t # f[2] => rcv'[t] = rcv[t]
             /\ Counters(rcv'[f[2]]) /\ (recv'.pc = "pushed" => recv'.s \in Streams) /\ Gets(f)
<1>1. Shape /\ wire \in Seq(Frames)
  BY DEF EOFInv, Shape
<1>2. wire # << >> /\ wire' = Tail(wire) /\ UNCHANGED <<snd, shaper, upd, back>> /\ recv.pc = "loop"
  BY DEF Recv
<1>3. PICK f \in Frames : f = Head(wire)
  BY <1>1, <1>2
<1>4. PICK s \in Streams : s = f[2]
  BY <1>3 DEF Frames
<1>5. DOMAIN rcv[s] = rcvFields /\ Counters(rcv[s])
  BY DEF EOFInv, Shape, Numbers
<1> DEFINE Good(x) == DOMAIN x = rcvFields /\ Counters(x) /\ x.got = rcv[s].got /\ x.close = rcv[s].close
                      /\ x.eof = rcv[s].eof /\ x.die = rcv[s].die /\ x.pc = rcv[s].pc
<1>6. ASSUME NEW x, DOMAIN rcv' = Streams, rcv'[s] = x, \A t \in Streams : t # s => rcv'[t] = rcv[t],
             Good(x), recv'.pc = "pushed" => recv'.s \in Streams,
             \/ /\ f[1] = "SYN" /\ x.known = TRUE /\ x.buf = rcv[s].buf /\ x.fin = rcv[s].fin
             \/ /\ f[1] = "FIN" /\ x.known = rcv[s].known /\ x.buf = rcv[s].buf
             \/ /\ f[1] = "PSH" /\ rcv[s].known /\ x.known = rcv[s].known /\ x.fin = rcv[s].fin
                /\ x.buf = Append(rcv[s].buf, f[3])
             \/ /\ f[1] = "PSH" /\ ~rcv[s].known /\ x.known = rcv[s].known /\ x.fin = rcv[s].fin
                /\ x.buf = rcv[s].buf
      PROVE  /\ DOMAIN rcv' = Streams /\ DOMAIN rcv'[s] = rcvFields /\ \A t \in Streams : t # s => rcv'[t] = rcv[t]
             /\ Counters(rcv'[s]) /\ (recv'.pc = "pushed" => recv'.s \in Streams) /\ Gets(f)
  BY <1>4, <1>6 DEF Gets
<1>8. CASE f[1] = "SYN" /\ rcv' = [rcv EXCEPT ![s].known = TRUE] /\ recv' = recv
  <2>1. PICK x : x = [rcv[s] EXCEPT !.known = TRUE]
    OBVIOUS
  <2>2. DOMAIN rcv' = Streams /\ rcv'[s] = x /\ \A t \in Streams : t # s => rcv'[t] = rcv[t]
    BY <1>1, <1>8, <2>1, RcvIs DEF Shape
  <2>3. Good(x) /\ x.known = TRUE /\ x.buf = rcv[s].buf /\ x.fin = rcv[s].fin
    BY <1>5, <2>1 DEF rcvFields, Counters
  <2> QED BY <1>2, <1>3, <1>4, <1>6, <1>8, <2>2, <2>3
<1>9. CASE f[1] = "FIN" /\ rcv' = [rcv EXCEPT ![s].fin = TRUE, ![s].event = TRUE] /\ recv' = recv
  <2>1. PICK x : x = [rcv[s] EXCEPT !.fin = TRUE, !.event = TRUE]
    OBVIOUS
  <2>2. DOMAIN rcv' = Streams /\ rcv'[s] = x /\ \A t \in Streams : t # s => rcv'[t] = rcv[t]
    BY <1>1, <1>9, <2>1, RcvIs DEF Shape
  <2>3. Good(x) /\ x.known = rcv[s].known /\ x.buf = rcv[s].buf
    BY <1>5, <2>1 DEF rcvFields, Counters
  <2> QED BY <1>2, <1>3, <1>4, <1>6, <1>9, <2>2, <2>3
<1>10. CASE f[1] = "FIN" /\ rcv' = rcv /\ recv' = recv
  <2>1. Good(rcv[s]) /\ DOMAIN rcv' = Streams /\ rcv'[s] = rcv[s] /\ \A t \in Streams : rcv'[t] = rcv[t]
    BY <1>1, <1>5, <1>10 DEF Shape
  <2> QED BY <1>2, <1>3, <1>4, <1>6, <1>10, <2>1
<1>11. CASE f[1] = "PSH" /\ rcv[s].known /\ rcv' = [rcv EXCEPT ![s].buf = Append(@, f[3])]
            /\ recv' = [pc |-> "pushed", s |-> s, n |-> Len(f[3])]
  <2>1. PICK x : x = [rcv[s] EXCEPT !.buf = Append(rcv[s].buf, f[3])]
    OBVIOUS
  <2>2. DOMAIN rcv' = Streams /\ rcv'[s] = x /\ \A t \in Streams : t # s => rcv'[t] = rcv[t]
    BY <1>1, <1>5, <1>11, <2>1, RcvIs DEF Shape, rcvFields
  <2>3. Good(x) /\ x.known = rcv[s].known /\ x.buf = Append(rcv[s].buf, f[3]) /\ x.fin = rcv[s].fin
    BY <1>5, <2>1 DEF rcvFields, Counters
  <2>4. recv'.s \in Streams
    BY <1>11
  <2> QED BY <1>2, <1>3, <1>4, <1>6, <1>11, <2>2, <2>3, <2>4
<1>12. CASE f[1] = "PSH" /\ ~rcv[s].known /\ rcv' = rcv /\ recv' = recv
  <2>1. Good(rcv[s]) /\ DOMAIN rcv' = Streams /\ rcv'[s] = rcv[s] /\ \A t \in Streams : rcv'[t] = rcv[t]
    BY <1>1, <1>5, <1>12 DEF Shape
  <2> QED BY <1>2, <1>3, <1>4, <1>6, <1>12, <2>1
<1>13. \/ f[1] = "SYN" /\ rcv' = [rcv EXCEPT ![s].known = TRUE] /\ recv' = recv
       \/ f[1] = "FIN" /\ rcv' = [rcv EXCEPT ![s].fin = TRUE, ![s].event = TRUE] /\ recv' = recv
       \/ f[1] = "FIN" /\ rcv' = rcv /\ recv' = recv
       \/ f[1] = "PSH" /\ rcv[s].known /\ rcv' = [rcv EXCEPT ![s].buf = Append(@, f[3])]
          /\ recv' = [pc |-> "pushed", s |-> s, n |-> Len(f[3])]
       \/ f[1] = "PSH" /\ ~rcv[s].known /\ rcv' = rcv /\ recv' = recv
  BY <1>3, <1>4 DEF Recv
<1> QED BY <1>8, <1>9, <1>10, <1>11, <1>12, <1>13

\* recvLoop's wait and its tokens are of no concern to the data.
LEMMA TokenSteps ==
    ASSUME EOFInv, RecvWait \/ TakeTokens
    PROVE  /\ DOMAIN rcv' = Streams /\ \A t \in Streams : DOMAIN rcv'[t] = rcvFields
           /\ \A t \in Streams : Counters(rcv'[t])
           /\ \A t \in Streams : Rests(t)
           /\ UNCHANGED <<snd, shaper, upd, wire, back>>
           /\ recv'.pc # "pushed"
<1>1. Shape /\ \A t \in Streams : DOMAIN rcv[t] = rcvFields /\ Counters(rcv[t])
  BY DEF EOFInv, Shape, Numbers
<1>2. UNCHANGED <<snd, shaper, upd, wire, back>> /\ recv'.pc # "pushed"
  BY DEF RecvWait, TakeTokens, At
<1>3. CASE RecvWait
  <2>1. rcv' = rcv
    BY <1>3 DEF RecvWait
  <2> QED BY <1>1, <1>2, <2>1 DEF Shape, Rests
<1>4. CASE TakeTokens
  <2>1. PICK s \in Streams : s = recv.s
    BY <1>1, <1>4 DEF TakeTokens, Shape
  <2>2. PICK x : x = [rcv[s] EXCEPT !.event = TRUE]
    OBVIOUS
  <2>3. rcv' = [rcv EXCEPT ![s] = x]
    BY <1>1, <1>4, <2>1, <2>2 DEF TakeTokens, Shape
  <2>4. DOMAIN x = rcvFields /\ Counters(x) /\ x.buf = rcv[s].buf /\ x.got = rcv[s].got /\ x.known = rcv[s].known
        /\ x.close = rcv[s].close /\ x.fin = rcv[s].fin /\ x.eof = rcv[s].eof /\ x.die = rcv[s].die /\ x.pc = rcv[s].pc
    BY <1>1, <2>2 DEF rcvFields, Counters
  <2>5. DOMAIN rcv' = Streams /\ rcv'[s] = x /\ \A t \in Streams : t # s => rcv'[t] = rcv[t]
    BY <1>1, <2>3, RcvIs
  <2> QED BY <1>1, <1>2, <2>4, <2>5 DEF Rests
<1> QED BY <1>3, <1>4

-----------------------------------------------------------------------------
(* A stream that a step is not about.                                         *)

\* The frames of stream t are in both queues, in the same order.
Shift(q, r, d, t) ==
    /\ d \in {0, 1}
    /\ \A k \in 1..Len(r) : r[k][2] = t => k + d \in 1..Len(q) /\ r[k] = q[k + d]
    /\ \A k \in 1..Len(q) : q[k][2] = t => k - d \in 1..Len(r) /\ r[k - d] = q[k]

\* A queue that does not change,
LEMMA ShiftSame ==
    ASSUME NEW q \in Seq(Frames), NEW t
    PROVE  Shift(q, q, 0, t)
BY DEF Shift

\* one that a frame of another stream is put into,
LEMMA ShiftBehind ==
    ASSUME NEW q \in Seq(Frames), NEW f \in Frames, NEW t, f[2] # t, NEW r, r = Append(q, f)
    PROVE  Shift(q, r, 0, t)
<1>1. /\ Len(q) \in Nat /\ Len(r) = Len(q) + 1
      /\ \A k \in 1..Len(q) : k \in 1..Len(r) /\ r[k] = q[k] /\ k < Len(r)
      /\ \A k \in 1..Len(r) : (k \in 1..Len(q) /\ r[k] = q[k]) \/ (k = Len(r) /\ r[k] = f)
  BY Behind
<1> QED BY <1>1 DEF Shift

\* and one that it is taken from.
LEMMA ShiftWithout ==
    ASSUME NEW q \in Seq(Frames), q # << >>, NEW t, Head(q)[2] # t, NEW r, r = Tail(q)
    PROVE  Shift(q, r, 1, t)
<1>1. /\ Len(r) \in Nat /\ Len(q) = Len(r) + 1 /\ Head(q) = q[1]
      /\ \A k \in 1..Len(r) : k + 1 \in 1..Len(q) /\ r[k] = q[k + 1]
      /\ \A k \in 1..Len(q) : k # 1 => k - 1 \in 1..Len(r) /\ r[k - 1] = q[k]
  BY Without
<1> QED BY <1>1 DEF Shift

\* What the writer of t may do without touching its queued frame.
Keeps(t) ==
    /\ snd'[t].next = snd[t].next
    /\ snd[t].pc \in {"wait"} \cup Closing => snd'[t].pc \in {"wait"} \cup Closing
    /\ snd'[t].ok => /\ snd[t].ok
                     /\ snd[t].pc = "wait" => snd'[t].pc = "wait" /\ snd'[t].bts = snd[t].bts
                     /\ snd[t].pc \in {"fin", "done"} => snd'[t].pc \in {"fin", "done"}

\* Frames of other streams do not touch the frame of t that is queued,
LEMMA OneQueuedShift ==
    ASSUME NEW t \in Streams, OneQueued(t), Keeps(t), NEW d, Shift(shaper.data, shaper'.data, d, t)
    PROVE  OneQueued(t)'
<1>1. ASSUME NEW k \in 1..Len(shaper'.data), DataOf(shaper'.data[k], t)
      PROVE  /\ Len(shaper'.data[k][3]) > 0 /\ shaper'.data[k][3][1] = snd'[t].next /\ Run(shaper'.data[k][3])
             /\ snd'[t].pc \in {"wait"} \cup Closing
             /\ snd'[t].ok => snd'[t].pc = "wait" /\ Len(shaper'.data[k][3]) = Size(snd'[t])
  <2>1. k + d \in 1..Len(shaper.data) /\ shaper'.data[k] = shaper.data[k + d]
    BY <1>1 DEF Shift, DataOf
  <2>2. DataOf(shaper.data[k + d], t)
    BY <1>1, <2>1
  <2>3. /\ Len(shaper.data[k + d][3]) > 0 /\ shaper.data[k + d][3][1] = snd[t].next /\ Run(shaper.data[k + d][3])
        /\ snd[t].pc \in {"wait"} \cup Closing
        /\ snd[t].ok => snd[t].pc = "wait" /\ Len(shaper.data[k + d][3]) = Size(snd[t])
    BY <2>1, <2>2 DEF OneQueued
  <2>4. snd'[t].ok => snd'[t].pc = "wait" /\ Size(snd'[t]) = Size(snd[t])
    BY <2>3 DEF Keeps, Size
  <2> QED BY <2>1, <2>3, <2>4 DEF Keeps
<1>2. ASSUME NEW j \in 1..Len(shaper'.data), NEW k \in 1..Len(shaper'.data),
             DataOf(shaper'.data[j], t), DataOf(shaper'.data[k], t)
      PROVE  j = k
  <2>1. k + d \in 1..Len(shaper.data) /\ shaper'.data[k] = shaper.data[k + d]
    BY <1>2 DEF Shift, DataOf
  <2>2. j + d \in 1..Len(shaper.data) /\ shaper'.data[j] = shaper.data[j + d]
    BY <1>2 DEF Shift, DataOf
  <2>3. j + d = k + d
    BY <1>2, <2>1, <2>2 DEF OneQueued
  <2>4. d \in Int
    BY DEF Shift
  <2> QED BY <2>3, <2>4
<1> QED BY <1>1, <1>2 DEF OneQueued

\* A frame of t with that command is in the queue.
HasFrame(q, c, t) == \E k \in 1..Len(q) : q[k][1] = c /\ q[k][2] = t

\* nor what there is of t in a queue:
LEMMA ShiftHas ==
    ASSUME NEW q, NEW r, NEW d, NEW t, Shift(q, r, d, t), NEW c
    PROVE  HasFrame(q, c, t) <=> HasFrame(r, c, t)
<1>1. ASSUME NEW k \in 1..Len(q), q[k][1] = c, q[k][2] = t PROVE \E j \in 1..Len(r) : r[j][1] = c /\ r[j][2] = t
  <2>1. k - d \in 1..Len(r) /\ r[k - d] = q[k]
    BY <1>1 DEF Shift
  <2> QED BY <1>1, <2>1
<1>2. ASSUME NEW k \in 1..Len(r), r[k][1] = c, r[k][2] = t PROVE \E j \in 1..Len(q) : q[j][1] = c /\ q[j][2] = t
  <2>1. k + d \in 1..Len(q) /\ r[k] = q[k + d]
    BY <1>2 DEF Shift
  <2> QED BY <1>2, <2>1
<1> QED BY <1>1, <1>2, Zenon DEF HasFrame

\* its SYN and its data are where they were,
LEMMA HasShift ==
    ASSUME NEW t \in Streams, NEW d1, NEW d2, NEW d3, Shift(shaper.ctrl, shaper'.ctrl, d1, t),
           Shift(shaper.data, shaper'.data, d2, t), Shift(wire, wire', d3, t)
    PROVE  /\ SynQueued(t)' <=> SynQueued(t)
           /\ DataQueued(t)' <=> DataQueued(t)
           /\ SynOnWire(t)' <=> SynOnWire(t)
<1>1. SynQueued(t)' <=> SynQueued(t)
  <2>1. HasFrame(shaper.ctrl, "SYN", t) <=> HasFrame(shaper'.ctrl, "SYN", t)
    BY ShiftHas
  <2> QED BY <2>1 DEF SynQueued, SynOf, HasFrame
<1>2. DataQueued(t)' <=> DataQueued(t)
  <2>1. HasFrame(shaper.data, "PSH", t) <=> HasFrame(shaper'.data, "PSH", t)
    BY ShiftHas
  <2> QED BY <2>1 DEF DataQueued, DataOf, HasFrame
<1>3. SynOnWire(t)' <=> SynOnWire(t)
  <2>1. HasFrame(wire, "SYN", t) <=> HasFrame(wire', "SYN", t)
    BY ShiftHas
  <2> QED BY <2>1 DEF SynOnWire, SynOf, HasFrame
<1> QED BY <1>1, <1>2, <1>3

\* its FIN is still behind its data,
LEMMA FinLastShift ==
    ASSUME NEW t \in Streams, FinLast(t), Keeps(t), NEW d1, NEW d3, rcv'[t].fin = rcv[t].fin,
           Shift(shaper.ctrl, shaper'.ctrl, d1, t), Shift(wire, wire', d3, t)
    PROVE  FinLast(t)'
<1> SUFFICES ASSUME snd'[t].ok PROVE FinLast(t)'
  BY DEF FinLast
<1>1. snd[t].ok /\ (snd[t].pc \in {"fin", "done"} => snd'[t].pc \in {"fin", "done"})
  BY DEF Keeps
<1>2. ASSUME NEW k \in 1..Len(shaper'.ctrl), FinOf(shaper'.ctrl[k], t) PROVE snd'[t].pc \in {"fin", "done"}
  <2>1. k + d1 \in 1..Len(shaper.ctrl) /\ FinOf(shaper.ctrl[k + d1], t)
    BY <1>2 DEF Shift, FinOf
  <2> QED BY <1>1, <2>1 DEF FinLast
<1>3. ASSUME NEW k \in 1..Len(wire'), FinOf(wire'[k], t)
      PROVE  snd'[t].pc \in {"fin", "done"} /\ \A j \in 1..Len(wire') : DataOf(wire'[j], t) => j < k
  <2>1. k + d3 \in 1..Len(wire) /\ FinOf(wire[k + d3], t)
    BY <1>3 DEF Shift, FinOf
  <2>2. snd'[t].pc \in {"fin", "done"} /\ \A j \in 1..Len(wire) : DataOf(wire[j], t) => j < k + d3
    BY <1>1, <2>1 DEF FinLast
  <2>3. ASSUME NEW j \in 1..Len(wire'), DataOf(wire'[j], t) PROVE j < k
    <3>1. j + d3 \in 1..Len(wire) /\ DataOf(wire[j + d3], t) /\ d3 \in Int
      BY <2>3 DEF Shift, DataOf
    <3>2. j + d3 < k + d3
      BY <2>2, <3>1
    <3> QED BY <3>1, <3>2
  <2> QED BY <2>2, <2>3
<1>4. ASSUME rcv'[t].fin
      PROVE  snd'[t].pc \in {"fin", "done"} /\ \A k \in 1..Len(wire') : ~DataOf(wire'[k], t)
  <2>1. snd'[t].pc \in {"fin", "done"} /\ \A k \in 1..Len(wire) : ~DataOf(wire[k], t)
    BY <1>1, <1>4 DEF FinLast
  <2>2. ASSUME NEW j \in 1..Len(wire'), DataOf(wire'[j], t) PROVE FALSE
    <3>1. j + d3 \in 1..Len(wire) /\ DataOf(wire[j + d3], t)
      BY <2>2 DEF Shift, DataOf
    <3> QED BY <2>1, <3>1
  <2> QED BY <2>1, <2>2
<1> QED BY <1>2, <1>3, <1>4 DEF FinLast

\* its SYN is still sent once,
LEMMA SynOnceShift ==
    ASSUME NEW t \in Streams, SynOnce(t), snd'[t].pc = "open" => snd[t].pc = "open",
           ~rcv[t].known /\ rcv[t].close = "no" => ~rcv'[t].known /\ rcv'[t].close = "no",
           NEW d1, NEW d2, NEW d3, Shift(shaper.ctrl, shaper'.ctrl, d1, t),
           Shift(shaper.data, shaper'.data, d2, t), Shift(wire, wire', d3, t)
    PROVE  SynOnce(t)'
<1>1. (SynQueued(t)' <=> SynQueued(t)) /\ (SynOnWire(t)' <=> SynOnWire(t))
  BY HasShift
<1>2. ASSUME NEW j \in 1..Len(wire'), NEW k \in 1..Len(wire'), SynOf(wire'[j], t), SynOf(wire'[k], t) PROVE j = k
  <2>1. j + d3 \in 1..Len(wire) /\ SynOf(wire[j + d3], t) /\ d3 \in Int
    BY <1>2 DEF Shift, SynOf
  <2>2. k + d3 \in 1..Len(wire) /\ SynOf(wire[k + d3], t)
    BY <1>2 DEF Shift, SynOf
  <2>3. j + d3 = k + d3
    BY <2>1, <2>2 DEF SynOnce
  <2> QED BY <2>1, <2>3
<1>3. ASSUME NEW j \in 1..Len(shaper'.ctrl), NEW k \in 1..Len(shaper'.ctrl),
             SynOf(shaper'.ctrl[j], t), SynOf(shaper'.ctrl[k], t)
      PROVE  j = k
  <2>1. j + d1 \in 1..Len(shaper.ctrl) /\ SynOf(shaper.ctrl[j + d1], t) /\ d1 \in Int
    BY <1>3 DEF Shift, SynOf
  <2>2. k + d1 \in 1..Len(shaper.ctrl) /\ SynOf(shaper.ctrl[k + d1], t)
    BY <1>3 DEF Shift, SynOf
  <2>3. j + d1 = k + d1
    BY <2>1, <2>2 DEF SynOnce
  <2> QED BY <2>1, <2>3
<1>4. /\ SynOnWire(t)' \/ SynQueued(t)' \/ snd'[t].pc = "open" => ~rcv'[t].known /\ rcv'[t].close = "no"
      /\ SynOnWire(t)' \/ SynQueued(t)' => snd'[t].pc # "open"
      /\ ~(SynOnWire(t)' /\ SynQueued(t)')
  BY <1>1 DEF SynOnce
<1> QED BY <1>2, <1>3, <1>4 DEF SynOnce

\* and before its data.
LEMMA SynFirstShift ==
    ASSUME NEW t \in Streams, SynFirst(t), Started(t) => Started(t)',
           snd'[t].pc \notin {"open", "syn", "done"} => snd[t].pc \notin {"open", "syn", "done"},
           NEW d1, NEW d2, NEW d3, Shift(shaper.ctrl, shaper'.ctrl, d1, t),
           Shift(shaper.data, shaper'.data, d2, t), Shift(wire, wire', d3, t)
    PROVE  SynFirst(t)'
<1>1. (DataQueued(t)' <=> DataQueued(t)) /\ (SynOnWire(t)' <=> SynOnWire(t))
  BY HasShift
<1>2. snd'[t].pc \notin {"open", "syn", "done"} \/ DataQueued(t)' => Started(t)' \/ SynOnWire(t)'
  BY <1>1 DEF SynFirst
<1>3. ASSUME NEW k \in 1..Len(wire'), DataOf(wire'[k], t), ~Started(t)'
      PROVE  \E j \in 1..Len(wire') : j < k /\ SynOf(wire'[j], t)
  <2>1. k + d3 \in 1..Len(wire) /\ DataOf(wire[k + d3], t) /\ d3 \in Int
    BY <1>3 DEF Shift, DataOf
  <2>2. PICK j \in 1..Len(wire) : j < k + d3 /\ SynOf(wire[j], t)
    BY <1>3, <2>1 DEF SynFirst
  <2>3. j - d3 \in 1..Len(wire') /\ SynOf(wire'[j - d3], t)
    BY <2>2 DEF Shift, SynOf
  <2>4. j - d3 < k
    BY <2>1, <2>2
  <2> QED BY <2>3, <2>4
<1> QED BY <1>2, <1>3 DEF SynFirst

-----------------------------------------------------------------------------
(* The line of a stream.                                                      *)

\* Sequences with the same elements are the same.
LEMMA SameSeq ==
    ASSUME NEW S, NEW L \in Seq(S), NEW K \in Seq(S), Len(L) = Len(K), \A k \in 1..Len(L) : L[k] = K[k]
    PROVE  L = K
OBVIOUS

IsJoin(L, b, w, t) ==
    /\ L \in Seq(Seq(Nat)) /\ Len(L) = Len(b) + Len(w) /\ Len(b) \in Nat /\ Len(w) \in Nat
    /\ \A k \in 1..Len(b) : k \in 1..Len(L) /\ L[k] = b[k]
    /\ \A k \in 1..Len(w) : Len(b) + k \in 1..Len(L) /\ L[Len(b) + k] = Piece(w[k], t)
    /\ \A k \in 1..Len(L) : k \in 1..Len(b) \/ k - Len(b) \in 1..Len(w)

\* The line as a sequence of pieces: those of the buffers, then those of the wire.
LEMMA JoinIs ==
    ASSUME NEW b \in Seq(Seq(Nat)), NEW w \in Seq(Frames), NEW t
    PROVE  IsJoin(Join(b, w, t), b, w, t)
<1>1. \A f \in Frames : Piece(f, t) \in Seq(Nat)
  BY DEF Frames, Piece
<1>2. Len(b) \in Nat /\ Len(w) \in Nat
  OBVIOUS
<1>3. \A k \in 1..Len(w) : w[k] \in Frames
  OBVIOUS
<1>4. \A k \in 1..(Len(b) + Len(w)) : k \in 1..Len(b) \/ k - Len(b) \in 1..Len(w)
  BY <1>2
<1>5. \A k \in 1..(Len(b) + Len(w)) : (IF k <= Len(b) THEN b[k] ELSE Piece(w[k - Len(b)], t)) \in Seq(Nat)
  BY <1>1, <1>2, <1>3, <1>4
<1>6. Join(b, w, t) \in Seq(Seq(Nat)) /\ Len(Join(b, w, t)) = Len(b) + Len(w)
  BY <1>2, <1>5 DEF Join
<1>7. ASSUME NEW k \in 1..Len(b) PROVE k \in 1..(Len(b) + Len(w)) /\ Join(b, w, t)[k] = b[k]
  BY <1>2 DEF Join
<1>8. ASSUME NEW k \in 1..Len(w)
      PROVE  Len(b) + k \in 1..(Len(b) + Len(w)) /\ Join(b, w, t)[Len(b) + k] = Piece(w[k], t)
  <2>1. Len(b) + k \in 1..(Len(b) + Len(w)) /\ ~(Len(b) + k <= Len(b)) /\ (Len(b) + k) - Len(b) = k
    BY <1>2
  <2> QED BY <2>1 DEF Join
<1> QED BY <1>2, <1>4, <1>6, <1>7, <1>8 DEF IsJoin

\* The line of a stream is such a sequence.
LEMMA LineIs ==
    ASSUME Shape, NEW t \in Streams
    PROVE  IsJoin(Line(t), rcv[t].buf, wire, t)
BY JoinIs DEF Line, Shape

\* A frame that sendLoop puts on the wire.
LEMMA LineSent ==
    ASSUME Shape, Shape', NEW t \in Streams, NEW f \in Frames, wire' = Append(wire, f), rcv'[t].buf = rcv[t].buf
    PROVE  Line(t)' = Append(Line(t), Piece(f, t)) /\ Piece(f, t) \in Seq(Nat)
<1>1. Piece(f, t) \in Seq(Nat)
  BY DEF Frames, Piece
<1>2. PICK L : L = Line(t)
  OBVIOUS
<1>3. PICK K : K = Line(t)'
  OBVIOUS
<1>4. PICK b, w, v : b = rcv[t].buf /\ w = wire /\ v = wire'
  OBVIOUS
<1>5. b \in Seq(Seq(Nat)) /\ w \in Seq(Frames) /\ v \in Seq(Frames)
  BY <1>4 DEF Shape
<1>6. IsJoin(L, b, w, t) /\ IsJoin(K, b, v, t)
  <2>1. L = Join(b, w, t) /\ K = Join(b, v, t)
    BY <1>2, <1>3, <1>4 DEF Line
  <2> QED BY <1>5, <2>1, JoinIs
<1>7. /\ L \in Seq(Seq(Nat)) /\ Len(L) = Len(b) + Len(w) /\ Len(b) \in Nat /\ Len(w) \in Nat
      /\ \A k \in 1..Len(b) : k \in 1..Len(L) /\ L[k] = b[k]
      /\ \A k \in 1..Len(w) : Len(b) + k \in 1..Len(L) /\ L[Len(b) + k] = Piece(w[k], t)
  BY <1>6 DEF IsJoin
<1>8. /\ K \in Seq(Seq(Nat)) /\ Len(K) = Len(b) + Len(v) /\ Len(v) \in Nat
      /\ \A k \in 1..Len(b) : k \in 1..Len(K) /\ K[k] = b[k]
      /\ \A k \in 1..Len(v) : Len(b) + k \in 1..Len(K) /\ K[Len(b) + k] = Piece(v[k], t)
      /\ \A k \in 1..Len(K) : k \in 1..Len(b) \/ k - Len(b) \in 1..Len(v)
  BY <1>6 DEF IsJoin
<1>9. /\ Len(v) = Len(w) + 1 /\ v[Len(v)] = f /\ Len(v) \in 1..Len(v)
      /\ \A k \in 1..Len(v) : (k \in 1..Len(w) /\ v[k] = w[k]) \/ (k = Len(v) /\ v[k] = f)
  BY <1>4, <1>5, Behind
<1>10. PICK J : J = Append(L, Piece(f, t))
  OBVIOUS
<1>11. /\ J \in Seq(Seq(Nat)) /\ Len(J) = Len(L) + 1 /\ J[Len(J)] = Piece(f, t)
       /\ \A k \in 1..Len(L) : J[k] = L[k]
  BY <1>1, <1>7, <1>10
<1>12. Len(J) = Len(K)
  BY <1>7, <1>8, <1>9, <1>11
<1>13. ASSUME NEW k \in 1..Len(K) PROVE J[k] = K[k]
  <2>1. CASE k \in 1..Len(b)
    BY <1>7, <1>8, <1>11, <2>1
  <2>2. CASE k - Len(b) \in 1..Len(v)
    <3>1. PICK j \in 1..Len(v) : j = k - Len(b)
      BY <2>2
    <3>2. k = Len(b) + j
      BY <1>7, <3>1
    <3>3. K[k] = Piece(v[j], t)
      BY <1>8, <3>1, <3>2
    <3>4. CASE j \in 1..Len(w) /\ v[j] = w[j]
      <4>1. k \in 1..Len(L) /\ L[k] = Piece(w[j], t)
        BY <1>7, <3>2, <3>4
      <4> QED BY <1>11, <3>3, <3>4, <4>1
    <3>5. CASE j = Len(v) /\ v[j] = f
      <4>1. k = Len(J)
        BY <1>8, <1>12, <3>2, <3>5
      <4> QED BY <1>11, <3>3, <3>5, <4>1
    <3> QED BY <1>9, <3>4, <3>5
  <2> QED BY <1>8, <2>1, <2>2
<1>14. J = K
  BY <1>8, <1>11, <1>12, <1>13, SameSeq
<1> QED BY <1>1, <1>2, <1>3, <1>10, <1>14

\* recvLoop moves a frame into the buffers: the line is as it was.
LEMMA LinePushed ==
    ASSUME Shape, Shape', NEW t \in Streams, wire # << >>, wire' = Tail(wire), DataOf(Head(wire), t),
           rcv'[t].buf = Append(rcv[t].buf, Head(wire)[3])
    PROVE  Line(t)' = Line(t)
<1>1. PICK f \in Frames : f = Head(wire)
  BY DEF Shape
<1>2. f[3] \in Seq(Nat) /\ Piece(f, t) = f[3]
  BY <1>1 DEF Frames, Piece
<1>3. PICK L : L = Line(t)
  OBVIOUS
<1>4. PICK K : K = Line(t)'
  OBVIOUS
<1>5. PICK b, c, w, v : b = rcv[t].buf /\ c = rcv'[t].buf /\ w = wire /\ v = wire'
  OBVIOUS
<1>6. b \in Seq(Seq(Nat)) /\ c \in Seq(Seq(Nat)) /\ w \in Seq(Frames) /\ v \in Seq(Frames)
  BY <1>5 DEF Shape
<1>7. IsJoin(L, b, w, t) /\ IsJoin(K, c, v, t)
  <2>1. L = Join(b, w, t) /\ K = Join(c, v, t)
    BY <1>3, <1>4, <1>5 DEF Line
  <2> QED BY <1>6, <2>1, JoinIs
<1>8. /\ L \in Seq(Seq(Nat)) /\ Len(L) = Len(b) + Len(w) /\ Len(b) \in Nat /\ Len(w) \in Nat
      /\ \A k \in 1..Len(b) : k \in 1..Len(L) /\ L[k] = b[k]
      /\ \A k \in 1..Len(w) : Len(b) + k \in 1..Len(L) /\ L[Len(b) + k] = Piece(w[k], t)
  BY <1>7 DEF IsJoin
<1>9. /\ K \in Seq(Seq(Nat)) /\ Len(K) = Len(c) + Len(v) /\ Len(v) \in Nat /\ Len(c) \in Nat
      /\ \A k \in 1..Len(c) : k \in 1..Len(K) /\ K[k] = c[k]
      /\ \A k \in 1..Len(v) : Len(c) + k \in 1..Len(K) /\ K[Len(c) + k] = Piece(v[k], t)
      /\ \A k \in 1..Len(K) : k \in 1..Len(c) \/ k - Len(c) \in 1..Len(v)
  BY <1>7 DEF IsJoin
<1>10. /\ Len(w) = Len(v) + 1 /\ w[1] = f /\ 1 \in 1..Len(w)
       /\ \A k \in 1..Len(v) : k + 1 \in 1..Len(w) /\ v[k] = w[k + 1]
  BY <1>1, <1>5, <1>6, Without
<1>11. /\ Len(c) = Len(b) + 1
       /\ \A k \in 1..Len(c) : (k \in 1..Len(b) /\ c[k] = b[k]) \/ (k = Len(c) /\ c[k] = f[3])
  BY <1>1, <1>2, <1>5, <1>6, Behind
<1>12. Len(L) = Len(K)
  BY <1>8, <1>9, <1>10, <1>11
<1>13. ASSUME NEW k \in 1..Len(K) PROVE L[k] = K[k]
  <2>1. CASE k \in 1..Len(c)
    <3>1. CASE k \in 1..Len(b) /\ c[k] = b[k]
      BY <1>8, <1>9, <2>1, <3>1
    <3>2. CASE k = Len(c) /\ c[k] = f[3]
      <4>1. k = Len(b) + 1
        BY <1>11, <3>2
      <4>2. L[k] = Piece(w[1], t)
        BY <1>8, <1>10, <4>1
      <4> QED BY <1>2, <1>9, <1>10, <2>1, <3>2, <4>2
    <3> QED BY <1>11, <2>1, <3>1, <3>2
  <2>2. CASE k - Len(c) \in 1..Len(v)
    <3>1. PICK j \in 1..Len(v) : j = k - Len(c)
      BY <2>2
    <3>2. k = Len(c) + j /\ k = Len(b) + (j + 1)
      BY <1>8, <1>9, <1>11, <3>1
    <3>3. K[k] = Piece(v[j], t)
      BY <1>9, <3>1, <3>2
    <3>4. j + 1 \in 1..Len(w) /\ v[j] = w[j + 1]
      BY <1>10, <3>1
    <3>5. L[k] = Piece(w[j + 1], t)
      BY <1>8, <3>2, <3>4
    <3> QED BY <3>3, <3>4, <3>5
  <2> QED BY <1>9, <2>1, <2>2
<1> QED BY <1>3, <1>4, <1>8, <1>9, <1>12, <1>13, SameSeq

\* recvLoop takes a frame that is not data of t.
LEMMA LineUnread ==
    ASSUME Shape, Shape', NEW t \in Streams, wire # << >>, wire' = Tail(wire), ~DataOf(Head(wire), t),
           rcv'[t].buf = rcv[t].buf, NEW g \in Nat, NEW n \in 1..(Total + 1)
    PROVE  /\ LineOK(Line(t), g, n) => LineOK(Line(t)', g, n)
           /\ LineBefore(Line(t), g, n) => LineBefore(Line(t)', g, n)
<1>1. PICK L : L = Line(t)
  OBVIOUS
<1>2. PICK K : K = Line(t)'
  OBVIOUS
<1>3. PICK b, w, v : b = rcv[t].buf /\ w = wire /\ v = wire'
  OBVIOUS
<1>4. b \in Seq(Seq(Nat)) /\ w \in Seq(Frames) /\ v \in Seq(Frames)
  BY <1>3 DEF Shape
<1>5. IsJoin(L, b, w, t) /\ IsJoin(K, b, v, t)
  <2>1. L = Join(b, w, t) /\ K = Join(b, v, t)
    BY <1>1, <1>2, <1>3 DEF Line
  <2> QED BY <1>4, <2>1, JoinIs
<1>6. /\ L \in Seq(Seq(Nat)) /\ Len(L) = Len(b) + Len(w) /\ Len(b) \in Nat /\ Len(w) \in Nat
      /\ \A k \in 1..Len(b) : k \in 1..Len(L) /\ L[k] = b[k]
      /\ \A k \in 1..Len(w) : Len(b) + k \in 1..Len(L) /\ L[Len(b) + k] = Piece(w[k], t)
  BY <1>5 DEF IsJoin
<1>7. /\ K \in Seq(Seq(Nat)) /\ Len(K) = Len(b) + Len(v) /\ Len(v) \in Nat
      /\ \A k \in 1..Len(b) : k \in 1..Len(K) /\ K[k] = b[k]
      /\ \A k \in 1..Len(v) : Len(b) + k \in 1..Len(K) /\ K[Len(b) + k] = Piece(v[k], t)
      /\ \A k \in 1..Len(K) : k \in 1..Len(b) \/ k - Len(b) \in 1..Len(v)
  BY <1>5 DEF IsJoin
<1>8. /\ Len(w) = Len(v) + 1 /\ w[1] = Head(wire) /\ 1 \in 1..Len(w)
      /\ \A k \in 1..Len(v) : k + 1 \in 1..Len(w) /\ v[k] = w[k + 1]
  BY <1>3, <1>4, Without
<1>9. PICK m \in 1..Len(L) : m = Len(b) + 1 /\ L[m] = Piece(w[1], t)
  BY <1>6, <1>8
<1>10. Len(L[m]) = 0
  BY <1>8, <1>9 DEF Piece
<1>11. Len(L) = Len(K) + 1
  BY <1>6, <1>7, <1>8
<1>12. ASSUME NEW k \in 1..Len(K) PROVE K[k] = IF k < m THEN L[k] ELSE L[k + 1]
  <2>1. CASE k \in 1..Len(b)
    <3>1. k < m
      BY <1>6, <1>9, <2>1
    <3> QED BY <1>6, <1>7, <2>1, <3>1
  <2>2. CASE k - Len(b) \in 1..Len(v)
    <3>1. PICK j \in 1..Len(v) : j = k - Len(b)
      BY <2>2
    <3>2. k = Len(b) + j /\ k + 1 = Len(b) + (j + 1) /\ ~(k < m)
      BY <1>6, <1>9, <3>1
    <3>3. K[k] = Piece(v[j], t)
      BY <1>7, <3>1, <3>2
    <3>4. j + 1 \in 1..Len(w) /\ v[j] = w[j + 1]
      BY <1>8, <3>1
    <3>5. L[k + 1] = Piece(w[j + 1], t)
      BY <1>6, <3>2, <3>4
    <3> QED BY <3>2, <3>3, <3>4, <3>5
  <2> QED BY <1>7, <2>1, <2>2
<1>13. /\ LineOK(L, g, n) => LineOK(K, g, n)
       /\ LineBefore(L, g, n) => LineBefore(K, g, n)
  BY <1>6, <1>7, <1>10, <1>11, <1>12, WithoutEmpty
<1> QED BY <1>1, <1>2, <1>13

\* What Read leaves of a piece,
LEMMA RestIsSeq ==
    ASSUME NEW q \in Seq(Nat), NEW m \in 1..Len(q)
    PROVE  SubSeq(q, m + 1, Len(q)) \in Seq(Nat)
<1>1. Len(q) \in Nat /\ m + 1 \in 1..(Len(q) + 1)
  OBVIOUS
<1>2. \A i \in (m + 1)..Len(q) : q[i] \in Nat
  OBVIOUS
<1> QED BY <1>1, <1>2

\* and a piece put in front.
LEMMA Prepended ==
    ASSUME NEW S, NEW x \in S, NEW u \in Seq(S)
    PROVE  /\ <<x>> \o u \in Seq(S) /\ Len(<<x>> \o u) = Len(u) + 1 /\ (<<x>> \o u)[1] = x
           /\ \A k \in 1..Len(u) : (<<x>> \o u)[k + 1] = u[k]
<1>1. <<x>> \in Seq(S) /\ Len(<<x>>) = 1 /\ <<x>>[1] = x /\ Len(u) \in Nat
  OBVIOUS
<1>2. Len(<<x>> \o u) = Len(u) + 1
  BY <1>1
<1>3. (<<x>> \o u)[1] = x
  BY <1>1
<1>4. ASSUME NEW k \in 1..Len(u) PROVE (<<x>> \o u)[k + 1] = u[k]
  <2>1. k + 1 \in 1..(Len(u) + 1) /\ ~(k + 1 <= 1) /\ (k + 1) - 1 = k
    BY <1>1
  <2> QED BY <1>1, <2>1
<1> QED BY <1>1, <1>2, <1>3, <1>4

\* The first piece of the line is the first buffer.
LEMMA FirstPiece ==
    ASSUME NEW b \in Seq(Seq(Nat)), NEW w \in Seq(Frames), NEW t, NEW L, IsJoin(L, b, w, t), Len(b) > 0
    PROVE  L[1] = b[1] /\ Len(L) > 0 /\ 1 \in 1..Len(L) /\ L \in Seq(Seq(Nat))
BY DEF IsJoin

\* Read takes some bytes of the first piece,
LEMMA JoinTrimmed ==
    ASSUME NEW b \in Seq(Seq(Nat)), NEW c \in Seq(Seq(Nat)), NEW w \in Seq(Frames), NEW t,
           NEW L, IsJoin(L, b, w, t), NEW K, IsJoin(K, c, w, t),
           NEW g \in Nat, NEW n \in 1..(Total + 1), LineOK(L, g, n),
           Len(b) > 0, Len(c) = Len(b), NEW m \in 1..Len(b[1]), c[1] = SubSeq(b[1], m + 1, Len(b[1])),
           \A k \in 2..Len(b) : c[k] = b[k]
    PROVE  LineOK(K, g + m, n) /\ (LineBefore(L, g, n) => LineBefore(K, g + m, n))
<1>1. L[1] = b[1] /\ Len(L) > 0 /\ 1 \in 1..Len(L) /\ L \in Seq(Seq(Nat))
  BY FirstPiece
<1>a. 1 \in 1..Len(c)
  OBVIOUS
<1>2. K[1] = c[1] /\ K \in Seq(Seq(Nat))
  BY <1>a DEF IsJoin
<1>3. Len(K) = Len(L) /\ Len(b) \in Nat /\ Len(L) = Len(b) + Len(w) /\ Len(w) \in Nat
  BY DEF IsJoin
<1>4. ASSUME NEW k \in 2..Len(L) PROVE K[k] = L[k]
  <2>1. k \in 1..Len(L) /\ k # 1
    BY <1>3
  <2>2. CASE k \in 1..Len(b)
    <3>1. k \in 2..Len(b) /\ k \in 1..Len(c)
      BY <1>3, <2>1, <2>2
    <3>2. K[k] = c[k] /\ L[k] = b[k]
      BY <2>2, <3>1 DEF IsJoin
    <3> QED BY <3>1, <3>2
  <2>3. CASE k - Len(b) \in 1..Len(w)
    <3>1. PICK j \in 1..Len(w) : j = k - Len(b)
      BY <2>3
    <3>2. k = Len(b) + j /\ k = Len(c) + j
      BY <1>3, <3>1
    <3>3. L[k] = Piece(w[j], t) /\ K[k] = Piece(w[j], t)
      BY <3>1, <3>2 DEF IsJoin
    <3> QED BY <3>3
  <2> QED BY <2>1, <2>2, <2>3 DEF IsJoin
<1> QED BY <1>1, <1>2, <1>3, <1>4, HeadTrimmed

\* or all of them.
LEMMA JoinEmptied ==
    ASSUME NEW b \in Seq(Seq(Nat)), NEW c \in Seq(Seq(Nat)), NEW w \in Seq(Frames), NEW t,
           NEW L, IsJoin(L, b, w, t), NEW K, IsJoin(K, c, w, t),
           NEW g \in Nat, NEW n \in 1..(Total + 1), LineOK(L, g, n),
           Len(b) > 0, Len(b) = Len(c) + 1, NEW m \in 1..Len(b[1]), m = Len(b[1]),
           \A k \in 1..Len(c) : c[k] = b[k + 1]
    PROVE  LineOK(K, g + m, n) /\ (LineBefore(L, g, n) => LineBefore(K, g + m, n))
<1>1. L[1] = b[1] /\ Len(L) > 0 /\ 1 \in 1..Len(L) /\ L \in Seq(Seq(Nat))
  BY FirstPiece
<1>2. K \in Seq(Seq(Nat)) /\ Len(L) = Len(K) + 1 /\ Len(b) \in Nat /\ Len(w) \in Nat /\ Len(K) \in Nat /\ Len(c) \in Nat
  BY DEF IsJoin
<1>3. PICK J : J = [k \in 1..Len(L) |-> IF k = 1 THEN << >> ELSE L[k]]
  OBVIOUS
<1>4. J \in Seq(Seq(Nat)) /\ Len(J) = Len(L) /\ \A k \in 1..Len(L) : J[k] = IF k = 1 THEN << >> ELSE L[k]
  <2>1. \A k \in 1..Len(L) : (IF k = 1 THEN << >> ELSE L[k]) \in Seq(Nat)
    BY <1>1
  <2> QED BY <1>1, <1>3, <2>1
<1>5. L[1] \in Seq(Nat) /\ m = Len(L[1]) /\ m \in Nat /\ m \in 1..Len(L[1])
  BY <1>1
<1>6. SubSeq(L[1], m + 1, Len(L[1])) = << >>
  BY <1>5
<1>7. J[1] = SubSeq(L[1], m + 1, Len(L[1]))
  BY <1>1, <1>4, <1>6
<1>8. \A k \in 2..Len(L) : J[k] = L[k]
  <2>1. \A k \in 2..Len(L) : k \in 1..Len(L) /\ k # 1
    BY <1>2
  <2> QED BY <1>4, <2>1
<1>9. LineOK(J, g + m, n) /\ (LineBefore(L, g, n) => LineBefore(J, g + m, n))
  BY <1>1, <1>4, <1>5, <1>7, <1>8, HeadTrimmed
<1>10. Len(J) = Len(K) + 1 /\ 1 \in 1..Len(J) /\ Len(J[1]) = 0
  <2>1. J[1] = << >>
    BY <1>1, <1>4
  <2>2. Len(J[1]) = 0
    BY <2>1
  <2> QED BY <1>1, <1>2, <1>4, <2>2
<1>11. ASSUME NEW k \in 1..Len(K) PROVE K[k] = IF k < 1 THEN J[k] ELSE J[k + 1]
  <2>1. k + 1 \in 1..Len(L) /\ k + 1 # 1 /\ ~(k < 1)
    BY <1>2
  <2>2. J[k + 1] = L[k + 1]
    BY <1>4, <2>1
  <2>3. CASE k \in 1..Len(c)
    <3>1. k + 1 \in 1..Len(b) /\ c[k] = b[k + 1]
      BY <1>2, <2>3
    <3>2. K[k] = c[k] /\ L[k + 1] = b[k + 1]
      BY <2>3, <3>1 DEF IsJoin
    <3> QED BY <2>1, <2>2, <3>1, <3>2
  <2>4. CASE k - Len(c) \in 1..Len(w)
    <3>1. PICK j \in 1..Len(w) : j = k - Len(c)
      BY <2>4
    <3>2. k = Len(c) + j /\ k + 1 = Len(b) + j
      BY <1>2, <3>1
    <3>3. K[k] = Piece(w[j], t) /\ L[k + 1] = Piece(w[j], t)
      BY <3>1, <3>2 DEF IsJoin
    <3> QED BY <2>1, <2>2, <3>3
  <2> QED BY <2>3, <2>4 DEF IsJoin
<1>12. g + m \in Nat
  BY <1>5
<1>13. /\ LineOK(J, g + m, n) => LineOK(K, g + m, n)
       /\ LineBefore(J, g + m, n) => LineBefore(K, g + m, n)
  BY <1>2, <1>4, <1>10, <1>11, <1>12, WithoutEmpty
<1> QED BY <1>9, <1>13

\* What Read takes is what comes next, and the rest of the line follows it.
LEMMA LineTaken ==
    ASSUME Shape, Shape', NEW t \in Streams, wire' = wire, rcv[t].buf # << >>, NEW m \in 1..Len(Head(rcv[t].buf)),
           rcv'[t].buf = IF m = Len(Head(rcv[t].buf)) THEN Tail(rcv[t].buf)
                         ELSE <<SubSeq(Head(rcv[t].buf), m + 1, Len(Head(rcv[t].buf)))>> \o Tail(rcv[t].buf),
           NEW g \in Nat, NEW n \in 1..(Total + 1), LineOK(Line(t), g, n)
    PROVE  /\ Head(rcv[t].buf) \in Seq(Nat) /\ Head(rcv[t].buf)[1] = g + 1 /\ Run(Head(rcv[t].buf))
           /\ LineOK(Line(t)', g + m, n)
           /\ LineBefore(Line(t), g, n) => LineBefore(Line(t)', g + m, n)
<1>1. PICK b : b = rcv[t].buf
  OBVIOUS
<1>2. PICK c : c = rcv'[t].buf
  OBVIOUS
<1>3. b \in Seq(Seq(Nat)) /\ c \in Seq(Seq(Nat)) /\ wire \in Seq(Frames) /\ b # << >>
  BY <1>1, <1>2 DEF Shape
<1>4. IsJoin(Line(t), b, wire, t)
  BY <1>1, LineIs
<1>5. IsJoin(Line(t)', c, wire, t)
  <2>1. Line(t)' = Join(c, wire, t)
    BY <1>2 DEF Line
  <2> QED BY <1>3, <2>1, JoinIs
<1>6. /\ Len(Tail(b)) \in Nat /\ Len(b) = Len(Tail(b)) + 1 /\ Tail(b) \in Seq(Seq(Nat)) /\ Head(b) = b[1]
      /\ \A k \in 1..Len(Tail(b)) : k + 1 \in 1..Len(b) /\ Tail(b)[k] = b[k + 1]
      /\ \A k \in 1..Len(b) : k # 1 => k - 1 \in 1..Len(Tail(b)) /\ Tail(b)[k - 1] = b[k]
  BY <1>3, Without
<1>7. b[1] \in Seq(Nat) /\ Len(b) > 0 /\ m \in 1..Len(b[1]) /\ Len(b[1]) \in Nat /\ Len(b[1]) > 0
  <2>1. 1 \in 1..Len(b) /\ m \in 1..Len(b[1])
    BY <1>1, <1>6
  <2>2. b[1] \in Seq(Nat)
    BY <1>3, <2>1
  <2> QED BY <1>6, <2>1, <2>2, SMTT(30)
<1>8. b[1][1] = g + 1 /\ Run(b[1])
  <2>1. Line(t)[1] = b[1] /\ Len(Line(t)) > 0 /\ 1 \in 1..Len(Line(t)) /\ Line(t) \in Seq(Seq(Nat))
    BY <1>3, <1>4, <1>7, FirstPiece
  <2>4. PICK L \in Seq(Seq(Nat)) : L = Line(t)
    BY <2>1
  <2>5. LineOK(L, g, n) /\ Len(L) > 0 /\ Len(L[1]) > 0
    BY <1>7, <2>1, <2>4
  <2>2. Line(t)[1][1] = g + 1
    BY <2>4, <2>5, HeadIsNext
  <2>3. Run(Line(t)[1])
    BY <2>1 DEF LineOK
  <2> QED BY <2>1, <2>2, <2>3
<1>9. CASE m = Len(b[1])
  <2>1. c = Tail(b)
    BY <1>1, <1>2, <1>6, <1>9
  <2>2. Len(b) = Len(c) + 1 /\ \A k \in 1..Len(c) : c[k] = b[k + 1]
    BY <1>6, <2>1
  <2>3. LineOK(Line(t)', g + m, n) /\ (LineBefore(Line(t), g, n) => LineBefore(Line(t)', g + m, n))
    BY <1>3, <1>4, <1>5, <1>7, <1>9, <2>2, JoinEmptied
  <2> QED BY <1>1, <1>6, <1>7, <1>8, <2>3
<1>10. CASE m # Len(b[1])
  <2>1. PICK x : x = SubSeq(b[1], m + 1, Len(b[1]))
    OBVIOUS
  <2>2. c = <<x>> \o Tail(b)
    BY <1>1, <1>2, <1>6, <1>10, <2>1
  <2>3. x \in Seq(Nat)
    BY <1>7, <2>1, RestIsSeq
  <2>4. Len(c) = Len(Tail(b)) + 1 /\ c[1] = x /\ \A k \in 1..Len(Tail(b)) : c[k + 1] = Tail(b)[k]
    BY <1>6, <2>2, <2>3, Prepended
  <2>5. ASSUME NEW k \in 2..Len(b) PROVE c[k] = b[k]
    <3>1. k \in 1..Len(b) /\ k # 1 /\ (k - 1) + 1 = k
      BY <1>6
    <3> QED BY <1>6, <2>4, <3>1
  <2>6. Len(c) = Len(b) /\ c[1] = SubSeq(b[1], m + 1, Len(b[1]))
    BY <1>6, <2>1, <2>4
  <2>7. LineOK(Line(t)', g + m, n) /\ (LineBefore(Line(t), g, n) => LineBefore(Line(t)', g + m, n))
    BY <1>3, <1>4, <1>5, <1>7, <2>5, <2>6, JoinTrimmed
  <2> QED BY <1>1, <1>6, <1>7, <1>8, <2>7
<1> QED BY <1>9, <1>10

-----------------------------------------------------------------------------
(* Every step keeps the invariant of every stream.                            *)

\* A line that keeps its pieces keeps its meaning.
LEMMA LinesKept ==
    ASSUME NEW t \in Streams, Lines(t), rcv'[t].got = rcv[t].got, snd'[t].next = snd[t].next,
           rcv'[t].close # "done" => rcv[t].close # "done",
           snd'[t].ok \/ DataQueued(t)' => snd[t].ok \/ DataQueued(t),
           LineOK(Line(t), Len(rcv[t].got), snd[t].next) => LineOK(Line(t)', Len(rcv[t].got), snd[t].next),
           LineBefore(Line(t), Len(rcv[t].got), snd[t].next)
              => LineBefore(Line(t)', Len(rcv[t].got), snd[t].next)
    PROVE  Lines(t)'
<1> SUFFICES ASSUME rcv'[t].close # "done"
             PROVE  /\ LineOK(Line(t)', Len(rcv'[t].got), snd'[t].next)
                    /\ snd'[t].ok \/ DataQueued(t)' => LineBefore(Line(t)', Len(rcv'[t].got), snd'[t].next)
  BY DEF Lines
<1>1. LineOK(Line(t), Len(rcv[t].got), snd[t].next)
      /\ (snd[t].ok \/ DataQueued(t) => LineBefore(Line(t), Len(rcv[t].got), snd[t].next))
  BY DEF Lines
<1>2. LineOK(Line(t)', Len(rcv'[t].got), snd'[t].next)
  BY <1>1
<1>3. ASSUME snd'[t].ok \/ DataQueued(t)' PROVE LineBefore(Line(t)', Len(rcv'[t].got), snd'[t].next)
  <2>1. LineBefore(Line(t), Len(rcv[t].got), snd[t].next)
    BY <1>1, <1>3
  <2>2. LineBefore(Line(t)', Len(rcv[t].got), snd[t].next)
    BY <2>1
  <2> QED BY <2>2
<1> QED BY <1>2, <1>3

\* The writer of t stands where it stood.
Stands(t) ==
    /\ snd'[t].pc = snd[t].pc /\ snd'[t].next = snd[t].next
    /\ snd'[t].ok = snd[t].ok /\ snd'[t].bts = snd[t].bts

\* Its place in Write is as it was,
LEMMA WriterMeansKept ==
    ASSUME NEW t \in Streams, WriterMeans(snd[t]), Stands(t)
    PROVE  WriterMeans(snd'[t]) /\ Keeps(t)
<1>1. WriterMeans(snd'[t])
  BY DEF WriterMeans, Stands
<1>2. Keeps(t)
  BY DEF Keeps, Stands
<1> QED BY <1>1, <1>2

\* and so is a reader's in Read.
LEMMA ReaderMeansKept ==
    ASSUME NEW t \in Streams, ReaderMeans(rcv[t]), Rests(t)
    PROVE  ReaderMeans(rcv'[t])
BY DEF ReaderMeans, Rests

\* A step about other streams keeps the invariant of t.
LEMMA AsideKeeps ==
    ASSUME NEW t \in Streams, StreamInv(t), Stands(t), Rests(t), NEW d1, NEW d2, NEW d3,
           Shift(shaper.ctrl, shaper'.ctrl, d1, t), Shift(shaper.data, shaper'.data, d2, t),
           Shift(wire, wire', d3, t),
           LineOK(Line(t), Len(rcv[t].got), snd[t].next) => LineOK(Line(t)', Len(rcv[t].got), snd[t].next),
           LineBefore(Line(t), Len(rcv[t].got), snd[t].next)
              => LineBefore(Line(t)', Len(rcv[t].got), snd[t].next)
    PROVE  StreamInv(t)'
<1>1. WriterMeans(snd'[t]) /\ Keeps(t)
  BY WriterMeansKept DEF StreamInv
<1>2. ReaderMeans(rcv'[t])
  BY ReaderMeansKept DEF StreamInv
<1>3. OneQueued(t)'
  BY <1>1, OneQueuedShift DEF StreamInv
<1>4. DataQueued(t)' <=> DataQueued(t)
  BY HasShift
<1>5. Lines(t)'
  <2>1. Lines(t)
    BY DEF StreamInv
  <2>2. rcv'[t].got = rcv[t].got /\ rcv'[t].close = rcv[t].close
    BY DEF Rests
  <2>3. snd'[t].next = snd[t].next /\ snd'[t].ok = snd[t].ok
    BY DEF Stands
  <2> QED BY <1>4, <2>1, <2>2, <2>3, LinesKept
<1>6. SynOnce(t)'
  <2>1. rcv'[t].known = rcv[t].known /\ rcv'[t].close = rcv[t].close
    BY DEF Rests
  <2>2. snd'[t].pc = snd[t].pc
    BY DEF Stands
  <2>3. SynOnce(t)
    BY DEF StreamInv
  <2> QED BY <2>1, <2>2, <2>3, SynOnceShift
<1>7. SynFirst(t)'
  <2>1. Started(t)' <=> Started(t)
    BY DEF Rests, Started
  <2>2. snd'[t].pc = snd[t].pc
    BY DEF Stands
  <2>3. SynFirst(t)
    BY DEF StreamInv
  <2> QED BY <2>1, <2>2, <2>3, SynFirstShift
<1>8. FinLast(t)'
  <2>1. rcv'[t].fin = rcv[t].fin
    BY DEF Rests
  <2>2. FinLast(t)
    BY DEF StreamInv
  <2> QED BY <1>1, <2>1, <2>2, FinLastShift
<1>9. EOFMeans(t)'
  BY DEF StreamInv, EOFMeans, Rests, Stands
<1> QED BY <1>1, <1>2, <1>3, <1>5, <1>6, <1>7, <1>8, <1>9 DEF StreamInv

\* Nothing of t is on the move.
LEMMA StillKeeps ==
    ASSUME NEW t \in Streams, Shape, StreamInv(t), Stands(t), Rests(t), NEW d1, NEW d2,
           Shift(shaper.ctrl, shaper'.ctrl, d1, t), Shift(shaper.data, shaper'.data, d2, t), wire' = wire
    PROVE  StreamInv(t)'
<1>1. Shift(wire, wire', 0, t)
  BY ShiftSame DEF Shape
<1>2. Line(t)' = Line(t)
  BY DEF Line, Rests
<1> QED BY <1>1, <1>2, AsideKeeps

\* Answers that reach the writing end (recvLoop, update) keep the invariant.
LEMMA ToldKeeps ==
    ASSUME EOFInv, RecvBack \/ StoreWindow
    PROVE  EOFInv'
<1>1. Shape /\ Numbers /\ Queues /\ \A t \in Streams : StreamInv(t)
  BY DEF EOFInv
<1>2. /\ DOMAIN snd' = Streams /\ UNCHANGED <<shaper, wire, recv, rcv>>
      /\ \A t \in Streams : DOMAIN snd'[t] = sndFields
      /\ back' \in Seq(Answers) /\ (upd' # None => upd'.s \in Streams /\ upd'.w \in Int)
  BY ToldSteps
<1>3. \A t \in Streams : Stands(t)
  BY ToldSteps DEF Stands
<1>4. \A t \in Streams : /\ snd'[t].inflight \in Int /\ snd'[t].numWritten \in Int
                         /\ snd'[t].peerConsumed \in Int /\ snd'[t].peerWindow \in Int
  BY ToldSteps
<1>5. Shape'
  BY <1>1, <1>2 DEF Shape
<1>6. Numbers'
  BY <1>1, <1>2, <1>4 DEF Numbers
<1>7. Queues'
  BY <1>1, <1>2 DEF Queues
<1>8. ASSUME NEW t \in Streams PROVE StreamInv(t)'
  <2>1. Rests(t)
    BY <1>2 DEF Rests
  <2>2. Shift(shaper.ctrl, shaper'.ctrl, 0, t) /\ Shift(shaper.data, shaper'.data, 0, t)
    BY <1>1, <1>2, ShiftSame DEF Shape
  <2> QED BY <1>1, <1>2, <1>3, <2>1, <2>2, StillKeeps
<1> QED BY <1>5, <1>6, <1>7, <1>8 DEF EOFInv

\* recvLoop's wait for tokens, and its taking them, keep it.
LEMMA TokensKeep ==
    ASSUME EOFInv, RecvWait \/ TakeTokens
    PROVE  EOFInv'
<1>1. Shape /\ Numbers /\ Queues /\ \A t \in Streams : StreamInv(t)
  BY DEF EOFInv
<1>2. /\ DOMAIN rcv' = Streams /\ (\A t \in Streams : DOMAIN rcv'[t] = rcvFields)
      /\ (\A t \in Streams : Counters(rcv'[t]))
      /\ UNCHANGED <<snd, shaper, upd, wire, back>>
      /\ recv'.pc # "pushed"
  BY TokenSteps
<1>3. \A t \in Streams : Rests(t)
  BY TokenSteps
<1>4. \A t \in Streams : rcv'[t].buf \in Seq(Seq(Nat)) /\ rcv'[t].got \in Seq(Nat)
  BY <1>1, <1>3 DEF Rests, Shape
<1>5. Shape'
  BY <1>1, <1>2, <1>4 DEF Shape
<1>6. Numbers'
  BY <1>1, <1>2 DEF Numbers
<1>7. Queues'
  BY <1>1, <1>2 DEF Queues
<1>8. ASSUME NEW t \in Streams PROVE StreamInv(t)'
  <2>1. Stands(t)
    BY <1>2 DEF Stands
  <2>2. Shift(shaper.ctrl, shaper'.ctrl, 0, t) /\ Shift(shaper.data, shaper'.data, 0, t)
    BY <1>1, <1>2, ShiftSame DEF Shape
  <2> QED BY <1>1, <1>2, <1>3, <2>1, <2>2, StillKeeps
<1> QED BY <1>5, <1>6, <1>7, <1>8 DEF EOFInv

\* The writer's own stream: what it has not sent does not change the line.
LEMMA WriterLine ==
    ASSUME NEW s \in Streams, Lines(s), wire' = wire, rcv' = rcv, snd'[s].next = snd[s].next,
           snd'[s].ok \/ DataQueued(s)' => snd[s].ok \/ DataQueued(s)
    PROVE  Lines(s)'
<1>1. Line(s)' = Line(s)
  BY DEF Line
<1> QED BY <1>1, LinesKept

\* The frames that OpenStreamWithin and Close queue,
LEMMA ControlFrames ==
    ASSUME NEW s \in Streams
    PROVE  <<"SYN", s, << >>>> \in Frames /\ <<"FIN", s, << >>>> \in Frames
<1>1. << >> \in Seq(Nat)
  OBVIOUS
<1> QED BY <1>1 DEF Frames

\* and those of writeV2: the next bytes, in order.
LEMMA FrameIs ==
    ASSUME NEW s \in Streams, NEW r, r.bts \in Nat \ {0}, r.next \in Nat
    PROVE  /\ Frame(s, r) \in Frames /\ Frame(s, r)[1] = "PSH" /\ Frame(s, r)[2] = s
           /\ Len(Frame(s, r)[3]) = Size(r) /\ Size(r) > 0 /\ Frame(s, r)[3][1] = r.next /\ Run(Frame(s, r)[3])
<1>1. PICK n \in Nat : n = Size(r) /\ n > 0
  BY FrameSizes DEF Size
<1>2. PICK p : p = [i \in 1..n |-> r.next + i - 1]
  OBVIOUS
<1>3. p \in Seq(Nat) /\ Len(p) = n
  <2>1. \A i \in 1..n : r.next + i - 1 \in Nat
    OBVIOUS
  <2> QED BY <1>1, <1>2, <2>1
<1>4. \A i \in 1..n : p[i] = r.next + i - 1
  BY <1>2
<1>5. p[1] = r.next
  BY <1>1, <1>4
<1>6. Run(p)
  BY <1>3, <1>4, <1>5 DEF Run
<1>7. Frame(s, r) = <<"PSH", s, p>>
  BY <1>1, <1>2 DEF Frame
<1> QED BY <1>1, <1>3, <1>5, <1>6, <1>7 DEF Frames

\* A writer that looks, sleeps or fails keeps the invariant of its stream,
LEMMA GoesOrStopsKeeps ==
    ASSUME Shape, NEW s \in Streams, StreamInv(s), Goes(s) \/ Stops(s), wire' = wire, rcv' = rcv
    PROVE  StreamInv(s)'
<1>1. WriterMeans(snd[s]) /\ OneQueued(s) /\ Lines(s) /\ SynOnce(s) /\ SynFirst(s) /\ FinLast(s)
      /\ ReaderMeans(rcv[s]) /\ EOFMeans(s)
  BY DEF StreamInv
<1>2. shaper' = shaper /\ snd'[s].next = snd[s].next /\ (snd'[s].ok => snd[s].ok)
      /\ snd[s].pc \in {"reg", "look", "win", "sleep", "wait"} /\ snd'[s].pc \in {"look", "win", "sleep", "close"}
      /\ (snd[s].pc = "wait" => snd'[s].pc = "close" /\ ~snd'[s].ok)
      /\ (snd'[s].pc = "close" => ~snd'[s].ok)
      /\ (snd'[s].pc # "close" => snd'[s].ok = snd[s].ok)
  BY DEF Goes, Stops
<1>3. Shift(shaper.ctrl, shaper'.ctrl, 0, s) /\ Shift(shaper.data, shaper'.data, 0, s) /\ Shift(wire, wire', 0, s)
  BY <1>2, ShiftSame DEF Shape
<1>4. Keeps(s)
  BY <1>2 DEF Keeps, Closing
<1>5. WriterMeans(snd'[s])
  <2>1. snd'[s].pc \in Waiting => snd'[s].ok
    BY <1>1, <1>2 DEF WriterMeans, Waiting
  <2>2. snd'[s].ok => snd'[s].pc \notin Closing
    BY <1>2 DEF Closing
  <2>3. snd'[s].next \in 1..(Total + 1)
    BY <1>1, <1>2 DEF WriterMeans
  <2> QED BY <1>2, <2>1, <2>2, <2>3 DEF WriterMeans, Waiting, Closing
<1>6. OneQueued(s)'
  BY <1>1, <1>3, <1>4, OneQueuedShift
<1>7. Lines(s)'
  <2>1. DataQueued(s)' <=> DataQueued(s)
    BY <1>2 DEF DataQueued
  <2> QED BY <1>1, <1>2, <2>1, WriterLine
<1>8. SynOnce(s)'
  <2>1. snd'[s].pc # "open"
    BY <1>2
  <2> QED BY <1>1, <1>3, <2>1, SynOnceShift
<1>9. SynFirst(s)'
  <2>1. snd[s].pc \notin {"open", "syn", "done"}
    BY <1>2
  <2>2. Started(s)' <=> Started(s)
    BY DEF Started
  <2> QED BY <1>1, <1>3, <2>1, <2>2, SynFirstShift
<1>10. FinLast(s)'
  BY <1>1, <1>3, <1>4, FinLastShift
<1>11. EOFMeans(s)'
  BY <1>1, <1>2 DEF EOFMeans
<1> QED BY <1>1, <1>5, <1>6, <1>7, <1>8, <1>9, <1>10, <1>11 DEF StreamInv

\* one that queues the SYN does,
LEMMA OpensKeeps ==
    ASSUME Shape, NEW s \in Streams, StreamInv(s), Opens(s), wire' = wire, rcv' = rcv
    PROVE  StreamInv(s)'
<1>1. WriterMeans(snd[s]) /\ OneQueued(s) /\ Lines(s) /\ SynOnce(s) /\ SynFirst(s) /\ FinLast(s)
      /\ ReaderMeans(rcv[s]) /\ EOFMeans(s)
  BY DEF StreamInv
<1>2. snd'[s].next = snd[s].next /\ snd'[s].ok = snd[s].ok /\ snd[s].pc = "open" /\ snd'[s].pc = "syn"
  BY DEF Opens
<1>3. PICK f \in Frames : f = <<"SYN", s, << >>>>
  BY ControlFrames
<1>4. f[1] = "SYN" /\ f[2] = s
  BY <1>3
<1>5. shaper'.ctrl = Append(shaper.ctrl, f) /\ shaper'.data = shaper.data
  BY <1>3, QueuedIs DEF Opens
<1>6. PICK q, r : q = shaper.ctrl /\ r = shaper'.ctrl
  OBVIOUS
<1>7. /\ r \in Seq(Frames) /\ Len(r) = Len(q) + 1 /\ Len(q) \in Nat /\ Len(r) \in 1..Len(r) /\ r[Len(r)] = f
      /\ \A k \in 1..Len(r) : (k \in 1..Len(q) /\ r[k] = q[k]) \/ (k = Len(r) /\ r[k] = f)
  <2>1. q \in Seq(Frames) /\ r = Append(q, f)
    BY <1>5, <1>6 DEF Shape
  <2> QED BY <2>1, Behind
<1>8. Shift(shaper.data, shaper'.data, 0, s) /\ Shift(wire, wire', 0, s)
  BY <1>5, ShiftSame DEF Shape
<1>9. Keeps(s)
  BY <1>2 DEF Keeps, Closing
<1>10. WriterMeans(snd'[s])
  BY <1>1, <1>2 DEF WriterMeans, Waiting, Closing
<1>11. OneQueued(s)'
  BY <1>1, <1>8, <1>9, OneQueuedShift
<1>12. DataQueued(s)' <=> DataQueued(s)
  BY <1>5 DEF DataQueued
<1>13. Lines(s)'
  BY <1>1, <1>2, <1>12, WriterLine
<1>14. SynOnWire(s)' <=> SynOnWire(s)
  BY DEF SynOnWire
<1>15. ~SynOnWire(s) /\ ~SynQueued(s) /\ ~rcv[s].known /\ rcv[s].close = "no"
  BY <1>1, <1>2 DEF SynOnce
<1>16. SynOnce(s)'
  <2>1. ASSUME NEW j \in 1..Len(r), SynOf(r[j], s) PROVE j = Len(r)
    <3>1. SUFFICES ASSUME j \in 1..Len(q), r[j] = q[j] PROVE FALSE
      BY <1>7
    <3>2. SynQueued(s)
      BY <1>6, <2>1, <3>1 DEF SynQueued
    <3> QED BY <1>15, <3>2
  <2>2. \A j, k \in 1..Len(shaper'.ctrl) : SynOf(shaper'.ctrl[j], s) /\ SynOf(shaper'.ctrl[k], s) => j = k
    BY <1>6, <2>1
  <2>3. \A j, k \in 1..Len(wire') : SynOf(wire'[j], s) /\ SynOf(wire'[k], s) => j = k
    BY <1>1 DEF SynOnce
  <2>4. ~rcv'[s].known /\ rcv'[s].close = "no" /\ snd'[s].pc # "open"
    BY <1>2, <1>15
  <2> QED BY <1>14, <1>15, <2>2, <2>3, <2>4 DEF SynOnce
<1>17. SynFirst(s)'
  <2>1. Started(s)' <=> Started(s)
    BY DEF Started
  <2>2. snd'[s].pc \notin {"open", "syn", "done"} \/ DataQueued(s)' => Started(s)' \/ SynOnWire(s)'
    BY <1>1, <1>2, <1>12, <1>14, <2>1 DEF SynFirst
  <2>3. \A k \in 1..Len(wire') : DataOf(wire'[k], s) =>
          Started(s)' \/ \E j \in 1..Len(wire') : j < k /\ SynOf(wire'[j], s)
    BY <1>1, <2>1 DEF SynFirst
  <2> QED BY <2>2, <2>3 DEF SynFirst
<1>18. FinLast(s)'
  <2> SUFFICES ASSUME snd'[s].ok PROVE FinLast(s)'
    BY DEF FinLast
  <2>1. ASSUME NEW k \in 1..Len(r), FinOf(r[k], s) PROVE FALSE
    <3>1. k \in 1..Len(q) /\ r[k] = q[k]
      BY <1>4, <1>7, <2>1 DEF FinOf
    <3>2. snd[s].pc \in {"fin", "done"}
      BY <1>1, <1>2, <1>6, <2>1, <3>1 DEF FinLast
    <3> QED BY <1>2, <3>2
  <2>2. \A k \in 1..Len(wire) : ~FinOf(wire[k], s)
    BY <1>1, <1>2 DEF FinLast
  <2>3. ~rcv[s].fin
    BY <1>1, <1>2 DEF FinLast
  <2> QED BY <1>6, <2>1, <2>2, <2>3 DEF FinLast
<1>19. EOFMeans(s)'
  BY <1>1, <1>2 DEF EOFMeans
<1> QED BY <1>1, <1>10, <1>11, <1>13, <1>16, <1>17, <1>18, <1>19 DEF StreamInv

\* one that queues the FIN: nothing of it is queued behind,
LEMMA EndsKeeps ==
    ASSUME Shape, NEW s \in Streams, StreamInv(s), Ends(s), wire' = wire, rcv' = rcv
    PROVE  StreamInv(s)'
<1>1. WriterMeans(snd[s]) /\ OneQueued(s) /\ Lines(s) /\ SynOnce(s) /\ SynFirst(s) /\ FinLast(s)
      /\ ReaderMeans(rcv[s]) /\ EOFMeans(s)
  BY DEF StreamInv
<1>2. snd'[s].next = snd[s].next
      /\ \/ snd[s].pc = "syn" /\ snd'[s].pc = "done" /\ snd'[s].ok = FALSE
         \/ snd[s].pc = "close" /\ snd'[s].pc = "fin" /\ snd'[s].ok = snd[s].ok
  BY DEF Ends
<1>3. PICK f \in Frames : f = <<"FIN", s, << >>>>
  BY ControlFrames
<1>4. f[1] = "FIN" /\ f[2] = s
  BY <1>3
<1>5. shaper'.ctrl = Append(shaper.ctrl, f) /\ shaper'.data = shaper.data
  BY <1>3, QueuedIs DEF Ends
<1>6. PICK q, r : q = shaper.ctrl /\ r = shaper'.ctrl
  OBVIOUS
<1>7. /\ r \in Seq(Frames) /\ Len(r) = Len(q) + 1 /\ Len(q) \in Nat /\ Len(r) \in 1..Len(r) /\ r[Len(r)] = f
      /\ \A k \in 1..Len(q) : k \in 1..Len(r) /\ r[k] = q[k]
      /\ \A k \in 1..Len(r) : (k \in 1..Len(q) /\ r[k] = q[k]) \/ (k = Len(r) /\ r[k] = f)
  <2>1. q \in Seq(Frames) /\ r = Append(q, f)
    BY <1>5, <1>6 DEF Shape
  <2> QED BY <2>1, Behind
<1>8. Shift(shaper.data, shaper'.data, 0, s) /\ Shift(wire, wire', 0, s)
  BY <1>5, ShiftSame DEF Shape
<1>9. Keeps(s)
  BY <1>2 DEF Keeps, Closing
<1>10. WriterMeans(snd'[s])
  <2>1. snd'[s].next \in 1..(Total + 1)
    BY <1>1, <1>2 DEF WriterMeans
  <2>2. snd'[s].ok => snd'[s].next = Total + 1
    BY <1>1, <1>2 DEF WriterMeans, Closing
  <2> QED BY <1>2, <2>1, <2>2 DEF WriterMeans, Waiting, Closing
<1>11. OneQueued(s)'
  BY <1>1, <1>8, <1>9, OneQueuedShift
<1>12. DataQueued(s)' <=> DataQueued(s)
  BY <1>5 DEF DataQueued
<1>13. Lines(s)'
  BY <1>1, <1>2, <1>12, WriterLine
<1>14. SynOnWire(s)' <=> SynOnWire(s)
  BY DEF SynOnWire
<1>15. \A k \in 1..Len(r) : SynOf(r[k], s) => k \in 1..Len(q) /\ SynOf(q[k], s)
  BY <1>4, <1>7 DEF SynOf
<1>16. SynQueued(s)' => SynQueued(s)
  BY <1>6, <1>15 DEF SynQueued
<1>17. SynOnce(s)'
  <2>2. ASSUME NEW j \in 1..Len(r), NEW k \in 1..Len(r), SynOf(r[j], s), SynOf(r[k], s) PROVE j = k
    <3>1. j \in 1..Len(q) /\ SynOf(q[j], s)
      BY <1>15, <2>2
    <3>2. k \in 1..Len(q) /\ SynOf(q[k], s)
      BY <1>15, <2>2
    <3> QED BY <1>1, <1>6, <3>1, <3>2 DEF SynOnce
  <2>3. \A j, k \in 1..Len(wire') : SynOf(wire'[j], s) /\ SynOf(wire'[k], s) => j = k
    BY <1>1 DEF SynOnce
  <2>4. snd'[s].pc # "open"
    BY <1>2
  <2>5. /\ SynOnWire(s)' \/ SynQueued(s)' => ~rcv'[s].known /\ rcv'[s].close = "no"
        /\ ~(SynOnWire(s)' /\ SynQueued(s)')
    BY <1>1, <1>14, <1>16 DEF SynOnce
  <2> QED BY <1>6, <2>2, <2>3, <2>4, <2>5 DEF SynOnce
<1>18. SynFirst(s)'
  <2>1. Started(s)' <=> Started(s)
    BY DEF Started
  <2>2. snd'[s].pc \notin {"open", "syn", "done"} \/ DataQueued(s)' => Started(s)' \/ SynOnWire(s)'
    BY <1>1, <1>2, <1>12, <1>14, <2>1 DEF SynFirst
  <2>3. \A k \in 1..Len(wire') : DataOf(wire'[k], s) =>
          Started(s)' \/ \E j \in 1..Len(wire') : j < k /\ SynOf(wire'[j], s)
    BY <1>1, <2>1 DEF SynFirst
  <2> QED BY <2>2, <2>3 DEF SynFirst
<1>19. FinLast(s)'
  <2> SUFFICES ASSUME snd'[s].ok PROVE FinLast(s)'
    BY DEF FinLast
  <2>1. snd[s].ok /\ snd[s].pc = "close" /\ snd'[s].pc = "fin"
    BY <1>2
  <2>2. \A k \in 1..Len(wire) : ~FinOf(wire[k], s)
    BY <1>1, <2>1 DEF FinLast
  <2>3. ~rcv[s].fin
    BY <1>1, <2>1 DEF FinLast
  <2> QED BY <2>1, <2>2, <2>3 DEF FinLast
<1>20. EOFMeans(s)'
  BY <1>1, <1>2 DEF EOFMeans
<1> QED BY <1>1, <1>10, <1>11, <1>13, <1>17, <1>18, <1>19, <1>20 DEF StreamInv

\* and one that queues the next frame of its data.
LEMMA WritesKeeps ==
    ASSUME Shape, NEW s \in Streams, StreamInv(s), Writes(s), wire' = wire, rcv' = rcv
    PROVE  StreamInv(s)'
<1>1. WriterMeans(snd[s]) /\ OneQueued(s) /\ Lines(s) /\ SynOnce(s) /\ SynFirst(s) /\ FinLast(s)
      /\ ReaderMeans(rcv[s]) /\ EOFMeans(s)
  BY DEF StreamInv
<1>2. snd'[s].next = snd[s].next /\ snd'[s].ok = snd[s].ok /\ snd[s].pc \in {"win", "queue"} /\ snd'[s].pc = "wait"
      /\ snd'[s].bts \in Nat \ {0} /\ snd[s].next + snd'[s].bts <= Total + 1
  BY DEF Writes
<1>3. snd[s].ok /\ snd[s].next \in 1..(Total + 1)
  BY <1>1, <1>2 DEF WriterMeans, Waiting
<1>4. PICK f \in Frames : /\ f = Frame(s, snd'[s]) /\ f[1] = "PSH" /\ f[2] = s
                          /\ Len(f[3]) = Size(snd'[s]) /\ Size(snd'[s]) > 0
                          /\ f[3][1] = snd'[s].next /\ Run(f[3])
  <2>1. snd'[s].next \in Nat
    BY <1>2, <1>3, FrameSizes
  <2> QED BY <1>2, <2>1, FrameIs
<1>5. shaper'.data = Append(shaper.data, f) /\ shaper'.ctrl = shaper.ctrl
  BY <1>4, QueuedIs DEF Writes
<1>6. PICK q, r : q = shaper.data /\ r = shaper'.data
  OBVIOUS
<1>7. \A k \in 1..Len(r) : (k \in 1..Len(q) /\ r[k] = q[k]) \/ (k = Len(r) /\ r[k] = f)
  <2>1. q \in Seq(Frames) /\ r = Append(q, f)
    BY <1>5, <1>6 DEF Shape
  <2> QED BY <2>1, Behind
<1>8. Shift(shaper.ctrl, shaper'.ctrl, 0, s) /\ Shift(wire, wire', 0, s)
  BY <1>5, ShiftSame DEF Shape
<1>9. Keeps(s)
  BY <1>2 DEF Keeps, Closing
<1>10. WriterMeans(snd'[s])
  BY <1>2, <1>3 DEF WriterMeans, Waiting, Closing
<1>11. \A k \in 1..Len(q) : ~DataOf(q[k], s)
  BY <1>1, <1>2, <1>6 DEF OneQueued, Closing
<1>12. \A k \in 1..Len(r) : DataOf(r[k], s) => k = Len(r) /\ r[k] = f
  BY <1>7, <1>11
<1>13. OneQueued(s)'
  <2>1. ASSUME NEW k \in 1..Len(r), DataOf(r[k], s)
        PROVE  /\ Len(r[k][3]) > 0 /\ r[k][3][1] = snd'[s].next /\ Run(r[k][3])
               /\ snd'[s].pc \in {"wait"} \cup Closing
               /\ snd'[s].ok => snd'[s].pc = "wait" /\ Len(r[k][3]) = Size(snd'[s])
    <3>1. r[k] = f
      BY <1>12, <2>1
    <3> QED BY <1>2, <1>4, <3>1
  <2>2. \A j, k \in 1..Len(r) : DataOf(r[j], s) /\ DataOf(r[k], s) => j = k
    BY <1>12
  <2> QED BY <1>6, <2>1, <2>2 DEF OneQueued
<1>14. Lines(s)'
  BY <1>1, <1>2, <1>3, WriterLine
<1>15. (SynOnWire(s)' <=> SynOnWire(s)) /\ (SynQueued(s)' <=> SynQueued(s))
  BY <1>5 DEF SynOnWire, SynQueued
<1>16. SynOnce(s)'
  <2>1. \A j, k \in 1..Len(shaper'.ctrl) : SynOf(shaper'.ctrl[j], s) /\ SynOf(shaper'.ctrl[k], s) => j = k
    BY <1>1, <1>5 DEF SynOnce
  <2>3. \A j, k \in 1..Len(wire') : SynOf(wire'[j], s) /\ SynOf(wire'[k], s) => j = k
    BY <1>1 DEF SynOnce
  <2>4. snd'[s].pc # "open"
    BY <1>2
  <2>5. /\ SynOnWire(s)' \/ SynQueued(s)' => ~rcv'[s].known /\ rcv'[s].close = "no"
        /\ ~(SynOnWire(s)' /\ SynQueued(s)')
    BY <1>1, <1>15 DEF SynOnce
  <2> QED BY <2>1, <2>3, <2>4, <2>5 DEF SynOnce
<1>17. SynFirst(s)'
  <2>1. Started(s)' <=> Started(s)
    BY DEF Started
  <2>2. Started(s)' \/ SynOnWire(s)'
    BY <1>1, <1>2, <1>15, <2>1 DEF SynFirst
  <2>3. \A k \in 1..Len(wire') : DataOf(wire'[k], s) =>
          Started(s)' \/ \E j \in 1..Len(wire') : j < k /\ SynOf(wire'[j], s)
    BY <1>1, <2>1 DEF SynFirst
  <2> QED BY <2>2, <2>3 DEF SynFirst
<1>18. FinLast(s)'
  BY <1>1, <1>8, <1>9, FinLastShift
<1>19. EOFMeans(s)'
  BY <1>1, <1>2 DEF EOFMeans
<1> QED BY <1>1, <1>10, <1>13, <1>14, <1>16, <1>17, <1>18, <1>19 DEF StreamInv

\* The writing end's goroutines keep the invariant.
LEMMA WriterKeeps ==
    ASSUME EOFInv, NEW s \in Streams, Writer(s) \/ OpenTimeout(s) \/ WriteTimeout(s)
    PROVE  EOFInv'
<1>1. Shape /\ Numbers /\ Queues /\ \A t \in Streams : StreamInv(t)
  BY DEF EOFInv
<1>2. /\ DOMAIN snd' = Streams /\ DOMAIN snd'[s] = sndFields /\ \A t \in Streams : t # s => snd'[t] = snd[t]
      /\ UNCHANGED <<upd, wire, recv, rcv, back>>
  BY WriterSteps
<1>3. snd'[s].inflight \in Int /\ snd'[s].numWritten \in Int
      /\ snd'[s].peerConsumed \in Int /\ snd'[s].peerWindow \in Int
  BY WriterSteps
<1>4. WriterStep(s)
  BY WriterSteps
<1>5. /\ DOMAIN shaper' = {"ctrl", "data"} /\ shaper'.ctrl \in Seq(Frames) /\ shaper'.data \in Seq(Frames)
      /\ Queues'
      /\ \A t \in Streams : t # s => Shift(shaper.ctrl, shaper'.ctrl, 0, t) /\ Shift(shaper.data, shaper'.data, 0, t)
  <2>1. shaper.ctrl \in Seq(Frames) /\ shaper.data \in Seq(Frames)
    BY <1>1 DEF Shape
  <2>2. \A t \in Streams : Shift(shaper.ctrl, shaper.ctrl, 0, t) /\ Shift(shaper.data, shaper.data, 0, t)
    BY <2>1, ShiftSame
  <2>3. CASE shaper' = shaper
    BY <1>1, <2>2, <2>3 DEF Shape, Queues
  <2>4. ASSUME NEW f \in Frames, f[1] \in {"SYN", "FIN"}, f[2] = s, shaper' = Queued("ctrl", f)
        PROVE  /\ DOMAIN shaper' = {"ctrl", "data"} /\ shaper'.ctrl \in Seq(Frames) /\ shaper'.data \in Seq(Frames)
               /\ Queues'
               /\ \A t \in Streams : t # s => Shift(shaper.ctrl, shaper'.ctrl, 0, t) /\ Shift(shaper.data, shaper'.data, 0, t)
    <3>1. /\ DOMAIN shaper' = {"ctrl", "data"} /\ shaper'.ctrl \in Seq(Frames) /\ shaper'.data \in Seq(Frames)
          /\ shaper'.ctrl = Append(shaper.ctrl, f) /\ shaper'.data = shaper.data
      BY <1>1, <2>4, QueuedIs
    <3>2. \A k \in 1..Len(shaper'.ctrl) : (k \in 1..Len(shaper.ctrl) /\ shaper'.ctrl[k] = shaper.ctrl[k]) \/ shaper'.ctrl[k] = f
      BY <2>1, <3>1, Behind
    <3>3. Queues'
      BY <1>1, <2>4, <3>1, <3>2 DEF Queues
    <3>4. \A t \in Streams : t # s => Shift(shaper.ctrl, shaper'.ctrl, 0, t)
      BY <2>1, <2>4, <3>1, ShiftBehind
    <3> QED BY <2>2, <3>1, <3>3, <3>4
  <2>5. ASSUME NEW f \in Frames, f[1] = "PSH", f[2] = s, shaper' = Queued("data", f)
        PROVE  /\ DOMAIN shaper' = {"ctrl", "data"} /\ shaper'.ctrl \in Seq(Frames) /\ shaper'.data \in Seq(Frames)
               /\ Queues'
               /\ \A t \in Streams : t # s => Shift(shaper.ctrl, shaper'.ctrl, 0, t) /\ Shift(shaper.data, shaper'.data, 0, t)
    <3>1. /\ DOMAIN shaper' = {"ctrl", "data"} /\ shaper'.ctrl \in Seq(Frames) /\ shaper'.data \in Seq(Frames)
          /\ shaper'.data = Append(shaper.data, f) /\ shaper'.ctrl = shaper.ctrl
      BY <1>1, <2>5, QueuedIs
    <3>2. \A k \in 1..Len(shaper'.data) : (k \in 1..Len(shaper.data) /\ shaper'.data[k] = shaper.data[k]) \/ shaper'.data[k] = f
      BY <2>1, <3>1, Behind
    <3>3. Queues'
      BY <1>1, <2>5, <3>1, <3>2 DEF Queues
    <3>4. \A t \in Streams : t # s => Shift(shaper.data, shaper'.data, 0, t)
      BY <2>1, <2>5, <3>1, ShiftBehind
    <3> QED BY <2>2, <3>1, <3>3, <3>4
  <2>6. CASE Opens(s)
    BY <2>4, <2>6, ControlFrames DEF Opens
  <2>7. CASE Ends(s)
    BY <2>4, <2>7, ControlFrames DEF Ends
  <2>8. CASE Writes(s)
    <3>1. snd'[s].next \in Nat
      <4>1. snd[s].next \in 1..(Total + 1)
        BY <1>1 DEF StreamInv, WriterMeans
      <4> QED BY <2>8, <4>1, FrameSizes DEF Writes
    <3>2. snd'[s].bts \in Nat \ {0} /\ shaper' = Queued("data", Frame(s, snd'[s]))
      BY <2>8 DEF Writes
    <3>3. Frame(s, snd'[s]) \in Frames /\ Frame(s, snd'[s])[1] = "PSH" /\ Frame(s, snd'[s])[2] = s
      BY <3>1, <3>2, FrameIs
    <3> QED BY <2>5, <3>2, <3>3
  <2> QED BY <1>4, <2>3, <2>6, <2>7, <2>8 DEF WriterStep, Goes, Stops
<1>6. Shape'
  <2>1. \A t \in Streams : DOMAIN snd'[t] = sndFields
    BY <1>1, <1>2 DEF Shape
  <2> QED BY <1>1, <1>2, <1>5, <2>1 DEF Shape
<1>7. Numbers'
  <2>1. \A t \in Streams : /\ snd'[t].inflight \in Int /\ snd'[t].numWritten \in Int
                           /\ snd'[t].peerConsumed \in Int /\ snd'[t].peerWindow \in Int
    BY <1>1, <1>2, <1>3 DEF Numbers
  <2> QED BY <1>1, <1>2, <2>1 DEF Numbers
<1>8. ASSUME NEW t \in Streams PROVE StreamInv(t)'
  <2>1. CASE t # s
    <3>1. Stands(t) /\ Rests(t)
      BY <1>2, <2>1 DEF Stands, Rests
    <3> QED BY <1>1, <1>2, <1>5, <2>1, <3>1, StillKeeps
  <2>2. CASE t = s
    <3>1. StreamInv(s) /\ wire' = wire /\ rcv' = rcv
      BY <1>1, <1>2
    <3>2. StreamInv(s)'
      BY <1>1, <1>4, <3>1, GoesOrStopsKeeps, OpensKeeps, EndsKeeps, WritesKeeps DEF WriterStep
    <3> QED BY <2>2, <3>2
  <2> QED BY <2>1, <2>2
<1> QED BY <1>5, <1>6, <1>7, <1>8 DEF EOFInv

\* What the frames of s ahead of it, and it, look like on the wire.
LEMMA WireIs ==
    ASSUME Shape, NEW f \in Frames, wire' = Append(wire, f)
    PROVE  /\ Len(wire') \in 1..Len(wire') /\ wire'[Len(wire')] = f
           /\ \A k \in 1..Len(wire) : k \in 1..Len(wire') /\ wire'[k] = wire[k] /\ k < Len(wire')
           /\ \A k \in 1..Len(wire') : (k \in 1..Len(wire) /\ wire'[k] = wire[k]) \/ (k = Len(wire') /\ wire'[k] = f)
<1>1. wire \in Seq(Frames)
  BY DEF Shape
<1> QED BY <1>1, Behind

\* sendLoop sends a SYN or a FIN: it overtakes only data that was given up,
LEMMA SendsCtrlKeeps ==
    ASSUME Shape, Shape', Queues, NEW f \in Frames, NEW s \in Streams, s = f[2], StreamInv(s), SendsCtrl(f),
           wire' = Append(wire, f), rcv' = rcv
    PROVE  StreamInv(s)'
<1>1. WriterMeans(snd[s]) /\ OneQueued(s) /\ Lines(s) /\ SynOnce(s) /\ SynFirst(s) /\ FinLast(s)
      /\ ReaderMeans(rcv[s]) /\ EOFMeans(s)
  BY DEF StreamInv
<1>2. /\ snd'[s].next = snd[s].next /\ snd'[s].ok = snd[s].ok /\ snd'[s].bts = snd[s].bts
      /\ \/ snd'[s].pc = snd[s].pc
         \/ f[1] = "SYN" /\ snd[s].pc = "syn" /\ snd'[s].pc = "reg"
         \/ f[1] = "FIN" /\ snd[s].pc = "fin" /\ snd'[s].pc = "done"
  BY DEF SendsCtrl
<1>3. PICK q, r : q = shaper.ctrl /\ r = shaper'.ctrl
  OBVIOUS
<1>4. /\ 1 \in 1..Len(q) /\ q[1] = f
      /\ \A k \in 1..Len(r) : k + 1 \in 1..Len(q) /\ r[k] = q[k + 1] /\ k + 1 # 1 /\ k \in Int
  <2>1. q \in Seq(Frames) /\ q # << >> /\ r = Tail(q) /\ f = Head(q)
    BY <1>3 DEF Shape, SendsCtrl
  <2>2. /\ 1 \in 1..Len(q) /\ Head(q) = q[1]
        /\ \A k \in 1..Len(r) : k + 1 \in 1..Len(q) /\ r[k] = q[k + 1]
    BY <2>1, Without
  <2> QED BY <2>1, <2>2
<1>5. f[1] \in {"SYN", "FIN"}
  BY <1>3, <1>4 DEF Queues
<1>6. shaper'.data = shaper.data
  BY DEF SendsCtrl
<1>7. Shift(shaper.data, shaper'.data, 0, s)
  BY <1>6, ShiftSame DEF Shape
<1>8. Keeps(s)
  BY <1>2 DEF Keeps, Closing
<1>9. WriterMeans(snd'[s])
  <2>1. snd[s].ok /\ snd[s].pc = "fin" => snd[s].next = Total + 1
    BY <1>1 DEF WriterMeans, Closing
  <2>2. snd[s].pc = "syn" => snd[s].ok
    BY <1>1 DEF WriterMeans, Waiting
  <2>3. CASE snd'[s].pc = snd[s].pc
    BY <1>1, <1>2, <2>3 DEF WriterMeans
  <2>4. CASE snd'[s].pc # snd[s].pc
    BY <1>1, <1>2, <2>1, <2>2, <2>4 DEF WriterMeans, Waiting, Closing
  <2> QED BY <2>3, <2>4
<1>10. OneQueued(s)'
  BY <1>1, <1>7, <1>8, OneQueuedShift
<1>11. DataQueued(s)' <=> DataQueued(s)
  BY <1>6 DEF DataQueued
<1>12. Lines(s)'
  <2>1. Piece(f, s) = << >>
    BY <1>5 DEF Piece, DataOf
  <2>2. Line(s)' = Append(Line(s), << >>)
    BY <2>1, LineSent
  <2>3. Len(rcv[s].got) \in Nat /\ snd[s].next \in 1..(Total + 1)
    BY <1>1 DEF Shape, WriterMeans
  <2>4. Line(s) \in Seq(Seq(Nat))
    BY LineIs DEF IsJoin
  <2>5. Line(s)' \in Seq(Seq(Nat))
    BY <2>2, <2>4
  <2>6. /\ LineOK(Line(s), Len(rcv[s].got), snd[s].next) => LineOK(Line(s)', Len(rcv[s].got), snd[s].next)
        /\ LineBefore(Line(s), Len(rcv[s].got), snd[s].next)
              => LineBefore(Line(s)', Len(rcv[s].got), snd[s].next)
    BY <2>2, <2>3, <2>4, <2>5, EmptyBehind
  <2> QED BY <1>1, <1>2, <1>11, <2>6, LinesKept
<1>13. /\ Len(wire') \in 1..Len(wire') /\ wire'[Len(wire')] = f
       /\ \A k \in 1..Len(wire) : k \in 1..Len(wire') /\ wire'[k] = wire[k] /\ k < Len(wire')
       /\ \A k \in 1..Len(wire') : (k \in 1..Len(wire) /\ wire'[k] = wire[k]) \/ (k = Len(wire') /\ wire'[k] = f)
  BY WireIs
<1>14. SynOnWire(s)' <=> SynOnWire(s) \/ f[1] = "SYN"
  BY <1>13 DEF SynOnWire, SynOf
<1>15. /\ SynQueued(s)' => SynQueued(s) /\ f[1] # "SYN"
       /\ f[1] = "SYN" => SynQueued(s)
  <2>1. f[1] = "SYN" => SynQueued(s)
    BY <1>3, <1>4 DEF SynQueued, SynOf
  <2>2. ASSUME NEW k \in 1..Len(r), SynOf(r[k], s) PROVE SynQueued(s) /\ f[1] # "SYN"
    <3>1. k + 1 \in 1..Len(q) /\ SynOf(q[k + 1], s) /\ k + 1 # 1
      BY <1>4, <2>2
    <3>2. SynQueued(s)
      BY <1>3, <3>1 DEF SynQueued
    <3>3. f[1] # "SYN"
      BY <1>1, <1>3, <1>4, <3>1 DEF SynOnce, SynOf
    <3> QED BY <3>2, <3>3
  <2> QED BY <1>3, <2>1, <2>2 DEF SynQueued
<1>16. SynOnce(s)'
  <2>1. ASSUME NEW j \in 1..Len(r), NEW k \in 1..Len(r), SynOf(r[j], s), SynOf(r[k], s) PROVE j = k
    <3>1. j + 1 \in 1..Len(q) /\ SynOf(q[j + 1], s) /\ j \in Int
      BY <1>4, <2>1
    <3>2. k + 1 \in 1..Len(q) /\ SynOf(q[k + 1], s) /\ k \in Int
      BY <1>4, <2>1
    <3>3. j + 1 = k + 1
      BY <1>1, <1>3, <3>1, <3>2 DEF SynOnce
    <3> QED BY <3>1, <3>2, <3>3
  <2>2. ASSUME NEW j \in 1..Len(wire'), NEW k \in 1..Len(wire'), SynOf(wire'[j], s), SynOf(wire'[k], s) PROVE j = k
    <3>1. CASE f[1] = "SYN"
      <4>1. ~SynOnWire(s)
        BY <1>1, <1>15, <3>1 DEF SynOnce
      <4>2. \A i \in 1..Len(wire') : SynOf(wire'[i], s) => i = Len(wire')
        BY <1>13, <4>1 DEF SynOnWire
      <4> QED BY <2>2, <4>2
    <3>2. CASE f[1] # "SYN"
      <4>1. \A i \in 1..Len(wire') : SynOf(wire'[i], s) => i \in 1..Len(wire) /\ SynOf(wire[i], s)
        BY <1>13, <3>2 DEF SynOf
      <4>2. j \in 1..Len(wire) /\ SynOf(wire[j], s)
        BY <2>2, <4>1
      <4>3. k \in 1..Len(wire) /\ SynOf(wire[k], s)
        BY <2>2, <4>1
      <4> QED BY <1>1, <4>2, <4>3 DEF SynOnce
    <3> QED BY <3>1, <3>2
  <2>3. /\ SynOnWire(s)' \/ SynQueued(s)' \/ snd'[s].pc = "open" => ~rcv'[s].known /\ rcv'[s].close = "no"
        /\ SynOnWire(s)' \/ SynQueued(s)' => snd'[s].pc # "open"
        /\ ~(SynOnWire(s)' /\ SynQueued(s)')
    BY <1>1, <1>2, <1>14, <1>15 DEF SynOnce
  <2> QED BY <1>3, <2>1, <2>2, <2>3 DEF SynOnce
<1>17. SynFirst(s)'
  <2>1. Started(s)' <=> Started(s)
    BY DEF Started
  <2>2. snd'[s].pc \notin {"open", "syn", "done"} \/ DataQueued(s)' => Started(s)' \/ SynOnWire(s)'
    BY <1>1, <1>2, <1>11, <1>14, <2>1 DEF SynFirst
  <2>3. ASSUME NEW k \in 1..Len(wire'), DataOf(wire'[k], s), ~Started(s)'
        PROVE  \E j \in 1..Len(wire') : j < k /\ SynOf(wire'[j], s)
    <3>1. k \in 1..Len(wire) /\ wire'[k] = wire[k]
      BY <1>5, <1>13, <2>3 DEF DataOf
    <3>2. PICK j \in 1..Len(wire) : j < k /\ SynOf(wire[j], s)
      BY <1>1, <2>1, <2>3, <3>1 DEF SynFirst
    <3>3. j \in 1..Len(wire') /\ wire'[j] = wire[j]
      BY <1>13
    <3> QED BY <3>2, <3>3
  <2> QED BY <2>2, <2>3 DEF SynFirst
<1>18. FinLast(s)'
  <2> SUFFICES ASSUME snd'[s].ok PROVE FinLast(s)'
    BY DEF FinLast
  <2>1. snd[s].ok /\ (snd[s].pc \in {"fin", "done"} => snd'[s].pc \in {"fin", "done"})
    BY <1>2
  <2>2. ASSUME NEW k \in 1..Len(q), FinOf(q[k], s) PROVE snd'[s].pc \in {"fin", "done"}
    BY <1>1, <1>3, <2>1, <2>2 DEF FinLast
  <2>3. \A k \in 1..Len(r) : FinOf(r[k], s) => snd'[s].pc \in {"fin", "done"}
    BY <1>4, <2>2
  <2>4. ASSUME NEW j \in 1..Len(wire'), DataOf(wire'[j], s)
        PROVE  j \in 1..Len(wire) /\ DataOf(wire[j], s) /\ j < Len(wire')
    BY <1>5, <1>13, <2>4 DEF DataOf
  <2>5. ASSUME NEW k \in 1..Len(wire'), FinOf(wire'[k], s)
        PROVE  snd'[s].pc \in {"fin", "done"} /\ \A j \in 1..Len(wire') : DataOf(wire'[j], s) => j < k
    <3>1. CASE k \in 1..Len(wire) /\ wire'[k] = wire[k]
      <4>1. snd[s].pc \in {"fin", "done"} /\ \A j \in 1..Len(wire) : DataOf(wire[j], s) => j < k
        BY <1>1, <2>1, <2>5, <3>1 DEF FinLast
      <4> QED BY <2>1, <2>4, <4>1
    <3>2. CASE k = Len(wire') /\ wire'[k] = f
      <4>1. snd'[s].pc \in {"fin", "done"}
        BY <1>4, <2>2, <2>5, <3>2
      <4> QED BY <2>4, <3>2, <4>1
    <3> QED BY <1>13, <3>1, <3>2
  <2>6. ASSUME rcv'[s].fin
        PROVE  snd'[s].pc \in {"fin", "done"} /\ \A k \in 1..Len(wire') : ~DataOf(wire'[k], s)
    <3>1. snd[s].pc \in {"fin", "done"} /\ \A k \in 1..Len(wire) : ~DataOf(wire[k], s)
      BY <1>1, <2>1, <2>6 DEF FinLast
    <3> QED BY <2>1, <2>4, <3>1
  <2> QED BY <1>3, <2>3, <2>5, <2>6 DEF FinLast
<1>19. EOFMeans(s)'
  BY <1>1, <1>2 DEF EOFMeans
<1> QED BY <1>1, <1>9, <1>10, <1>12, <1>16, <1>17, <1>18, <1>19 DEF StreamInv

\* or data: it is what comes next, whether its writer still waits or not.
LEMMA SendsDataKeeps ==
    ASSUME Shape, Shape', Queues, NEW f \in Frames, NEW s \in Streams, s = f[2], StreamInv(s), SendsData(f),
           wire' = Append(wire, f), rcv' = rcv
    PROVE  StreamInv(s)'
<1>1. WriterMeans(snd[s]) /\ OneQueued(s) /\ Lines(s) /\ SynOnce(s) /\ SynFirst(s) /\ FinLast(s)
      /\ ReaderMeans(rcv[s]) /\ EOFMeans(s)
  BY DEF StreamInv
<1>2. \/ /\ snd[s].pc = "wait" /\ snd'[s].ok = snd[s].ok
         /\ snd'[s].next = snd[s].next + Len(f[3]) /\ snd'[s].next <= Total + 1
         /\ snd'[s].pc \in {"queue", "sleep", "close"} /\ WriterMeans(snd'[s])
      \/ snd[s].pc # "wait" /\ snd'[s] = snd[s]
  BY DEF SendsData
<1>3. PICK q, r : q = shaper.data /\ r = shaper'.data
  OBVIOUS
<1>4. /\ 1 \in 1..Len(q) /\ q[1] = f
      /\ \A k \in 1..Len(r) : k + 1 \in 1..Len(q) /\ r[k] = q[k + 1] /\ k + 1 # 1 /\ k \in Int
  <2>1. q \in Seq(Frames) /\ q # << >> /\ r = Tail(q) /\ f = Head(q)
    BY <1>3 DEF Shape, SendsData
  <2>2. /\ 1 \in 1..Len(q) /\ Head(q) = q[1]
        /\ \A k \in 1..Len(r) : k + 1 \in 1..Len(q) /\ r[k] = q[k + 1]
    BY <2>1, Without
  <2> QED BY <2>1, <2>2
<1>5. f[1] = "PSH" /\ DataOf(f, s)
  BY <1>3, <1>4 DEF Queues, DataOf
<1>6. shaper'.ctrl = shaper.ctrl
  BY DEF SendsData
<1>7. /\ Len(f[3]) > 0 /\ f[3][1] = snd[s].next /\ Run(f[3])
      /\ snd[s].pc \in {"wait"} \cup Closing
      /\ snd[s].ok => snd[s].pc = "wait"
  BY <1>1, <1>3, <1>4, <1>5 DEF OneQueued
<1>8. DataQueued(s)
  BY <1>3, <1>4, <1>5 DEF DataQueued
<1>9. \A k \in 1..Len(r) : ~DataOf(r[k], s)
  <2> SUFFICES ASSUME NEW k \in 1..Len(r), DataOf(r[k], s) PROVE FALSE
    OBVIOUS
  <2>1. k + 1 \in 1..Len(q) /\ DataOf(q[k + 1], s) /\ k + 1 # 1
    BY <1>4
  <2>2. k + 1 = 1
    BY <1>1, <1>3, <1>4, <1>5, <2>1 DEF OneQueued
  <2> QED BY <2>1, <2>2
<1>10. ~DataQueued(s)' /\ OneQueued(s)'
  BY <1>3, <1>9 DEF DataQueued, OneQueued
<1>11. WriterMeans(snd'[s])
  BY <1>1, <1>2
<1>12. Lines(s)'
  <2> SUFFICES ASSUME rcv[s].close # "done"
               PROVE  /\ LineOK(Line(s)', Len(rcv[s].got), snd'[s].next)
                      /\ snd'[s].ok => LineBefore(Line(s)', Len(rcv[s].got), snd'[s].next)
    BY <1>10 DEF Lines
  <2>1. Piece(f, s) = f[3]
    BY <1>5 DEF Piece
  <2>2. Line(s)' = Append(Line(s), f[3]) /\ f[3] \in Seq(Nat)
    BY <2>1, LineSent
  <2>a. Len(rcv[s].got) \in Nat /\ snd[s].next \in 1..(Total + 1)
    BY <1>1 DEF Shape, WriterMeans
  <2>3. PICK g \in Nat, n \in 1..(Total + 1) : g = Len(rcv[s].got) /\ n = snd[s].next
    BY <2>a
  <2>4. PICK L \in Seq(Seq(Nat)) : L = Line(s)
    BY LineIs DEF IsJoin
  <2>b. Append(L, f[3]) \in Seq(Seq(Nat))
    BY <2>2, <2>4
  <2>5. PICK K \in Seq(Seq(Nat)) : K = Line(s)' /\ K = Append(L, f[3])
    BY <2>2, <2>4, <2>b
  <2>6. LineOK(L, g, n) /\ LineBefore(L, g, n)
    BY <1>1, <1>8, <2>3, <2>4 DEF Lines
  <2>7. /\ LineOK(K, g, n)
        /\ n + Len(f[3]) <= Total + 1 => LineOK(K, g, n + Len(f[3])) /\ LineBefore(K, g, n + Len(f[3]))
    BY <1>7, <2>2, <2>3, <2>5, <2>6, PieceBehind
  <2>8. CASE snd[s].pc = "wait"
    BY <1>2, <2>3, <2>5, <2>7, <2>8
  <2>9. CASE snd[s].pc # "wait"
    BY <1>2, <1>7, <2>3, <2>5, <2>7, <2>9
  <2> QED BY <2>8, <2>9
<1>13. /\ Len(wire') \in 1..Len(wire') /\ wire'[Len(wire')] = f
       /\ \A k \in 1..Len(wire) : k \in 1..Len(wire') /\ wire'[k] = wire[k] /\ k < Len(wire')
       /\ \A k \in 1..Len(wire') : (k \in 1..Len(wire) /\ wire'[k] = wire[k]) \/ (k = Len(wire') /\ wire'[k] = f)
  BY WireIs
<1>14. \A i \in 1..Len(wire') : SynOf(wire'[i], s) => i \in 1..Len(wire) /\ SynOf(wire[i], s)
  BY <1>5, <1>13 DEF SynOf
<1>15. (SynOnWire(s)' <=> SynOnWire(s)) /\ (SynQueued(s)' <=> SynQueued(s))
  <2>1. SynQueued(s)' <=> SynQueued(s)
    BY <1>6 DEF SynQueued
  <2>2. SynOnWire(s)' => SynOnWire(s)
    BY <1>14 DEF SynOnWire
  <2>3. SynOnWire(s) => SynOnWire(s)'
    BY <1>13 DEF SynOnWire
  <2> QED BY <2>1, <2>2, <2>3
<1>16. SynOnce(s)'
  <2>1. \A j, k \in 1..Len(shaper'.ctrl) : SynOf(shaper'.ctrl[j], s) /\ SynOf(shaper'.ctrl[k], s) => j = k
    BY <1>1, <1>6 DEF SynOnce
  <2>2. ASSUME NEW j \in 1..Len(wire'), NEW k \in 1..Len(wire'), SynOf(wire'[j], s), SynOf(wire'[k], s) PROVE j = k
    <3>1. j \in 1..Len(wire) /\ SynOf(wire[j], s)
      BY <1>14, <2>2
    <3>2. k \in 1..Len(wire) /\ SynOf(wire[k], s)
      BY <1>14, <2>2
    <3> QED BY <1>1, <3>1, <3>2 DEF SynOnce
  <2>3. snd'[s].pc # "open"
    BY <1>2, <1>7 DEF Closing
  <2>4. /\ SynOnWire(s)' \/ SynQueued(s)' => ~rcv'[s].known /\ rcv'[s].close = "no"
        /\ ~(SynOnWire(s)' /\ SynQueued(s)')
    BY <1>1, <1>15 DEF SynOnce
  <2> QED BY <2>1, <2>2, <2>3, <2>4 DEF SynOnce
<1>17. SynFirst(s)'
  <2>1. Started(s)' <=> Started(s)
    BY DEF Started
  <2>2. Started(s) \/ SynOnWire(s)
    BY <1>1, <1>8 DEF SynFirst
  <2>3. ASSUME NEW k \in 1..Len(wire'), DataOf(wire'[k], s), ~Started(s)'
        PROVE  \E j \in 1..Len(wire') : j < k /\ SynOf(wire'[j], s)
    <3>1. PICK j \in 1..Len(wire) : j < k /\ SynOf(wire[j], s)
      <4>1. CASE k \in 1..Len(wire) /\ wire'[k] = wire[k]
        BY <1>1, <2>1, <2>3, <4>1 DEF SynFirst
      <4>2. CASE k = Len(wire')
        BY <1>13, <2>1, <2>2, <2>3, <4>2 DEF SynOnWire
      <4> QED BY <1>13, <4>1, <4>2
    <3>2. j \in 1..Len(wire') /\ wire'[j] = wire[j]
      BY <1>13
    <3> QED BY <3>1, <3>2
  <2> QED BY <1>15, <2>1, <2>2, <2>3 DEF SynFirst
<1>18. FinLast(s)'
  <2> SUFFICES ASSUME snd'[s].ok PROVE FinLast(s)'
    BY DEF FinLast
  <2>1. snd[s].ok /\ snd[s].pc = "wait"
    BY <1>2, <1>7
  <2>2. \A k \in 1..Len(shaper.ctrl) : ~FinOf(shaper.ctrl[k], s)
    BY <1>1, <2>1 DEF FinLast
  <2>3. \A k \in 1..Len(wire) : ~FinOf(wire[k], s)
    BY <1>1, <2>1 DEF FinLast
  <2>4. ~rcv[s].fin
    BY <1>1, <2>1 DEF FinLast
  <2>5. \A k \in 1..Len(wire') : ~FinOf(wire'[k], s)
    BY <1>5, <1>13, <2>3 DEF FinOf
  <2> QED BY <1>6, <2>2, <2>4, <2>5 DEF FinLast
<1>19. EOFMeans(s)'
  BY <1>1, <1>2 DEF EOFMeans
<1> QED BY <1>1, <1>10, <1>11, <1>12, <1>16, <1>17, <1>18, <1>19 DEF StreamInv

\* sendLoop keeps the invariant.
LEMMA SendKeeps ==
    ASSUME EOFInv, SendLoop
    PROVE  EOFInv'
<1>1. Shape /\ Numbers /\ Queues /\ \A t \in Streams : StreamInv(t)
  BY DEF EOFInv
<1>2. PICK f \in Frames :
        /\ wire' = Append(wire, f) /\ UNCHANGED <<upd, recv, rcv, back>>
        /\ DOMAIN shaper' = {"ctrl", "data"} /\ shaper'.ctrl \in Seq(Frames) /\ shaper'.data \in Seq(Frames)
        /\ DOMAIN snd' = Streams /\ DOMAIN snd'[f[2]] = sndFields
        /\ \A t \in Streams : t # f[2] => snd'[t] = snd[t]
        /\ snd'[f[2]].inflight \in Int /\ snd'[f[2]].numWritten \in Int
        /\ snd'[f[2]].peerConsumed \in Int /\ snd'[f[2]].peerWindow \in Int
        /\ Sends(f)
  BY SendSteps
<1>3. PICK s \in Streams : s = f[2]
  BY DEF Frames
<1>4. wire' \in Seq(Frames)
  BY <1>1, <1>2 DEF Shape
<1>5. Shape'
  <2>1. \A t \in Streams : DOMAIN snd'[t] = sndFields
    BY <1>1, <1>2, <1>3 DEF Shape
  <2> QED BY <1>1, <1>2, <1>4, <2>1 DEF Shape
<1>6. Numbers'
  <2>1. \A t \in Streams : /\ snd'[t].inflight \in Int /\ snd'[t].numWritten \in Int
                           /\ snd'[t].peerConsumed \in Int /\ snd'[t].peerWindow \in Int
    BY <1>1, <1>2, <1>3 DEF Numbers
  <2> QED BY <1>1, <1>2, <2>1 DEF Numbers
<1>7. shaper.ctrl \in Seq(Frames) /\ shaper.data \in Seq(Frames) /\ wire \in Seq(Frames)
  BY <1>1 DEF Shape
<1>8. /\ Queues'
      /\ \E d1, d2 : \A t \in Streams : t # s => Shift(shaper.ctrl, shaper'.ctrl, d1, t) /\ Shift(shaper.data, shaper'.data, d2, t)
  <2>1. CASE SendsCtrl(f)
    <3>1. shaper.ctrl # << >> /\ f = Head(shaper.ctrl) /\ shaper'.ctrl = Tail(shaper.ctrl) /\ shaper'.data = shaper.data
      BY <2>1 DEF SendsCtrl
    <3>2. \A t \in Streams : t # s => Shift(shaper.ctrl, shaper'.ctrl, 1, t)
      BY <1>3, <1>7, <3>1, ShiftWithout
    <3>3. \A t \in Streams : Shift(shaper.data, shaper'.data, 0, t)
      BY <1>7, <3>1, ShiftSame
    <3>4. \A k \in 1..Len(shaper'.ctrl) : k + 1 \in 1..Len(shaper.ctrl) /\ shaper'.ctrl[k] = shaper.ctrl[k + 1]
      BY <1>7, <3>1, Without
    <3>5. Queues'
      BY <1>1, <3>1, <3>4 DEF Queues
    <3> QED BY <3>2, <3>3, <3>5
  <2>2. CASE SendsData(f)
    <3>1. shaper.data # << >> /\ f = Head(shaper.data) /\ shaper'.data = Tail(shaper.data) /\ shaper'.ctrl = shaper.ctrl
      BY <2>2 DEF SendsData
    <3>2. \A t \in Streams : t # s => Shift(shaper.data, shaper'.data, 1, t)
      BY <1>3, <1>7, <3>1, ShiftWithout
    <3>3. \A t \in Streams : Shift(shaper.ctrl, shaper'.ctrl, 0, t)
      BY <1>7, <3>1, ShiftSame
    <3>4. \A k \in 1..Len(shaper'.data) : k + 1 \in 1..Len(shaper.data) /\ shaper'.data[k] = shaper.data[k + 1]
      BY <1>7, <3>1, Without
    <3>5. Queues'
      BY <1>1, <3>1, <3>4 DEF Queues
    <3> QED BY <3>2, <3>3, <3>5
  <2> QED BY <1>2, <2>1, <2>2 DEF Sends
<1>9. ASSUME NEW t \in Streams PROVE StreamInv(t)'
  <2>1. CASE t # s
    <3>1. Stands(t) /\ Rests(t)
      BY <1>2, <1>3, <2>1 DEF Stands, Rests
    <3>2. PICK d1, d2 : Shift(shaper.ctrl, shaper'.ctrl, d1, t) /\ Shift(shaper.data, shaper'.data, d2, t)
      BY <1>8, <2>1
    <3>3. Shift(wire, wire', 0, t)
      BY <1>2, <1>3, <1>7, <2>1, ShiftBehind
    <3>4. Piece(f, t) = << >>
      BY <1>3, <2>1 DEF Piece, DataOf
    <3>5. Line(t)' = Append(Line(t), << >>)
      BY <1>1, <1>2, <1>5, <3>4, LineSent
    <3>a. Len(rcv[t].got) \in Nat /\ snd[t].next \in 1..(Total + 1)
      BY <1>1 DEF Shape, WriterMeans, StreamInv
    <3>6. PICK g \in Nat, n \in 1..(Total + 1) : g = Len(rcv[t].got) /\ n = snd[t].next
      BY <3>a
    <3>7. Line(t) \in Seq(Seq(Nat))
      BY <1>1, LineIs DEF IsJoin
    <3>8. Line(t)' \in Seq(Seq(Nat))
      BY <3>5, <3>7
    <3>9. /\ LineOK(Line(t), g, n) => LineOK(Line(t)', g, n)
          /\ LineBefore(Line(t), g, n) => LineBefore(Line(t)', g, n)
      BY <3>5, <3>7, <3>8, EmptyBehind
    <3> QED BY <1>1, <3>1, <3>2, <3>3, <3>6, <3>9, AsideKeeps
  <2>2. CASE t = s
    <3>1. StreamInv(s) /\ rcv' = rcv
      BY <1>1, <1>2
    <3>2. StreamInv(s)'
      BY <1>1, <1>2, <1>3, <1>5, <3>1, SendsCtrlKeeps, SendsDataKeeps DEF Sends
    <3> QED BY <2>2, <3>2
  <2> QED BY <2>1, <2>2
<1> QED BY <1>5, <1>6, <1>8, <1>9 DEF EOFInv

\* recvLoop's own stream.
LEMMA GetsKeeps ==
    ASSUME Shape, Shape', NEW f \in Frames, NEW s \in Streams, s = f[2], StreamInv(s), Gets(f),
           wire # << >>, f = Head(wire), wire' = Tail(wire), snd' = snd, shaper' = shaper
    PROVE  StreamInv(s)'
<1>1. WriterMeans(snd[s]) /\ OneQueued(s) /\ Lines(s) /\ SynOnce(s) /\ SynFirst(s) /\ FinLast(s)
      /\ ReaderMeans(rcv[s]) /\ EOFMeans(s)
  BY DEF StreamInv
<1>2. /\ rcv'[s].got = rcv[s].got /\ rcv'[s].close = rcv[s].close /\ rcv'[s].eof = rcv[s].eof
      /\ rcv'[s].die = rcv[s].die /\ rcv'[s].pc = rcv[s].pc
  BY DEF Gets
<1>3. \/ /\ f[1] = "SYN" /\ rcv'[s].known = TRUE
         /\ rcv'[s].buf = rcv[s].buf /\ rcv'[s].fin = rcv[s].fin
      \/ /\ f[1] = "FIN" /\ rcv'[s].known = rcv[s].known /\ rcv'[s].buf = rcv[s].buf
      \/ /\ f[1] = "PSH" /\ rcv[s].known /\ rcv'[s].known = rcv[s].known /\ rcv'[s].fin = rcv[s].fin
         /\ rcv'[s].buf = Append(rcv[s].buf, f[3])
      \/ /\ f[1] = "PSH" /\ ~rcv[s].known /\ rcv'[s].known = rcv[s].known /\ rcv'[s].fin = rcv[s].fin
         /\ rcv'[s].buf = rcv[s].buf
  BY DEF Gets
<1>4. /\ 1 \in 1..Len(wire) /\ wire[1] = f
      /\ \A k \in 1..Len(wire') : k + 1 \in 1..Len(wire) /\ wire'[k] = wire[k + 1] /\ k + 1 # 1 /\ k \in Int /\ 1 <= k
      /\ \A k \in 1..Len(wire) : k # 1 => k - 1 \in 1..Len(wire') /\ wire'[k - 1] = wire[k]
  <2>1. wire \in Seq(Frames)
    BY DEF Shape
  <2>2. /\ 1 \in 1..Len(wire) /\ Head(wire) = wire[1]
        /\ \A k \in 1..Len(wire') : k + 1 \in 1..Len(wire) /\ wire'[k] = wire[k + 1]
        /\ \A k \in 1..Len(wire) : k # 1 => k - 1 \in 1..Len(wire') /\ wire'[k - 1] = wire[k]
    BY <2>1, Without
  <2> QED BY <2>2
<1>5. OneQueued(s)' /\ (DataQueued(s)' <=> DataQueued(s)) /\ (SynQueued(s)' <=> SynQueued(s))
  BY <1>1 DEF OneQueued, DataQueued, SynQueued
<1>6. f[1] = "SYN" => SynOnWire(s)
  BY <1>4 DEF SynOnWire, SynOf
<1>7. f[1] = "SYN" => ~SynOnWire(s)' /\ ~SynQueued(s)' /\ snd[s].pc # "open" /\ ~rcv[s].known /\ rcv[s].close = "no"
  <2> SUFFICES ASSUME f[1] = "SYN"
               PROVE  ~SynOnWire(s)' /\ ~SynQueued(s)' /\ snd[s].pc # "open" /\ ~rcv[s].known /\ rcv[s].close = "no"
    OBVIOUS
  <2>1. ASSUME NEW k \in 1..Len(wire'), SynOf(wire'[k], s) PROVE FALSE
    <3>1. k + 1 \in 1..Len(wire) /\ SynOf(wire[k + 1], s) /\ k + 1 # 1
      BY <1>4, <2>1
    <3>2. SynOf(wire[1], s)
      BY <1>4 DEF SynOf
    <3> QED BY <1>1, <1>4, <3>1, <3>2 DEF SynOnce
  <2>2. ~SynOnWire(s)'
    BY <2>1 DEF SynOnWire
  <2> QED BY <1>1, <1>5, <1>6, <2>2 DEF SynOnce
<1>8. SynOnWire(s)' => SynOnWire(s)
  BY <1>4 DEF SynOnWire
<1>9. f[1] # "SYN" => (SynOnWire(s) => SynOnWire(s)')
  <2> SUFFICES ASSUME f[1] # "SYN", SynOnWire(s) PROVE SynOnWire(s)'
    OBVIOUS
  <2>1. PICK k \in 1..Len(wire) : SynOf(wire[k], s)
    BY DEF SynOnWire
  <2>2. k # 1
    BY <1>4, <2>1 DEF SynOf
  <2>3. k - 1 \in 1..Len(wire') /\ SynOf(wire'[k - 1], s)
    BY <1>4, <2>1, <2>2
  <2> QED BY <2>3 DEF SynOnWire
<1>10. ReaderMeans(rcv'[s])
  <2>1. rcv[s].close = "done" => ~rcv[s].known /\ rcv[s].buf = << >>
    BY <1>1 DEF ReaderMeans
  <2>2. rcv'[s].close = "done" => ~rcv'[s].known /\ rcv'[s].buf = << >>
    BY <1>2, <1>3, <1>7, <2>1
  <2> QED BY <1>1, <1>2, <2>2 DEF ReaderMeans
<1>11. SynOnce(s)'
  <2>1. ASSUME NEW j \in 1..Len(wire'), NEW k \in 1..Len(wire'), SynOf(wire'[j], s), SynOf(wire'[k], s) PROVE j = k
    <3>1. j + 1 \in 1..Len(wire) /\ SynOf(wire[j + 1], s) /\ j \in Int
      BY <1>4, <2>1
    <3>2. k + 1 \in 1..Len(wire) /\ SynOf(wire[k + 1], s) /\ k \in Int
      BY <1>4, <2>1
    <3>3. j + 1 = k + 1
      BY <1>1, <3>1, <3>2 DEF SynOnce
    <3> QED BY <3>1, <3>2, <3>3
  <2>2. \A j, k \in 1..Len(shaper'.ctrl) : SynOf(shaper'.ctrl[j], s) /\ SynOf(shaper'.ctrl[k], s) => j = k
    BY <1>1 DEF SynOnce
  <2>3. /\ SynOnWire(s)' \/ SynQueued(s)' \/ snd'[s].pc = "open" => ~rcv'[s].known /\ rcv'[s].close = "no"
        /\ SynOnWire(s)' \/ SynQueued(s)' => snd'[s].pc # "open"
        /\ ~(SynOnWire(s)' /\ SynQueued(s)')
    <3>1. CASE f[1] = "SYN"
      BY <1>7, <3>1
    <3>2. CASE f[1] # "SYN"
      <4>1. rcv'[s].known = rcv[s].known
        BY <1>3, <3>2
      <4> QED BY <1>1, <1>2, <1>5, <1>8, <4>1 DEF SynOnce
    <3> QED BY <3>1, <3>2
  <2> QED BY <2>1, <2>2, <2>3 DEF SynOnce
<1>12. SynFirst(s)'
  <2>1. CASE f[1] = "SYN"
    <3>1. Started(s)'
      BY <1>3, <2>1 DEF Started
    <3> QED BY <3>1 DEF SynFirst
  <2>2. CASE f[1] # "SYN"
    <3>1. Started(s)' <=> Started(s)
      BY <1>2, <1>3, <2>2 DEF Started
    <3>2. snd'[s].pc \notin {"open", "syn", "done"} \/ DataQueued(s)' => Started(s)' \/ SynOnWire(s)'
      BY <1>1, <1>5, <1>9, <2>2, <3>1 DEF SynFirst
    <3>3. ASSUME NEW k \in 1..Len(wire'), DataOf(wire'[k], s), ~Started(s)'
          PROVE  \E j \in 1..Len(wire') : j < k /\ SynOf(wire'[j], s)
      <4>1. k + 1 \in 1..Len(wire) /\ DataOf(wire[k + 1], s) /\ k \in Int
        BY <1>4, <3>3
      <4>2. PICK j \in 1..Len(wire) : j < k + 1 /\ SynOf(wire[j], s)
        BY <1>1, <3>1, <3>3, <4>1 DEF SynFirst
      <4>3. j # 1
        BY <1>4, <2>2, <4>2 DEF SynOf
      <4>4. j - 1 \in 1..Len(wire') /\ SynOf(wire'[j - 1], s) /\ j - 1 < k
        BY <1>4, <4>1, <4>2, <4>3
      <4> QED BY <4>4
    <3> QED BY <3>2, <3>3 DEF SynFirst
  <2> QED BY <2>1, <2>2
<1>13. FinLast(s)'
  <2> SUFFICES ASSUME snd[s].ok PROVE FinLast(s)'
    BY DEF FinLast
  <2>1. \A k \in 1..Len(shaper'.ctrl) : FinOf(shaper'.ctrl[k], s) => snd'[s].pc \in {"fin", "done"}
    BY <1>1 DEF FinLast
  <2>2. ASSUME NEW k \in 1..Len(wire'), FinOf(wire'[k], s)
        PROVE  snd'[s].pc \in {"fin", "done"} /\ \A j \in 1..Len(wire') : DataOf(wire'[j], s) => j < k
    <3>1. k + 1 \in 1..Len(wire) /\ FinOf(wire[k + 1], s) /\ k \in Int
      BY <1>4, <2>2
    <3>2. snd[s].pc \in {"fin", "done"} /\ \A j \in 1..Len(wire) : DataOf(wire[j], s) => j < k + 1
      BY <1>1, <3>1 DEF FinLast
    <3>3. ASSUME NEW j \in 1..Len(wire'), DataOf(wire'[j], s) PROVE j < k
      <4>1. j + 1 \in 1..Len(wire) /\ DataOf(wire[j + 1], s) /\ j \in Int
        BY <1>4, <3>3
      <4>2. j + 1 < k + 1
        BY <3>2, <4>1
      <4> QED BY <3>1, <4>1, <4>2
    <3> QED BY <3>2, <3>3
  <2>3. ASSUME rcv'[s].fin
        PROVE  snd'[s].pc \in {"fin", "done"} /\ \A k \in 1..Len(wire') : ~DataOf(wire'[k], s)
    <3>1. CASE rcv[s].fin
      <4>1. snd[s].pc \in {"fin", "done"} /\ \A k \in 1..Len(wire) : ~DataOf(wire[k], s)
        BY <1>1, <3>1 DEF FinLast
      <4> QED BY <1>4, <4>1
    <3>2. CASE ~rcv[s].fin
      <4>1. FinOf(wire[1], s)
        BY <1>3, <1>4, <2>3, <3>2 DEF FinOf
      <4>2. snd[s].pc \in {"fin", "done"} /\ \A j \in 1..Len(wire) : DataOf(wire[j], s) => j < 1
        BY <1>1, <1>4, <4>1 DEF FinLast
      <4>3. ASSUME NEW k \in 1..Len(wire'), DataOf(wire'[k], s) PROVE FALSE
        <5>1. k + 1 \in 1..Len(wire) /\ DataOf(wire[k + 1], s) /\ k \in Int /\ 1 <= k
          BY <1>4, <4>3
        <5>2. k + 1 < 1
          BY <4>2, <5>1
        <5> QED BY <5>1, <5>2
      <4> QED BY <4>2, <4>3
    <3> QED BY <3>1, <3>2
  <2> QED BY <2>1, <2>2, <2>3 DEF FinLast
<1>14. Lines(s)'
  <2>1. Len(rcv[s].got) \in Nat /\ snd[s].next \in 1..(Total + 1)
    BY <1>1 DEF Shape, WriterMeans
  <2>2. CASE f[1] # "PSH"
    <3>1. rcv'[s].buf = rcv[s].buf /\ ~DataOf(f, s)
      BY <1>3, <2>2 DEF DataOf
    <3>2. /\ LineOK(Line(s), Len(rcv[s].got), snd[s].next) => LineOK(Line(s)', Len(rcv[s].got), snd[s].next)
          /\ LineBefore(Line(s), Len(rcv[s].got), snd[s].next)
                => LineBefore(Line(s)', Len(rcv[s].got), snd[s].next)
      BY <2>1, <3>1, LineUnread
    <3> QED BY <1>1, <1>2, <1>5, <3>2, LinesKept
  <2>3. CASE f[1] = "PSH" /\ rcv[s].known
    <3>1. rcv'[s].buf = Append(rcv[s].buf, f[3]) /\ DataOf(f, s)
      BY <1>3, <2>3 DEF DataOf
    <3>2. Line(s)' = Line(s)
      BY <3>1, LinePushed
    <3> QED BY <1>1, <1>2, <1>5, <3>2, LinesKept
  <2>4. CASE f[1] = "PSH" /\ ~rcv[s].known
    \* No data comes before its SYN: the stream is closed.
    <3>1. DataOf(wire[1], s)
      BY <1>4, <2>4 DEF DataOf
    <3>2. Started(s) \/ \E j \in 1..Len(wire) : j < 1 /\ SynOf(wire[j], s)
      BY <1>1, <1>4, <3>1 DEF SynFirst
    <3>3. rcv[s].close = "done"
      BY <2>4, <3>2 DEF Started
    <3> QED BY <1>2, <3>3 DEF Lines
  <2> QED BY <2>2, <2>3, <2>4
<1>15. EOFMeans(s)'
  BY <1>1, <1>2 DEF EOFMeans
<1>16. WriterMeans(snd'[s])
  BY <1>1
<1> QED BY <1>5, <1>10, <1>11, <1>12, <1>13, <1>14, <1>15, <1>16 DEF StreamInv

\* recvLoop keeps the invariant.
LEMMA RecvKeeps ==
    ASSUME EOFInv, Recv
    PROVE  EOFInv'
<1>1. Shape /\ Numbers /\ Queues /\ \A t \in Streams : StreamInv(t)
  BY DEF EOFInv
<1>2. PICK f \in Frames :
        /\ wire # << >> /\ f = Head(wire) /\ wire' = Tail(wire) /\ UNCHANGED <<snd, shaper, upd, back>>
        /\ DOMAIN rcv' = Streams /\ DOMAIN rcv'[f[2]] = rcvFields
        /\ \A t \in Streams : t # f[2] => rcv'[t] = rcv[t]
        /\ Counters(rcv'[f[2]]) /\ (recv'.pc = "pushed" => recv'.s \in Streams) /\ Gets(f)
  BY RecvSteps
<1>3. PICK s \in Streams : s = f[2]
  BY DEF Frames
<1>4. wire \in Seq(Frames) /\ wire' \in Seq(Frames)
  BY <1>1, <1>2 DEF Shape
<1>5. Shape'
  <2>1. rcv[s].buf \in Seq(Seq(Nat)) /\ rcv[s].got \in Seq(Nat)
    BY <1>1 DEF Shape
  <2>2. f[3] \in Seq(Nat)
    BY DEF Frames
  <2>3. Append(rcv[s].buf, f[3]) \in Seq(Seq(Nat))
    BY <2>1, <2>2
  <2>4. rcv'[s].buf \in Seq(Seq(Nat)) /\ rcv'[s].got \in Seq(Nat)
    BY <1>2, <1>3, <2>1, <2>3 DEF Gets
  <2>5. \A t \in Streams : DOMAIN rcv'[t] = rcvFields
    BY <1>1, <1>2, <1>3 DEF Shape
  <2>6. \A t \in Streams : rcv'[t].buf \in Seq(Seq(Nat)) /\ rcv'[t].got \in Seq(Nat)
    BY <1>1, <1>2, <1>3, <2>4 DEF Shape
  <2> QED BY <1>1, <1>2, <1>4, <2>5, <2>6 DEF Shape
<1>6. Numbers'
  <2>1. \A t \in Streams : Counters(rcv'[t])
    BY <1>1, <1>2, <1>3 DEF Numbers
  <2> QED BY <1>1, <1>2, <2>1 DEF Numbers
<1>7. Queues'
  BY <1>1, <1>2 DEF Queues
<1>8. ASSUME NEW t \in Streams PROVE StreamInv(t)'
  <2>1. CASE t # s
    <3>1. Stands(t) /\ Rests(t)
      BY <1>2, <1>3, <2>1 DEF Stands, Rests
    <3>2. Shift(shaper.ctrl, shaper'.ctrl, 0, t) /\ Shift(shaper.data, shaper'.data, 0, t)
      BY <1>1, <1>2, ShiftSame DEF Shape
    <3>3. Shift(wire, wire', 1, t)
      BY <1>2, <1>3, <1>4, <2>1, ShiftWithout
    <3>4. Len(rcv[t].got) \in Nat /\ snd[t].next \in 1..(Total + 1)
      BY <1>1 DEF Shape, WriterMeans, StreamInv
    <3>5. ~DataOf(Head(wire), t) /\ rcv'[t].buf = rcv[t].buf
      BY <1>2, <1>3, <2>1 DEF DataOf
    <3>6. /\ LineOK(Line(t), Len(rcv[t].got), snd[t].next) => LineOK(Line(t)', Len(rcv[t].got), snd[t].next)
          /\ LineBefore(Line(t), Len(rcv[t].got), snd[t].next)
                => LineBefore(Line(t)', Len(rcv[t].got), snd[t].next)
      BY <1>1, <1>2, <1>5, <3>4, <3>5, LineUnread
    <3> QED BY <1>1, <3>1, <3>2, <3>3, <3>6, AsideKeeps
  <2>2. CASE t = s
    <3>1. StreamInv(s) /\ snd' = snd /\ shaper' = shaper
      BY <1>1, <1>2
    <3>2. StreamInv(s)'
      BY <1>1, <1>2, <1>3, <1>5, <3>1, GetsKeeps
    <3> QED BY <2>2, <3>2
  <2> QED BY <2>1, <2>2
<1> QED BY <1>5, <1>6, <1>7, <1>8 DEF EOFInv

\* A reader's own stream: what was sent, and how far, is not its doing.
LEMMA ReaderLeaves ==
    ASSUME Shape, NEW s \in Streams, StreamInv(s), wire' = wire, snd' = snd, shaper' = shaper,
           rcv'[s].fin = rcv[s].fin, Started(s) => Started(s)',
           ~rcv[s].known /\ rcv[s].close = "no" => ~rcv'[s].known /\ rcv'[s].close = "no"
    PROVE  /\ WriterMeans(snd'[s]) /\ OneQueued(s)' /\ SynOnce(s)' /\ SynFirst(s)' /\ FinLast(s)'
           /\ DataQueued(s)' <=> DataQueued(s)
<1>1. WriterMeans(snd[s]) /\ OneQueued(s) /\ SynOnce(s) /\ SynFirst(s) /\ FinLast(s)
  BY DEF StreamInv
<1>2. Shift(shaper.ctrl, shaper'.ctrl, 0, s) /\ Shift(shaper.data, shaper'.data, 0, s) /\ Shift(wire, wire', 0, s)
  BY ShiftSame DEF Shape
<1>3. Keeps(s)
  BY DEF Keeps
<1>4. SynOnce(s)'
  BY <1>1, <1>2, SynOnceShift
<1>5. SynFirst(s)'
  BY <1>1, <1>2, SynFirstShift
<1>6. FinLast(s)'
  BY <1>1, <1>2, <1>3, FinLastShift
<1>7. OneQueued(s)'
  BY <1>1, <1>2, <1>3, OneQueuedShift
<1>8. DataQueued(s)' <=> DataQueued(s)
  BY DEF DataQueued
<1> QED BY <1>1, <1>4, <1>5, <1>6, <1>7, <1>8

\* What Read returns is put behind what it returned before.
LEMMA ReadMore ==
    ASSUME NEW a \in Seq(Nat), NEW h \in Seq(Nat), NEW m \in 1..Len(h)
    PROVE  /\ a \o SubSeq(h, 1, m) \in Seq(Nat) /\ Len(a \o SubSeq(h, 1, m)) = Len(a) + m
           /\ \A i \in 1..Len(a) : (a \o SubSeq(h, 1, m))[i] = a[i]
           /\ \A i \in 1..m : (a \o SubSeq(h, 1, m))[Len(a) + i] = h[i]
<1>1. PICK u : u = SubSeq(h, 1, m)
  OBVIOUS
<1>2. u \in Seq(Nat) /\ Len(u) = m /\ \A i \in 1..m : u[i] = h[i]
  <2>1. Len(h) \in Nat /\ m \in Nat /\ \A i \in 1..m : h[i] \in Nat
    OBVIOUS
  <2> QED BY <1>1, <2>1
<1>3. a \o u \in Seq(Nat) /\ Len(a \o u) = Len(a) + m
  BY <1>2
<1>4. \A i \in 1..Len(a) : (a \o u)[i] = a[i]
  BY <1>2
<1>5. ASSUME NEW i \in 1..m PROVE (a \o u)[Len(a) + i] = h[i]
  <2>1. Len(a) \in Nat /\ Len(a) + i \in 1..(Len(a) + m) /\ ~(Len(a) + i <= Len(a)) /\ (Len(a) + i) - Len(a) = i
    OBVIOUS
  <2>2. (a \o u)[Len(a) + i] = u[i]
    BY <1>2, <2>1
  <2> QED BY <1>2, <2>2
<1> QED BY <1>1, <1>3, <1>4, <1>5

\* A Read leaves buffers of bytes.
LEMMA TakesShape ==
    ASSUME Shape, NEW s \in Streams, Takes(s)
    PROVE  rcv'[s].buf \in Seq(Seq(Nat)) /\ rcv'[s].got \in Seq(Nat)
<1>1. rcv[s].buf \in Seq(Seq(Nat)) /\ rcv[s].got \in Seq(Nat) /\ rcv[s].buf # << >>
  BY DEF Shape, Takes
<1>a. Head(rcv[s].buf) \in Seq(Nat) /\ Tail(rcv[s].buf) \in Seq(Seq(Nat))
  BY <1>1, Without
<1>2. PICK h \in Seq(Nat) : h = Head(rcv[s].buf)
  BY <1>a
<1>3. PICK u \in Seq(Seq(Nat)) : u = Tail(rcv[s].buf)
  BY <1>a
<1>4. PICK m \in 1..Len(h) : /\ rcv'[s].got = rcv[s].got \o SubSeq(h, 1, m)
                             /\ rcv'[s].buf = IF m = Len(h) THEN u ELSE <<SubSeq(h, m + 1, Len(h))>> \o u
  BY <1>2, <1>3 DEF Takes
<1>5. rcv'[s].got \in Seq(Nat)
  BY <1>1, <1>4, ReadMore
<1>6. PICK x \in Seq(Nat) : x = SubSeq(h, m + 1, Len(h))
  BY RestIsSeq
<1>7. <<x>> \o u \in Seq(Seq(Nat))
  BY Prepended
<1> QED BY <1>4, <1>5, <1>6, <1>7

\* A Read that returns bytes keeps the invariant of its stream,
LEMMA TakesKeeps ==
    ASSUME Shape, Shape', NEW s \in Streams, StreamInv(s), Takes(s), wire' = wire, snd' = snd, shaper' = shaper
    PROVE  StreamInv(s)'
<1>1. Lines(s) /\ ReaderMeans(rcv[s]) /\ WriterMeans(snd[s])
  BY DEF StreamInv
<1>2. /\ rcv'[s].known = rcv[s].known /\ rcv'[s].close = rcv[s].close /\ rcv'[s].fin = rcv[s].fin
      /\ rcv'[s].eof = rcv[s].eof /\ rcv'[s].die = rcv[s].die /\ rcv[s].buf # << >> /\ rcv[s].pc # "done"
  BY DEF Takes
<1>3. /\ WriterMeans(snd'[s]) /\ OneQueued(s)' /\ SynOnce(s)' /\ SynFirst(s)' /\ FinLast(s)'
      /\ DataQueued(s)' <=> DataQueued(s)
  BY <1>2, ReaderLeaves DEF Started
<1>4. ~rcv[s].eof /\ rcv[s].close # "done"
  BY <1>1, <1>2 DEF ReaderMeans
<1>5. PICK a \in Seq(Nat) : a = rcv[s].got
  BY DEF Shape
<1>6. PICK m \in 1..Len(Head(rcv[s].buf)) :
        /\ rcv'[s].got = a \o SubSeq(Head(rcv[s].buf), 1, m)
        /\ rcv'[s].buf = IF m = Len(Head(rcv[s].buf)) THEN Tail(rcv[s].buf)
                         ELSE <<SubSeq(Head(rcv[s].buf), m + 1, Len(Head(rcv[s].buf)))>> \o Tail(rcv[s].buf)
  BY <1>5 DEF Takes
<1>7. PICK g \in Nat : g = Len(a)
  BY <1>5
<1>8. PICK n \in 1..(Total + 1) : n = snd[s].next
  BY <1>1 DEF WriterMeans
<1>9. LineOK(Line(s), g, n)
  BY <1>1, <1>4, <1>5, <1>7, <1>8 DEF Lines
<1>10. /\ Head(rcv[s].buf) \in Seq(Nat) /\ Head(rcv[s].buf)[1] = g + 1 /\ Run(Head(rcv[s].buf))
       /\ LineOK(Line(s)', g + m, n)
       /\ LineBefore(Line(s), g, n) => LineBefore(Line(s)', g + m, n)
  BY <1>2, <1>6, <1>9, LineTaken
<1>11. PICK h \in Seq(Nat) : h = Head(rcv[s].buf)
  BY <1>10
<1>12. m \in 1..Len(h) /\ h[1] = g + 1 /\ Run(h)
  BY <1>10, <1>11
<1>13. /\ Len(rcv'[s].got) = g + m
       /\ \A i \in 1..g : rcv'[s].got[i] = a[i]
       /\ \A i \in 1..m : rcv'[s].got[g + i] = h[i]
  BY <1>6, <1>7, <1>11, <1>12, ReadMore
<1>14. ASSUME NEW i \in 1..Len(rcv'[s].got) PROVE rcv'[s].got[i] = i
  <2>0. m \in Nat
    BY <1>12
  <2>1. CASE i \in 1..g
    BY <1>1, <1>5, <1>7, <1>13, <2>1 DEF ReaderMeans
  <2>2. CASE i \notin 1..g
    <3>1. PICK j \in 1..m : j = i - g
      <4>1. i \in 1..(g + m)
        BY <1>13
      <4>2. i - g \in 1..m
        BY <2>0, <2>2, <4>1
      <4> QED BY <4>2
    <3>2. i = g + j /\ j \in Nat
      BY <1>13, <2>0, <3>1
    <3>3. h[j] = h[1] + j - 1
      <4>1. j \in 1..Len(h)
        BY <1>12
      <4> QED BY <1>12, <4>1 DEF Run
    <3>4. h[j] = i
      BY <1>12, <3>2, <3>3
    <3> QED BY <1>13, <3>2, <3>4
  <2> QED BY <2>1, <2>2
<1>15. ReaderMeans(rcv'[s])
  <2>1. rcv'[s].close \in {"no", "fin", "done"} /\ (rcv'[s].close # "no" => rcv'[s].die)
    BY <1>1, <1>2 DEF ReaderMeans
  <2>2. ~rcv'[s].eof /\ rcv'[s].close # "done"
    BY <1>2, <1>4
  <2> QED BY <1>14, <2>1, <2>2 DEF ReaderMeans
<1>16. Lines(s)'
  <2>1. LineOK(Line(s)', Len(rcv'[s].got), snd'[s].next)
    BY <1>8, <1>10, <1>13
  <2>2. ASSUME snd'[s].ok \/ DataQueued(s)' PROVE LineBefore(Line(s)', Len(rcv'[s].got), snd'[s].next)
    <3>1. LineBefore(Line(s), g, n)
      BY <1>1, <1>3, <1>4, <1>5, <1>7, <1>8, <2>2 DEF Lines
    <3> QED BY <1>8, <1>10, <1>13, <3>1
  <2> QED BY <2>1, <2>2 DEF Lines
<1>17. EOFMeans(s)'
  BY <1>2, <1>4 DEF EOFMeans
<1> QED BY <1>3, <1>15, <1>16, <1>17 DEF StreamInv

\* Nothing is on the line of a stream that ends: everything has been read.
LEMMA HearsAll ==
    ASSUME Shape, NEW s \in Streams, StreamInv(s), rcv[s].fin, rcv[s].buf = << >>, ~rcv[s].die, snd[s].ok
    PROVE  Len(rcv[s].got) = Total
<1>1. Lines(s) /\ ReaderMeans(rcv[s]) /\ WriterMeans(snd[s]) /\ FinLast(s)
  BY DEF StreamInv
<1>2. rcv[s].close # "done"
  BY <1>1 DEF ReaderMeans
<1>3. snd[s].pc \in {"fin", "done"} /\ \A k \in 1..Len(wire) : ~DataOf(wire[k], s)
  BY <1>1 DEF FinLast
<1>4. snd[s].next = Total + 1
  BY <1>1, <1>3 DEF WriterMeans, Closing
<1>5. PICK g \in Nat : g = Len(rcv[s].got)
  BY DEF Shape
<1>6. PICK L : L = Line(s)
  OBVIOUS
<1>7. LineOK(L, g, Total + 1) /\ LineBefore(L, g, Total + 1)
  BY <1>1, <1>2, <1>4, <1>5, <1>6 DEF Lines
<1>8. \A k \in 1..Len(L) : Len(L[k]) = 0
  <2>1. IsJoin(L, << >>, wire, s)
    BY <1>6, LineIs
  <2>2. ASSUME NEW k \in 1..Len(L) PROVE Len(L[k]) = 0
    <3>1. Len(<< >>) = 0
      OBVIOUS
    <3>2. k - 0 \in 1..Len(wire) /\ k \in Int
      BY <2>1, <3>1 DEF IsJoin
    <3>3. k \in 1..Len(wire)
      BY <3>2
    <3>4. L[0 + k] = Piece(wire[k], s)
      BY <2>1, <3>1, <3>3 DEF IsJoin
    <3>5. L[k] = << >>
      BY <1>3, <3>2, <3>3, <3>4 DEF Piece
    <3> QED BY <3>5
  <2> QED BY <2>2
<1>9. g < Total + 1
  BY <1>7 DEF LineBefore
<1>10. ASSUME g < Total PROVE FALSE
  <2>1. g + 1 \in 1..Total /\ g < g + 1 /\ g + 1 < Total + 1
    BY <1>10, FrameSizes
  <2>2. PICK k \in 1..Len(L) : Len(L[k]) > 0
    BY <1>7, <2>1 DEF LineOK
  <2> QED BY <1>8, <2>2
<1> QED BY <1>5, <1>9, <1>10, FrameSizes

\* and so do the end of the stream, Close and streamClosed.
LEMMA ClosesKeep ==
    ASSUME Shape, NEW s \in Streams, StreamInv(s), Hears(s) \/ LetsGo(s) \/ Forgets(s),
           wire' = wire, snd' = snd, shaper' = shaper
    PROVE  StreamInv(s)'
<1>1. Lines(s) /\ ReaderMeans(rcv[s]) /\ EOFMeans(s)
  BY DEF StreamInv
<1>2. CASE Hears(s)
  <2>1. /\ rcv[s].fin /\ rcv[s].buf = << >> /\ rcv'[s].buf = rcv[s].buf /\ rcv'[s].got = rcv[s].got
        /\ rcv'[s].known = rcv[s].known /\ rcv'[s].close = rcv[s].close /\ rcv'[s].fin = rcv[s].fin
        /\ rcv'[s].die = rcv[s].die /\ rcv'[s].pc = "done"
    BY <1>2 DEF Hears
  <2>2. /\ WriterMeans(snd'[s]) /\ OneQueued(s)' /\ SynOnce(s)' /\ SynFirst(s)' /\ FinLast(s)'
        /\ DataQueued(s)' <=> DataQueued(s)
    BY <2>1, ReaderLeaves DEF Started
  <2>3. Lines(s)'
    <3>1. Line(s)' = Line(s)
      BY <2>1 DEF Line
    <3> QED BY <1>1, <2>1, <2>2, <3>1, LinesKept
  <2>4. ReaderMeans(rcv'[s])
    BY <1>1, <2>1 DEF ReaderMeans
  <2>5. EOFMeans(s)'
    BY <2>1, HearsAll DEF EOFMeans
  <2> QED BY <2>2, <2>3, <2>4, <2>5 DEF StreamInv
<1>3. CASE LetsGo(s)
  <2>1. /\ rcv[s].known /\ rcv[s].close = "no" /\ rcv'[s].close = "fin" /\ rcv'[s].die = TRUE
        /\ rcv'[s].buf = rcv[s].buf /\ rcv'[s].got = rcv[s].got /\ rcv'[s].known = rcv[s].known
        /\ rcv'[s].fin = rcv[s].fin /\ rcv'[s].eof = rcv[s].eof /\ rcv'[s].pc = rcv[s].pc
    BY <1>3 DEF LetsGo
  <2>2. /\ WriterMeans(snd'[s]) /\ OneQueued(s)' /\ SynOnce(s)' /\ SynFirst(s)' /\ FinLast(s)'
        /\ DataQueued(s)' <=> DataQueued(s)
    BY <2>1, ReaderLeaves DEF Started
  <2>3. Lines(s)'
    <3>1. Line(s)' = Line(s)
      BY <2>1 DEF Line
    <3> QED BY <1>1, <2>1, <2>2, <3>1, LinesKept
  <2>4. ReaderMeans(rcv'[s])
    BY <1>1, <2>1 DEF ReaderMeans
  <2>5. EOFMeans(s)'
    BY <2>1 DEF EOFMeans
  <2> QED BY <2>2, <2>3, <2>4, <2>5 DEF StreamInv
<1>4. CASE Forgets(s)
  <2>1. /\ rcv[s].close = "fin" /\ rcv'[s].close = "done" /\ rcv'[s].buf = << >> /\ rcv'[s].known = FALSE
        /\ rcv'[s].got = rcv[s].got /\ rcv'[s].fin = rcv[s].fin /\ rcv'[s].eof = rcv[s].eof
        /\ rcv'[s].die = rcv[s].die /\ rcv'[s].pc = rcv[s].pc
    BY <1>4 DEF Forgets
  <2>2. /\ WriterMeans(snd'[s]) /\ OneQueued(s)' /\ SynOnce(s)' /\ SynFirst(s)' /\ FinLast(s)'
    BY <2>1, ReaderLeaves DEF Started
  <2>3. Lines(s)'
    BY <2>1 DEF Lines
  <2>4. rcv[s].die
    BY <1>1, <2>1 DEF ReaderMeans
  <2>5. ReaderMeans(rcv'[s])
    BY <1>1, <2>1, <2>4 DEF ReaderMeans
  <2>6. EOFMeans(s)'
    BY <2>1, <2>4 DEF EOFMeans
  <2> QED BY <2>2, <2>3, <2>5, <2>6 DEF StreamInv
<1> QED BY <1>2, <1>3, <1>4

\* The reading end's goroutines keep the invariant.
LEMMA ReaderKeeps ==
    ASSUME EOFInv, NEW s \in Streams,
           Reader(s) \/ SetReceiveWindow(s) \/ WindowSet(s) \/ Closer(s) \/ ReaderClose(s, TRUE)
    PROVE  EOFInv'
<1>1. Shape /\ Numbers /\ Queues /\ \A t \in Streams : StreamInv(t)
  BY DEF EOFInv
<1>2. /\ DOMAIN rcv' = Streams /\ DOMAIN rcv'[s] = rcvFields /\ (\A t \in Streams : t # s => rcv'[t] = rcv[t])
      /\ UNCHANGED <<snd, shaper, upd, wire, recv>> /\ back' \in Seq(Answers) /\ Counters(rcv'[s])
  BY ReaderSteps
<1>3. ReaderStep(s)
  BY ReaderSteps
<1>4. Shape'
  <2>1. rcv[s].buf \in Seq(Seq(Nat)) /\ rcv[s].got \in Seq(Nat) /\ << >> \in Seq(Seq(Nat))
    BY <1>1 DEF Shape
  <2>2. rcv'[s].buf \in Seq(Seq(Nat)) /\ rcv'[s].got \in Seq(Nat)
    <3>1. CASE Takes(s)
      BY <1>1, <3>1, TakesShape
    <3>2. CASE ~Takes(s)
      BY <1>3, <2>1, <3>2 DEF ReaderStep, Rests, Hears, LetsGo, Forgets
    <3> QED BY <3>1, <3>2
  <2>3. \A t \in Streams : DOMAIN rcv'[t] = rcvFields
    BY <1>1, <1>2 DEF Shape
  <2>4. \A t \in Streams : rcv'[t].buf \in Seq(Seq(Nat)) /\ rcv'[t].got \in Seq(Nat)
    BY <1>1, <1>2, <2>2 DEF Shape
  <2> QED BY <1>1, <1>2, <2>3, <2>4 DEF Shape
<1>5. Numbers'
  <2>1. \A t \in Streams : Counters(rcv'[t])
    BY <1>1, <1>2 DEF Numbers
  <2> QED BY <1>1, <1>2, <2>1 DEF Numbers
<1>6. Queues'
  BY <1>1, <1>2 DEF Queues
<1>7. ASSUME NEW t \in Streams PROVE StreamInv(t)'
  <2>1. wire' = wire /\ snd' = snd /\ shaper' = shaper /\ StreamInv(t) /\ Stands(t)
    BY <1>1, <1>2 DEF Stands
  <2>2. CASE t # s \/ Rests(s)
    <3>1. Rests(t)
      BY <1>2, <2>2 DEF Rests
    <3>2. Shift(shaper.ctrl, shaper'.ctrl, 0, t) /\ Shift(shaper.data, shaper'.data, 0, t)
      BY <1>1, <2>1, ShiftSame DEF Shape
    <3> QED BY <1>1, <2>1, <3>1, <3>2, StillKeeps
  <2>3. CASE t = s /\ ~Rests(s)
    <3>1. StreamInv(s)
      BY <1>1
    <3>2. StreamInv(s)'
      BY <1>1, <1>3, <1>4, <2>1, <2>3, <3>1, TakesKeeps, ClosesKeep DEF ReaderStep
    <3> QED BY <2>3, <3>2
  <2> QED BY <2>2, <2>3
<1> QED BY <1>4, <1>5, <1>6, <1>7 DEF EOFInv

\* It holds in the beginning,
LEMMA EOFInit ==
    ASSUME Init
    PROVE  EOFInv
<1>1. PICK c \in [Streams -> Carried] :
        /\ snd = [s \in Streams |->
             [pc |-> IF c[s] = 0 THEN "open" ELSE "look", next |-> 1, bts |-> 0, inflight |-> 0,
              numWritten |-> c[s], peerConsumed |-> c[s],
              peerWindow |-> IF c[s] = 0 THEN initialPeerWindow ELSE MaxStreamBuffer,
              chUpdate |-> FALSE, fin |-> FALSE, ok |-> TRUE]]
        /\ rcv = [s \in Streams |->
             [known |-> c[s] # 0, buf |-> << >>, numRead |-> c[s], incr |-> 0,
              window |-> MaxStreamBuffer, event |-> FALSE, fin |-> FALSE, die |-> FALSE,
              pc |-> "read", n |-> 0, tell |-> FALSE, consumed |-> 0,
              set |-> "no", setConsumed |-> 0,
              close |-> "no", got |-> << >>, eof |-> FALSE]]
  BY DEF Init
<1>2. shaper = [ctrl |-> << >>, data |-> << >>] /\ upd = None /\ wire = << >> /\ back = << >> /\ recv = At("loop")
  BY DEF Init
<1>3. DOMAIN shaper = {"ctrl", "data"} /\ shaper.ctrl = << >> /\ shaper.data = << >>
  BY <1>2
<1>4. \A S : << >> \in Seq(S) /\ Len(<< >>) = 0
  OBVIOUS
<1>5. DOMAIN snd = Streams /\ DOMAIN rcv = Streams
  BY <1>1
<1>6. ASSUME NEW s \in Streams
      PROVE  /\ DOMAIN snd[s] = sndFields /\ (snd[s].pc = "open" \/ (snd[s].pc = "look" /\ rcv[s].known))
             /\ snd[s].next = 1 /\ snd[s].ok /\ snd[s].inflight \in Int
             /\ snd[s].numWritten \in Int /\ snd[s].peerConsumed \in Int /\ snd[s].peerWindow \in Int
             /\ DOMAIN rcv[s] = rcvFields /\ Counters(rcv[s])
             /\ rcv[s].buf = << >> /\ rcv[s].got = << >> /\ ~rcv[s].fin /\ ~rcv[s].eof /\ rcv[s].close = "no"
             /\ (snd[s].pc = "open" => ~rcv[s].known)
  <2>a. c[s] \in Carried
    OBVIOUS
  <2>b. c[s] \in Nat
    BY <2>a, FrameSizes
  <2>1. c[s] \in Int /\ initialPeerWindow \in Int /\ MaxStreamBuffer \in Int
    BY <2>b, FrameSizes
  <2>2. PICK x : x = snd[s]
    OBVIOUS
  <2>3. x = [pc |-> IF c[s] = 0 THEN "open" ELSE "look", next |-> 1, bts |-> 0, inflight |-> 0,
              numWritten |-> c[s], peerConsumed |-> c[s],
              peerWindow |-> IF c[s] = 0 THEN initialPeerWindow ELSE MaxStreamBuffer,
              chUpdate |-> FALSE, fin |-> FALSE, ok |-> TRUE]
    BY <1>1, <2>2
  <2>4. DOMAIN x = sndFields /\ x.pc = (IF c[s] = 0 THEN "open" ELSE "look") /\ x.next = 1 /\ x.ok = TRUE
        /\ x.inflight = 0 /\ x.numWritten = c[s] /\ x.peerConsumed = c[s]
        /\ x.peerWindow = (IF c[s] = 0 THEN initialPeerWindow ELSE MaxStreamBuffer)
    BY <2>3 DEF sndFields
  <2>5. PICK y : y = rcv[s]
    OBVIOUS
  <2>6. y = [known |-> c[s] # 0, buf |-> << >>, numRead |-> c[s], incr |-> 0,
              window |-> MaxStreamBuffer, event |-> FALSE, fin |-> FALSE, die |-> FALSE,
              pc |-> "read", n |-> 0, tell |-> FALSE, consumed |-> 0,
              set |-> "no", setConsumed |-> 0,
              close |-> "no", got |-> << >>, eof |-> FALSE]
    BY <1>1, <2>5
  <2>7. DOMAIN y = rcvFields /\ y.known = (c[s] # 0) /\ y.buf = << >> /\ y.got = << >> /\ y.fin = FALSE /\ y.eof = FALSE
        /\ y.close = "no" /\ y.numRead = c[s] /\ y.window = MaxStreamBuffer /\ y.consumed = 0 /\ y.setConsumed = 0
    BY <2>6 DEF rcvFields
  <2>8. Counters(y)
    BY <2>1, <2>7 DEF Counters
  <2>9. x.inflight \in Int /\ x.numWritten \in Int /\ x.peerConsumed \in Int /\ x.peerWindow \in Int
    BY <2>1, <2>4
  <2>10. (x.pc = "open" \/ (x.pc = "look" /\ y.known)) /\ (x.pc = "open" => ~y.known)
    BY <2>4, <2>7
  <2> QED BY <2>2, <2>4, <2>5, <2>7, <2>8, <2>9, <2>10
<1>7. Shape
  <2>1. \A s \in Streams : DOMAIN snd[s] = sndFields /\ DOMAIN rcv[s] = rcvFields
    BY <1>6
  <2>2. \A s \in Streams : rcv[s].buf \in Seq(Seq(Nat)) /\ rcv[s].got \in Seq(Nat)
    BY <1>4, <1>6
  <2>3. recv.pc # "pushed"
    BY <1>2 DEF At
  <2> QED BY <1>2, <1>3, <1>4, <1>5, <2>1, <2>2, <2>3 DEF Shape
<1>8. Numbers
  BY <1>2, <1>6 DEF Numbers
<1>9. Queues
  BY <1>3 DEF Queues
<1>10. ASSUME NEW s \in Streams PROVE StreamInv(s)
  <2>0. /\ (snd[s].pc = "open" \/ (snd[s].pc = "look" /\ rcv[s].known))
        /\ snd[s].next = 1 /\ snd[s].ok
        /\ rcv[s].buf = << >> /\ rcv[s].got = << >> /\ ~rcv[s].fin /\ ~rcv[s].eof /\ rcv[s].close = "no"
        /\ (snd[s].pc = "open" => ~rcv[s].known)
    BY <1>6
  <2>1. WriterMeans(snd[s])
    BY <2>0, FrameSizes DEF WriterMeans, Waiting, Closing
  <2>2. OneQueued(s) /\ ~DataQueued(s) /\ ~SynQueued(s) /\ ~SynOnWire(s)
    BY <1>2, <1>3 DEF OneQueued, DataQueued, SynQueued, SynOnWire
  <2>3. Lines(s)
    <3>1. PICK L : L = Line(s)
      OBVIOUS
    <3>2. Len(L) = 0
      <4>1. IsJoin(L, << >>, << >>, s)
        BY <1>2, <1>7, <2>0, <3>1, LineIs
      <4> QED BY <4>1 DEF IsJoin
    <3>3. LineOK(L, 0, 1)
      BY <3>2 DEF LineOK
    <3>4. LineBefore(L, 0, 1)
      BY <3>2 DEF LineBefore
    <3>5. Len(rcv[s].got) = 0
      BY <2>0
    <3> QED BY <2>0, <3>1, <3>3, <3>4, <3>5 DEF Lines
  <2>4. SynOnce(s)
    BY <1>2, <1>3, <2>0, <2>2 DEF SynOnce
  <2>5. SynFirst(s)
    BY <1>2, <2>0, <2>2 DEF SynFirst, Started
  <2>6. FinLast(s)
    BY <1>2, <1>3, <2>0 DEF FinLast
  <2>7. ReaderMeans(rcv[s])
    <3>1. Len(rcv[s].got) = 0
      BY <2>0
    <3> QED BY <2>0, <3>1 DEF ReaderMeans
  <2>8. EOFMeans(s)
    BY <2>0 DEF EOFMeans
  <2> QED BY <2>1, <2>2, <2>3, <2>4, <2>5, <2>6, <2>7, <2>8 DEF StreamInv
<1> QED BY <1>7, <1>8, <1>9, <1>10 DEF EOFInv

\* and every step keeps it.
LEMMA EOFStep ==
    ASSUME EOFInv, [Next]_vars
    PROVE  EOFInv'
<1>1. CASE UNCHANGED vars
  <2>1. snd' = snd /\ shaper' = shaper /\ upd' = upd /\ wire' = wire /\ recv' = recv /\ rcv' = rcv /\ back' = back
    BY <1>1 DEF vars
  <2>2. Shape /\ Numbers /\ Queues /\ \A t \in Streams : StreamInv(t)
    BY DEF EOFInv
  <2>3. Shape' /\ Numbers' /\ Queues'
    BY <2>1, <2>2 DEF Shape, Numbers, Queues
  <2>4. ASSUME NEW t \in Streams PROVE StreamInv(t)'
    <3>1. Stands(t) /\ Rests(t)
      BY <2>1 DEF Stands, Rests
    <3>2. Shift(shaper.ctrl, shaper'.ctrl, 0, t) /\ Shift(shaper.data, shaper'.data, 0, t)
      BY <2>1, <2>2, ShiftSame DEF Shape
    <3> QED BY <2>1, <2>2, <3>1, <3>2, StillKeeps
  <2> QED BY <2>3, <2>4 DEF EOFInv
<1> QED BY <1>1, WriterKeeps, ReaderKeeps, SendKeeps, ToldKeeps, RecvKeeps, TokensKeep DEF Next

\* A reader that Read told of the end has been given every byte, in order, that
\* Write said it had written, whatever the number of streams, the sizes and the
\* windows: shaperLoop's control frames first, recvLoop, and the deadlines of
\* both ends let no FIN overtake data that was acknowledged to its writer.
THEOREM EndIsEnd == Spec => []EOFMeansAll
<1>1. Init => EOFInv
  BY EOFInit
<1>2. EOFInv /\ [Next]_vars => EOFInv'
  BY EOFStep
<1>3. EOFInv => EOFMeansAll
  <2> SUFFICES ASSUME EOFInv, NEW s \in Streams
               PROVE  /\ rcv[s].got = [i \in 1..Len(rcv[s].got) |-> i]
                      /\ rcv[s].eof /\ ~rcv[s].die /\ snd[s].ok => Len(rcv[s].got) = Total
    BY DEF EOFMeansAll
  <2>1. rcv[s].got \in Seq(Nat) /\ ReaderMeans(rcv[s]) /\ EOFMeans(s)
    BY DEF EOFInv, Shape, StreamInv
  <2>2. rcv[s].got = [i \in 1..Len(rcv[s].got) |-> i]
    <3>1. PICK a \in Seq(Nat) : a = rcv[s].got
      BY <2>1
    <3>2. \A i \in 1..Len(a) : a[i] = i
      BY <2>1, <3>1 DEF ReaderMeans
    <3>3. a = [i \in 1..Len(a) |-> a[i]]
      OBVIOUS
    <3>4. a = [i \in 1..Len(a) |-> i]
      BY <3>2, <3>3
    <3> QED BY <3>1, <3>4
  <2> QED BY <2>1, <2>2 DEF EOFMeans
<1> QED BY <1>1, <1>2, <1>3, PTL DEF Spec

-----------------------------------------------------------------------------
(* The bytes of pieces and frames. *)

Bytes(q) == SumFunction([i \in 1..Len(q) |-> Len(q[i])])

\* The bytes of the buffers of a stream: a number,
LEMMA BytesNat ==
    ASSUME NEW q \in Seq(Seq(Nat))
    PROVE  Bytes(q) \in Nat
<1> DEFINE f == [i \in 1..Len(q) |-> Len(q[i])]
<1>1. DOMAIN f = 1..Len(q) /\ IsFiniteSet(1..Len(q)) /\ \A i \in 1..Len(q) : f[i] \in Nat
  BY FS_Interval
<1>2. Bytes(q) = SumFunctionOnSet(f, 1..Len(q))
  BY <1>1 DEF Bytes, SumFunction
<1> HIDE DEF f
<1> QED
  BY <1>1, <1>2, SumNat

\* none when there is no buffer,
LEMMA BytesNone == Bytes(<< >>) = 0
<1> DEFINE f == [i \in 1..Len(<< >>) |-> Len(<< >>[i])]
<1>1. DOMAIN f = {}
  OBVIOUS
<1>2. Bytes(<< >>) = SumFunctionOnSet(f, {})
  BY <1>1 DEF Bytes, SumFunction
<1> QED
  BY <1>2, SumEmpty

\* more by the one that recvLoop appends,
LEMMA BytesAppend ==
    ASSUME NEW q \in Seq(Seq(Nat)), NEW b \in Seq(Nat)
    PROVE  Bytes(Append(q, b)) = Bytes(q) + Len(b)
<1> DEFINE n == Len(q)
           p == Append(q, b)
           f == [i \in 1..Len(q) |-> Len(q[i])]
           g == [i \in 1..Len(p) |-> Len(p[i])]
<1>1. /\ n \in Nat /\ Len(p) = n + 1 /\ p[n + 1] = b /\ \A i \in 1..n : p[i] = q[i]
      /\ \A i \in 1..(n + 1) : p[i] \in Seq(Nat)
  OBVIOUS
<1> HIDE DEF p
<1>2. Grown(n, f, g) /\ g[n + 1] = Len(b)
  <2>1. n + 1 \in 1..(n + 1) /\ \A i \in 1..n : i \in 1..(n + 1)
    BY <1>1
  <2>2. \A i \in 1..(n + 1) : g[i] = Len(p[i]) /\ Len(p[i]) \in Int
    BY <1>1
  <2>3. DOMAIN f = 1..n /\ DOMAIN g = 1..(n + 1) /\ \A i \in 1..n : f[i] = Len(q[i])
    BY <1>1
  <2> HIDE DEF f, g
  <2> QED
    BY <1>1, <2>1, <2>2, <2>3 DEF Grown
<1>3. Bytes(q) = SumFunction(f) /\ Bytes(p) = SumFunction(g)
  BY DEF Bytes
<1> HIDE DEF f, g
<1> QED
  BY <1>1, <1>2, <1>3, SumGrows DEF p

\* fewer by the first when Read is through with it.
LEMMA BytesTail ==
    ASSUME NEW q \in Seq(Seq(Nat)), q # << >>
    PROVE  Bytes(q) = Len(q[1]) + Bytes(Tail(q))
<1> DEFINE n == Len(q) - 1
           p == Tail(q)
           f == [i \in 1..Len(q) |-> Len(q[i])]
           g == [i \in 1..Len(p) |-> Len(p[i])]
<1>1. /\ n \in Nat /\ Len(q) = n + 1 /\ Len(p) = n /\ \A i \in 1..n : p[i] = q[i + 1]
      /\ \A i \in 1..(n + 1) : q[i] \in Seq(Nat)
  OBVIOUS
<1> HIDE DEF n, p
<1>2. Shifted(n, f, g) /\ f[1] = Len(q[1])
  <2>1. 1 \in 1..(n + 1) /\ \A i \in 1..n : i + 1 \in 1..(n + 1)
    BY <1>1
  <2>2. \A i \in 1..(n + 1) : f[i] = Len(q[i]) /\ Len(q[i]) \in Int
    BY <1>1
  <2>3. DOMAIN g = 1..n /\ DOMAIN f = 1..(n + 1) /\ \A i \in 1..n : g[i] = Len(p[i])
    BY <1>1
  <2> HIDE DEF f, g
  <2> QED
    BY <1>1, <2>1, <2>2, <2>3 DEF Shifted
<1>3. Bytes(q) = SumFunction(f) /\ Bytes(p) = SumFunction(g)
  BY DEF Bytes
<1> HIDE DEF f, g
<1> QED
  BY <1>1, <1>2, <1>3, SumShift DEF p

\* What Read leaves of the first buffer counts instead of it.
LEMMA BytesPrepended ==
    ASSUME NEW r \in Seq(Nat), NEW t \in Seq(Seq(Nat))
    PROVE  Bytes(<<r>> \o t) = Len(r) + Bytes(t)
<1> DEFINE p == <<r>> \o t
<1>1. /\ <<r>> \o t \in Seq(Seq(Nat)) /\ Len(<<r>> \o t) = Len(t) + 1 /\ (<<r>> \o t)[1] = r
      /\ \A k \in 1..Len(t) : (<<r>> \o t)[k + 1] = t[k]
  <2>1. PICK S : S = Seq(Nat)
    OBVIOUS
  <2>2. r \in S /\ t \in Seq(S)
    BY <2>1
  <2>3. /\ <<r>> \o t \in Seq(S) /\ Len(<<r>> \o t) = Len(t) + 1 /\ (<<r>> \o t)[1] = r
        /\ \A k \in 1..Len(t) : (<<r>> \o t)[k + 1] = t[k]
    BY <2>2, Prepended
  <2> QED
    BY <2>1, <2>3
<1>2. p \in Seq(Seq(Nat)) /\ Len(p) = Len(t) + 1 /\ p[1] = r /\ \A k \in 1..Len(t) : p[k + 1] = t[k]
  BY <1>1, Zenon
<1> HIDE DEF p
<1>3. /\ Tail(p) \in Seq(Seq(Nat)) /\ Len(Tail(p)) = Len(t) /\ Len(t) \in Nat /\ p # << >>
      /\ \A k \in 1..Len(t) : Tail(p)[k] = t[k]
  BY <1>2
<1>4. Tail(p) = t
  BY <1>3, SameSeq
<1>6. Bytes(p) = Len(p[1]) + Bytes(Tail(p))
  BY <1>2, <1>3, BytesTail
<1> QED
  BY <1>2, <1>4, <1>6 DEF p

\* What Read takes is what the buffers have less.
LEMMA BytesTaken ==
    ASSUME NEW q \in Seq(Seq(Nat)), q # << >>, NEW n \in 1..Len(Head(q))
    PROVE  /\ Bytes(IF n = Len(Head(q)) THEN Tail(q) ELSE <<SubSeq(Head(q), n + 1, Len(Head(q)))>> \o Tail(q))
                = Bytes(q) - n
           /\ Bytes(q) \in Nat
<1> DEFINE h == Head(q)
           t == Tail(q)
           r == SubSeq(h, n + 1, Len(h))
<1>1. h = q[1] /\ h \in Seq(Nat) /\ t \in Seq(Seq(Nat)) /\ Len(h) \in Nat /\ n \in Nat /\ n <= Len(h)
  OBVIOUS
<1>2. Bytes(q) = Len(h) + Bytes(t) /\ Bytes(t) \in Nat
  BY <1>1, BytesTail, BytesNat
<1>3. ASSUME n < Len(h) PROVE r \in Seq(Nat) /\ Len(r) = Len(h) - n
  <2> HIDE DEF h
  <2> QED
    BY <1>1, <1>3, TailIs
<1> HIDE DEF r
<1>4. ASSUME n < Len(h) PROVE Bytes(<<r>> \o t) = Len(r) + Bytes(t)
  <2>1. r \in Seq(Nat)
    BY <1>3, <1>4
  <2> QED
    BY <1>1, <2>1, BytesPrepended, Zenon
<1>5. (IF n = Len(h) THEN Tail(q) ELSE <<SubSeq(h, n + 1, Len(h))>> \o Tail(q))
        = (IF n = Len(h) THEN t ELSE <<r>> \o t)
  BY Zenon DEF r
<1> DEFINE z == <<r>> \o t
<1> HIDE DEF t, h, z
<1>6. Bytes(IF n = Len(h) THEN t ELSE z) = Bytes(q) - n /\ Bytes(q) \in Nat
  BY <1>1, <1>2, <1>3, <1>4 DEF z
<1> QED
  BY <1>5, <1>6, Zenon DEF z, t, h

Of(s, f) == IF f[2] = s THEN Len(f[3]) ELSE 0

\* The bytes of a stream among frames, likewise:
LEMMA BytesOfNat ==
    ASSUME NEW s, NEW q \in Seq(Frames)
    PROVE  BytesOf(s, q) \in Nat /\ \A f \in Frames : Of(s, f) \in Nat
<1> DEFINE f == [i \in 1..Len(q) |-> IF q[i][2] = s THEN Len(q[i][3]) ELSE 0]
<1>0. \A x \in Frames : Len(x[3]) \in Nat
  BY DEF Frames
<1>1. DOMAIN f = 1..Len(q) /\ IsFiniteSet(1..Len(q)) /\ \A i \in 1..Len(q) : f[i] \in Nat
  BY <1>0, FS_Interval
<1>2. BytesOf(s, q) = SumFunctionOnSet(f, 1..Len(q))
  BY <1>1 DEF BytesOf, SumFunction
<1> HIDE DEF f
<1> QED
  BY <1>0, <1>1, <1>2, SumNat DEF Of

\* none in an empty queue,
LEMMA BytesOfNone == ASSUME NEW s PROVE BytesOf(s, << >>) = 0
<1> DEFINE f == [i \in 1..Len(<< >>) |-> IF << >>[i][2] = s THEN Len(<< >>[i][3]) ELSE 0]
<1>1. DOMAIN f = {}
  OBVIOUS
<1>2. BytesOf(s, << >>) = SumFunctionOnSet(f, {})
  BY <1>1 DEF BytesOf, SumFunction
<1> QED
  BY <1>2, SumEmpty

\* more by a frame put behind,
LEMMA BytesOfAppend ==
    ASSUME NEW s, NEW q \in Seq(Frames), NEW x \in Frames
    PROVE  BytesOf(s, Append(q, x)) = BytesOf(s, q) + Of(s, x)
<1> DEFINE n == Len(q)
           p == Append(q, x)
           f == [i \in 1..Len(q) |-> IF q[i][2] = s THEN Len(q[i][3]) ELSE 0]
           g == [i \in 1..Len(p) |-> IF p[i][2] = s THEN Len(p[i][3]) ELSE 0]
<1>0. \A y \in Frames : Of(s, y) \in Int
  BY DEF Frames, Of
<1>1. /\ n \in Nat /\ Len(p) = n + 1 /\ p[n + 1] = x /\ \A i \in 1..n : p[i] = q[i]
      /\ \A i \in 1..(n + 1) : p[i] \in Frames
  OBVIOUS
<1> HIDE DEF p
<1>2. Grown(n, f, g) /\ g[n + 1] = Of(s, x)
  <2>1. n + 1 \in 1..(n + 1) /\ \A i \in 1..n : i \in 1..(n + 1)
    BY <1>1
  <2>2. \A i \in 1..(n + 1) : g[i] = Of(s, p[i])
    BY <1>1 DEF Of
  <2>3. DOMAIN f = 1..n /\ DOMAIN g = 1..(n + 1) /\ \A i \in 1..n : f[i] = Of(s, q[i])
    BY <1>1 DEF Of
  <2> HIDE DEF f, g
  <2> QED
    BY <1>0, <1>1, <2>1, <2>2, <2>3 DEF Grown
<1>3. BytesOf(s, q) = SumFunction(f) /\ BytesOf(s, p) = SumFunction(g)
  BY DEF BytesOf
<1> HIDE DEF f, g
<1> QED
  BY <1>1, <1>2, <1>3, SumGrows DEF p

\* fewer by the one taken from the front.
LEMMA BytesOfTail ==
    ASSUME NEW s, NEW q \in Seq(Frames), q # << >>
    PROVE  BytesOf(s, q) = Of(s, Head(q)) + BytesOf(s, Tail(q))
<1> DEFINE n == Len(q) - 1
           p == Tail(q)
           f == [i \in 1..Len(q) |-> IF q[i][2] = s THEN Len(q[i][3]) ELSE 0]
           g == [i \in 1..Len(p) |-> IF p[i][2] = s THEN Len(p[i][3]) ELSE 0]
<1>0. \A y \in Frames : Of(s, y) \in Int
  BY DEF Frames, Of
<1>1. /\ n \in Nat /\ Len(q) = n + 1 /\ Len(p) = n /\ \A i \in 1..n : p[i] = q[i + 1]
      /\ \A i \in 1..(n + 1) : q[i] \in Frames
  OBVIOUS
<1>a. Head(q) = q[1]
  OBVIOUS
<1> HIDE DEF n, p
<1>2. Shifted(n, f, g) /\ f[1] = Of(s, q[1])
  <2>1. 1 \in 1..(n + 1) /\ \A i \in 1..n : i + 1 \in 1..(n + 1)
    BY <1>1
  <2>2. \A i \in 1..(n + 1) : f[i] = Of(s, q[i])
    BY <1>1 DEF Of
  <2>3. DOMAIN g = 1..n /\ DOMAIN f = 1..(n + 1) /\ \A i \in 1..n : g[i] = Of(s, p[i])
    BY <1>1 DEF Of
  <2> HIDE DEF f, g
  <2> QED
    BY <1>0, <1>1, <2>1, <2>2, <2>3 DEF Shifted
<1>3. BytesOf(s, q) = SumFunction(f) /\ BytesOf(s, p) = SumFunction(g)
  BY DEF BytesOf
<1> HIDE DEF f, g
<1>4. BytesOf(s, q) = Of(s, q[1]) + BytesOf(s, p)
  BY <1>1, <1>2, <1>3, SumShift
<1> QED
  BY <1>4, <1>a DEF p

-----------------------------------------------------------------------------
(* What a step of the reading end does to the counters, to the tokens and to   *)
(* what is buffered.                                                           *)

\* Nothing is read: a count that an update is about to carry is the one it had
\* or the present one.
Calm(r, x) ==
    /\ x.buf = r.buf /\ x.got = r.got /\ x.n = r.n /\ x.numRead \in {r.numRead, Plus(r.numRead, 0)}
    /\ (x.pc = "tokens" <=> r.pc = "tokens") /\ x.window \in {r.window} \cup Windows
    /\ x.pc = "count" => (r.pc = "count" /\ x.consumed = r.consumed) \/ x.consumed = r.numRead
    /\ x.set = "count" => (r.set = "count" /\ x.setConsumed = r.setConsumed) \/ x.setConsumed = r.numRead
\* The peer is told nothing, of the end, or of the count.
Tells(s) ==
    \/ back' = back \/ back' = Append(back, <<"FIN", s>>)
    \/ rcv[s].pc = "count" /\ Update(s, rcv[s].consumed)
    \/ rcv[s].set = "count" /\ Update(s, rcv[s].setConsumed)
Calms(s) == Calm(rcv[s], rcv'[s]) /\ bucket' = bucket /\ Tells(s)

\* What an update of the window consists of stays as it is.
CountsSame(r, x) == x.window = r.window /\ x.set = r.set /\ x.setConsumed = r.setConsumed
\* Read takes n bytes,
Took(s) ==
    \E n \in Nat :
      /\ rcv[s].pc = "read" /\ rcv'[s].pc = "tokens" /\ rcv'[s].n = n
      /\ Buffered(rcv[s]) \in Nat /\ Buffered(rcv'[s]) \in Nat /\ Buffered(rcv'[s]) = Buffered(rcv[s]) - n
      /\ Len(rcv'[s].got) = Len(rcv[s].got) + n /\ rcv'[s].numRead = Plus(rcv[s].numRead, n)
      /\ CountsSame(rcv[s], rcv'[s]) /\ bucket' = bucket /\ back' = back
\* gives their tokens back,
Returned(s) ==
    /\ rcv[s].pc = "tokens" /\ rcv'[s].pc \in {"lock", "read"} /\ rcv'[s].n = 0
    /\ bucket' = bucket + rcv[s].n /\ rcv'[s].buf = rcv[s].buf /\ rcv'[s].got = rcv[s].got
    /\ rcv'[s].numRead = rcv[s].numRead /\ CountsSame(rcv[s], rcv'[s]) /\ back' = back
\* and streamClosed those of what nobody will read.
Dropped(s) ==
    /\ rcv'[s].buf = << >> /\ rcv'[s].n = rcv[s].n /\ rcv'[s].pc = rcv[s].pc /\ rcv'[s].got = rcv[s].got
    /\ bucket' = IF Buffered(rcv[s]) > 0 THEN bucket + Buffered(rcv[s]) ELSE bucket
    /\ rcv'[s].numRead = rcv[s].numRead /\ rcv'[s].consumed = rcv[s].consumed
    /\ CountsSame(rcv[s], rcv'[s]) /\ back' = back

\* The fields that tryReadv2's bookkeeping sets.
LEMMA CountedFields ==
    ASSUME NEW r, DOMAIN r = rcvFields, NEW n \in Nat
    PROVE  /\ DOMAIN Counted(r, n) = rcvFields /\ Counted(r, n).numRead = Plus(r.numRead, n)
           /\ Counted(r, n).buf = r.buf /\ Counted(r, n).got = r.got /\ Counted(r, n).n = r.n
           /\ Counted(r, n).set = r.set /\ Counted(r, n).window = r.window /\ Counted(r, n).pc = r.pc
           /\ Counted(r, n).consumed = r.consumed /\ Counted(r, n).setConsumed = r.setConsumed
<1>1. PICK c : c = [r EXCEPT !.numRead = Plus(r.numRead, n), !.incr = r.incr + n]
  OBVIOUS
<1>2. DOMAIN c = rcvFields /\ c.numRead = Plus(r.numRead, n) /\ c.n = r.n /\ c.set = r.set /\ c.pc = r.pc
      /\ c.buf = r.buf /\ c.got = r.got /\ c.window = r.window /\ c.consumed = r.consumed /\ c.setConsumed = r.setConsumed
  BY <1>1 DEF rcvFields
<1>3. PICK i, t : Counted(r, n) = [c EXCEPT !.incr = i, !.tell = t]
  BY <1>1 DEF Counted
<1> QED BY <1>2, <1>3 DEF rcvFields

\* What Read is given is that much longer.
LEMMA GotMore ==
    ASSUME NEW g \in Seq(Nat), NEW h \in Seq(Nat), NEW n \in 1..Len(h)
    PROVE  Len(g \o SubSeq(h, 1, n)) = Len(g) + n
<1>1. PICK u \in Seq(Nat) : u = SubSeq(h, 1, n) /\ Len(u) = n
  BY HeadIs
<1>2. Len(g \o u) = Len(g) + Len(u)
  OBVIOUS
<1> QED BY <1>1, <1>2

\* tryReadv2 takes what it says it takes.
LEMMA TookIs ==
    ASSUME EOFInv, NEW s \in Streams, TryRead(s)
    PROVE  Took(s)
<1> DEFINE r == rcv[s]
<1>1. Shape /\ DOMAIN r = rcvFields /\ r.buf \in Seq(Seq(Nat)) /\ r.got \in Seq(Nat)
  BY DEF EOFInv, Shape
<1>2. r.buf # << >> /\ r.pc = "read" /\ back' = back /\ bucket' = bucket
  BY DEF TryRead
<1>3. PICK n \in 1..Len(Head(r.buf)) : Rcv(s,
           [Counted(r, n) EXCEPT
              !.got = @ \o SubSeq(Head(r.buf), 1, n), !.n = n, !.pc = "tokens",
              !.buf = IF n = Len(Head(r.buf)) THEN Tail(@) ELSE <<SubSeq(Head(r.buf), n + 1, Len(Head(r.buf)))>> \o Tail(@)])
  BY DEF TryRead
<1>4. n \in Nat /\ Head(r.buf) \in Seq(Nat)
  BY <1>1, <1>2
<1>5. PICK c : c = Counted(r, n)
  OBVIOUS
<1>6. /\ DOMAIN c = rcvFields /\ c.numRead = Plus(r.numRead, n) /\ c.buf = r.buf /\ c.got = r.got
      /\ c.set = r.set /\ c.window = r.window /\ c.setConsumed = r.setConsumed
  BY <1>1, <1>4, <1>5, CountedFields
<1>7. PICK g, b : /\ g = r.got \o SubSeq(Head(r.buf), 1, n)
                  /\ b = IF n = Len(Head(r.buf)) THEN Tail(r.buf)
                         ELSE <<SubSeq(Head(r.buf), n + 1, Len(Head(r.buf)))>> \o Tail(r.buf)
  OBVIOUS
<1>8. PICK x : x = [c EXCEPT !.got = g, !.n = n, !.pc = "tokens", !.buf = b]
  OBVIOUS
<1>9. Rcv(s, x)
  BY <1>3, <1>5, <1>6, <1>7, <1>8 DEF rcvFields
<1>10. /\ x.got = g /\ x.buf = b /\ x.n = n /\ x.pc = "tokens" /\ x.numRead = Plus(r.numRead, n)
       /\ x.set = r.set /\ x.window = r.window /\ x.setConsumed = r.setConsumed
  BY <1>6, <1>8 DEF rcvFields
<1>11. rcv'[s] = x
  BY <1>1, <1>9, RcvIs DEF Rcv
<1>12. Len(g) = Len(r.got) + n
  BY <1>1, <1>4, <1>7, GotMore
<1>13. Bytes(b) = Bytes(r.buf) - n /\ Bytes(r.buf) \in Nat
  BY <1>1, <1>2, <1>7, BytesTaken, Zenon
<1>14. Shape' => Bytes(b) \in Nat
  BY <1>10, <1>11, BytesNat DEF Shape
<1>15. Buffered(r) = Bytes(r.buf) /\ Buffered(x) = Bytes(x.buf)
  BY DEF Buffered, Bytes
<1>16. EOFInv'
  BY EOFStep DEF Next, Reader
<1>17. Bytes(b) \in Nat
  BY <1>14, <1>16 DEF EOFInv
<1> HIDE DEF r
<1>18. rcv[s] = r
  BY DEF r
<1> QED
  BY <1>2, <1>4, <1>10, <1>11, <1>12, <1>13, <1>15, <1>17, <1>18 DEF Took, CountsSame

\* Every step of the reader, of SetReceiveWindow and of Close is of one of these
\* kinds.
LEMMA ReaderMoves ==
    ASSUME EOFInv, NEW s \in Streams,
           Reader(s) \/ SetReceiveWindow(s) \/ WindowSet(s) \/ Closer(s) \/ ReaderClose(s, TRUE)
    PROVE  Calms(s) \/ Took(s) \/ Returned(s) \/ Dropped(s)
<1> DEFINE r == rcv[s]
<1>1. Shape /\ DOMAIN r = rcvFields
  BY DEF EOFInv, Shape
<1>2. ASSUME NEW x, Rcv(s, x) PROVE rcv'[s] = x
  BY <1>1, <1>2, RcvIs DEF Rcv
<1>3. ASSUME NEW x, Rcv(s, x), Calm(r, x), bucket' = bucket, Tells(s) PROVE Calms(s)
  BY <1>2, <1>3 DEF Calms
<1>4. CASE TryReadEmpty(s)
  <2>1. PICK c : c = Counted(r, 0)
    OBVIOUS
  <2>2. /\ DOMAIN c = rcvFields /\ c.numRead = Plus(r.numRead, 0) /\ c.buf = r.buf /\ c.got = r.got
        /\ c.n = r.n /\ c.set = r.set /\ c.window = r.window /\ c.setConsumed = r.setConsumed
    BY <1>1, <2>1, CountedFields
  <2>3. PICK p : p = IF r.die THEN "done" ELSE "wait"
    OBVIOUS
  <2>4. PICK x : x = [c EXCEPT !.pc = p]
    OBVIOUS
  <2>5. Rcv(s, x) /\ r.pc = "read" /\ back' = back /\ bucket' = bucket
    BY <1>4, <2>1, <2>3, <2>4 DEF TryReadEmpty
  <2>6. p # "tokens" /\ p # "count"
    BY <2>3
  <2>7. Calm(r, x)
    BY <2>2, <2>4, <2>5, <2>6 DEF rcvFields, Calm
  <2> QED BY <1>3, <2>5, <2>7 DEF Tells
<1>5. CASE ReturnTokens(s)
  <2>1. PICK p : p = IF r.tell THEN "lock" ELSE "read"
    OBVIOUS
  <2>2. PICK x : x = [r EXCEPT !.n = 0, !.tell = FALSE, !.pc = p]
    OBVIOUS
  <2>3. Rcv(s, x) /\ r.pc = "tokens" /\ back' = back /\ bucket' = bucket + r.n
    BY <1>5, <2>1, <2>2 DEF ReturnTokens, TokensBack
  <2>4. /\ x.n = 0 /\ x.pc = p /\ x.buf = r.buf /\ x.got = r.got /\ x.numRead = r.numRead
        /\ CountsSame(r, x)
    BY <1>1, <2>2 DEF rcvFields, CountsSame
  <2> QED BY <1>2, <2>1, <2>3, <2>4 DEF Returned
<1>6. CASE WaitRead(s)
  <2>1. back' = back /\ bucket' = bucket /\ r.pc = "wait"
    BY <1>6 DEF WaitRead
  <2>2. ASSUME NEW x, \/ x = [r EXCEPT !.eof = TRUE, !.pc = "done"] \/ x = [r EXCEPT !.event = FALSE, !.pc = "read"]
                      \/ x = [r EXCEPT !.pc = "read"] \/ x = [r EXCEPT !.pc = "done"]
        PROVE  Calm(r, x)
    BY <1>1, <2>1, <2>2 DEF rcvFields, Calm
  <2>3. \E x : Rcv(s, x) /\ (\/ x = [r EXCEPT !.eof = TRUE, !.pc = "done"] \/ x = [r EXCEPT !.event = FALSE, !.pc = "read"]
                             \/ x = [r EXCEPT !.pc = "read"] \/ x = [r EXCEPT !.pc = "done"])
    BY <1>6 DEF WaitRead
  <2> QED BY <1>3, <2>1, <2>2, <2>3 DEF Tells
<1>7. CASE ReaderUpdate(s)
  <2>1. CASE r.pc = "lock" /\ Rcv(s, [r EXCEPT !.consumed = r.numRead, !.pc = "count"]) /\ back' = back
    <3>1. PICK x : x = [r EXCEPT !.consumed = r.numRead, !.pc = "count"] /\ Rcv(s, x)
      BY <2>1
    <3>2. Calm(r, x)
      BY <1>1, <2>1, <3>1 DEF rcvFields, Calm
    <3> QED BY <1>3, <1>7, <2>1, <3>1, <3>2 DEF Tells, ReaderUpdate
  <2>2. CASE r.pc = "count" /\ Update(s, r.consumed) /\ Rcv(s, [r EXCEPT !.pc = "read"])
    <3>1. PICK x : x = [r EXCEPT !.pc = "read"] /\ Rcv(s, x)
      BY <2>2
    <3>2. Calm(r, x)
      BY <1>1, <2>2, <3>1 DEF rcvFields, Calm
    <3> QED BY <1>3, <1>7, <2>2, <3>1, <3>2 DEF Tells, ReaderUpdate
  <2> QED BY <1>7, <2>1, <2>2 DEF ReaderUpdate
<1>8. CASE SetReceiveWindow(s)
  <2>1. PICK w \in Windows : Rcv(s, [r EXCEPT !.window = w, !.set = "swapped"])
    BY <1>8 DEF SetReceiveWindow
  <2>2. PICK x : x = [r EXCEPT !.window = w, !.set = "swapped"] /\ Rcv(s, x)
    BY <2>1
  <2>3. Calm(r, x)
    BY <1>1, <2>2 DEF rcvFields, Calm
  <2> QED BY <1>3, <1>8, <2>2, <2>3 DEF Tells, SetReceiveWindow
<1>9. CASE WindowSet(s)
  <2>1. CASE Rcv(s, [r EXCEPT !.incr = 0, !.set = "lock"]) /\ back' = back
    <3>1. PICK x : x = [r EXCEPT !.incr = 0, !.set = "lock"] /\ Rcv(s, x)
      BY <2>1
    <3>2. Calm(r, x)
      BY <1>1, <3>1 DEF rcvFields, Calm
    <3> QED BY <1>3, <1>9, <2>1, <3>1, <3>2 DEF Tells, WindowSet
  <2>2. CASE Rcv(s, [r EXCEPT !.setConsumed = r.numRead, !.set = "count"]) /\ back' = back
    <3>1. PICK x : x = [r EXCEPT !.setConsumed = r.numRead, !.set = "count"] /\ Rcv(s, x)
      BY <2>2
    <3>2. Calm(r, x)
      BY <1>1, <3>1 DEF rcvFields, Calm
    <3> QED BY <1>3, <1>9, <2>2, <3>1, <3>2 DEF Tells, WindowSet
  <2>3. CASE r.set = "count" /\ Update(s, r.setConsumed) /\ Rcv(s, [r EXCEPT !.set = "no"])
    <3>1. PICK x : x = [r EXCEPT !.set = "no"] /\ Rcv(s, x)
      BY <2>3
    <3>2. Calm(r, x)
      BY <1>1, <3>1 DEF rcvFields, Calm
    <3> QED BY <1>3, <1>9, <2>3, <3>1, <3>2 DEF Tells, WindowSet
  <2> QED BY <1>9, <2>1, <2>2, <2>3 DEF WindowSet
<1>10. CASE ReaderClose(s, TRUE) \/ ReaderClose(s, FALSE)
  <2>1. PICK x : x = [r EXCEPT !.die = TRUE, !.close = "fin"] /\ Rcv(s, x)
    BY <1>10 DEF ReaderClose
  <2>2. Calm(r, x)
    BY <1>1, <2>1 DEF rcvFields, Calm
  <2> QED BY <1>3, <1>10, <2>1, <2>2 DEF Tells, ReaderClose
<1>11. CASE StreamClosed(s)
  <2>1. PICK x : x = [r EXCEPT !.buf = << >>, !.known = FALSE, !.close = "done"] /\ Rcv(s, x)
    BY <1>11 DEF StreamClosed
  <2>2. /\ back' = back /\ bucket' = IF Buffered(r) > 0 THEN bucket + Buffered(r) ELSE bucket
    BY <1>11 DEF StreamClosed, TokensBack
  <2>3. /\ x.buf = << >> /\ x.n = r.n /\ x.pc = r.pc /\ x.got = r.got /\ x.numRead = r.numRead
        /\ x.consumed = r.consumed /\ CountsSame(r, x)
    BY <1>1, <2>1 DEF rcvFields, CountsSame
  <2> QED BY <1>2, <2>1, <2>2, <2>3 DEF Dropped
<1> QED BY <1>4, <1>5, <1>6, <1>7, <1>8, <1>9, <1>10, <1>11, TookIs DEF Reader, Closer

-----------------------------------------------------------------------------
(* TokensConserved.                                                            *)

Tokens(s) == Buffered(rcv[s]) + rcv[s].n
HeldTokens == SumFunction([s \in Streams |-> Tokens(s)])

\* Every stream's tokens are a number, and only Read holds some of its own.
TokenTypes ==
    /\ bucket \in Int /\ (recv.pc = "pushed" => recv.n \in Nat)
    /\ \A s \in Streams : rcv[s].n \in Nat /\ (rcv[s].pc # "tokens" => rcv[s].n = 0)
TokensInv == EOFInv /\ TokenTypes /\ TokensConserved

\* What is buffered is a number.
LEMMA BufferedNat ==
    ASSUME Shape, NEW s \in Streams
    PROVE  Buffered(rcv[s]) \in Nat
<1>1. rcv[s].buf \in Seq(Seq(Nat)) /\ Buffered(rcv[s]) = Bytes(rcv[s].buf)
  BY DEF Shape, Buffered, Bytes
<1> QED BY <1>1, BytesNat

\* A step about one stream changes the tokens held by as many as that stream's.
LEMMA HeldChanges ==
    ASSUME Shape, Shape', TokenTypes, NEW s \in Streams, rcv'[s].n \in Nat,
           \A t \in Streams : t # s => Buffered(rcv'[t]) = Buffered(rcv[t]) /\ rcv'[t].n = rcv[t].n
    PROVE  HeldTokens' = HeldTokens - Tokens(s) + Tokens(s)' /\ HeldTokens \in Int
           /\ Tokens(s) \in Int /\ Tokens(s)' \in Int
<1> DEFINE f == [t \in Streams |-> Tokens(t)]
           g == [t \in Streams |-> Tokens(t)']
<1>1. \A t \in Streams : Buffered(rcv[t]) \in Nat /\ Buffered(rcv[t])' \in Nat
  <2>1. \A t \in Streams : Buffered(rcv[t]) \in Nat
    BY BufferedNat
  <2>2. (\A t \in Streams : Buffered(rcv[t]) \in Nat)'
    <3>1. ASSUME NEW t \in Streams PROVE Buffered(rcv[t])' \in Nat
      <4>1. rcv'[t].buf \in Seq(Seq(Nat)) /\ Buffered(rcv[t])' = Bytes(rcv'[t].buf)
        BY DEF Shape, Buffered, Bytes
      <4> QED BY <4>1, BytesNat
    <3> QED BY <3>1
  <2> QED BY <2>1, <2>2
<1>2. \A t \in Streams : Tokens(t) \in Int /\ Tokens(t)' \in Int /\ (t # s => Tokens(t)' = Tokens(t))
  BY <1>1 DEF Tokens, TokenTypes
<1>3. DOMAIN f = Streams /\ DOMAIN g = Streams /\ \A t \in Streams : f[t] = Tokens(t) /\ g[t] = Tokens(t)'
  OBVIOUS
<1>4. HeldTokens = SumFunctionOnSet(f, Streams) /\ HeldTokens' = SumFunctionOnSet(g, Streams)
  BY <1>3 DEF HeldTokens, SumFunction
<1> HIDE DEF f, g
<1>5. IsFiniteSet(Streams)
  BY SmuxAssumption
<1>6. \A t \in Streams : f[t] \in Int /\ g[t] \in Int
  BY <1>2, <1>3
<1>7. \A t \in Streams : t # s => f[t] = g[t]
  BY <1>2, <1>3
<1>8. SumFunctionOnSet(g, Streams) = SumFunctionOnSet(f, Streams) - f[s] + g[s]
  BY <1>5, <1>6, <1>7, SumChange
<1>9. SumFunctionOnSet(f, Streams) \in Int
  BY <1>5, <1>6, SumInt
<1> QED BY <1>2, <1>3, <1>4, <1>8, <1>9

\* A step that leaves every stream's tokens and recvLoop's alone.
LEMMA TokensAside ==
    ASSUME TokensInv, Shape', bucket' = bucket, recv' = recv \/ (recv.pc # "pushed" /\ recv'.pc # "pushed"),
           \A t \in Streams : Buffered(rcv'[t]) = Buffered(rcv[t]) /\ rcv'[t].n = rcv[t].n
                              /\ (rcv'[t].pc # "tokens" => rcv[t].pc # "tokens")
    PROVE  TokenTypes' /\ TokensConserved'
<1>1. TokenTypes'
  BY DEF TokensInv, TokenTypes
<1>2. HeldTokens' = HeldTokens
  BY DEF HeldTokens, Tokens
<1>3. bucket + HeldTokens - (IF recv.pc = "pushed" THEN recv.n ELSE 0) = MaxReceiveBuffer
  BY DEF TokensInv, TokensConserved, HeldTokens, Tokens
<1>4. bucket' + HeldTokens' - (IF recv'.pc = "pushed" THEN recv'.n ELSE 0) = MaxReceiveBuffer
  BY <1>2, <1>3
<1> QED BY <1>1, <1>4 DEF TokensConserved, HeldTokens, Tokens

\* A step that moves a stream's tokens moves them to or from the bucket, or to
\* or from what recvLoop has pushed and not paid for.
LEMMA TokensMoved ==
    ASSUME TokensInv, Shape', NEW s \in Streams, rcv'[s].n \in Nat, rcv'[s].pc # "tokens" => rcv'[s].n = 0,
           \A t \in Streams : t # s => rcv'[t] = rcv[t],
           bucket' \in Int, recv'.pc = "pushed" => recv'.n \in Nat,
           bucket' + Tokens(s)' - (IF recv'.pc = "pushed" THEN recv'.n ELSE 0)
             = bucket + Tokens(s) - (IF recv.pc = "pushed" THEN recv.n ELSE 0)
    PROVE  TokenTypes' /\ TokensConserved'
<1>1. TokenTypes'
  BY DEF TokensInv, TokenTypes
<1>2. Shape /\ TokenTypes
  BY DEF TokensInv, EOFInv
<1>3. \A t \in Streams : t # s => Buffered(rcv'[t]) = Buffered(rcv[t]) /\ rcv'[t].n = rcv[t].n
  OBVIOUS
<1>4. HeldTokens' = HeldTokens - Tokens(s) + Tokens(s)' /\ HeldTokens \in Int
      /\ Tokens(s) \in Int /\ Tokens(s)' \in Int
  BY <1>2, <1>3, HeldChanges
<1>5. bucket + HeldTokens - (IF recv.pc = "pushed" THEN recv.n ELSE 0) = MaxReceiveBuffer
  BY DEF TokensInv, TokensConserved, HeldTokens, Tokens
<1> DEFINE p == IF recv.pc = "pushed" THEN recv.n ELSE 0
           q == IF recv'.pc = "pushed" THEN recv'.n ELSE 0
           h == HeldTokens
           k == HeldTokens'
           a == Tokens(s)
           b == Tokens(s)'
<1>6. p \in Int /\ q \in Int /\ bucket \in Int
  BY <1>2 DEF TokenTypes
<1>7. k = h - a + b /\ h \in Int /\ a \in Int /\ b \in Int /\ bucket + h - p = MaxReceiveBuffer
      /\ bucket' + b - q = bucket + a - p
  BY <1>4, <1>5
<1> HIDE DEF p, q, h, k, a, b
<1>8. bucket' + k - q = MaxReceiveBuffer
  <2>1. PICK B, C \in Int : B = bucket /\ C = bucket'
    BY <1>6
  <2>2. B + h - p = MaxReceiveBuffer /\ C + b - q = B + a - p
    BY <1>7, <2>1
  <2>3. C + k - q = MaxReceiveBuffer
    BY <1>6, <1>7, <2>2
  <2> QED BY <2>1, <2>3
<1>9. bucket' + HeldTokens' - (IF recv'.pc = "pushed" THEN recv'.n ELSE 0) = MaxReceiveBuffer
  BY <1>8 DEF k, q
<1> QED BY <1>1, <1>9 DEF TokensConserved, HeldTokens, Tokens

\* A step of the reading end moves tokens and loses none.
LEMMA ReaderTokens ==
    ASSUME TokensInv, EOFInv', NEW s \in Streams,
           Reader(s) \/ SetReceiveWindow(s) \/ WindowSet(s) \/ Closer(s) \/ ReaderClose(s, TRUE)
    PROVE  TokenTypes' /\ TokensConserved'
<1>1. EOFInv /\ Shape /\ Shape' /\ TokenTypes
  BY DEF TokensInv, EOFInv
<1>2. recv' = recv /\ \A t \in Streams : t # s => rcv'[t] = rcv[t]
  BY <1>1, ReaderSteps
<1>3. Buffered(rcv[s]) \in Nat /\ bucket \in Int /\ rcv[s].n \in Nat /\ (rcv[s].pc # "tokens" => rcv[s].n = 0)
      /\ (recv.pc = "pushed" => recv.n \in Nat)
  BY <1>1, BufferedNat DEF TokenTypes
<1>4. CASE Calms(s)
  <2>1. bucket' = bucket /\ rcv'[s].n = rcv[s].n /\ (rcv'[s].pc = "tokens" <=> rcv[s].pc = "tokens")
        /\ Buffered(rcv'[s]) = Buffered(rcv[s])
    BY <1>4 DEF Calms, Calm, Buffered
  <2>2. \A t \in Streams : Buffered(rcv'[t]) = Buffered(rcv[t]) /\ rcv'[t].n = rcv[t].n
                              /\ (rcv'[t].pc # "tokens" => rcv[t].pc # "tokens")
    BY <1>2, <2>1
  <2> QED BY <1>1, <1>2, <2>1, <2>2, TokensAside
<1>5. CASE Took(s)
  <2>1. PICK n \in Nat : /\ rcv[s].pc = "read" /\ rcv'[s].pc = "tokens" /\ rcv'[s].n = n /\ bucket' = bucket
                         /\ Buffered(rcv'[s]) = Buffered(rcv[s]) - n
    BY <1>5 DEF Took
  <2>2. rcv[s].n = 0
    BY <1>3, <2>1
  <2>3. Tokens(s)' = Tokens(s)
    BY <1>3, <2>1, <2>2 DEF Tokens
  <2>4. /\ bucket' + Tokens(s)' - (IF recv'.pc = "pushed" THEN recv'.n ELSE 0)
             = bucket + Tokens(s) - (IF recv.pc = "pushed" THEN recv.n ELSE 0)
    BY <1>2, <2>1, <2>3
  <2> QED BY <1>1, <1>2, <1>3, <2>1, <2>4, TokensMoved
<1>6. CASE Returned(s)
  <2>1. rcv'[s].n = 0 /\ bucket' = bucket + rcv[s].n /\ Buffered(rcv'[s]) = Buffered(rcv[s])
    BY <1>6 DEF Returned, Buffered
  <2>2. bucket' + Tokens(s)' = bucket + Tokens(s)
    BY <1>3, <2>1 DEF Tokens
  <2>3. /\ bucket' + Tokens(s)' - (IF recv'.pc = "pushed" THEN recv'.n ELSE 0)
             = bucket + Tokens(s) - (IF recv.pc = "pushed" THEN recv.n ELSE 0)
    BY <1>2, <1>3, <2>1, <2>2 DEF Tokens
  <2>4. bucket' \in Int /\ rcv'[s].n \in Nat
    BY <1>3, <2>1
  <2> QED BY <1>1, <1>2, <1>3, <2>1, <2>3, <2>4, TokensMoved
<1>7. CASE Dropped(s)
  <2>1. rcv'[s].n = rcv[s].n /\ rcv'[s].pc = rcv[s].pc
        /\ bucket' = IF Buffered(rcv[s]) > 0 THEN bucket + Buffered(rcv[s]) ELSE bucket
    BY <1>7 DEF Dropped
  <2>2. Buffered(rcv'[s]) = 0
    <3>1. Buffered(rcv'[s]) = Bytes(rcv'[s].buf) /\ rcv'[s].buf = << >>
      BY <1>7 DEF Dropped, Buffered, Bytes
    <3> QED BY <3>1, BytesNone
  <2>3. bucket' + Tokens(s)' = bucket + Tokens(s) /\ bucket' \in Int
    BY <1>3, <2>1, <2>2 DEF Tokens
  <2>4. /\ bucket' + Tokens(s)' - (IF recv'.pc = "pushed" THEN recv'.n ELSE 0)
             = bucket + Tokens(s) - (IF recv.pc = "pushed" THEN recv.n ELSE 0)
    BY <1>2, <1>3, <2>1, <2>2, <2>3 DEF Tokens
  <2> QED BY <1>1, <1>2, <1>3, <2>1, <2>3, <2>4, TokensMoved
<1> QED BY <1>1, <1>4, <1>5, <1>6, <1>7, ReaderMoves

\* recvLoop has pushed data: its bytes are buffered and not paid for yet.
Pushed(f) ==
    LET s == f[2]
    IN  /\ f[1] = "PSH" /\ rcv[s].known /\ recv' = [pc |-> "pushed", s |-> s, n |-> Len(f[3])]
        /\ rcv'[s].buf = Append(rcv[s].buf, f[3])
NotPushed(f) == recv' = recv /\ rcv'[f[2]].buf = rcv[f[2]].buf

\* recvLoop takes one frame, and pushes its data or not.
LEMMA RecvMoves ==
    ASSUME EOFInv, Recv
    PROVE  \E f \in Frames :
             /\ wire # << >> /\ f = Head(wire) /\ wire' = Tail(wire) /\ recv.pc = "loop" /\ bucket' = bucket
             /\ \A t \in Streams : t # f[2] => rcv'[t] = rcv[t]
             /\ rcv'[f[2]].n = rcv[f[2]].n /\ rcv'[f[2]].pc = rcv[f[2]].pc
             /\ rcv'[f[2]].got = rcv[f[2]].got /\ rcv'[f[2]].numRead = rcv[f[2]].numRead
             /\ rcv'[f[2]].consumed = rcv[f[2]].consumed /\ CountsSame(rcv[f[2]], rcv'[f[2]])
             /\ Pushed(f) \/ NotPushed(f)
<1>1. Shape /\ wire \in Seq(Frames)
  BY DEF EOFInv, Shape
<1>2. wire # << >> /\ wire' = Tail(wire) /\ recv.pc = "loop" /\ bucket' = bucket
  BY DEF Recv
<1>3. PICK f \in Frames : f = Head(wire)
  BY <1>1, <1>2
<1>4. PICK s \in Streams : s = f[2]
  BY <1>3 DEF Frames
<1>5. DOMAIN rcv[s] = rcvFields
  BY <1>1 DEF Shape
<1> DEFINE Good(x) == x.n = rcv[s].n /\ x.pc = rcv[s].pc /\ x.got = rcv[s].got /\ x.numRead = rcv[s].numRead
                      /\ x.consumed = rcv[s].consumed /\ CountsSame(rcv[s], x)
<1>6. ASSUME NEW x, rcv'[s] = x, \A t \in Streams : t # s => rcv'[t] = rcv[t], Good(x), Pushed(f) \/ NotPushed(f)
      PROVE  /\ \A t \in Streams : t # f[2] => rcv'[t] = rcv[t]
             /\ rcv'[f[2]].n = rcv[f[2]].n /\ rcv'[f[2]].pc = rcv[f[2]].pc
             /\ rcv'[f[2]].got = rcv[f[2]].got /\ rcv'[f[2]].numRead = rcv[f[2]].numRead
             /\ rcv'[f[2]].consumed = rcv[f[2]].consumed /\ CountsSame(rcv[f[2]], rcv'[f[2]])
             /\ Pushed(f) \/ NotPushed(f)
  BY <1>4, <1>6
<1>7. CASE f[1] = "SYN" /\ rcv' = [rcv EXCEPT ![s].known = TRUE] /\ recv' = recv
  <2>1. PICK x : x = [rcv[s] EXCEPT !.known = TRUE]
    OBVIOUS
  <2>2. rcv'[s] = x /\ \A t \in Streams : t # s => rcv'[t] = rcv[t]
    BY <1>1, <1>7, <2>1, RcvIs DEF Shape
  <2>3. Good(x) /\ x.buf = rcv[s].buf
    BY <1>5, <2>1 DEF rcvFields, CountsSame
  <2>4. NotPushed(f)
    BY <1>4, <1>7, <2>2, <2>3 DEF NotPushed
  <2> QED BY <1>2, <1>3, <1>6, <2>2, <2>3, <2>4
<1>8. CASE f[1] = "FIN" /\ rcv' = [rcv EXCEPT ![s].fin = TRUE, ![s].event = TRUE] /\ recv' = recv
  <2>1. PICK x : x = [rcv[s] EXCEPT !.fin = TRUE, !.event = TRUE]
    OBVIOUS
  <2>2. rcv'[s] = x /\ \A t \in Streams : t # s => rcv'[t] = rcv[t]
    BY <1>1, <1>8, <2>1, RcvIs DEF Shape
  <2>3. Good(x) /\ x.buf = rcv[s].buf
    BY <1>5, <2>1 DEF rcvFields, CountsSame
  <2>4. NotPushed(f)
    BY <1>4, <1>8, <2>2, <2>3 DEF NotPushed
  <2> QED BY <1>2, <1>3, <1>6, <2>2, <2>3, <2>4
<1>9. CASE rcv' = rcv /\ recv' = recv
  <2>1. Good(rcv[s]) /\ NotPushed(f)
    BY <1>9 DEF NotPushed, CountsSame
  <2> QED BY <1>2, <1>3, <1>6, <1>9, <2>1
<1>10. CASE f[1] = "PSH" /\ rcv[s].known /\ rcv' = [rcv EXCEPT ![s].buf = Append(@, f[3])]
            /\ recv' = [pc |-> "pushed", s |-> s, n |-> Len(f[3])]
  <2>1. PICK x : x = [rcv[s] EXCEPT !.buf = Append(rcv[s].buf, f[3])]
    OBVIOUS
  <2>2. rcv'[s] = x /\ \A t \in Streams : t # s => rcv'[t] = rcv[t]
    BY <1>1, <1>5, <1>10, <2>1, RcvIs DEF Shape, rcvFields
  <2>3. Good(x) /\ x.buf = Append(rcv[s].buf, f[3])
    BY <1>5, <2>1 DEF rcvFields, CountsSame
  <2>4. Pushed(f)
    BY <1>4, <1>10, <2>2, <2>3 DEF Pushed
  <2> QED BY <1>2, <1>3, <1>6, <2>2, <2>3, <2>4
<1>11. \/ f[1] = "SYN" /\ rcv' = [rcv EXCEPT ![s].known = TRUE] /\ recv' = recv
       \/ f[1] = "FIN" /\ rcv' = [rcv EXCEPT ![s].fin = TRUE, ![s].event = TRUE] /\ recv' = recv
       \/ rcv' = rcv /\ recv' = recv
       \/ f[1] = "PSH" /\ rcv[s].known /\ rcv' = [rcv EXCEPT ![s].buf = Append(@, f[3])]
          /\ recv' = [pc |-> "pushed", s |-> s, n |-> Len(f[3])]
  BY <1>3, <1>4 DEF Recv
<1> QED BY <1>7, <1>8, <1>9, <1>10, <1>11

\* What is pushed is buffered.
LEMMA PushedBytes ==
    ASSUME Shape, NEW f \in Frames, f[2] \in Streams, rcv'[f[2]].buf = Append(rcv[f[2]].buf, f[3])
    PROVE  Buffered(rcv'[f[2]]) = Buffered(rcv[f[2]]) + Len(f[3]) /\ Len(f[3]) \in Nat
<1>1. rcv[f[2]].buf \in Seq(Seq(Nat)) /\ f[3] \in Seq(Nat)
  BY DEF Shape, Frames
<1>2. Bytes(Append(rcv[f[2]].buf, f[3])) = Bytes(rcv[f[2]].buf) + Len(f[3])
  BY <1>1, BytesAppend
<1>3. Buffered(rcv'[f[2]]) = Bytes(rcv'[f[2]].buf) /\ Buffered(rcv[f[2]]) = Bytes(rcv[f[2]].buf)
  BY DEF Buffered, Bytes
<1> QED BY <1>1, <1>2, <1>3

\* Data that is pushed is owed to the bucket until its tokens are taken.
LEMMA RecvTokens ==
    ASSUME TokensInv, EOFInv', Recv
    PROVE  TokenTypes' /\ TokensConserved'
<1>1. EOFInv /\ Shape /\ Shape' /\ TokenTypes
  BY DEF TokensInv, EOFInv
<1>2. PICK f \in Frames :
             /\ recv.pc = "loop" /\ bucket' = bucket
             /\ \A t \in Streams : t # f[2] => rcv'[t] = rcv[t]
             /\ rcv'[f[2]].n = rcv[f[2]].n /\ rcv'[f[2]].pc = rcv[f[2]].pc
             /\ Pushed(f) \/ NotPushed(f)
  BY <1>1, RecvMoves
<1>3. PICK s \in Streams : s = f[2]
  BY <1>2 DEF Frames
<1>4. Buffered(rcv[s]) \in Nat /\ bucket \in Int /\ rcv[s].n \in Nat /\ (rcv[s].pc # "tokens" => rcv[s].n = 0)
  BY <1>1, BufferedNat DEF TokenTypes
<1>5. CASE Pushed(f)
  <2>1. rcv'[s].buf = Append(rcv[s].buf, f[3]) /\ recv'.pc = "pushed" /\ recv'.n = Len(f[3])
    BY <1>3, <1>5 DEF Pushed
  <2>2. Buffered(rcv'[s]) = Buffered(rcv[s]) + Len(f[3]) /\ Len(f[3]) \in Nat
    BY <1>1, <1>3, <2>1, PushedBytes
  <2>3. Tokens(s)' = Tokens(s) + Len(f[3]) /\ Tokens(s) \in Int
    BY <1>2, <1>3, <1>4, <2>2 DEF Tokens
  <2>4. /\ bucket' + Tokens(s)' - (IF recv'.pc = "pushed" THEN recv'.n ELSE 0)
             = bucket + Tokens(s) - (IF recv.pc = "pushed" THEN recv.n ELSE 0)
    BY <1>2, <1>4, <2>1, <2>2, <2>3
  <2> QED BY <1>1, <1>2, <1>3, <1>4, <2>1, <2>2, <2>4, TokensMoved
<1>6. CASE NotPushed(f)
  <2>1. recv' = recv /\ Buffered(rcv'[s]) = Buffered(rcv[s])
    BY <1>3, <1>6 DEF NotPushed, Buffered
  <2>2. \A t \in Streams : Buffered(rcv'[t]) = Buffered(rcv[t]) /\ rcv'[t].n = rcv[t].n
                              /\ (rcv'[t].pc # "tokens" => rcv[t].pc # "tokens")
    BY <1>2, <1>3, <2>1
  <2> QED BY <1>1, <1>2, <2>1, <2>2, TokensAside
<1> QED BY <1>2, <1>5, <1>6

\* The tokens of what was pushed are taken.
LEMMA TakeTokensIs ==
    ASSUME TokensInv, EOFInv', TakeTokens
    PROVE  TokenTypes' /\ TokensConserved'
<1>1. EOFInv /\ Shape /\ Shape' /\ TokenTypes
  BY DEF TokensInv, EOFInv
<1>2. PICK s \in Streams : s = recv.s
  BY <1>1 DEF TakeTokens, Shape
<1>3. PICK x : x = [rcv[s] EXCEPT !.event = TRUE]
  OBVIOUS
<1>4. rcv' = [rcv EXCEPT ![s] = x] /\ bucket' = bucket - recv.n /\ recv.pc = "pushed" /\ recv'.pc = "loop"
  BY <1>1, <1>2, <1>3 DEF TakeTokens, Shape, At
<1>5. rcv'[s] = x /\ \A t \in Streams : t # s => rcv'[t] = rcv[t]
  BY <1>1, <1>4, RcvIs
<1>6. x.buf = rcv[s].buf /\ x.n = rcv[s].n /\ x.pc = rcv[s].pc
  BY <1>1, <1>3 DEF Shape, rcvFields
<1>7. Buffered(rcv[s]) \in Nat /\ bucket \in Int /\ rcv[s].n \in Nat /\ (rcv[s].pc # "tokens" => rcv[s].n = 0)
      /\ recv.n \in Nat
  BY <1>1, <1>4, BufferedNat DEF TokenTypes
<1>8. Tokens(s)' = Tokens(s) /\ Tokens(s) \in Int
  BY <1>5, <1>6, <1>7 DEF Tokens, Buffered
<1>9. /\ bucket' + Tokens(s)' - (IF recv'.pc = "pushed" THEN recv'.n ELSE 0)
             = bucket + Tokens(s) - (IF recv.pc = "pushed" THEN recv.n ELSE 0)
  BY <1>4, <1>7, <1>8
<1>10. bucket' \in Int
  BY <1>4, <1>7
<1> QED BY <1>1, <1>4, <1>5, <1>6, <1>7, <1>9, <1>10, TokensMoved

\* In the beginning all tokens are in the bucket.
LEMMA TokensInit ==
    ASSUME Init
    PROVE  TokenTypes /\ TokensConserved
<1>1. \A s \in Streams : rcv[s].n = 0 /\ rcv[s].buf = << >>
  BY DEF Init
<1>2. bucket = MaxReceiveBuffer /\ recv.pc = "loop" /\ MaxReceiveBuffer \in Nat
  BY SmuxAssumption DEF Init, At
<1>3. \A s \in Streams : Tokens(s) = 0
  <2> SUFFICES ASSUME NEW s \in Streams PROVE Tokens(s) = 0
    OBVIOUS
  <2>1. Buffered(rcv[s]) = Bytes(rcv[s].buf)
    BY DEF Buffered, Bytes
  <2> QED BY <1>1, <2>1, BytesNone DEF Tokens
<1>4. HeldTokens = 0
  <2> DEFINE f == [s \in Streams |-> Tokens(s)]
             z == [s \in Streams |-> 0]
  <2>1. f = z
    BY <1>3
  <2>2. HeldTokens = SumFunctionOnSet(f, Streams)
    BY DEF HeldTokens, SumFunction
  <2>3. IsFiniteSet(Streams)
    BY SmuxAssumption
  <2>4. \A s \in Streams : f[s] = 0
    BY <1>3
  <2> HIDE DEF f
  <2>5. SumFunctionOnSet(f, Streams) = 0
    BY <2>3, <2>4, SumZero
  <2> QED BY <2>2, <2>5
<1>5. TokenTypes
  BY <1>1, <1>2 DEF TokenTypes
<1>6. bucket + HeldTokens - (IF recv.pc = "pushed" THEN recv.n ELSE 0) = MaxReceiveBuffer
  BY <1>2, <1>4
<1> QED BY <1>5, <1>6 DEF TokensConserved, HeldTokens, Tokens

\* The tokens of the session's bucket are conserved for every number of streams
\* and every size: Read, recvLoop, which takes them after the push, and
\* streamClosed, which gives back those of unread data, lose or make up none.
THEOREM NoTokenLost == Spec => []TokensConserved
<1>1. Init => TokensInv
  BY EOFInit, TokensInit DEF TokensInv
<1>2. TokensInv /\ [Next]_vars => TokensInv'
  <2> SUFFICES ASSUME TokensInv, [Next]_vars PROVE TokensInv'
    OBVIOUS
  <2>1. EOFInv' /\ EOFInv /\ Shape'
    BY EOFStep DEF TokensInv, EOFInv
  <2>2. ASSUME UNCHANGED <<bucket, rcv>>, recv' = recv \/ (recv.pc # "pushed" /\ recv'.pc # "pushed")
        PROVE  TokensInv'
    BY <2>1, <2>2, TokensAside DEF TokensInv
  <2>3. ASSUME NEW s \in Streams, Writer(s) \/ OpenTimeout(s) \/ WriteTimeout(s) PROVE TokensInv'
    BY <2>1, <2>2, <2>3, WriterAside, WriterSteps
  <2>4. ASSUME NEW s \in Streams,
               Reader(s) \/ SetReceiveWindow(s) \/ WindowSet(s) \/ Closer(s) \/ ReaderClose(s, TRUE)
        PROVE  TokensInv'
    BY <2>1, <2>4, ReaderTokens DEF TokensInv
  <2>5. CASE SendLoop \/ RecvBack \/ StoreWindow
    BY <2>2, <2>5 DEF SendLoop, RecvBack, StoreWindow
  <2>6. CASE RecvWait
    BY <2>2, <2>6 DEF RecvWait, At
  <2>7. CASE Recv
    BY <2>1, <2>7, RecvTokens DEF TokensInv
  <2>8. CASE TakeTokens
    BY <2>1, <2>8, TakeTokensIs DEF TokensInv
  <2>9. CASE UNCHANGED vars
    BY <2>2, <2>9 DEF vars
  <2> QED BY <2>3, <2>4, <2>5, <2>6, <2>7, <2>8, <2>9 DEF Next
<1>3. TokensInv => TokensConserved
  BY DEF TokensInv
<1> QED BY <1>1, <1>2, <1>3, PTL DEF Spec

-----------------------------------------------------------------------------
(* WindowKept: the counters of the window, modulo Mod.                         *)

\* The remainder, for what is at most one width off.
LEMMA CounterWraps ==
    ASSUME NEW x \in Int, -Mod <= x, x < 2 * Mod
    PROVE  x % Mod = IF x < 0 THEN x + Mod ELSE IF x < Mod THEN x ELSE x - Mod
<1>1. Mod \in Nat /\ Mod > 0
  BY FrameSizes
<1>2. CASE x < 0
  BY <1>1, <1>2
<1>3. CASE 0 <= x /\ x < Mod
  BY <1>1, <1>3
<1>4. CASE Mod <= x
  BY <1>1, <1>4
<1> QED BY <1>1, <1>2, <1>3, <1>4

\* A counter wraps at most once.
LEMMA CounterIs ==
    ASSUME NEW c \in 0..(Mod - 1), NEW n \in 0..Total
    PROVE  Plus(c, n) = (IF c + n < Mod THEN c + n ELSE c + n - Mod) /\ Plus(c, n) \in 0..(Mod - 1)
<1>1. Mod \in Nat /\ Mod > 0 /\ Total \in Nat /\ Total < Mod
  BY SmuxAssumption
<1>2. c + n \in Int /\ -Mod <= c + n /\ c + n < 2 * Mod /\ 0 <= c + n
  BY <1>1
<1> QED BY <1>1, <1>2, CounterWraps DEF Plus

\* Counting on,
LEMMA CountsOn ==
    ASSUME NEW c \in 0..(Mod - 1), NEW a \in 0..Total, NEW n \in 0..Total, a + n <= Total
    PROVE  Plus(Plus(c, a), n) = Plus(c, a + n)
<1>1. Mod \in Nat /\ Mod > 0 /\ Total \in Nat /\ Total < Mod
  BY SmuxAssumption
<1>2. Plus(c, a) = (IF c + a < Mod THEN c + a ELSE c + a - Mod) /\ Plus(c, a) \in 0..(Mod - 1)
  BY CounterIs
<1>3. a + n \in 0..Total
  BY <1>1
<1>4. Plus(c, a + n) = IF c + (a + n) < Mod THEN c + (a + n) ELSE c + (a + n) - Mod
  BY <1>3, CounterIs
<1>5. Plus(Plus(c, a), n) = IF Plus(c, a) + n < Mod THEN Plus(c, a) + n ELSE Plus(c, a) + n - Mod
  BY <1>2, CounterIs
<1> QED BY <1>1, <1>2, <1>4, <1>5

\* and what writeV2 makes of two counts: less in flight than there is only if it
\* is taken for a negative number.
LEMMA NeverTooFew ==
    ASSUME NEW c \in 0..(Mod - 1), NEW a \in 0..Total, NEW b \in 0..Total
    PROVE  LET d == Minus(Plus(c, a), Plus(c, b)) IN d \in Int /\ (d >= 0 => a - d <= b)
<1>1. Mod \in Nat /\ Mod > 0 /\ Total \in Nat /\ Total < Mod
  BY SmuxAssumption
<1> DEFINE p == Plus(c, a)
           q == Plus(c, b)
<1>2. p = (IF c + a < Mod THEN c + a ELSE c + a - Mod) /\ p \in 0..(Mod - 1)
  BY CounterIs
<1>3. q = (IF c + b < Mod THEN c + b ELSE c + b - Mod) /\ q \in 0..(Mod - 1)
  BY CounterIs
<1> HIDE DEF p, q
<1>4. p - q \in Int /\ -Mod <= p - q /\ p - q < 2 * Mod
  BY <1>1, <1>2, <1>3
<1> DEFINE e == (p - q) % Mod
<1>5. e = IF p - q < 0 THEN (p - q) + Mod ELSE IF p - q < Mod THEN p - q ELSE (p - q) - Mod
  BY <1>4, CounterWraps
<1> HIDE DEF e
<1>6. e = (IF a >= b THEN a - b ELSE a - b + Mod) /\ e \in 0..(Mod - 1)
  BY <1>1, <1>2, <1>3, <1>5
<1>7. Minus(p, q) = e \/ (Minus(p, q) = e - Mod)
  BY DEF Minus, e
<1>8. Minus(p, q) \in Int /\ (Minus(p, q) >= 0 => a - Minus(p, q) <= b)
  BY <1>1, <1>6, <1>7
<1> QED BY <1>8 DEF p, q

-----------------------------------------------------------------------------
(* What a writer has outstanding.                                              *)

CountedBy(c, s, v) == \E p \in 0..Len(rcv[s].got) : v = Plus(c, p)

\* Every count of what was read, wherever it is, is one that the reader has had,
\* from the c bytes that the stream had carried before.
CountsAre(s, c) ==
    /\ rcv[s].numRead = Plus(c, Len(rcv[s].got))
    /\ snd[s].pc \in Waiting => snd[s].numWritten = Plus(c, snd[s].next - 1)
    /\ CountedBy(c, s, snd[s].peerConsumed)
    /\ rcv[s].pc = "count" => CountedBy(c, s, rcv[s].consumed)
    /\ rcv[s].set = "count" => CountedBy(c, s, rcv[s].setConsumed)
    /\ \A k \in 1..Len(back) : back[k][1] = "UPD" /\ back[k][2] = s => CountedBy(c, s, back[k][3])
CountsOK(s) == \E c \in 0..(Mod - 1) : CountsAre(s, c)

\* No window that was or will be told is larger than the largest.
WindowsOK ==
    /\ \A s \in Streams : rcv[s].window <= MaxStreamBuffer /\ snd[s].peerWindow <= LargestWindow
    /\ upd # None => upd.w <= LargestWindow
    /\ \A k \in 1..Len(back) : back[k][1] = "UPD" => back[k][4] <= LargestWindow

\* What writeV2 takes for in flight is no less than what was not read then.
InFlightOK(s) ==
    snd[s].pc = "win" /\ snd[s].inflight >= 0 => (snd[s].next - 1) - snd[s].inflight <= Len(rcv[s].got)

\* What the writer has been granted and not sent.
Due(r)   == IF r.pc \in {"queue", "wait"} THEN r.bts ELSE 0
\* What is on its way or buffered, and what is queued.
Load(s)  == BytesOf(s, wire) + Buffered(rcv[s])
Waits(s) == BytesOf(s, shaper.data)

BytesOK(s) ==
    /\ Waits(s) + Load(s) <= LargestWindow
    /\ Waits(s) + Load(s) + Len(rcv[s].got) <= Total
    /\ snd[s].pc \in Waiting =>
         /\ Load(s) + Len(rcv[s].got) <= snd[s].next - 1
         /\ (snd[s].next - 1) + Due(snd[s]) <= Len(rcv[s].got) + LargestWindow
         /\ Waits(s) <= IF snd[s].pc = "wait" THEN Size(snd[s]) ELSE 0

\* SYN and FIN carry no data.
CtrlEmpty == \A k \in 1..Len(shaper.ctrl) : shaper.ctrl[k][3] = << >>

WindowInv == EOFInv /\ CtrlEmpty /\ WindowsOK
             /\ \A s \in Streams : CountsOK(s) /\ InFlightOK(s) /\ BytesOK(s)

\* The sizes are numbers.
LEMMA LoadNat ==
    ASSUME Shape, NEW s \in Streams
    PROVE  Load(s) \in Nat /\ Waits(s) \in Nat /\ Len(rcv[s].got) \in Nat /\ BytesOf(s, wire) \in Nat
           /\ Buffered(rcv[s]) \in Nat /\ LargestWindow \in Nat
<1>1. BytesOf(s, wire) \in Nat /\ BytesOf(s, shaper.data) \in Nat
  BY BytesOfNat DEF Shape
<1>2. Buffered(rcv[s]) \in Nat /\ Len(rcv[s].got) \in Nat
  BY BufferedNat DEF Shape
<1>3. LargestWindow \in Nat
  BY FrameSizes DEF LargestWindow
<1> QED BY <1>1, <1>2, <1>3 DEF Load, Waits

\* The writer is where it was, as far as its bytes go.
WriterHolds(r, x) ==
    x.pc \in Waiting => /\ r.pc \in Waiting /\ x.next = r.next /\ Due(x) = Due(r)
                        /\ (x.pc = "wait" <=> r.pc = "wait") /\ (x.pc = "wait" => x.bts = r.bts)

\* Bytes only move towards the reader.
LEMMA BytesKept ==
    ASSUME Shape, Shape', NEW s \in Streams, BytesOK(s), WriterMeans(snd[s]), WriterHolds(snd[s], snd'[s]),
           Waits(s)' = Waits(s), Load(s)' <= Load(s), Len(rcv'[s].got) >= Len(rcv[s].got),
           Load(s)' + Len(rcv'[s].got) <= Load(s) + Len(rcv[s].got)
    PROVE  BytesOK(s)'
<1> DEFINE l == Load(s)
           m == Load(s)'
           w == Waits(s)
           v == Waits(s)'
           g == Len(rcv[s].got)
           h == Len(rcv'[s].got)
           n == snd[s].next - 1
           d == Due(snd[s])
<1>1. l \in Nat /\ w \in Nat /\ g \in Nat /\ LargestWindow \in Nat /\ Total \in Nat
  BY LoadNat, FrameSizes
<1>2. m \in Nat /\ h \in Nat
  <2>1. BytesOf(s, wire') \in Nat
    BY BytesOfNat DEF Shape
  <2>2. Buffered(rcv'[s]) \in Nat /\ Len(rcv'[s].got) \in Nat
    <3>1. rcv'[s].buf \in Seq(Seq(Nat)) /\ Buffered(rcv'[s]) = Bytes(rcv'[s].buf) /\ Len(rcv'[s].got) \in Nat
      BY DEF Shape, Buffered, Bytes
    <3> QED BY <3>1, BytesNat
  <2> QED BY <2>1, <2>2 DEF Load
<1>3. n \in Int /\ d \in Int
  BY DEF WriterMeans, Due
<1>4. w + l <= LargestWindow /\ w + l + g <= Total /\ v = w /\ m <= l /\ h >= g /\ m + h <= l + g
  BY DEF BytesOK
<1>5. snd[s].pc \in Waiting => l + g <= n /\ n + d <= g + LargestWindow /\ w <= IF snd[s].pc = "wait" THEN Size(snd[s]) ELSE 0
  BY DEF BytesOK
<1> HIDE DEF l, m, w, v, g, h, n, d
<1>6. v + m <= LargestWindow /\ v + m + h <= Total
  BY <1>1, <1>2, <1>4
<1>7. ASSUME snd'[s].pc \in Waiting
      PROVE  /\ m + h <= snd'[s].next - 1 /\ (snd'[s].next - 1) + Due(snd'[s]) <= h + LargestWindow
             /\ v <= IF snd'[s].pc = "wait" THEN Size(snd'[s]) ELSE 0
  <2>1. snd[s].pc \in Waiting /\ snd'[s].next - 1 = n /\ Due(snd'[s]) = d
    BY <1>7 DEF WriterHolds, n, d
  <2>2. (snd'[s].pc = "wait" <=> snd[s].pc = "wait") /\ (snd'[s].pc = "wait" => Size(snd'[s]) = Size(snd[s]))
    BY <1>7 DEF WriterHolds, Size
  <2>3. m + h <= n /\ n + d <= h + LargestWindow
    BY <1>1, <1>2, <1>3, <1>4, <1>5, <2>1
  <2> QED BY <1>4, <1>5, <2>1, <2>2, <2>3
<1> QED BY <1>6, <1>7 DEF BytesOK, l, m, w, v, g, h

\* A count the reader has had is one it has had later on.
LEMMA CountsKept ==
    ASSUME NEW s \in Streams, NEW c \in 0..(Mod - 1), CountsAre(s, c),
           Len(rcv[s].got) \in Nat, Len(rcv'[s].got) \in Nat, Len(rcv'[s].got) >= Len(rcv[s].got),
           rcv'[s].numRead = Plus(c, Len(rcv'[s].got)),
           snd'[s].pc \in Waiting => snd'[s].numWritten = Plus(c, snd'[s].next - 1),
           CountedBy(c, s, snd'[s].peerConsumed),
           rcv'[s].pc = "count" => CountedBy(c, s, rcv'[s].consumed),
           rcv'[s].set = "count" => CountedBy(c, s, rcv'[s].setConsumed),
           \A k \in 1..Len(back') : back'[k][1] = "UPD" /\ back'[k][2] = s => CountedBy(c, s, back'[k][3])
    PROVE  CountsOK(s)'
<1>1. \A p \in 0..Len(rcv[s].got) : p \in 0..Len(rcv'[s].got)
  OBVIOUS
<1>2. ASSUME NEW v, CountedBy(c, s, v) PROVE \E p \in 0..Len(rcv'[s].got) : v = Plus(c, p)
  BY <1>1, <1>2 DEF CountedBy
<1>3. CountsAre(s, c)'
  BY <1>2 DEF CountsAre, CountedBy
<1> QED BY <1>3 DEF CountsOK

\* The reader's counts as they were.
RcvSame(r, x) ==
    /\ x.buf = r.buf /\ x.got = r.got /\ x.numRead = r.numRead /\ x.pc = r.pc /\ x.consumed = r.consumed
    /\ x.set = r.set /\ x.setConsumed = r.setConsumed /\ x.window = r.window

\* A step that leaves the counts of a stream alone.
LEMMA CountsAside ==
    ASSUME Shape, NEW s \in Streams, CountsOK(s), RcvSame(rcv[s], rcv'[s]), snd'[s].peerConsumed = snd[s].peerConsumed,
           snd'[s].pc \in Waiting =>
             snd[s].pc \in Waiting /\ snd'[s].next = snd[s].next /\ snd'[s].numWritten = snd[s].numWritten,
           \A k \in 1..Len(back') : back'[k][1] = "UPD" /\ back'[k][2] = s => \E j \in 1..Len(back) : back'[k] = back[j]
    PROVE  CountsOK(s)'
<1>1. PICK c \in 0..(Mod - 1) : CountsAre(s, c)
  BY DEF CountsOK
<1>2. Len(rcv[s].got) \in Nat /\ rcv'[s].got = rcv[s].got
  BY DEF Shape, RcvSame
<1>3. Len(rcv'[s].got) \in Nat /\ Len(rcv'[s].got) >= Len(rcv[s].got)
  BY <1>2
<1>4. rcv'[s].numRead = Plus(c, Len(rcv'[s].got))
  BY <1>1, <1>2 DEF CountsAre, RcvSame
<1>5. snd'[s].pc \in Waiting => snd'[s].numWritten = Plus(c, snd'[s].next - 1)
  BY <1>1 DEF CountsAre
<1>6. /\ CountedBy(c, s, snd'[s].peerConsumed)
      /\ rcv'[s].pc = "count" => CountedBy(c, s, rcv'[s].consumed)
      /\ rcv'[s].set = "count" => CountedBy(c, s, rcv'[s].setConsumed)
  BY <1>1 DEF CountsAre, RcvSame
<1>7. \A k \in 1..Len(back') : back'[k][1] = "UPD" /\ back'[k][2] = s => CountedBy(c, s, back'[k][3])
  BY <1>1 DEF CountsAre
<1> QED BY <1>1, <1>2, <1>3, <1>4, <1>5, <1>6, <1>7, CountsKept

\* What a writer takes for in flight stays no less than what was not read.
LEMMA InFlightKept ==
    ASSUME Shape, Shape', NEW s \in Streams, InFlightOK(s), WriterMeans(snd[s]), snd[s].inflight \in Int,
           Len(rcv'[s].got) >= Len(rcv[s].got),
           snd'[s].pc = "win" => snd[s].pc = "win" /\ snd'[s].next = snd[s].next /\ snd'[s].inflight = snd[s].inflight
    PROVE  InFlightOK(s)'
<1>1. Len(rcv[s].got) \in Nat /\ Len(rcv'[s].got) \in Nat /\ snd[s].next \in Int
  BY DEF Shape, WriterMeans
<1>2. ASSUME snd'[s].pc = "win", snd'[s].inflight >= 0
      PROVE  (snd'[s].next - 1) - snd'[s].inflight <= Len(rcv'[s].got)
  <2>1. snd[s].pc = "win" /\ snd'[s].next = snd[s].next /\ snd'[s].inflight = snd[s].inflight
    BY <1>2
  <2>2. (snd[s].next - 1) - snd[s].inflight <= Len(rcv[s].got)
    BY <1>2, <2>1 DEF InFlightOK
  <2>3. PICK n, i, a, b \in Int : n = snd[s].next /\ i = snd[s].inflight /\ a = Len(rcv[s].got) /\ b = Len(rcv'[s].got)
    BY <1>1
  <2>4. (n - 1) - i <= a /\ a <= b
    BY <2>2, <2>3
  <2>5. (n - 1) - i <= b
    BY <2>4
  <2> QED BY <2>1, <2>3, <2>5
<1> QED BY <1>2 DEF InFlightOK

\* What a frame put behind the others or taken from the front does to the sums.
LEMMA BytesOfOthers ==
    ASSUME NEW s, NEW f \in Frames, f[2] # s \/ f[3] = << >>
    PROVE  Of(s, f) = 0
BY DEF Of

\* A step that is not about a stream.
LEMMA WindowAside ==
    ASSUME WindowInv, Shape', NEW s \in Streams, snd'[s] = snd[s], RcvSame(rcv[s], rcv'[s]),
           BytesOf(s, wire') <= BytesOf(s, wire), BytesOf(s, shaper'.data) = BytesOf(s, shaper.data),
           \A k \in 1..Len(back') : back'[k][1] = "UPD" /\ back'[k][2] = s => \E j \in 1..Len(back) : back'[k] = back[j]
    PROVE  CountsOK(s)' /\ InFlightOK(s)' /\ BytesOK(s)'
<1>1. Shape /\ CountsOK(s) /\ InFlightOK(s) /\ BytesOK(s) /\ WriterMeans(snd[s]) /\ snd[s].inflight \in Int
  BY DEF WindowInv, EOFInv, StreamInv, Numbers
<1>2. CountsOK(s)'
  BY <1>1, CountsAside
<1>3. Len(rcv[s].got) \in Nat /\ rcv'[s].got = rcv[s].got /\ Buffered(rcv'[s]) = Buffered(rcv[s])
  BY <1>1 DEF Shape, RcvSame, Buffered
<1>4. InFlightOK(s)'
  BY <1>1, <1>3, InFlightKept
<1>5. WriterHolds(snd[s], snd'[s])
  BY DEF WriterHolds
<1>6. BytesOf(s, wire) \in Nat /\ BytesOf(s, wire') \in Nat /\ Buffered(rcv[s]) \in Nat
  BY <1>1, LoadNat, BytesOfNat DEF Shape
<1>7. Waits(s)' = Waits(s) /\ Load(s)' <= Load(s) /\ Load(s)' + Len(rcv'[s].got) <= Load(s) + Len(rcv[s].got)
  BY <1>3, <1>6 DEF Waits, Load
<1>8. BytesOK(s)'
  BY <1>1, <1>3, <1>5, <1>7, BytesKept
<1> QED BY <1>2, <1>4, <1>8

\* What a step of a writer does to its counters and to what is queued.
Asks(s) ==
    /\ shaper'.data = shaper.data /\ snd'[s].pc \notin {"queue", "wait"}
    /\ snd'[s].pc \in Waiting => snd[s].pc \notin {"queue", "wait"}
    /\ \/ shaper'.ctrl = shaper.ctrl
       \/ \E f \in Frames : f[3] = << >> /\ shaper'.ctrl = Append(shaper.ctrl, f)
Sending(s) ==
    /\ snd'[s].pc = "wait" /\ shaper' = Queued("data", Frame(s, snd'[s]))
    /\ \/ snd[s].pc = "queue" /\ snd'[s].bts = snd[s].bts
       \/ snd[s].pc = "win" /\ ~(snd[s].inflight < 0) /\ snd'[s].bts = Grant(snd[s])
WriterMove(s) ==
    /\ snd'[s].numWritten = snd[s].numWritten /\ snd'[s].peerConsumed = snd[s].peerConsumed
    /\ snd'[s].peerWindow = snd[s].peerWindow /\ snd'[s].next = snd[s].next
    /\ snd'[s].pc \in Waiting => snd[s].pc \in Waiting
    /\ snd'[s].pc = "win" => snd'[s].inflight = Minus(snd[s].numWritten, snd[s].peerConsumed)
    /\ Asks(s) \/ Sending(s)

\* What a step of a writer does to its queue and to its counters,
LEMMA WriterMoves ==
    ASSUME EOFInv, NEW s \in Streams, Writer(s) \/ OpenTimeout(s) \/ WriteTimeout(s)
    PROVE  WriterMove(s)
<1> DEFINE r == snd[s]
           Stays(x) == x.numWritten = r.numWritten /\ x.peerConsumed = r.peerConsumed
                      /\ x.peerWindow = r.peerWindow /\ x.next = r.next
           Empty(c) == <<c, s, << >>>>
<1>1. Shape /\ DOMAIN r = sndFields
  BY DEF EOFInv, Shape
<1>2. ASSUME NEW x, Snd(s, x) PROVE snd'[s] = x
  BY <1>1, <1>2, SndIs DEF Snd
<1>3. ASSUME NEW c \in {"SYN", "FIN"}, shaper' = Queued("ctrl", Empty(c))
      PROVE  shaper'.data = shaper.data /\ \E f \in Frames : f[3] = << >> /\ shaper'.ctrl = Append(shaper.ctrl, f)
  <2>1. Empty(c) \in Frames /\ Empty(c)[3] = << >>
    <3>1. << >> \in Seq(Nat) /\ c \in {"SYN", "FIN", "PSH"}
      OBVIOUS
    <3>2. \A e \in Seq(Nat) : <<c, s, e>> \in Frames /\ <<c, s, e>>[3] = e
      BY <3>1 DEF Frames
    <3> QED BY <3>1, <3>2
  <2>2. shaper'.ctrl = Append(shaper.ctrl, Empty(c)) /\ shaper'.data = shaper.data
    <3> HIDE DEF Empty
    <3> QED BY <1>1, <1>3, <2>1, QueuedIs
  <2> QED BY <2>1, <2>2
<1>4. CASE OpenStream(s)
  <2>1. PICK x : x = [r EXCEPT !.pc = "syn"] /\ Snd(s, x)
    BY <1>4 DEF OpenStream
  <2>2. Stays(x) /\ x.pc = "syn"
    BY <1>1, <2>1 DEF sndFields
  <2>3. shaper'.data = shaper.data /\ \E f \in Frames : f[3] = << >> /\ shaper'.ctrl = Append(shaper.ctrl, f)
    BY <1>3, <1>4 DEF OpenStream
  <2>4. r.pc = "open"
    BY <1>4 DEF OpenStream
  <2> QED BY <1>2, <2>1, <2>2, <2>3, <2>4 DEF WriterMove, Asks, Waiting
<1>5. CASE Registered(s)
  <2>1. PICK x : x = [r EXCEPT !.pc = "look"] /\ Snd(s, x)
    BY <1>5 DEF Registered
  <2>2. Stays(x) /\ x.pc = "look"
    BY <1>1, <2>1 DEF sndFields
  <2> QED BY <1>2, <1>5, <2>1, <2>2 DEF Registered, WriterMove, Asks, Waiting
<1>6. CASE OpenTimeout(s)
  <2>1. PICK x : x = [r EXCEPT !.pc = "done", !.ok = FALSE] /\ Snd(s, x)
    BY <1>6 DEF OpenTimeout
  <2>2. Stays(x) /\ x.pc = "done"
    BY <1>1, <2>1 DEF sndFields
  <2>3. shaper'.data = shaper.data /\ \E f \in Frames : f[3] = << >> /\ shaper'.ctrl = Append(shaper.ctrl, f)
    BY <1>3, <1>6 DEF OpenTimeout
  <2> QED BY <1>2, <2>1, <2>2, <2>3 DEF WriterMove, Asks, Waiting
<1>7. CASE LoadCounters(s)
  <2>1. PICK x : x = [r EXCEPT !.inflight = Minus(r.numWritten, r.peerConsumed), !.pc = "win"] /\ Snd(s, x)
    BY <1>7 DEF LoadCounters
  <2>2. Stays(x) /\ x.pc = "win" /\ x.inflight = Minus(r.numWritten, r.peerConsumed)
    BY <1>1, <2>1 DEF sndFields
  <2> QED BY <1>2, <1>7, <2>1, <2>2 DEF LoadCounters, WriterMove, Asks, Waiting
<1>8. CASE LoadWindow(s)
  <2>1. PICK g : g = [r EXCEPT !.bts = Grant(r), !.pc = "wait"]
    OBVIOUS
  <2>2. Stays(g) /\ g.pc = "wait" /\ g.bts = Grant(r)
    BY <1>1, <2>1 DEF sndFields
  <2>3. CASE r.inflight < 0 \/ g.bts <= 0
    <3>1. PICK x : Snd(s, x) /\ shaper' = shaper
                   /\ (x = [r EXCEPT !.ok = FALSE, !.pc = "close"] \/ x = [r EXCEPT !.pc = "sleep"])
      BY <1>8, <2>1, <2>3 DEF LoadWindow
    <3>2. Stays(x) /\ x.pc \in {"close", "sleep"}
      BY <1>1, <3>1 DEF sndFields
    <3> QED BY <1>2, <1>8, <3>1, <3>2 DEF LoadWindow, WriterMove, Asks, Waiting
  <2>4. CASE ~(r.inflight < 0 \/ g.bts <= 0)
    <3>1. Snd(s, g) /\ shaper' = Queued("data", Frame(s, g)) /\ r.pc = "win"
      BY <1>8, <2>1, <2>4 DEF LoadWindow
    <3> QED BY <1>2, <2>2, <2>4, <3>1 DEF WriterMove, Sending, Waiting
  <2> QED BY <2>3, <2>4
<1>9. CASE NextFrame(s)
  <2>1. PICK x : x = [r EXCEPT !.pc = "wait"] /\ Snd(s, x)
    BY <1>9 DEF NextFrame
  <2>2. Stays(x) /\ x.pc = "wait" /\ x.bts = r.bts
    BY <1>1, <2>1 DEF sndFields
  <2>3. Frame(s, x) = Frame(s, r)
    BY <2>2 DEF Frame, Size
  <2> QED BY <1>2, <1>9, <2>1, <2>2, <2>3 DEF NextFrame, WriterMove, Sending, Waiting
<1>10. CASE Sleep(s)
  <2>1. PICK x : Snd(s, x) /\ (x = [r EXCEPT !.ok = FALSE, !.pc = "close"] \/ x = [r EXCEPT !.chUpdate = FALSE, !.pc = "look"])
    BY <1>10 DEF Sleep
  <2>2. Stays(x) /\ x.pc \in {"close", "look"}
    BY <1>1, <2>1 DEF sndFields
  <2> QED BY <1>2, <1>10, <2>1, <2>2 DEF Sleep, WriterMove, Asks, Waiting
<1>11. CASE Close(s)
  <2>1. PICK x : x = [r EXCEPT !.pc = "fin"] /\ Snd(s, x)
    BY <1>11 DEF Close
  <2>2. Stays(x) /\ x.pc = "fin"
    BY <1>1, <2>1 DEF sndFields
  <2>3. shaper'.data = shaper.data /\ \E f \in Frames : f[3] = << >> /\ shaper'.ctrl = Append(shaper.ctrl, f)
    BY <1>3, <1>11 DEF Close
  <2> QED BY <1>2, <2>1, <2>2, <2>3 DEF WriterMove, Asks, Waiting
<1>12. CASE WriteTimeout(s)
  <2>1. PICK x : x = [r EXCEPT !.ok = FALSE, !.pc = "close"] /\ Snd(s, x)
    BY <1>12 DEF WriteTimeout
  <2>2. Stays(x) /\ x.pc = "close"
    BY <1>1, <2>1 DEF sndFields
  <2> QED BY <1>2, <1>12, <2>1, <2>2 DEF WriteTimeout, WriterMove, Asks, Waiting
<1> QED BY <1>4, <1>5, <1>6, <1>7, <1>8, <1>9, <1>10, <1>11, <1>12 DEF Writer

\* A frame that carries nothing is queued, or none.
LEMMA CtrlQueued ==
    ASSUME Shape, CtrlEmpty, shaper'.ctrl = shaper.ctrl \/ \E f \in Frames : f[3] = << >> /\ shaper'.ctrl = Append(shaper.ctrl, f)
    PROVE  CtrlEmpty'
<1>1. shaper.ctrl \in Seq(Frames)
  BY DEF Shape
<1>2. CASE shaper'.ctrl = shaper.ctrl
  BY <1>2 DEF CtrlEmpty
<1>3. ASSUME NEW f \in Frames, f[3] = << >>, shaper'.ctrl = Append(shaper.ctrl, f) PROVE CtrlEmpty'
  <2>1. Len(shaper'.ctrl) = Len(shaper.ctrl) + 1 /\ shaper'.ctrl[Len(shaper.ctrl) + 1] = f /\ Len(shaper.ctrl) \in Nat
        /\ \A k \in 1..Len(shaper.ctrl) : shaper'.ctrl[k] = shaper.ctrl[k]
    BY <1>1, <1>3
  <2>2. \A k \in 1..Len(shaper'.ctrl) : k = Len(shaper.ctrl) + 1 \/ k \in 1..Len(shaper.ctrl)
    BY <2>1
  <2> QED BY <1>3, <2>1, <2>2 DEF CtrlEmpty
<1> QED BY <1>2, <1>3

\* writeV2 sends no more than a window more than what was read.
LEMMA SendingKeeps ==
    ASSUME WindowInv, Shape', NEW s \in Streams, WriterMove(s), Sending(s), WriterMeans(snd'[s]),
           wire' = wire, rcv' = rcv
    PROVE  BytesOK(s)' /\ InFlightOK(s)'
<1> DEFINE r == snd[s]
           x == snd'[s]
           l == Load(s)
           g == Len(rcv[s].got)
           w == Waits(s)
           n == snd[s].next - 1
<1>1. Shape /\ Numbers /\ BytesOK(s) /\ InFlightOK(s) /\ WriterMeans(r) /\ WindowsOK
  BY DEF WindowInv, EOFInv, StreamInv
<1>2. l \in Nat /\ w \in Nat /\ g \in Nat /\ LargestWindow \in Nat /\ Total \in Nat /\ MaxFrameSize \in Nat
  BY <1>1, LoadNat, FrameSizes
<1>3. /\ r.pc \in {"queue", "win"} /\ r.next \in 1..(Total + 1) /\ x.next = r.next /\ x.pc = "wait"
      /\ x.bts \in Nat \ {0} /\ x.next + x.bts <= Total + 1 /\ n \in Nat
  BY <1>1 DEF Sending, WriterMove, WriterMeans
<1>4. l + g <= n /\ n + Due(r) <= g + LargestWindow /\ w <= 0
  BY <1>1, <1>3 DEF BytesOK, Waiting
<1>5. Load(s)' = l /\ Len(rcv'[s].got) = g
  BY DEF Load
<1>6. Size(x) \in Nat /\ Size(x) <= x.bts
  BY <1>2, <1>3 DEF Size
<1>7. Waits(s)' = w + Size(x)
  <2>1. PICK f : f = Frame(s, x)
    OBVIOUS
  <2>2. f \in Frames /\ f[2] = s /\ Len(f[3]) = Size(x)
    <3>1. f = <<"PSH", s, [i \in 1..Size(x) |-> x.next + i - 1]>>
      BY <2>1 DEF Frame
    <3>2. [i \in 1..Size(x) |-> x.next + i - 1] \in [1..Size(x) -> Nat]
      BY <1>3, <1>6
    <3>3. PICK d : d = [i \in 1..Size(x) |-> x.next + i - 1]
      OBVIOUS
    <3>4. d \in Seq(Nat) /\ Len(d) = Size(x)
      BY <1>6, <3>2, <3>3, FunIsSeq
    <3> QED BY <3>1, <3>3, <3>4 DEF Frames
  <2>3. shaper'.data = Append(shaper.data, f)
    BY <1>1, <2>1, <2>2, QueuedIs DEF Sending
  <2>4. BytesOf(s, Append(shaper.data, f)) = BytesOf(s, shaper.data) + Of(s, f)
    BY <1>1, <2>2, BytesOfAppend DEF Shape
  <2> QED BY <2>2, <2>3, <2>4 DEF Waits, Of
<1>8. n + x.bts <= g + LargestWindow
  <2>1. CASE r.pc = "queue" /\ x.bts = r.bts
    BY <1>4, <2>1 DEF Due
  <2>2. CASE r.pc = "win" /\ ~(r.inflight < 0) /\ x.bts = Grant(r)
    <3>1. r.inflight \in Int /\ r.peerWindow \in Int /\ r.peerWindow <= LargestWindow
      BY <1>1 DEF Numbers, WindowsOK
    <3>2. n - r.inflight <= g
      BY <1>1, <2>2, <3>1 DEF InFlightOK
    <3>3. Grant(r) <= r.peerWindow - r.inflight
      <4>1. r.next \in Int
        <5>1. r.next \in 1..(Total + 1)
          BY <1>3
        <5> QED BY <1>2, <5>1
      <4>2. PICK i, p, k \in Int : i = r.inflight /\ p = r.peerWindow /\ k = r.next
        BY <3>1, <4>1
      <4>3. Grant(r) = IF p - i > Total + 1 - k THEN Total + 1 - k ELSE p - i
        BY <4>2 DEF Grant
      <4> HIDE DEF r
      <4> QED BY <3>1, <4>2, <4>3, SmuxAssumption
    <3>4. PICK i, p, b \in Int : i = r.inflight /\ p = r.peerWindow /\ b = x.bts
      BY <1>3, <3>1
    <3>5. n - i <= g /\ b <= p - i /\ p <= LargestWindow
      BY <2>2, <3>1, <3>2, <3>3, <3>4
    <3> HIDE DEF n, g
    <3>6. n + b <= g + LargestWindow
      BY <1>2, <1>3, <3>5
    <3> QED BY <3>4, <3>6
  <2> QED BY <2>1, <2>2 DEF Sending
<1> HIDE DEF n, l, g, w
<1>9. /\ Size(x) + l <= LargestWindow /\ Size(x) + l + g <= Total /\ w = 0
  <2>1. n + x.bts <= Total
    BY <1>2, <1>3 DEF n
  <2> QED BY <1>2, <1>3, <1>4, <1>6, <1>8, <2>1
<1>10. Due(x) = x.bts /\ x.next - 1 = n
  BY <1>3 DEF Due, n
<1>11. Waits(s)' = Size(x)
  BY <1>6, <1>7, <1>9
<1>12. BytesOK(s)'
  <2>1. Waits(s)' + Load(s)' <= LargestWindow /\ Waits(s)' + Load(s)' + Len(rcv'[s].got) <= Total
    BY <1>5, <1>9, <1>11
  <2>2. Load(s)' + Len(rcv'[s].got) <= x.next - 1 /\ (x.next - 1) + Due(x) <= Len(rcv'[s].got) + LargestWindow
    BY <1>4, <1>5, <1>8, <1>10
  <2>3. Waits(s)' <= Size(x)
    BY <1>6, <1>11
  <2> QED BY <1>3, <2>1, <2>2, <2>3 DEF BytesOK
<1>13. InFlightOK(s)'
  BY <1>3 DEF InFlightOK
<1> QED BY <1>12, <1>13

\* The queue of updates does not change.
LEMMA BackSame ==
    ASSUME back' = back, NEW s
    PROVE  \A k \in 1..Len(back') : back'[k][1] = "UPD" /\ back'[k][2] = s => \E j \in 1..Len(back) : back'[k] = back[j]
OBVIOUS

\* and that it keeps within the window.
LEMMA WriterWindow ==
    ASSUME WindowInv, EOFInv', NEW s \in Streams, Writer(s) \/ OpenTimeout(s) \/ WriteTimeout(s)
    PROVE  WindowInv'
<1>1. EOFInv /\ Shape /\ Shape' /\ Numbers /\ CtrlEmpty /\ WindowsOK /\ StreamInv(s) /\ StreamInv(s)'
      /\ CountsOK(s) /\ InFlightOK(s) /\ BytesOK(s)
  BY DEF WindowInv, EOFInv
<1>2. /\ \A t \in Streams : t # s => snd'[t] = snd[t]
      /\ upd' = upd /\ wire' = wire /\ rcv' = rcv /\ back' = back
  BY <1>1, WriterSteps
<1>3. WriterMove(s)
  BY <1>1, WriterMoves
<1>4. WriterMeans(snd[s]) /\ WriterMeans(snd'[s]) /\ snd[s].inflight \in Int
  BY <1>1 DEF StreamInv, Numbers
<1>5. WindowsOK'
  BY <1>1, <1>2, <1>3 DEF WindowsOK, WriterMove
<1>6. \A t : \A k \in 1..Len(back') : back'[k][1] = "UPD" /\ back'[k][2] = t => \E j \in 1..Len(back) : back'[k] = back[j]
  BY <1>2, BackSame
<1>7. RcvSame(rcv[s], rcv'[s]) /\ \A t \in Streams : RcvSame(rcv[t], rcv'[t])
  BY <1>2 DEF RcvSame
<1>8. CountsOK(s)'
  <2>1. snd'[s].pc \in Waiting =>
             snd[s].pc \in Waiting /\ snd'[s].next = snd[s].next /\ snd'[s].numWritten = snd[s].numWritten
    BY <1>3 DEF WriterMove
  <2>2. snd'[s].peerConsumed = snd[s].peerConsumed
    BY <1>3 DEF WriterMove
  <2> QED BY <1>1, <1>6, <1>7, <2>1, <2>2, CountsAside
<1>9. Len(rcv[s].got) \in Nat /\ Len(rcv'[s].got) = Len(rcv[s].got) /\ Load(s) \in Nat /\ Load(s)' = Load(s)
  BY <1>1, <1>2, LoadNat DEF Load
<1>10. CASE Sending(s)
  <2>1. CtrlEmpty'
    <3>1. shaper'.ctrl = shaper.ctrl
      BY <1>1, <1>10 DEF Sending, Queued, Shape
    <3> QED BY <1>1, <3>1 DEF CtrlEmpty
  <2>2. BytesOK(s)' /\ InFlightOK(s)'
    BY <1>1, <1>2, <1>3, <1>4, <1>10, SendingKeeps
  <2>3. ASSUME NEW t \in Streams, t # s PROVE CountsOK(t)' /\ InFlightOK(t)' /\ BytesOK(t)'
    <3>1. PICK f : f = Frame(s, snd'[s])
      OBVIOUS
    <3>2. f \in Frames /\ f[2] = s
      <4>1. snd'[s].bts \in Nat \ {0} /\ snd'[s].next \in Nat
        BY <1>4, <1>10 DEF Sending, WriterMeans
      <4> QED BY <3>1, <4>1, FrameIs
    <3>3. shaper'.data = Append(shaper.data, f)
      BY <1>1, <1>10, <3>1, <3>2, QueuedIs DEF Sending
    <3>4. BytesOf(t, Append(shaper.data, f)) = BytesOf(t, shaper.data) + Of(t, f) /\ Of(t, f) = 0
      BY <1>1, <2>3, <3>2, BytesOfAppend, BytesOfOthers DEF Shape
    <3>5. BytesOf(t, shaper'.data) = BytesOf(t, shaper.data) /\ BytesOf(t, wire') <= BytesOf(t, wire)
      BY <1>1, <1>2, <3>3, <3>4, BytesOfNat DEF Shape
    <3> QED BY <1>1, <1>2, <1>6, <1>7, <2>3, <3>5, WindowAside
  <2> QED BY <1>1, <1>5, <1>8, <2>1, <2>2, <2>3 DEF WindowInv
<1>11. CASE Asks(s)
  <2>1. CtrlEmpty'
    BY <1>1, <1>11, CtrlQueued DEF Asks
  <2>2. shaper'.data = shaper.data
    BY <1>11 DEF Asks
  <2>3. InFlightOK(s)'
    <3>1. CASE snd'[s].pc = "win"
      <4>1. PICK c \in 0..(Mod - 1) : CountsAre(s, c)
        BY <1>1 DEF CountsOK
      <4>2. snd[s].pc \in Waiting /\ snd'[s].next = snd[s].next /\ snd'[s].inflight = Minus(snd[s].numWritten, snd[s].peerConsumed)
        BY <1>3, <3>1 DEF WriterMove, Waiting
      <4>3. PICK p \in 0..Len(rcv[s].got) : snd[s].peerConsumed = Plus(c, p)
        BY <4>1 DEF CountsAre, CountedBy
      <4>4. snd[s].numWritten = Plus(c, snd[s].next - 1)
        BY <4>1, <4>2 DEF CountsAre
      <4>5. snd[s].next - 1 \in 0..Total /\ p \in 0..Total
        <5>1. Waits(s) + Load(s) + Len(rcv[s].got) <= Total /\ Waits(s) \in Nat /\ Load(s) \in Nat /\ Total \in Nat
          BY <1>1, LoadNat, FrameSizes DEF BytesOK
        <5>2. snd[s].next \in 1..(Total + 1)
          BY <1>4 DEF WriterMeans
        <5>3. Len(rcv[s].got) \in Nat /\ Len(rcv[s].got) <= Total
          BY <1>9, <5>1
        <5>4. p \in 0..Total
          BY <5>1, <5>3
        <5> QED BY <5>1, <5>2, <5>4
      <4>6. PICK d : d = Minus(Plus(c, snd[s].next - 1), Plus(c, p))
        OBVIOUS
      <4>7. d \in Int /\ (d >= 0 => (snd[s].next - 1) - d <= p)
        BY <4>5, <4>6, NeverTooFew
      <4>8. snd'[s].inflight = d
        BY <4>2, <4>3, <4>4, <4>6
      <4>9. d >= 0 => (snd[s].next - 1) - d <= Len(rcv[s].got)
        <5>1. PICK a \in Int : a = snd[s].next - 1
          BY <4>5
        <5>2. d >= 0 => a - d <= p
          BY <4>7, <5>1
        <5>3. d >= 0 => a - d <= Len(rcv[s].got)
          BY <1>9, <4>7, <5>2
        <5> QED BY <5>1, <5>3
      <4> QED BY <1>9, <4>2, <4>8, <4>9 DEF InFlightOK
    <3> QED BY <3>1 DEF InFlightOK
  <2>4. BytesOK(s)'
    <3>1. WriterHolds(snd[s], snd'[s])
      BY <1>3, <1>11 DEF WriterMove, Asks, WriterHolds, Due
    <3>2. Waits(s)' = Waits(s) /\ Load(s)' <= Load(s) /\ Load(s)' + Len(rcv'[s].got) <= Load(s) + Len(rcv[s].got)
          /\ Len(rcv'[s].got) >= Len(rcv[s].got)
      BY <1>9, <2>2 DEF Waits
    <3> QED BY <1>1, <1>4, <3>1, <3>2, BytesKept
  <2>5. ASSUME NEW t \in Streams, t # s PROVE CountsOK(t)' /\ InFlightOK(t)' /\ BytesOK(t)'
    <3>1. BytesOf(t, shaper'.data) = BytesOf(t, shaper.data) /\ BytesOf(t, wire') <= BytesOf(t, wire)
      BY <1>1, <1>2, <2>2, BytesOfNat DEF Shape
    <3> QED BY <1>1, <1>2, <1>6, <1>7, <2>5, <3>1, WindowAside
  <2> QED BY <1>1, <1>5, <1>8, <2>1, <2>3, <2>4, <2>5 DEF WindowInv
<1> QED BY <1>3, <1>10, <1>11 DEF WriterMove

-----------------------------------------------------------------------------
(* sendLoop.                                                                   *)

\* The counters of a writer whose control frame is sent,
SentCtrl(r, x) ==
    /\ x.next = r.next /\ x.bts = r.bts /\ x.numWritten = r.numWritten
    /\ x.pc = r.pc \/ (r.pc = "syn" /\ x.pc = "reg") \/ (r.pc = "fin" /\ x.pc = "done")
\* and of one whose data is.
SentData(r, x) ==
    \/ /\ r.pc = "wait" /\ x.next = r.next + Size(r) /\ x.bts = r.bts - Size(r)
       /\ x.numWritten = Plus(r.numWritten, Size(r))
       /\ x.pc \in {"queue", "sleep", "close"} /\ (x.pc # "queue" => ~(x.bts > 0))
    \/ r.pc # "wait" /\ x = r
SendMove(f) ==
    /\ snd'[f[2]].peerConsumed = snd[f[2]].peerConsumed /\ snd'[f[2]].peerWindow = snd[f[2]].peerWindow
    /\ snd'[f[2]].inflight = snd[f[2]].inflight
    /\ \/ /\ shaper.ctrl # << >> /\ f = Head(shaper.ctrl) /\ shaper'.ctrl = Tail(shaper.ctrl) /\ shaper'.data = shaper.data
          /\ SentCtrl(snd[f[2]], snd'[f[2]])
       \/ /\ shaper.data # << >> /\ f = Head(shaper.data) /\ shaper'.data = Tail(shaper.data) /\ shaper'.ctrl = shaper.ctrl
          /\ f[1] = "PSH" /\ (snd[f[2]].pc = "wait" => Len(f[3]) = Size(snd[f[2]])) /\ SentData(snd[f[2]], snd'[f[2]])

\* A frame that was written,
LEMMA FrameWrittenIs ==
    ASSUME NEW r, DOMAIN r = sndFields
    PROVE  LET x == FrameWritten(r)
           IN  /\ x.next = r.next + Size(r) /\ x.bts = r.bts - Size(r) /\ x.numWritten = Plus(r.numWritten, Size(r))
               /\ x.pc \in {"queue", "sleep", "close"} /\ (x.pc # "queue" => ~(x.bts > 0))
               /\ x.peerConsumed = r.peerConsumed /\ x.peerWindow = r.peerWindow /\ x.inflight = r.inflight
<1>1. PICK w : w = [r EXCEPT !.numWritten = Plus(r.numWritten, Size(r)), !.next = r.next + Size(r), !.bts = r.bts - Size(r)]
  OBVIOUS
<1>2. DOMAIN w = sndFields /\ w.next = r.next + Size(r) /\ w.bts = r.bts - Size(r)
      /\ w.numWritten = Plus(r.numWritten, Size(r)) /\ w.inflight = r.inflight
      /\ w.peerConsumed = r.peerConsumed /\ w.peerWindow = r.peerWindow
  BY <1>1 DEF sndFields
<1>3. PICK p : p = IF w.bts > 0 THEN "queue" ELSE IF w.next <= Total THEN "sleep" ELSE "close"
  OBVIOUS
<1>4. PICK x : x = [w EXCEPT !.pc = p] /\ FrameWritten(r) = x
  BY <1>1, <1>3 DEF FrameWritten
<1>5. x.next = w.next /\ x.bts = w.bts /\ x.numWritten = w.numWritten
      /\ x.inflight = w.inflight /\ x.peerConsumed = w.peerConsumed /\ x.peerWindow = w.peerWindow /\ x.pc = p
  BY <1>2, <1>4 DEF sndFields
<1>6. p \in {"queue", "sleep", "close"} /\ (p # "queue" => ~(w.bts > 0))
  BY <1>3
<1> QED BY <1>2, <1>4, <1>5, <1>6

\* sendLoop moves the first frame and tells its writer,
LEMMA SendMoves ==
    ASSUME EOFInv, SendLoop
    PROVE  \E f \in Frames :
             /\ wire' = Append(wire, f) /\ upd' = upd /\ rcv' = rcv /\ back' = back
             /\ \A t \in Streams : t # f[2] => snd'[t] = snd[t]
             /\ SendMove(f)
<1>1. PICK c : c = IF shaper.ctrl # << >> THEN "ctrl" ELSE "data"
  OBVIOUS
<1>2. c \in {"ctrl", "data"} /\ Shape /\ Queues
  BY <1>1 DEF EOFInv
<1>3. PICK f : f = Head(shaper[c])
  OBVIOUS
<1>4. shaper[c] \in Seq(Frames) /\ shaper[c] # << >>
  BY <1>1, <1>2 DEF SendLoop, Shape
<1>5. f \in Frames /\ 1 \in 1..Len(shaper[c]) /\ f = shaper[c][1]
  BY <1>3, <1>4
<1>6. PICK s \in Streams : s = f[2]
  BY <1>5 DEF Frames
<1>7. wire' = Append(wire, f) /\ upd' = upd /\ rcv' = rcv /\ back' = back
  BY <1>1, <1>3 DEF SendLoop
<1>8. shaper' = [shaper EXCEPT ![c] = Tail(shaper[c])] /\ snd' = [snd EXCEPT ![s] = Result(snd[s], f[1])]
  BY <1>1, <1>2, <1>3, <1>6 DEF SendLoop, Shape
<1>9. /\ (c = "ctrl" => shaper'.ctrl = Tail(shaper.ctrl) /\ shaper'.data = shaper.data)
      /\ (c = "data" => shaper'.data = Tail(shaper.data) /\ shaper'.ctrl = shaper.ctrl)
  BY <1>2, <1>8 DEF Shape
<1>10. PICK x : x = Result(snd[s], f[1])
  OBVIOUS
<1>11. snd'[s] = x /\ \A t \in Streams : t # s => snd'[t] = snd[t]
  BY <1>2, <1>8, <1>10, SndIs
<1>12. DOMAIN snd[s] = sndFields /\ WriterMeans(snd[s]) /\ OneQueued(s)
  BY <1>2 DEF EOFInv, Shape, StreamInv
<1>13. CASE c = "ctrl"
  <2>1. f[1] \in {"SYN", "FIN"}
    BY <1>2, <1>5, <1>13 DEF Queues
  <2>2. x = snd[s] \/ (snd[s].pc = "syn" /\ x = [snd[s] EXCEPT !.pc = "reg"])
        \/ (snd[s].pc = "fin" /\ x = [snd[s] EXCEPT !.pc = "done"])
    BY <1>10, <2>1 DEF Result
  <2>3. /\ SentCtrl(snd[s], x) /\ x.inflight = snd[s].inflight
        /\ x.peerConsumed = snd[s].peerConsumed /\ x.peerWindow = snd[s].peerWindow
    BY <1>12, <2>2 DEF sndFields, SentCtrl
  <2>4. SendMove(f)
    BY <1>3, <1>4, <1>6, <1>9, <1>11, <1>13, <2>3 DEF SendMove
  <2> QED BY <1>5, <1>6, <1>7, <1>11, <2>4
<1>14. CASE c = "data"
  <2>1. f[1] = "PSH" /\ DataOf(f, s)
    BY <1>2, <1>5, <1>6, <1>14 DEF Queues, DataOf
  <2>2. snd[s].pc = "wait" => Len(f[3]) = Size(snd[s])
    <3>1. snd[s].pc = "wait" => snd[s].ok
      BY <1>12 DEF WriterMeans, Waiting
    <3> QED BY <1>5, <1>12, <1>14, <2>1, <3>1 DEF OneQueued
  <2>3. /\ SentData(snd[s], x) /\ x.inflight = snd[s].inflight
        /\ x.peerConsumed = snd[s].peerConsumed /\ x.peerWindow = snd[s].peerWindow
    <3>1. CASE snd[s].pc = "wait"
      <4>1. x = FrameWritten(snd[s])
        BY <1>10, <2>1, <3>1 DEF Result
      <4> QED BY <1>12, <3>1, <4>1, FrameWrittenIs DEF SentData
    <3>2. CASE snd[s].pc # "wait"
      <4>1. x = snd[s]
        BY <1>10, <2>1, <3>2 DEF Result
      <4> QED BY <3>2, <4>1 DEF SentData
    <3> QED BY <3>1, <3>2
  <2>4. SendMove(f)
    BY <1>3, <1>4, <1>6, <1>9, <1>11, <1>14, <2>1, <2>2, <2>3 DEF SendMove
  <2> QED BY <1>5, <1>6, <1>7, <1>11, <2>4
<1> QED BY <1>2, <1>13, <1>14

\* A queue loses its first frame.
LEMMA CtrlSent ==
    ASSUME Shape, CtrlEmpty, shaper.ctrl # << >>, shaper'.ctrl = Tail(shaper.ctrl)
    PROVE  CtrlEmpty' /\ Head(shaper.ctrl)[3] = << >>
<1>1. PICK q \in Seq(Frames) : q = shaper.ctrl
  BY DEF Shape
<1>2. q # << >> /\ Len(q) \in Nat
  BY <1>1
<1>3. Len(Tail(q)) = Len(q) - 1 /\ (\A k \in 1..(Len(q) - 1) : Tail(q)[k] = q[k + 1]) /\ Head(q) = q[1] /\ 1 \in 1..Len(q)
  BY <1>2
<1>4. \A k \in 1..(Len(q) - 1) : k + 1 \in 1..Len(q)
  BY <1>2
<1>5. \A k \in 1..Len(Tail(q)) : Tail(q)[k][3] = << >>
  BY <1>1, <1>3, <1>4 DEF CtrlEmpty
<1>6. Head(q)[3] = << >>
  BY <1>1, <1>3 DEF CtrlEmpty
<1> QED BY <1>1, <1>5, <1>6 DEF CtrlEmpty

\* The data of a stream goes from the queue to the wire.
LEMMA DataSentKeeps ==
    ASSUME Shape, Shape', NEW s \in Streams, BytesOK(s), WriterMeans(snd[s]), WriterMeans(snd'[s]), rcv' = rcv,
           NEW k \in Nat, Waits(s)' = Waits(s) - k, Load(s)' = Load(s) + k, Waits(s)' \in Nat,
           snd[s].pc = "wait" => k = Size(snd[s]), SentData(snd[s], snd'[s])
    PROVE  BytesOK(s)'
<1> DEFINE r == snd[s]
           x == snd'[s]
           l == Load(s)
           w == Waits(s)
           v == Waits(s)'
           g == Len(rcv[s].got)
           n == snd[s].next - 1
<1>1. l \in Nat /\ w \in Nat /\ g \in Nat /\ LargestWindow \in Nat /\ Total \in Nat /\ v \in Nat /\ n \in Int
  BY LoadNat, FrameSizes DEF WriterMeans
<1>2. Load(s)' = l + k /\ Len(rcv'[s].got) = g /\ v = w - k
  OBVIOUS
<1>3. w + l <= LargestWindow /\ w + l + g <= Total
  BY DEF BytesOK
<1>4. snd[s].pc \in Waiting => l + g <= n /\ n + Due(r) <= g + LargestWindow /\ w <= IF snd[s].pc = "wait" THEN Size(snd[s]) ELSE 0
  BY DEF BytesOK
<1>5. CASE r.pc # "wait" /\ x = r
  <2> HIDE DEF l, w, g, n, v
  <2>1. v + (l + k) <= LargestWindow /\ v + (l + k) + g <= Total
    BY <1>1, <1>2, <1>3
  <2>2. ASSUME r.pc \in Waiting PROVE k = 0 /\ w = 0 /\ v = 0
    <3>1. w <= 0
      BY <1>4, <1>5, <2>2
    <3> QED BY <1>1, <1>2, <3>1
  <2>3. ASSUME x.pc \in Waiting
        PROVE  (l + k) + g <= x.next - 1 /\ (x.next - 1) + Due(x) <= g + LargestWindow /\ v <= 0
    <3>1. k = 0 /\ v = 0 /\ x = r
      BY <1>5, <2>2, <2>3
    <3>2. l + g <= r.next - 1 /\ (r.next - 1) + Due(r) <= g + LargestWindow
      BY <1>4, <1>5, <2>3 DEF n
    <3> QED BY <1>1, <3>1, <3>2
  <2> QED BY <1>2, <1>5, <2>1, <2>3 DEF BytesOK, v, g
<1>6. CASE /\ r.pc = "wait" /\ x.next = r.next + Size(r) /\ x.bts = r.bts - Size(r)
           /\ x.pc \in {"queue", "sleep", "close"} /\ (x.pc # "queue" => ~(x.bts > 0))
  <2>1. r.bts \in Nat /\ k = Size(r) /\ r.pc \in Waiting /\ Due(r) = r.bts /\ k <= r.bts /\ x.next - 1 = n + k
    <3>1. r.bts \in Nat /\ k = Size(r) /\ r.pc \in Waiting /\ Due(r) = r.bts
      BY <1>6 DEF WriterMeans, Waiting, Due
    <3>2. k <= r.bts
      BY <3>1, FrameSizes DEF Size
    <3>3. r.next \in Int /\ x.next = r.next + k
      BY <1>6, <3>1 DEF WriterMeans
    <3> QED BY <3>1, <3>2, <3>3
  <2>2. Due(x) = r.bts - k
    BY <1>6, <2>1 DEF Due
  <2> HIDE DEF l, w, g, n, v
  <2>3. v + (l + k) <= LargestWindow /\ v + (l + k) + g <= Total
    BY <1>1, <1>2, <1>3
  <2>4. w <= k /\ l + g <= n /\ n + r.bts <= g + LargestWindow
    BY <1>4, <1>6, <2>1
  <2>5. (l + k) + g <= x.next - 1
    BY <1>1, <2>1, <2>4
  <2>6. (x.next - 1) + Due(x) <= g + LargestWindow
    <3>1. PICK b \in Nat : b = r.bts
      BY <2>1
    <3>2. x.next - 1 = n + k /\ Due(x) = b - k /\ n + b <= g + LargestWindow
      BY <2>1, <2>2, <2>4, <3>1
    <3>3. (n + k) + (b - k) <= g + LargestWindow
      BY <1>1, <3>2
    <3> QED BY <3>2, <3>3
  <2>7. v <= 0 /\ x.pc # "wait"
    BY <1>1, <1>2, <1>6, <2>4
  <2> QED BY <1>2, <2>3, <2>5, <2>6, <2>7 DEF BytesOK, v, g
<1> QED BY <1>5, <1>6 DEF SentData

\* which changes nothing in what is outstanding.
LEMMA SendWindow ==
    ASSUME WindowInv, EOFInv', SendLoop
    PROVE  WindowInv'
<1>1. EOFInv /\ Shape /\ Shape' /\ Numbers /\ CtrlEmpty /\ WindowsOK
  BY DEF WindowInv, EOFInv
<1>2. PICK f \in Frames :
             /\ wire' = Append(wire, f) /\ upd' = upd /\ rcv' = rcv /\ back' = back
             /\ \A t \in Streams : t # f[2] => snd'[t] = snd[t]
             /\ SendMove(f)
  BY <1>1, SendMoves
<1>3. PICK s \in Streams : s = f[2]
  BY <1>2 DEF Frames
<1>4. CountsOK(s) /\ InFlightOK(s) /\ BytesOK(s) /\ WriterMeans(snd[s]) /\ WriterMeans(snd'[s]) /\ snd[s].inflight \in Int
  BY <1>1 DEF WindowInv, EOFInv, StreamInv, Numbers
<1>5. WindowsOK'
  BY <1>1, <1>2, <1>3 DEF WindowsOK, SendMove
<1>6. \A t : \A k \in 1..Len(back') : back'[k][1] = "UPD" /\ back'[k][2] = t => \E j \in 1..Len(back) : back'[k] = back[j]
  BY <1>2, BackSame
<1>7. \A t \in Streams : RcvSame(rcv[t], rcv'[t])
  BY <1>2 DEF RcvSame
<1>8. \A t \in Streams : BytesOf(t, wire') = BytesOf(t, wire) + Of(t, f) /\ BytesOf(t, wire) \in Nat /\ Of(t, f) \in Nat
                         /\ (t # s => Of(t, f) = 0)
  BY <1>1, <1>2, <1>3, BytesOfAppend, BytesOfNat, BytesOfOthers DEF Shape
<1>9. Len(rcv[s].got) \in Nat /\ Len(rcv'[s].got) = Len(rcv[s].got) /\ Load(s) \in Nat /\ Buffered(rcv[s]) \in Nat
  BY <1>1, <1>2, LoadNat
<1>10. ASSUME NEW t \in Streams, t # s, BytesOf(t, shaper'.data) = BytesOf(t, shaper.data)
       PROVE  CountsOK(t)' /\ InFlightOK(t)' /\ BytesOK(t)'
  <2>1. BytesOf(t, wire') <= BytesOf(t, wire) /\ snd'[t] = snd[t]
    BY <1>2, <1>3, <1>8, <1>10
  <2> QED BY <1>1, <1>6, <1>7, <1>10, <2>1, WindowAside
<1>11. CASE /\ shaper.ctrl # << >> /\ f = Head(shaper.ctrl) /\ shaper'.ctrl = Tail(shaper.ctrl) /\ shaper'.data = shaper.data
            /\ SentCtrl(snd[s], snd'[s])
  <2>1. CtrlEmpty' /\ f[3] = << >>
    BY <1>1, <1>11, CtrlSent
  <2>2. Of(s, f) = 0
    BY <2>1, BytesOfOthers
  <2>3. CountsOK(s)'
    <3>1. snd'[s].pc \in Waiting =>
             snd[s].pc \in Waiting /\ snd'[s].next = snd[s].next /\ snd'[s].numWritten = snd[s].numWritten
      BY <1>11 DEF SentCtrl, Waiting
    <3>2. snd'[s].peerConsumed = snd[s].peerConsumed
      BY <1>2, <1>3 DEF SendMove
    <3> QED BY <1>1, <1>4, <1>6, <1>7, <3>1, <3>2, CountsAside
  <2>4. InFlightOK(s)'
    <3>1. snd'[s].pc = "win" => snd[s].pc = "win" /\ snd'[s].next = snd[s].next /\ snd'[s].inflight = snd[s].inflight
      BY <1>2, <1>3, <1>11 DEF SentCtrl, SendMove
    <3>2. Len(rcv'[s].got) >= Len(rcv[s].got)
      BY <1>9
    <3> QED BY <1>1, <1>4, <3>1, <3>2, InFlightKept
  <2>5. BytesOK(s)'
    <3>1. WriterHolds(snd[s], snd'[s])
      BY <1>11 DEF SentCtrl, WriterHolds, Due, Waiting
    <3>2. Waits(s)' = Waits(s) /\ Load(s)' = Load(s)
      BY <1>2, <1>8, <1>11, <2>2 DEF Waits, Load
    <3>3. Load(s)' <= Load(s) /\ Load(s)' + Len(rcv'[s].got) <= Load(s) + Len(rcv[s].got) /\ Len(rcv'[s].got) >= Len(rcv[s].got)
      BY <1>9, <3>2
    <3> QED BY <1>1, <1>4, <3>1, <3>2, <3>3, BytesKept
  <2>6. \A t \in Streams : t # s => CountsOK(t)' /\ InFlightOK(t)' /\ BytesOK(t)'
    BY <1>10, <1>11
  <2> QED BY <1>5, <2>1, <2>3, <2>4, <2>5, <2>6 DEF WindowInv
<1>12. CASE /\ shaper.data # << >> /\ f = Head(shaper.data) /\ shaper'.data = Tail(shaper.data) /\ shaper'.ctrl = shaper.ctrl
            /\ (snd[s].pc = "wait" => Len(f[3]) = Size(snd[s])) /\ SentData(snd[s], snd'[s])
  <2>1. CtrlEmpty'
    BY <1>1, <1>12 DEF CtrlEmpty
  <2>2. \A t \in Streams : BytesOf(t, shaper.data) = Of(t, f) + BytesOf(t, shaper'.data) /\ BytesOf(t, shaper'.data) \in Nat
    BY <1>1, <1>12, BytesOfTail, BytesOfNat DEF Shape
  <2>3. \A t \in Streams : t # s => BytesOf(t, shaper'.data) = BytesOf(t, shaper.data)
    BY <1>8, <2>2
  <2>4. PICK k \in Nat : k = Of(s, f) /\ k = Len(f[3])
    BY <1>3, <1>8 DEF Of
  <2>5. Waits(s)' = Waits(s) - k /\ Load(s)' = Load(s) + k /\ Waits(s)' \in Nat
    <3>1. BytesOf(s, shaper.data) = k + BytesOf(s, shaper'.data) /\ BytesOf(s, shaper'.data) \in Nat
      BY <2>2, <2>4
    <3>2. BytesOf(s, wire') = BytesOf(s, wire) + k /\ BytesOf(s, wire) \in Nat /\ Buffered(rcv'[s]) = Buffered(rcv[s])
      BY <1>2, <1>8, <2>4
    <3>3. Waits(s)' = Waits(s) - k /\ Waits(s)' \in Nat
      BY <3>1 DEF Waits
    <3>4. Load(s)' = Load(s) + k
      BY <1>9, <3>2 DEF Load
    <3> QED BY <3>3, <3>4
  <2>6. BytesOK(s)'
    BY <1>1, <1>2, <1>4, <1>12, <2>4, <2>5, DataSentKeeps
  <2>7. InFlightOK(s)'
    <3>1. snd'[s].pc = "win" => snd[s].pc = "win" /\ snd'[s].next = snd[s].next /\ snd'[s].inflight = snd[s].inflight
      BY <1>12 DEF SentData
    <3>2. Len(rcv'[s].got) >= Len(rcv[s].got)
      BY <1>9
    <3> QED BY <1>1, <1>4, <3>1, <3>2, InFlightKept
  <2>8. CountsOK(s)'
    <3>1. PICK c \in 0..(Mod - 1) : CountsAre(s, c)
      BY <1>4 DEF CountsOK
    <3>2. snd'[s].pc \in Waiting => snd'[s].numWritten = Plus(c, snd'[s].next - 1)
      <4>1. CASE snd[s].pc # "wait" /\ snd'[s] = snd[s]
        BY <3>1, <4>1 DEF CountsAre
      <4>2. CASE snd[s].pc = "wait" /\ snd'[s].next = snd[s].next + Size(snd[s])
                 /\ snd'[s].numWritten = Plus(snd[s].numWritten, Size(snd[s]))
        <5>1. snd[s].numWritten = Plus(c, snd[s].next - 1)
          BY <3>1, <4>2 DEF CountsAre, Waiting
        <5>2. PICK a, b \in Int : a = snd[s].next - 1 /\ b = Size(snd[s])
          BY <1>4, <2>4, <4>2, <1>12 DEF WriterMeans
        <5>3. a \in 0..Total /\ b \in 0..Total /\ a + b <= Total /\ snd'[s].next - 1 = a + b
          <6>1. snd[s].next \in 1..(Total + 1) /\ snd'[s].next \in 1..(Total + 1) /\ b \in Nat /\ Total \in Nat
            BY <1>4, <1>12, <2>4, <4>2, <5>2, FrameSizes DEF WriterMeans
          <6> QED BY <4>2, <5>2, <6>1
        <5>4. Plus(Plus(c, a), b) = Plus(c, a + b)
          BY <5>3, CountsOn
        <5> QED BY <4>2, <5>1, <5>2, <5>3, <5>4
      <4> QED BY <1>12, <4>1, <4>2 DEF SentData
    <3>3. snd'[s].peerConsumed = snd[s].peerConsumed
      BY <1>2, <1>3 DEF SendMove
    <3>4. /\ rcv'[s].numRead = Plus(c, Len(rcv'[s].got)) /\ CountedBy(c, s, snd'[s].peerConsumed)
          /\ rcv'[s].pc = "count" => CountedBy(c, s, rcv'[s].consumed)
          /\ rcv'[s].set = "count" => CountedBy(c, s, rcv'[s].setConsumed)
          /\ \A k1 \in 1..Len(back') : back'[k1][1] = "UPD" /\ back'[k1][2] = s => CountedBy(c, s, back'[k1][3])
      BY <1>2, <3>1, <3>3 DEF CountsAre
    <3>5. Len(rcv'[s].got) \in Nat /\ Len(rcv'[s].got) >= Len(rcv[s].got)
      BY <1>9
    <3> QED BY <1>9, <3>1, <3>2, <3>4, <3>5, CountsKept
  <2>9. \A t \in Streams : t # s => CountsOK(t)' /\ InFlightOK(t)' /\ BytesOK(t)'
    BY <1>10, <2>3
  <2> QED BY <1>5, <2>1, <2>6, <2>7, <2>8, <2>9 DEF WindowInv
<1> QED BY <1>2, <1>3, <1>11, <1>12 DEF SendMove

-----------------------------------------------------------------------------
(* The writing end's recvLoop.                                                 *)

\* The answer at the head of the connection, or the one that is half stored.
Hearing(f) ==
    /\ back # << >> /\ f = Head(back) /\ back' = Tail(back)
    /\ upd' = upd \/ (f[1] = "UPD" /\ upd'.w = f[4])
    /\ \A t \in Streams :
          /\ snd'[t].peerWindow = snd[t].peerWindow
          /\ snd'[t].peerConsumed = snd[t].peerConsumed \/ (f[1] = "UPD" /\ f[2] = t /\ snd'[t].peerConsumed = f[3])
Storing ==
    /\ back' = back /\ upd # None /\ upd' = None
    /\ \A t \in Streams :
          /\ snd'[t].peerConsumed = snd[t].peerConsumed
          /\ snd'[t].peerWindow = snd[t].peerWindow \/ snd'[t].peerWindow = upd.w

\* What the peer tells changes only the two numbers of the window,
LEMMA ToldMoves ==
    ASSUME EOFInv, RecvBack \/ StoreWindow
    PROVE  /\ \A t \in Streams : snd'[t].numWritten = snd[t].numWritten /\ snd'[t].inflight = snd[t].inflight
           /\ (\E f \in Answers : Hearing(f)) \/ Storing
<1>1. Shape /\ Numbers /\ back \in Seq(Answers)
  BY DEF EOFInv, Shape
<1>2. \A t \in Streams : DOMAIN snd[t] = sndFields
  BY <1>1 DEF Shape
<1>3. CASE StoreWindow
  <2>1. PICK s \in Streams : s = upd.s
    BY <1>1, <1>3 DEF Numbers, StoreWindow
  <2>2. upd # None /\ upd' = None /\ back' = back
    BY <1>3 DEF StoreWindow
  <2>3. PICK x : x = [snd[s] EXCEPT !.peerWindow = upd.w, !.chUpdate = TRUE]
    OBVIOUS
  <2>4. snd' = [snd EXCEPT ![s] = x]
    BY <1>1, <1>3, <2>1, <2>3 DEF StoreWindow, Shape
  <2>5. x.inflight = snd[s].inflight /\ x.numWritten = snd[s].numWritten
        /\ x.peerConsumed = snd[s].peerConsumed /\ x.peerWindow = upd.w
    BY <1>2, <2>3 DEF sndFields
  <2>6. snd'[s] = x /\ \A t \in Streams : t # s => snd'[t] = snd[t]
    BY <1>1, <2>4, SndIs
  <2>7. \A t \in Streams : snd'[t].numWritten = snd[t].numWritten /\ snd'[t].inflight = snd[t].inflight
          /\ snd'[t].peerConsumed = snd[t].peerConsumed
          /\ (snd'[t].peerWindow = snd[t].peerWindow \/ snd'[t].peerWindow = upd.w)
    BY <2>5, <2>6
  <2>8. Storing
    BY <2>2, <2>7 DEF Storing
  <2> QED BY <2>7, <2>8
<1>4. CASE RecvBack
  <2>1. back # << >> /\ back' = Tail(back)
    BY <1>4 DEF RecvBack
  <2>2. Head(back) \in Answers
    BY <1>1, <2>1
  <2>3. PICK f \in Answers : f = Head(back)
    BY <2>2
  <2>4. f[2] \in Streams /\ (f[1] # "FIN" => f[1] = "UPD")
    BY <2>3 DEF Answers
  <2>5. PICK s \in Streams : s = f[2]
    BY <2>4
  <2>6. CASE snd' = snd /\ upd' = upd
    <3>1. Hearing(f)
      BY <2>1, <2>3, <2>6 DEF Hearing
    <3> QED BY <2>6, <3>1
  <2>7. CASE snd' = [snd EXCEPT ![s].fin = TRUE] /\ upd' = upd
    <3>1. PICK x : x = [snd[s] EXCEPT !.fin = TRUE]
      OBVIOUS
    <3>2. snd' = [snd EXCEPT ![s] = x]
      BY <1>1, <2>7, <3>1 DEF Shape
    <3>3. x.inflight = snd[s].inflight /\ x.numWritten = snd[s].numWritten
          /\ x.peerConsumed = snd[s].peerConsumed /\ x.peerWindow = snd[s].peerWindow
      BY <1>2, <3>1 DEF sndFields
    <3>4. snd'[s] = x /\ \A t \in Streams : t # s => snd'[t] = snd[t]
      BY <1>1, <3>2, SndIs
    <3>5. \A t \in Streams : snd'[t].numWritten = snd[t].numWritten /\ snd'[t].inflight = snd[t].inflight
            /\ snd'[t].peerConsumed = snd[t].peerConsumed /\ snd'[t].peerWindow = snd[t].peerWindow
      BY <3>3, <3>4
    <3>6. Hearing(f)
      BY <2>1, <2>3, <2>7, <3>5 DEF Hearing
    <3> QED BY <3>5, <3>6
  <2>8. CASE f[1] # "FIN" /\ snd' = [snd EXCEPT ![s].peerConsumed = f[3]] /\ upd' = [s |-> s, w |-> f[4]]
    <3>1. PICK x : x = [snd[s] EXCEPT !.peerConsumed = f[3]]
      OBVIOUS
    <3>2. snd' = [snd EXCEPT ![s] = x]
      BY <1>1, <2>8, <3>1 DEF Shape
    <3>3. x.inflight = snd[s].inflight /\ x.numWritten = snd[s].numWritten
          /\ x.peerConsumed = f[3] /\ x.peerWindow = snd[s].peerWindow
      BY <1>2, <3>1 DEF sndFields
    <3>4. snd'[s] = x /\ \A t \in Streams : t # s => snd'[t] = snd[t]
      BY <1>1, <3>2, SndIs
    <3>5. \A t \in Streams : snd'[t].numWritten = snd[t].numWritten /\ snd'[t].inflight = snd[t].inflight
            /\ snd'[t].peerWindow = snd[t].peerWindow
            /\ (snd'[t].peerConsumed = snd[t].peerConsumed \/ (t = s /\ snd'[t].peerConsumed = f[3]))
      BY <3>3, <3>4
    <3>6. upd'.w = f[4] /\ f[1] = "UPD"
      BY <2>4, <2>8
    <3>7. Hearing(f)
      BY <2>1, <2>3, <2>5, <3>5, <3>6 DEF Hearing
    <3> QED BY <3>5, <3>7
  <2> QED BY <1>4, <2>3, <2>5, <2>6, <2>7, <2>8 DEF RecvBack
<1> QED BY <1>3, <1>4

\* The answers that are left were there.
LEMMA BackTail ==
    ASSUME back \in Seq(Answers), back # << >>, back' = Tail(back)
    PROVE  /\ \A k \in 1..Len(back') : k + 1 \in 1..Len(back) /\ back'[k] = back[k + 1]
           /\ 1 \in 1..Len(back) /\ Head(back) = back[1]
<1>1. PICK q \in Seq(Answers) : q = back /\ q # << >>
  OBVIOUS
<1>2. Len(q) \in Nat /\ Len(Tail(q)) = Len(q) - 1 /\ (\A k \in 1..(Len(q) - 1) : Tail(q)[k] = q[k + 1]) /\ Head(q) = q[1]
      /\ 1 \in 1..Len(q)
  BY <1>1
<1>3. \A k \in 1..(Len(q) - 1) : k + 1 \in 1..Len(q)
  BY <1>2
<1> QED BY <1>1, <1>2, <1>3

\* and both are numbers that the reading end has had.
LEMMA ToldWindow ==
    ASSUME WindowInv, EOFInv', RecvBack \/ StoreWindow
    PROVE  WindowInv'
<1>1. EOFInv /\ Shape /\ Shape' /\ Numbers /\ CtrlEmpty /\ WindowsOK /\ back \in Seq(Answers)
  BY DEF WindowInv, EOFInv, Shape
<1>2. /\ shaper' = shaper /\ wire' = wire /\ rcv' = rcv
      /\ \A t \in Streams : snd'[t].pc = snd[t].pc /\ snd'[t].next = snd[t].next /\ snd'[t].bts = snd[t].bts
  BY <1>1, ToldSteps
<1>3. /\ \A t \in Streams : snd'[t].numWritten = snd[t].numWritten /\ snd'[t].inflight = snd[t].inflight
      /\ (\E f \in Answers : Hearing(f)) \/ Storing
  BY <1>1, ToldMoves
<1>4. CtrlEmpty'
  BY <1>1, <1>2 DEF CtrlEmpty
<1>5. ASSUME NEW t \in Streams PROVE InFlightOK(t)' /\ BytesOK(t)'
  <2>1. InFlightOK(t) /\ BytesOK(t)
    BY DEF WindowInv
  <2>2. InFlightOK(t)'
    BY <1>2, <1>3, <2>1 DEF InFlightOK
  <2>3. Due(snd'[t]) = Due(snd[t]) /\ Size(snd'[t]) = Size(snd[t]) /\ Load(t)' = Load(t) /\ Waits(t)' = Waits(t)
    BY <1>2 DEF Due, Size, Load, Waits
  <2>4. BytesOK(t)'
    BY <1>2, <2>1, <2>3 DEF BytesOK
  <2> QED BY <2>2, <2>4
<1>6. CASE Storing
  <2>1. WindowsOK'
    BY <1>1, <1>2, <1>6 DEF WindowsOK, Storing
  <2>2. ASSUME NEW t \in Streams PROVE CountsOK(t)'
    <3>1. CountsOK(t) /\ RcvSame(rcv[t], rcv'[t]) /\ snd'[t].peerConsumed = snd[t].peerConsumed /\ back' = back
      BY <1>2, <1>6 DEF WindowInv, Storing, RcvSame
    <3> QED BY <1>1, <1>2, <1>3, <3>1, BackSame, CountsAside
  <2> QED BY <1>4, <1>5, <2>1, <2>2 DEF WindowInv
<1>7. ASSUME NEW f \in Answers, Hearing(f) PROVE WindowInv'
  <2>1. back # << >> /\ f = Head(back) /\ back' = Tail(back)
    BY <1>7 DEF Hearing
  <2>2. /\ \A k \in 1..Len(back') : k + 1 \in 1..Len(back) /\ back'[k] = back[k + 1]
        /\ 1 \in 1..Len(back) /\ f = back[1]
    BY <1>1, <2>1, BackTail
  <2>3. WindowsOK'
    <3>1. f[1] = "UPD" => f[4] <= LargestWindow
      BY <1>1, <2>2 DEF WindowsOK
    <3>2. \A k \in 1..Len(back') : back'[k][1] = "UPD" => back'[k][4] <= LargestWindow
      BY <1>1, <2>2 DEF WindowsOK
    <3>3. upd' # None => upd'.w <= LargestWindow
      BY <1>1, <1>7, <3>1 DEF WindowsOK, Hearing
    <3>4. \A s \in Streams : rcv'[s].window <= MaxStreamBuffer /\ snd'[s].peerWindow <= LargestWindow
      BY <1>1, <1>2, <1>7 DEF WindowsOK, Hearing
    <3> QED BY <3>2, <3>3, <3>4 DEF WindowsOK
  <2>4. ASSUME NEW t \in Streams PROVE CountsOK(t)'
    <3>1. PICK c \in 0..(Mod - 1) : CountsAre(t, c)
      BY DEF WindowInv, CountsOK
    <3>2. f[1] = "UPD" /\ f[2] = t => CountedBy(c, t, f[3])
      BY <2>2, <3>1 DEF CountsAre
    <3>3. CountedBy(c, t, snd'[t].peerConsumed)
      BY <1>7, <3>1, <3>2 DEF CountsAre, Hearing
    <3>4. \A k \in 1..Len(back') : back'[k][1] = "UPD" /\ back'[k][2] = t => CountedBy(c, t, back'[k][3])
      BY <2>2, <3>1 DEF CountsAre
    <3>5. /\ rcv'[t].numRead = Plus(c, Len(rcv'[t].got))
          /\ rcv'[t].pc = "count" => CountedBy(c, t, rcv'[t].consumed)
          /\ rcv'[t].set = "count" => CountedBy(c, t, rcv'[t].setConsumed)
          /\ snd'[t].pc \in Waiting => snd'[t].numWritten = Plus(c, snd'[t].next - 1)
      BY <1>2, <1>3, <3>1 DEF CountsAre
    <3>6. Len(rcv[t].got) \in Nat /\ Len(rcv'[t].got) \in Nat /\ Len(rcv'[t].got) >= Len(rcv[t].got)
      BY <1>1, <1>2, LoadNat
    <3> QED BY <3>1, <3>3, <3>4, <3>5, <3>6, CountsKept
  <2> QED BY <1>4, <1>5, <2>3, <2>4 DEF WindowInv
<1> QED BY <1>3, <1>6, <1>7

-----------------------------------------------------------------------------
(* The reading end.                                                            *)

\* An answer is put behind the others.
LEMMA BackMore ==
    ASSUME back \in Seq(Answers), NEW e \in Answers, back' = Append(back, e)
    PROVE  \A k \in 1..Len(back') : back'[k] = e \/ \E j \in 1..Len(back) : back'[k] = back[j]
<1>1. PICK q \in Seq(Answers) : q = back
  OBVIOUS
<1>2. Len(Append(q, e)) = Len(q) + 1 /\ Len(q) \in Nat /\ \A k \in 1..(Len(q) + 1) : Append(q, e)[k] = IF k <= Len(q) THEN q[k] ELSE e
  OBVIOUS
<1> QED BY <1>1, <1>2

\* What is told of a count is one that the reader has had, with its window.
LEMMA Told ==
    ASSUME Shape, Numbers, NEW s \in Streams, Tells(s)
    PROVE  \A k \in 1..Len(back') : back'[k][1] = "UPD" =>
             \/ \E j \in 1..Len(back) : back'[k] = back[j]
             \/ /\ back'[k][2] = s /\ back'[k][4] = rcv[s].window
                /\ \/ rcv[s].pc = "count" /\ back'[k][3] = rcv[s].consumed
                   \/ rcv[s].set = "count" /\ back'[k][3] = rcv[s].setConsumed
<1>1. back \in Seq(Answers) /\ Counters(rcv[s])
  BY DEF Shape, Numbers
<1>2. CASE back' = back
  BY <1>2
<1>3. CASE back' = Append(back, <<"FIN", s>>)
  <2>1. PICK e \in Answers : e = <<"FIN", s>>
    BY DEF Answers
  <2>2. e[1] # "UPD" /\ back' = Append(back, e)
    BY <1>3, <2>1
  <2>3. \A k \in 1..Len(back') : back'[k] = e \/ \E j \in 1..Len(back) : back'[k] = back[j]
    BY <1>1, <2>2, BackMore
  <2> QED BY <2>2, <2>3
<1>4. ASSUME NEW v \in Int, Update(s, v),
             (rcv[s].pc = "count" /\ v = rcv[s].consumed) \/ (rcv[s].set = "count" /\ v = rcv[s].setConsumed)
      PROVE  \A k \in 1..Len(back') : back'[k][1] = "UPD" =>
             \/ \E j \in 1..Len(back) : back'[k] = back[j]
             \/ /\ back'[k][2] = s /\ back'[k][4] = rcv[s].window
                /\ \/ rcv[s].pc = "count" /\ back'[k][3] = rcv[s].consumed
                   \/ rcv[s].set = "count" /\ back'[k][3] = rcv[s].setConsumed
  <2>1. PICK w \in Int : w = rcv[s].window
    BY <1>1 DEF Counters
  <2>2. PICK e \in Answers : e = <<"UPD", s, v, w>>
    BY DEF Answers
  <2>3. back' = Append(back, e) /\ e[2] = s /\ e[3] = v /\ e[4] = w
    BY <1>4, <2>1, <2>2 DEF Update
  <2>4. \A k \in 1..Len(back') : back'[k] = e \/ \E j \in 1..Len(back) : back'[k] = back[j]
    BY <1>1, <2>3, BackMore
  <2> QED BY <1>4, <2>1, <2>3, <2>4
<1>5. rcv[s].consumed \in Int /\ rcv[s].setConsumed \in Int
  BY <1>1 DEF Counters
<1> QED BY <1>2, <1>3, <1>4, <1>5 DEF Tells

\* The count is one the reader has had, after one more Read too.
LEMMA ReadCounts ==
    ASSUME NEW c \in 0..(Mod - 1), NEW g \in Nat, NEW n \in Nat, g + n <= Total
    PROVE  Plus(Plus(c, g), n) = Plus(c, g + n)
<1>1. g \in 0..Total /\ n \in 0..Total
  BY FrameSizes
<1> QED BY <1>1, CountsOn

\* The reader's own stream after a step of the reading end.
ReaderCounts(s) ==
    /\ Len(rcv'[s].got) >= Len(rcv[s].got)
    /\ Load(s)' <= Load(s) /\ Load(s)' + Len(rcv'[s].got) <= Load(s) + Len(rcv[s].got)
    /\ rcv'[s].window \in {rcv[s].window} \cup Windows
    /\ \A c \in 0..(Mod - 1) : rcv[s].numRead = Plus(c, Len(rcv[s].got)) => rcv'[s].numRead = Plus(c, Len(rcv'[s].got))
    /\ rcv'[s].pc = "count" => (rcv[s].pc = "count" /\ rcv'[s].consumed = rcv[s].consumed) \/ rcv'[s].consumed = rcv[s].numRead
    /\ rcv'[s].set = "count" => (rcv[s].set = "count" /\ rcv'[s].setConsumed = rcv[s].setConsumed)
                                \/ rcv'[s].setConsumed = rcv[s].numRead
    /\ Tells(s)

\* What the reading end does to its counters.
LEMMA ReaderCountsOn ==
    ASSUME Shape, NEW s \in Streams, BytesOK(s), wire' = wire,
           Calms(s) \/ Took(s) \/ Returned(s) \/ Dropped(s)
    PROVE  ReaderCounts(s)
<1>1. /\ Load(s) \in Nat /\ Waits(s) \in Nat /\ Len(rcv[s].got) \in Nat /\ BytesOf(s, wire) \in Nat
      /\ Buffered(rcv[s]) \in Nat /\ Total \in Nat
  BY LoadNat, FrameSizes
<1>2. Load(s) = BytesOf(s, wire) + Buffered(rcv[s]) /\ Load(s)' = BytesOf(s, wire) + Buffered(rcv'[s])
  BY DEF Load
<1>3. Len(rcv[s].got) + Buffered(rcv[s]) <= Total
  BY <1>1, <1>2 DEF BytesOK
<1>4. ASSUME rcv'[s].buf = rcv[s].buf, rcv'[s].got = rcv[s].got
      PROVE  /\ Len(rcv'[s].got) >= Len(rcv[s].got)
             /\ Load(s)' <= Load(s) /\ Load(s)' + Len(rcv'[s].got) <= Load(s) + Len(rcv[s].got)
  BY <1>1, <1>2, <1>4 DEF Buffered
<1>5. CASE Calms(s)
  <2>1. Calm(rcv[s], rcv'[s]) /\ Tells(s)
    BY <1>5 DEF Calms
  <2>2. rcv'[s].buf = rcv[s].buf /\ rcv'[s].got = rcv[s].got /\ rcv'[s].numRead \in {rcv[s].numRead, Plus(rcv[s].numRead, 0)}
    BY <2>1 DEF Calm
  <2>3. ASSUME NEW c \in 0..(Mod - 1), rcv[s].numRead = Plus(c, Len(rcv[s].got))
        PROVE  rcv'[s].numRead = Plus(c, Len(rcv'[s].got))
    <3>1. PICK g \in Nat : g = Len(rcv[s].got)
      BY <1>1
    <3>2. g + 0 <= Total /\ g + 0 = g
      BY <1>1, <1>3, <3>1
    <3>3. Plus(Plus(c, g), 0) = Plus(c, g)
      BY <3>2, ReadCounts
    <3> QED BY <2>2, <2>3, <3>1, <3>3
  <2> QED BY <1>4, <2>1, <2>2, <2>3 DEF ReaderCounts, Calm
<1>6. CASE Took(s)
  <2>1. PICK n \in Nat :
          /\ rcv'[s].pc = "tokens" /\ Buffered(rcv'[s]) \in Nat /\ Buffered(rcv'[s]) = Buffered(rcv[s]) - n
          /\ Len(rcv'[s].got) = Len(rcv[s].got) + n /\ rcv'[s].numRead = Plus(rcv[s].numRead, n)
          /\ CountsSame(rcv[s], rcv'[s]) /\ back' = back
    BY <1>6 DEF Took
  <2>2. PICK g, b, w \in Nat : g = Len(rcv[s].got) /\ b = Buffered(rcv[s]) /\ w = BytesOf(s, wire)
    BY <1>1
  <2>3. Load(s) = w + b /\ Load(s)' = w + (b - n) /\ b - n \in Nat /\ Len(rcv'[s].got) = g + n /\ g + b <= Total
    BY <1>2, <1>3, <2>1, <2>2
  <2>4. g + n <= Total /\ g + n >= g /\ w + (b - n) <= w + b /\ (w + (b - n)) + (g + n) <= (w + b) + g
    BY <1>1, <2>3
  <2>5. \A c \in 0..(Mod - 1) : Plus(Plus(c, g), n) = Plus(c, g + n)
    BY <2>4, ReadCounts
  <2>6. \A c \in 0..(Mod - 1) : rcv[s].numRead = Plus(c, Len(rcv[s].got)) => rcv'[s].numRead = Plus(c, Len(rcv'[s].got))
    BY <2>1, <2>2, <2>3, <2>5
  <2>7. Len(rcv'[s].got) >= Len(rcv[s].got) /\ Load(s)' <= Load(s) /\ Load(s)' + Len(rcv'[s].got) <= Load(s) + Len(rcv[s].got)
    BY <2>2, <2>3, <2>4
  <2> QED BY <2>1, <2>6, <2>7 DEF ReaderCounts, CountsSame, Tells
<1>7. CASE Returned(s)
  BY <1>4, <1>7 DEF Returned, ReaderCounts, CountsSame, Tells
<1>8. CASE Dropped(s)
  <2>1. rcv'[s].buf = << >> /\ rcv'[s].got = rcv[s].got
    BY <1>8 DEF Dropped
  <2>2. Buffered(rcv'[s]) = 0
    <3>1. Buffered(rcv'[s]) = Bytes(rcv'[s].buf)
      BY DEF Buffered, Bytes
    <3> QED BY <2>1, <3>1, BytesNone
  <2>3. Len(rcv'[s].got) >= Len(rcv[s].got) /\ Load(s)' <= Load(s) /\ Load(s)' + Len(rcv'[s].got) <= Load(s) + Len(rcv[s].got)
    BY <1>1, <1>2, <2>1, <2>2
  <2> QED BY <1>8, <2>3 DEF ReaderCounts, CountsSame, Tells, Dropped
<1> QED BY <1>5, <1>6, <1>7, <1>8

\* The reading end takes bytes and tells counts that it has had.
LEMMA ReaderWindow ==
    ASSUME WindowInv, EOFInv', NEW s \in Streams,
           Reader(s) \/ SetReceiveWindow(s) \/ WindowSet(s) \/ Closer(s) \/ ReaderClose(s, TRUE)
    PROVE  WindowInv'
<1>1. EOFInv /\ Shape /\ Shape' /\ Numbers /\ CtrlEmpty /\ WindowsOK
      /\ CountsOK(s) /\ InFlightOK(s) /\ BytesOK(s) /\ WriterMeans(snd[s]) /\ snd[s].inflight \in Int
  BY DEF WindowInv, EOFInv, StreamInv, Numbers
<1>2. /\ \A t \in Streams : t # s => rcv'[t] = rcv[t]
      /\ snd' = snd /\ shaper' = shaper /\ upd' = upd /\ wire' = wire
  BY <1>1, ReaderSteps
<1>3. ReaderCounts(s)
  BY <1>1, <1>2, ReaderMoves, ReaderCountsOn
<1>4. Len(rcv[s].got) \in Nat /\ Len(rcv'[s].got) \in Nat /\ Len(rcv'[s].got) >= Len(rcv[s].got)
  BY <1>1, <1>3 DEF Shape, ReaderCounts
<1>5. \A k \in 1..Len(back') : back'[k][1] = "UPD" =>
             \/ \E j \in 1..Len(back) : back'[k] = back[j]
             \/ /\ back'[k][2] = s /\ back'[k][4] = rcv[s].window
                /\ \/ rcv[s].pc = "count" /\ back'[k][3] = rcv[s].consumed
                   \/ rcv[s].set = "count" /\ back'[k][3] = rcv[s].setConsumed
  BY <1>1, <1>3, Told DEF ReaderCounts
<1>6. CtrlEmpty'
  BY <1>1, <1>2 DEF CtrlEmpty
<1>7. WindowsOK'
  <2>1. \A w \in Windows : w \in Int /\ w <= MaxStreamBuffer
    <3>1. Windows \subseteq 1..MaxStreamBuffer /\ MaxStreamBuffer \in Nat
      BY SmuxAssumption, FrameSizes
    <3> QED BY <3>1
  <2>2. MaxStreamBuffer \in Nat /\ initialPeerWindow \in Nat /\ rcv[s].window \in Int /\ rcv[s].window <= MaxStreamBuffer
    BY <1>1, SmuxAssumption DEF WindowsOK, Numbers, Counters
  <2>3. rcv[s].window <= LargestWindow
    BY <2>2 DEF LargestWindow
  <2>4. rcv'[s].window <= MaxStreamBuffer
    BY <1>3, <2>1, <2>2 DEF ReaderCounts
  <2>5. \A t \in Streams : rcv'[t].window <= MaxStreamBuffer /\ snd'[t].peerWindow <= LargestWindow
    BY <1>1, <1>2, <2>4 DEF WindowsOK
  <2>6. \A k \in 1..Len(back') : back'[k][1] = "UPD" => back'[k][4] <= LargestWindow
    BY <1>1, <1>5, <2>3 DEF WindowsOK
  <2> QED BY <1>1, <1>2, <2>5, <2>6 DEF WindowsOK
<1>8. CountsOK(s)'
  <2>1. PICK c \in 0..(Mod - 1) : CountsAre(s, c)
    BY <1>1 DEF CountsOK
  <2>2. rcv'[s].numRead = Plus(c, Len(rcv'[s].got))
    BY <1>3, <2>1 DEF ReaderCounts, CountsAre
  <2>3. CountedBy(c, s, rcv[s].numRead)
    BY <1>4, <2>1 DEF CountsAre, CountedBy
  <2>4. /\ rcv'[s].pc = "count" => CountedBy(c, s, rcv'[s].consumed)
        /\ rcv'[s].set = "count" => CountedBy(c, s, rcv'[s].setConsumed)
    BY <1>3, <2>1, <2>3 DEF ReaderCounts, CountsAre
  <2>5. \A k \in 1..Len(back') : back'[k][1] = "UPD" /\ back'[k][2] = s => CountedBy(c, s, back'[k][3])
    BY <1>5, <2>1 DEF CountsAre
  <2>6. CountedBy(c, s, snd'[s].peerConsumed) /\ (snd'[s].pc \in Waiting => snd'[s].numWritten = Plus(c, snd'[s].next - 1))
    BY <1>2, <2>1 DEF CountsAre
  <2> QED BY <1>4, <2>1, <2>2, <2>4, <2>5, <2>6, CountsKept
<1>9. InFlightOK(s)'
  BY <1>1, <1>2, <1>4, InFlightKept
<1>10. BytesOK(s)'
  <2>1. WriterHolds(snd[s], snd'[s]) /\ Waits(s)' = Waits(s)
    BY <1>2 DEF WriterHolds, Waits
  <2> QED BY <1>1, <1>3, <1>4, <2>1, BytesKept DEF ReaderCounts
<1>11. ASSUME NEW t \in Streams, t # s
       PROVE  CountsOK(t)' /\ InFlightOK(t)' /\ BytesOK(t)'
  <2>1. RcvSame(rcv[t], rcv'[t]) /\ snd'[t] = snd[t]
    BY <1>2, <1>11 DEF RcvSame
  <2>2. BytesOf(t, wire') <= BytesOf(t, wire) /\ BytesOf(t, shaper'.data) = BytesOf(t, shaper.data)
    <3>1. BytesOf(t, wire) \in Nat
      BY <1>1, LoadNat
    <3> QED BY <1>2, <3>1
  <2>3. \A k \in 1..Len(back') : back'[k][1] = "UPD" /\ back'[k][2] = t => \E j \in 1..Len(back) : back'[k] = back[j]
    BY <1>5, <1>11
  <2> QED BY <1>1, <2>1, <2>2, <2>3, WindowAside
<1> QED BY <1>6, <1>7, <1>8, <1>9, <1>10, <1>11 DEF WindowInv

\* The buffers' sizes are numbers after a step, too.
LEMMA BufferedLater ==
    ASSUME Shape', NEW s \in Streams
    PROVE  Buffered(rcv'[s]) \in Nat
<1>1. rcv'[s].buf \in Seq(Seq(Nat))
  BY DEF Shape
<1>2. Bytes(rcv'[s].buf) \in Nat
  BY <1>1, BytesNat
<1> QED BY <1>2 DEF Buffered, Bytes

\* recvLoop moves bytes from the connection to the buffers.
LEMMA RecvWindow ==
    ASSUME WindowInv, EOFInv', Recv
    PROVE  WindowInv'
<1>1. EOFInv /\ Shape /\ Shape' /\ Numbers /\ CtrlEmpty /\ WindowsOK
  BY DEF WindowInv, EOFInv
<1>2. snd' = snd /\ shaper' = shaper /\ upd' = upd /\ back' = back
  BY <1>1, RecvSteps
<1>3. PICK f \in Frames :
             /\ wire # << >> /\ f = Head(wire) /\ wire' = Tail(wire)
             /\ \A t \in Streams : t # f[2] => rcv'[t] = rcv[t]
             /\ rcv'[f[2]].pc = rcv[f[2]].pc /\ rcv'[f[2]].got = rcv[f[2]].got /\ rcv'[f[2]].numRead = rcv[f[2]].numRead
             /\ rcv'[f[2]].consumed = rcv[f[2]].consumed /\ CountsSame(rcv[f[2]], rcv'[f[2]])
             /\ Pushed(f) \/ NotPushed(f)
  BY <1>1, RecvMoves
<1>4. PICK s \in Streams : s = f[2]
  BY DEF Frames
<1>5. /\ CountsOK(s) /\ InFlightOK(s) /\ BytesOK(s) /\ WriterMeans(snd[s]) /\ snd[s].inflight \in Int
  BY <1>1 DEF WindowInv, EOFInv, StreamInv, Numbers
<1>6. \A t \in Streams : /\ BytesOf(t, wire) = Of(t, f) + BytesOf(t, wire') /\ BytesOf(t, wire') \in Nat /\ Of(t, f) \in Nat
                         /\ BytesOf(t, wire) \in Nat
  BY <1>1, <1>3, BytesOfTail, BytesOfNat DEF Shape
<1>7. CtrlEmpty' /\ WindowsOK'
  <2>1. \A t \in Streams : rcv'[t].window = rcv[t].window
    BY <1>3, <1>4 DEF CountsSame
  <2> QED BY <1>1, <1>2, <2>1 DEF CtrlEmpty, WindowsOK
<1>8. Len(rcv[s].got) \in Nat /\ rcv'[s].got = rcv[s].got /\ Buffered(rcv[s]) \in Nat
  BY <1>1, <1>3, <1>4, LoadNat
<1>9. Len(rcv'[s].got) \in Nat /\ Len(rcv'[s].got) >= Len(rcv[s].got)
  BY <1>8
<1>10. Load(s)' <= Load(s)
  <2>1. Of(s, f) = Len(f[3])
    BY <1>4 DEF Of
  <2>2. Buffered(rcv'[s]) <= Buffered(rcv[s]) + Len(f[3])
    <3>1. CASE Pushed(f)
      BY <1>1, <1>4, <1>8, <3>1, PushedBytes DEF Pushed
    <3>2. CASE NotPushed(f)
      <4>1. Buffered(rcv'[s]) = Buffered(rcv[s])
        BY <1>4, <3>2 DEF NotPushed, Buffered
      <4> QED BY <1>6, <1>8, <2>1, <4>1
    <3> QED BY <1>3, <3>1, <3>2
  <2>3. Buffered(rcv'[s]) \in Nat
    BY <1>1, BufferedLater
  <2>4. PICK a, b, d, e, k \in Nat : a = BytesOf(s, wire) /\ b = BytesOf(s, wire') /\ k = Of(s, f)
                                     /\ d = Buffered(rcv[s]) /\ e = Buffered(rcv'[s])
    BY <1>6, <1>8, <2>3
  <2>5. a = k + b /\ e <= d + k
    BY <1>6, <2>1, <2>2, <2>4
  <2>6. b + e <= a + d
    BY <2>5
  <2> QED BY <2>4, <2>6 DEF Load
<1>11. CountsOK(s)'
  <2>1. PICK c \in 0..(Mod - 1) : CountsAre(s, c)
    BY <1>5 DEF CountsOK
  <2>2. /\ rcv'[s].numRead = Plus(c, Len(rcv'[s].got)) /\ CountedBy(c, s, snd'[s].peerConsumed)
        /\ (snd'[s].pc \in Waiting => snd'[s].numWritten = Plus(c, snd'[s].next - 1))
        /\ rcv'[s].pc = "count" => CountedBy(c, s, rcv'[s].consumed)
        /\ rcv'[s].set = "count" => CountedBy(c, s, rcv'[s].setConsumed)
        /\ \A k \in 1..Len(back') : back'[k][1] = "UPD" /\ back'[k][2] = s => CountedBy(c, s, back'[k][3])
    BY <1>2, <1>3, <1>4, <2>1 DEF CountsAre, CountsSame
  <2> QED BY <1>8, <1>9, <2>1, <2>2, CountsKept
<1>12. InFlightOK(s)'
  BY <1>1, <1>2, <1>5, <1>9, InFlightKept
<1>13. BytesOK(s)'
  <2>1. WriterHolds(snd[s], snd'[s]) /\ Waits(s)' = Waits(s)
    BY <1>2 DEF WriterHolds, Waits
  <2>2. Load(s)' \in Nat /\ Load(s) \in Nat
    <3>1. Load(s)' \in Nat
      BY <1>1, <1>6, BufferedLater DEF Load
    <3> QED BY <1>1, <3>1, LoadNat
  <2>3. Load(s)' + Len(rcv'[s].got) <= Load(s) + Len(rcv[s].got)
    BY <1>8, <1>10, <2>2
  <2> QED BY <1>1, <1>5, <1>9, <1>10, <2>1, <2>3, BytesKept
<1>14. ASSUME NEW t \in Streams, t # s
       PROVE  CountsOK(t)' /\ InFlightOK(t)' /\ BytesOK(t)'
  <2>1. RcvSame(rcv[t], rcv'[t]) /\ snd'[t] = snd[t]
    BY <1>2, <1>3, <1>4, <1>14 DEF RcvSame
  <2>2. BytesOf(t, wire') <= BytesOf(t, wire) /\ BytesOf(t, shaper'.data) = BytesOf(t, shaper.data)
    BY <1>2, <1>6
  <2> QED BY <1>1, <1>2, <2>1, <2>2, BackSame, WindowAside
<1> QED BY <1>7, <1>11, <1>12, <1>13, <1>14 DEF WindowInv

\* recvLoop waits, or takes the tokens of what it has pushed.
LEMMA RestWindow ==
    ASSUME WindowInv, EOFInv', RecvWait \/ TakeTokens \/ UNCHANGED vars
    PROVE  WindowInv'
<1>1. EOFInv /\ Shape /\ Shape' /\ Numbers /\ CtrlEmpty /\ WindowsOK
  BY DEF WindowInv, EOFInv
<1>2. snd' = snd /\ shaper' = shaper /\ upd' = upd /\ wire' = wire /\ back' = back
  BY DEF RecvWait, TakeTokens, vars
<1>3. ASSUME NEW t \in Streams PROVE RcvSame(rcv[t], rcv'[t])
  <2>1. CASE rcv' = rcv
    BY <2>1 DEF RcvSame
  <2>2. CASE TakeTokens
    <3>1. PICK s \in Streams : s = recv.s
      BY <1>1, <2>2 DEF TakeTokens, Shape
    <3>2. PICK x : x = [rcv[s] EXCEPT !.event = TRUE]
      OBVIOUS
    <3>3. rcv' = [rcv EXCEPT ![s] = x]
      BY <1>1, <2>2, <3>1, <3>2 DEF TakeTokens, Shape
    <3>4. rcv'[s] = x /\ \A u \in Streams : u # s => rcv'[u] = rcv[u]
      BY <1>1, <3>3, RcvIs
    <3>5. RcvSame(rcv[s], x)
      BY <1>1, <3>2 DEF Shape, rcvFields, RcvSame
    <3> QED BY <3>4, <3>5 DEF RcvSame
  <2> QED BY <2>1, <2>2 DEF RecvWait, vars
<1>4. CtrlEmpty' /\ WindowsOK'
  BY <1>1, <1>2, <1>3 DEF CtrlEmpty, WindowsOK, RcvSame
<1>5. ASSUME NEW t \in Streams PROVE CountsOK(t)' /\ InFlightOK(t)' /\ BytesOK(t)'
  <2>1. snd'[t] = snd[t] /\ BytesOf(t, wire') <= BytesOf(t, wire) /\ BytesOf(t, shaper'.data) = BytesOf(t, shaper.data)
    <3>1. BytesOf(t, wire) \in Nat
      BY <1>1, LoadNat
    <3> QED BY <1>2, <3>1
  <2> QED BY <1>1, <1>2, <1>3, <2>1, BackSame, WindowAside
<1> QED BY <1>4, <1>5 DEF WindowInv

\* In the beginning nothing is outstanding, wherever the counters start.
LEMMA WindowInit ==
    ASSUME Init
    PROVE  WindowInv
<1>1. PICK c \in [Streams -> Carried] :
        /\ snd = [s \in Streams |->
             [pc |-> IF c[s] = 0 THEN "open" ELSE "look", next |-> 1, bts |-> 0, inflight |-> 0,
              numWritten |-> c[s], peerConsumed |-> c[s],
              peerWindow |-> IF c[s] = 0 THEN initialPeerWindow ELSE MaxStreamBuffer,
              chUpdate |-> FALSE, fin |-> FALSE, ok |-> TRUE]]
        /\ rcv = [s \in Streams |->
             [known |-> c[s] # 0, buf |-> << >>, numRead |-> c[s], incr |-> 0,
              window |-> MaxStreamBuffer, event |-> FALSE, fin |-> FALSE, die |-> FALSE,
              pc |-> "read", n |-> 0, tell |-> FALSE, consumed |-> 0,
              set |-> "no", setConsumed |-> 0,
              close |-> "no", got |-> << >>, eof |-> FALSE]]
  BY DEF Init
<1>2. shaper.ctrl = << >> /\ shaper.data = << >> /\ upd = None /\ wire = << >> /\ back = << >> /\ Len(<< >>) = 0
  BY DEF Init
<1>3. MaxStreamBuffer \in Nat /\ initialPeerWindow \in Nat /\ Mod \in Nat /\ Mod > 0 /\ Total \in Nat
  BY SmuxAssumption, FrameSizes
<1>4. MaxStreamBuffer <= LargestWindow /\ initialPeerWindow <= LargestWindow /\ LargestWindow \in Nat
  BY <1>3 DEF LargestWindow
<1>5. ASSUME NEW s \in Streams
      PROVE  /\ c[s] \in 0..(Mod - 1) /\ snd[s].numWritten = c[s] /\ snd[s].peerConsumed = c[s] /\ rcv[s].numRead = c[s]
             /\ snd[s].pc \in {"open", "look"} /\ snd[s].next = 1 /\ snd[s].peerWindow \in {initialPeerWindow, MaxStreamBuffer}
             /\ rcv[s].window = MaxStreamBuffer /\ rcv[s].pc = "read" /\ rcv[s].set = "no"
             /\ rcv[s].got = << >> /\ rcv[s].buf = << >>
  <2>1. c[s] \in 0..(Mod - 1)
    BY SmuxAssumption
  <2>2. PICK x : x = [pc |-> IF c[s] = 0 THEN "open" ELSE "look", next |-> 1, bts |-> 0, inflight |-> 0,
              numWritten |-> c[s], peerConsumed |-> c[s],
              peerWindow |-> IF c[s] = 0 THEN initialPeerWindow ELSE MaxStreamBuffer,
              chUpdate |-> FALSE, fin |-> FALSE, ok |-> TRUE]
    OBVIOUS
  <2>3. snd[s] = x
    BY <1>1, <2>2
  <2>4. x.numWritten = c[s] /\ x.peerConsumed = c[s] /\ x.pc \in {"open", "look"} /\ x.next = 1
        /\ x.peerWindow \in {initialPeerWindow, MaxStreamBuffer}
    BY <2>2
  <2>5. PICK y : y = [known |-> c[s] # 0, buf |-> << >>, numRead |-> c[s], incr |-> 0,
              window |-> MaxStreamBuffer, event |-> FALSE, fin |-> FALSE, die |-> FALSE,
              pc |-> "read", n |-> 0, tell |-> FALSE, consumed |-> 0,
              set |-> "no", setConsumed |-> 0,
              close |-> "no", got |-> << >>, eof |-> FALSE]
    OBVIOUS
  <2>6. rcv[s] = y
    BY <1>1, <2>5
  <2>7. y.numRead = c[s] /\ y.window = MaxStreamBuffer /\ y.pc = "read" /\ y.set = "no" /\ y.got = << >> /\ y.buf = << >>
    BY <2>5
  <2> QED BY <2>1, <2>3, <2>4, <2>6, <2>7
<1>6. CtrlEmpty
  BY <1>2 DEF CtrlEmpty
<1>7. WindowsOK
  BY <1>2, <1>3, <1>4, <1>5 DEF WindowsOK
<1>8. ASSUME NEW s \in Streams PROVE CountsOK(s) /\ InFlightOK(s) /\ BytesOK(s)
  <2>1. Len(rcv[s].got) = 0 /\ snd[s].next = 1 /\ snd[s].pc \in {"open", "look"} /\ Due(snd[s]) = 0
    BY <1>2, <1>5 DEF Due
  <2>2. Waits(s) = 0 /\ Load(s) = 0
    <3>1. BytesOf(s, shaper.data) = 0 /\ BytesOf(s, wire) = 0
      BY <1>2, BytesOfNone
    <3>2. Buffered(rcv[s]) = Bytes(rcv[s].buf)
      BY DEF Buffered, Bytes
    <3>3. Buffered(rcv[s]) = 0
      BY <1>5, <3>2, BytesNone
    <3> QED BY <3>1, <3>3 DEF Waits, Load
  <2>3. BytesOK(s)
    BY <1>3, <1>4, <2>1, <2>2 DEF BytesOK
  <2>4. InFlightOK(s)
    BY <2>1 DEF InFlightOK
  <2>5. Plus(c[s], 0) = c[s]
    <3>0. Mod \in Nat /\ c[s] \in Carried /\ Carried \subseteq 0..(Mod - 1)
      BY SmuxAssumption
    <3>1. c[s] \in Nat /\ Mod \in Nat /\ c[s] < Mod
      <4>1. c[s] \in 0..(Mod - 1)
        BY <3>0
      <4> QED BY <3>0, <4>1
    <3>2. PICK k \in Nat : k = c[s]
      BY <3>1
    <3>3. k % Mod = k
      BY <3>1, <3>2
    <3> QED BY <3>2, <3>3 DEF Plus
  <2>6. CountedBy(c[s], s, c[s])
    BY <2>1, <2>5 DEF CountedBy
  <2>7. CountsAre(s, c[s])
    <3>1. snd[s].next - 1 = 0
      BY <2>1
    <3> QED BY <1>2, <1>5, <2>1, <2>5, <2>6, <3>1 DEF CountsAre
  <2> QED BY <1>5, <2>3, <2>4, <2>7 DEF CountsOK
<1> QED BY <1>6, <1>7, <1>8, EOFInit DEF WindowInv

\* Flow control holds for every frame size, window and number of streams, and
\* while the counters wrap: whatever the order in which update stores the two
\* numbers of a window update and writeV2 loads them, and whatever
\* SetReceiveWindow is called with, no stream has more bytes queued, on their
\* way and buffered than the largest window that its writer was ever given.
THEOREM WindowRespected == Spec => []WindowKept
<1>1. Init => WindowInv
  BY WindowInit
<1>2. WindowInv /\ [Next]_vars => WindowInv'
  <2> SUFFICES ASSUME WindowInv, [Next]_vars PROVE WindowInv'
    OBVIOUS
  <2>1. EOFInv' /\ EOFInv
    BY EOFStep DEF WindowInv
  <2>2. ASSUME NEW s \in Streams, Writer(s) \/ OpenTimeout(s) \/ WriteTimeout(s) PROVE WindowInv'
    BY <2>1, <2>2, WriterWindow
  <2>3. ASSUME NEW s \in Streams,
               Reader(s) \/ SetReceiveWindow(s) \/ WindowSet(s) \/ Closer(s) \/ ReaderClose(s, TRUE)
        PROVE  WindowInv'
    BY <2>1, <2>3, ReaderWindow
  <2>4. CASE SendLoop
    BY <2>1, <2>4, SendWindow
  <2>5. CASE RecvBack \/ StoreWindow
    BY <2>1, <2>5, ToldWindow
  <2>6. CASE Recv
    BY <2>1, <2>6, RecvWindow
  <2>7. CASE RecvWait \/ TakeTokens \/ UNCHANGED vars
    BY <2>1, <2>7, RestWindow
  <2> QED BY <2>2, <2>3, <2>4, <2>5, <2>6, <2>7 DEF Next
<1>3. WindowInv => WindowKept
  <2> SUFFICES ASSUME WindowInv, NEW s \in Streams PROVE Outstanding(s) <= LargestWindow
    BY DEF WindowKept
  <2>1. Shape /\ BytesOK(s)
    BY DEF WindowInv, EOFInv
  <2>2. BytesOf(s, wire) \in Nat /\ BytesOf(s, shaper.data) \in Nat /\ Buffered(rcv[s]) \in Nat
    BY <2>1, LoadNat DEF Waits
  <2>3. PICK a, b, d \in Nat : a = BytesOf(s, shaper.data) /\ b = BytesOf(s, wire) /\ d = Buffered(rcv[s])
    BY <2>2
  <2>4. a + (b + d) <= LargestWindow /\ (a + b) + d = a + (b + d)
    BY <2>1, <2>3 DEF BytesOK, Waits, Load
  <2> QED BY <2>3, <2>4 DEF Outstanding
<1> QED BY <1>1, <1>2, <1>3, PTL DEF Spec

-----------------------------------------------------------------------------
(* Sequence numbers. *)

\* The remainder, for what is at most one width off.
LEMMA Remainder ==
    ASSUME NEW x \in Int, -M <= x, x < 2 * M
    PROVE  x % M = IF x < 0 THEN x + M ELSE IF x < M THEN x ELSE x - M
<1>1. M \in Nat /\ M > 0
  BY RelAssumption
<1>2. CASE x < 0
  BY <1>1, <1>2
<1>3. CASE 0 <= x /\ x < M
  BY <1>1, <1>3
<1>4. CASE M <= x
  BY <1>1, <1>4
<1> QED
  BY <1>1, <1>2, <1>3, <1>4

\* A sequence number wraps at most once.
LEMMA PlusIs ==
    ASSUME NEW a \in 0..(M - 1), NEW n \in 0..MaxBytes
    PROVE  SeqAdd(a, n) = (IF a + n < M THEN a + n ELSE a + n - M) /\ SeqAdd(a, n) \in 0..(M - 1)
<1>1. M \in Nat /\ M > 0 /\ MaxBytes \in Nat /\ 2 * MaxBytes < M
  BY RelAssumption
<1>2. a + n \in Int /\ -M <= a + n /\ a + n < 2 * M /\ 0 <= a + n
  BY <1>1
<1> QED
  BY <1>1, <1>2, Remainder DEF SeqAdd

\* Numbers add up across the wrap,
LEMMA PlusPlus ==
    ASSUME NEW a \in 0..MaxBytes, NEW n \in 0..MaxBytes, a + n <= MaxBytes
    PROVE  SeqAdd(SeqAdd(ISN, a), n) = SeqAdd(ISN, a + n)
<1>1. M \in Nat /\ M > 0 /\ MaxBytes \in Nat /\ 2 * MaxBytes < M /\ ISN \in 0..(M - 1)
  BY RelAssumption
<1>2. SeqAdd(ISN, a) = (IF ISN + a < M THEN ISN + a ELSE ISN + a - M) /\ SeqAdd(ISN, a) \in 0..(M - 1)
  BY <1>1, PlusIs
<1>3. a + n \in 0..MaxBytes
  BY <1>1
<1>4. SeqAdd(ISN, a + n) = IF ISN + (a + n) < M THEN ISN + (a + n) ELSE ISN + (a + n) - M
  BY <1>1, <1>3, PlusIs
<1>5. SeqAdd(SeqAdd(ISN, a), n) = IF SeqAdd(ISN, a) + n < M THEN SeqAdd(ISN, a) + n ELSE SeqAdd(ISN, a) + n - M
  BY <1>2, PlusIs
<1> QED
  BY <1>1, <1>2, <1>4, <1>5

\* the difference of two numbers is the distance of their bytes,
LEMMA Distance ==
    ASSUME NEW a \in 0..MaxBytes, NEW b \in 0..MaxBytes
    PROVE  (SeqAdd(ISN, a) - SeqAdd(ISN, b)) % M = IF a >= b THEN a - b ELSE a - b + M
<1>1. M \in Nat /\ M > 0 /\ MaxBytes \in Nat /\ 2 * MaxBytes < M /\ ISN \in 0..(M - 1)
  BY RelAssumption
<1> DEFINE p == SeqAdd(ISN, a)
           q == SeqAdd(ISN, b)
<1>2. p = (IF ISN + a < M THEN ISN + a ELSE ISN + a - M) /\ p \in 0..(M - 1)
  BY <1>1, PlusIs
<1>3. q = (IF ISN + b < M THEN ISN + b ELSE ISN + b - M) /\ q \in 0..(M - 1)
  BY <1>1, PlusIs
<1> HIDE DEF p, q
<1>4. p - q \in Int /\ -M <= p - q /\ p - q < 2 * M
  BY <1>1, <1>2, <1>3
<1>5. (p - q) % M = IF p - q < 0 THEN (p - q) + M ELSE IF p - q < M THEN p - q ELSE (p - q) - M
  BY <1>4, Remainder
<1>6. (p - q) % M = IF a >= b THEN a - b ELSE a - b + M
  BY <1>1, <1>2, <1>3, <1>5
<1> QED
  BY <1>6 DEF p, q

\* and the signed comparison of the code is the order of the bytes.
LEMMA AfterIs ==
    ASSUME NEW a \in 0..MaxBytes, NEW b \in 0..MaxBytes
    PROVE  After(SeqAdd(ISN, a), SeqAdd(ISN, b)) <=> a > b
<1>1. M \in Nat /\ M > 0 /\ MaxBytes \in Nat /\ 2 * MaxBytes < M /\ M % 2 = 0
  BY RelAssumption
<1>2. M \div 2 \in Nat /\ 2 * (M \div 2) = M
  BY <1>1
<1>3. (SeqAdd(ISN, a) - SeqAdd(ISN, b)) % M = IF a >= b THEN a - b ELSE a - b + M
  BY Distance
<1>4. CASE a >= b
  BY <1>1, <1>2, <1>3, <1>4 DEF After
<1>5. CASE a < b
  BY <1>1, <1>2, <1>3, <1>5 DEF After
<1> QED
  BY <1>4, <1>5

-----------------------------------------------------------------------------
(* Segments. *)

SentBytes == MaxBytes - Len(sndBuf)

\* A segment holds successive bytes of the stream, at their sequence number.
SegOff(s)  == s.data[1] - 1
SegLast(s) == SegOff(s) + Len(s.data)
IsSeg(s, n) ==
    /\ s.data \in Seq(Nat) /\ Len(s.data) > 0
    /\ SegOff(s) \in Nat /\ SegLast(s) <= n
    /\ \A i \in 1..Len(s.data) : s.data[i] = SegOff(s) + i
    /\ s.seq = SeqAdd(ISN, SegOff(s))
Holds(s, b) == SegOff(s) <= b /\ b < SegLast(s)

\* A segment lies within what was written,
LEMMA SegRange ==
    ASSUME NEW n \in 0..MaxBytes, NEW s, IsSeg(s, n)
    PROVE  /\ SegOff(s) \in 0..MaxBytes /\ SegLast(s) \in 1..MaxBytes /\ Len(s.data) \in 1..MaxBytes
           /\ SegEnd(s) = SeqAdd(ISN, SegLast(s)) /\ SegLast(s) = SegOff(s) + Len(s.data)
           /\ SegOff(s) < SegLast(s) /\ SegLast(s) <= n
<1>1. MaxBytes \in Nat
  BY RelAssumption
<1>2. Len(s.data) \in Nat /\ Len(s.data) > 0 /\ SegOff(s) \in Nat /\ SegLast(s) = SegOff(s) + Len(s.data)
      /\ SegLast(s) <= n
  BY DEF IsSeg, SegLast
<1>3. SegOff(s) \in 0..MaxBytes /\ SegLast(s) \in 1..MaxBytes /\ Len(s.data) \in 1..MaxBytes
  BY <1>1, <1>2
<1>4. SegEnd(s) = SeqAdd(ISN, SegLast(s))
  BY <1>1, <1>2, <1>3, PlusPlus DEF SegEnd, IsSeg
<1> QED
  BY <1>1, <1>2, <1>3, <1>4

\* covers the bytes that its numbers say,
LEMMA CoversIs ==
    ASSUME NEW n \in 0..MaxBytes, NEW s, IsSeg(s, n), NEW c \in 0..MaxBytes
    PROVE  Covers(s, SeqAdd(ISN, c)) <=> Holds(s, c)
<1>1. /\ SegOff(s) \in 0..MaxBytes /\ SegLast(s) \in 1..MaxBytes
      /\ SegEnd(s) = SeqAdd(ISN, SegLast(s)) /\ s.seq = SeqAdd(ISN, SegOff(s))
  BY SegRange DEF IsSeg
<1>2. After(SeqAdd(ISN, SegOff(s)), SeqAdd(ISN, c)) <=> SegOff(s) > c
  BY <1>1, AfterIs
<1>3. SegLast(s) \in 0..MaxBytes
  BY <1>1
<1>4. After(SeqAdd(ISN, SegLast(s)), SeqAdd(ISN, c)) <=> SegLast(s) > c
  BY <1>3, AfterIs
<1> QED
  BY <1>1, <1>2, <1>4 DEF Covers, Holds

\* and a run of received bytes has an end.
LEMMA RunEnds ==
    ASSUME NEW n \in 0..MaxBytes, NEW S, \A s \in S : IsSeg(s, n), NEW c \in 0..MaxBytes
    PROVE  \E k \in 0..(MaxBytes - c) : /\ \A i \in 0..(k - 1) : \E s \in S : Holds(s, c + i)
                                        /\ ~\E s \in S : Holds(s, c + k)
<1> DEFINE T == {k \in Nat : ~\E s \in S : Holds(s, c + k)}
<1>1. MaxBytes \in Nat
  BY RelAssumption
<1>2. MaxBytes - c \in Nat /\ c + (MaxBytes - c) = MaxBytes
  BY <1>1
<1>3. \A s \in S : ~Holds(s, MaxBytes)
  BY <1>1, SegRange DEF Holds
<1>4. MaxBytes - c \in T
  BY <1>2, <1>3
<1>5. PICK k \in T : \A y \in T : k <= y
  BY <1>4, LeastNat
<1>6. k \in Nat /\ k <= MaxBytes - c
  BY <1>4, <1>5
<1>7. ASSUME NEW i \in 0..(k - 1) PROVE \E s \in S : Holds(s, c + i)
  <2>1. i \in Nat /\ i < k
    BY <1>6
  <2>2. i \notin T
    <3> HIDE DEF T
    <3> QED
      BY <1>5, <1>6, <2>1
  <2> QED
    BY <2>1, <2>2
<1> QED
  BY <1>2, <1>5, <1>6, <1>7

-----------------------------------------------------------------------------
(* The invariant. *)

Held(b) == b <= Len(got) \/ \E o \in ooo : SegOff(o) < b /\ b <= SegLast(o)

RcvOK ==
    /\ got \in Seq(Nat) /\ (\A i \in 1..Len(got) : got[i] = i) /\ Len(got) <= SentBytes
    /\ rcvNxt = SeqAdd(ISN, Len(got)) /\ unread \in Int
    /\ \A o \in ooo : IsSeg(o, SentBytes) /\ SegOff(o) > Len(got)

BufOK ==
    /\ sndBuf \in Seq(Nat) /\ Len(sndBuf) <= MaxBytes
    /\ \A i \in 1..Len(sndBuf) : sndBuf[i] = SentBytes + i
    /\ sndNxt = SeqAdd(ISN, SentBytes)

SndOK ==
    /\ mss \in Sizes /\ peerWnd \in Int
    /\ \E u \in 0..Len(got) : sndUna = SeqAdd(ISN, u)
    /\ inflight \in Seq([seq : Nat, data : Seq(Nat), sacked : BOOLEAN])
    /\ \A k \in 1..Len(inflight) : IsSeg(inflight[k], SentBytes)

AckOK(p) ==
    /\ p.wnd \in Int /\ p.off \in Nat /\ p.len \in Nat
    /\ \E a \in 0..Len(got) :
        /\ p.ack = SeqAdd(ISN, a)
        /\ p.len > 0 => /\ a + p.off + p.len <= MaxBytes
                        /\ \A b \in (a + p.off + 1)..(a + p.off + p.len) : Held(b)

NetOK == (\A s \in data : IsSeg(s, SentBytes)) /\ (\A p \in acks : AckOK(p))

SackOK ==
    \A k \in 1..Len(inflight) : inflight[k].sacked =>
        \A b \in (SegOff(inflight[k]) + 1)..SegLast(inflight[k]) : Held(b)

RelInv == BufOK /\ RcvOK /\ SndOK /\ NetOK /\ SackOK

\* What was written and what was read are numbers
LEMMA SentRange ==
    ASSUME BufOK
    PROVE  SentBytes \in 0..MaxBytes /\ Len(sndBuf) \in Nat
  BY RelAssumption DEF BufOK, SentBytes

\* of bytes that exist.
LEMMA GotRange ==
    ASSUME BufOK, RcvOK
    PROVE  Len(got) \in 0..MaxBytes /\ Len(got) <= SentBytes
<1>1. SentBytes \in 0..MaxBytes /\ MaxBytes \in Nat
  BY SentRange, RelAssumption
<1>2. Len(got) \in Nat /\ Len(got) <= SentBytes
  BY DEF RcvOK
<1> QED
  BY <1>1, <1>2

\* The two properties that the runs check follow from the invariant.
LEMMA InvImplies == RelInv => InOrder /\ SackedIsHeld
<1> SUFFICES ASSUME RelInv PROVE InOrder /\ SackedIsHeld
  OBVIOUS
<1>1. SentBytes \in 0..MaxBytes /\ Len(got) \in 0..MaxBytes /\ Len(got) <= SentBytes
  BY SentRange, GotRange DEF RelInv
<1>2. ~After(rcvNxt, sndNxt)
  <2>1. After(SeqAdd(ISN, Len(got)), SeqAdd(ISN, SentBytes)) <=> Len(got) > SentBytes
    BY <1>1, AfterIs
  <2> QED
    BY <1>1, <2>1 DEF RelInv, RcvOK, BufOK
<1>3. ~After(sndUna, rcvNxt)
  <2>1. PICK u \in 0..Len(got) : sndUna = SeqAdd(ISN, u)
    BY DEF RelInv, SndOK
  <2>2. u \in 0..MaxBytes
    BY <1>1, RelAssumption
  <2>3. After(SeqAdd(ISN, u), SeqAdd(ISN, Len(got))) <=> u > Len(got)
    BY <1>1, <2>2, AfterIs
  <2>4. ~(u > Len(got)) /\ rcvNxt = SeqAdd(ISN, Len(got))
    BY <1>1 DEF RelInv, RcvOK
  <2> QED
    BY <2>1, <2>3, <2>4
<1>4. InOrder
  BY <1>2, <1>3 DEF InOrder, RelInv, RcvOK
<1>5. SackedIsHeld
  <2> SUFFICES ASSUME NEW k \in 1..Len(inflight), inflight[k].sacked, NEW i \in 1..Len(inflight[k].data)
               PROVE  LET b == inflight[k].data[i]
                      IN  b <= Len(got) \/ \E o \in ooo : \E j \in DOMAIN o.data : o.data[j] = b
    BY DEF SackedIsHeld
  <2> DEFINE s == inflight[k]
             b == s.data[i]
  <2>1. IsSeg(s, SentBytes)
    BY DEF RelInv, SndOK
  <2>2. b = SegOff(s) + i /\ SegOff(s) \in Nat /\ SegLast(s) = SegOff(s) + Len(s.data) /\ Len(s.data) \in Nat
    BY <2>1 DEF IsSeg, SegLast
  <2>3. b \in (SegOff(s) + 1)..SegLast(s)
    BY <2>2
  <2>4. Held(b)
    BY <2>3 DEF RelInv, SackOK
  <2>5. ASSUME NEW o \in ooo, SegOff(o) < b, b <= SegLast(o)
        PROVE  \E j \in DOMAIN o.data : o.data[j] = b
    <3>1. IsSeg(o, SentBytes)
      BY DEF RelInv, RcvOK
    <3>2. /\ SegOff(o) \in Nat /\ SegLast(o) = SegOff(o) + Len(o.data) /\ Len(o.data) \in Nat
          /\ DOMAIN o.data = 1..Len(o.data) /\ \A j \in 1..Len(o.data) : o.data[j] = SegOff(o) + j
      BY <3>1 DEF IsSeg, SegLast
    <3>3. b - SegOff(o) \in 1..Len(o.data) /\ SegOff(o) + (b - SegOff(o)) = b
      BY <2>2, <2>5, <3>2
    <3> QED
      BY <3>2, <3>3
  <2> QED
    BY <2>4, <2>5 DEF Held
<1> QED
  BY <1>4, <1>5

-----------------------------------------------------------------------------
(* The receiving half. *)

\* A number stands for one byte.
LEMMA SameNumber ==
    ASSUME NEW a \in 0..MaxBytes, NEW b \in 0..MaxBytes, SeqAdd(ISN, a) = SeqAdd(ISN, b)
    PROVE  a = b
<1>1. MaxBytes \in Nat
  BY RelAssumption
<1>2. (After(SeqAdd(ISN, a), SeqAdd(ISN, b)) <=> a > b) /\ (After(SeqAdd(ISN, b), SeqAdd(ISN, a)) <=> b > a)
  BY AfterIs
<1>3. (SeqAdd(ISN, a) - SeqAdd(ISN, b)) % M = (SeqAdd(ISN, b) - SeqAdd(ISN, a)) % M
  BY Zenon
<1>4. (After(SeqAdd(ISN, a), SeqAdd(ISN, b)) <=> After(SeqAdd(ISN, b), SeqAdd(ISN, a)))
  BY <1>3 DEF After
<1> QED
  BY <1>1, <1>2, <1>4

\* The elements of a concatenation.
LEMMA ConcatIs ==
    ASSUME NEW R, NEW q \in Seq(R), NEW r \in Seq(R)
    PROVE  /\ q \o r \in Seq(R) /\ Len(q \o r) = Len(q) + Len(r)
           /\ \A i \in 1..(Len(q) + Len(r)) : (q \o r)[i] = IF i <= Len(q) THEN q[i] ELSE r[i - Len(q)]
  OBVIOUS

\* The rest of a segment behind its first c bytes.
LEMMA CutTail ==
    ASSUME NEW n \in 0..MaxBytes, NEW s, IsSeg(s, n), NEW c \in Nat, c < Len(s.data),
           NEW t, t.seq = SeqAdd(s.seq, c), t.data = SubSeq(s.data, c + 1, Len(s.data))
    PROVE  IsSeg(t, n) /\ SegOff(t) = SegOff(s) + c /\ SegLast(t) = SegLast(s)
<1> DEFINE a == SegOff(s)
           l == Len(s.data)
<1>1. /\ a \in 0..MaxBytes /\ l \in 1..MaxBytes /\ SegLast(s) = a + l /\ SegLast(s) <= n
      /\ s.seq = SeqAdd(ISN, a) /\ s.data \in Seq(Nat) /\ \A i \in 1..l : s.data[i] = a + i
      /\ MaxBytes \in Nat /\ a \in Nat /\ l \in Nat
  BY SegRange, RelAssumption DEF IsSeg
<1> HIDE DEF a
<1>2. t.seq = SeqAdd(ISN, a + c)
  <2>1. c \in 0..MaxBytes /\ a + c <= MaxBytes
    BY <1>1
  <2> QED
    BY <1>1, <2>1, PlusPlus
<1>3. t.data \in Seq(Nat) /\ Len(t.data) = l - c /\ \A i \in 1..(l - c) : t.data[i] = s.data[c + i]
  BY <1>1, TailIs
<1>4. l - c \in Nat /\ l - c > 0 /\ a + c \in Nat
  BY <1>1
<1>5. ASSUME NEW i \in 1..(l - c) PROVE t.data[i] = (a + c) + i
  <2>1. c + i \in 1..l /\ a + (c + i) = (a + c) + i
    BY <1>1
  <2> QED
    BY <1>1, <1>3, <2>1
<1>6. SegOff(t) = a + c
  <2>1. 1 \in 1..(l - c)
    BY <1>4
  <2>2. t.data[1] = (a + c) + 1
    BY <1>5, <2>1
  <2> QED
    BY <1>4, <2>2 DEF SegOff
<1>7. SegLast(t) = a + l
  <2>1. SegLast(t) = (a + c) + (l - c)
    BY <1>3, <1>6 DEF SegLast
  <2>2. \A u, v, w \in Nat : (u + v) + (w - v) = u + w
    OBVIOUS
  <2> QED
    BY <1>1, <2>1, <2>2
<1> QED
  BY <1>1, <1>2, <1>3, <1>4, <1>5, <1>6, <1>7 DEF IsSeg, a

\* The first c bytes of a segment.
LEMMA CutHead ==
    ASSUME NEW n \in 0..MaxBytes, NEW s, IsSeg(s, n), NEW c \in 1..Len(s.data),
           NEW t, t.seq = s.seq, t.data = SubSeq(s.data, 1, c)
    PROVE  IsSeg(t, n)
<1> DEFINE a == SegOff(s)
           l == Len(s.data)
<1>1. /\ a \in Nat /\ l \in Nat /\ SegLast(s) = a + l /\ SegLast(s) <= n
      /\ s.seq = SeqAdd(ISN, a) /\ s.data \in Seq(Nat) /\ \A i \in 1..l : s.data[i] = a + i
      /\ c \in Nat /\ c > 0 /\ c <= l /\ n \in Int
  BY RelAssumption DEF IsSeg, SegLast
<1> HIDE DEF a
<1>2. t.data \in Seq(Nat) /\ Len(t.data) = c /\ \A i \in 1..c : t.data[i] = s.data[i]
  BY <1>1, HeadIs
<1>3. \A i \in 1..c : t.data[i] = a + i
  BY <1>1, <1>2
<1>4. SegOff(t) = a
  <2>1. 1 \in 1..c
    BY <1>1
  <2>2. t.data[1] = a + 1
    BY <1>3, <2>1
  <2>3. SegOff(t) = t.data[1] - 1 /\ \A x \in Nat : (x + 1) - 1 = x
    BY DEF SegOff
  <2> QED
    BY <1>1, <2>2, <2>3, Zenon
<1>5. SegLast(t) = a + c /\ a + c <= n
  BY <1>1, <1>2, <1>4 DEF SegLast
<1> QED
  BY <1>1, <1>2, <1>3, <1>4, <1>5 DEF IsSeg

Trim(s) == IF After(rcvNxt, s.seq) THEN (rcvNxt - s.seq) % M ELSE 0
Trimmed(s) == Segment(SeqAdd(s.seq, Trim(s)), SubSeq(s.data, Trim(s) + 1, Len(s.data)))

\* A segment is trimmed to what is new of it.
LEMMA TrimmedIs ==
    ASSUME BufOK, RcvOK, NEW s, IsSeg(s, SentBytes), After(SegEnd(s), rcvNxt)
    PROVE  /\ IsSeg(Trimmed(s), SentBytes) /\ SegLast(Trimmed(s)) = SegLast(s)
           /\ SegOff(Trimmed(s)) = IF SegOff(s) < Len(got) THEN Len(got) ELSE SegOff(s)
<1> DEFINE g == Len(got)
           a == SegOff(s)
           c == Trim(s)
           t == Trimmed(s)
<1>1. /\ SentBytes \in 0..MaxBytes /\ g \in 0..MaxBytes /\ g <= SentBytes /\ MaxBytes \in Nat
      /\ rcvNxt = SeqAdd(ISN, g) /\ g \in Nat
  BY SentRange, GotRange, RelAssumption DEF RcvOK
<1>2. /\ a \in 0..MaxBytes /\ SegLast(s) \in 0..MaxBytes /\ Len(s.data) \in 1..MaxBytes
      /\ SegEnd(s) = SeqAdd(ISN, SegLast(s)) /\ SegLast(s) = a + Len(s.data)
      /\ s.seq = SeqAdd(ISN, a)
  BY <1>1, SegRange DEF IsSeg
<1>3. SegLast(s) > g
  BY <1>1, <1>2, AfterIs
<1>4. After(rcvNxt, s.seq) <=> g > a
  BY <1>1, <1>2, AfterIs
<1>5. (rcvNxt - s.seq) % M = IF g >= a THEN g - a ELSE g - a + M
  BY <1>1, <1>2, Distance
<1>6. c = IF a < g THEN g - a ELSE 0
  BY <1>1, <1>2, <1>4, <1>5 DEF Trim
<1> HIDE DEF a, c
<1>7. c \in Nat /\ c < Len(s.data) /\ a + c = IF a < g THEN g ELSE a
  BY <1>1, <1>2, <1>3, <1>6
<1>8. t.seq = SeqAdd(s.seq, c) /\ t.data = SubSeq(s.data, c + 1, Len(s.data))
  BY DEF Trimmed, Segment, c
<1> HIDE DEF t
<1>9. IsSeg(t, SentBytes) /\ SegOff(t) = SegOff(s) + c /\ SegLast(t) = SegLast(s)
  BY <1>1, <1>7, <1>8, CutTail
<1> QED
  BY <1>7, <1>9 DEF t, a

\* What is contiguous with what was received.
LEMMA ContiguousIs ==
    ASSUME BufOK, RcvOK, NEW S, \A s \in S : IsSeg(s, SentBytes)
    PROVE  /\ Contiguous(S) \in 0..(SentBytes - Len(got))
           /\ \A i \in 0..(Contiguous(S) - 1) : \E s \in S : Holds(s, Len(got) + i)
           /\ ~\E s \in S : Holds(s, Len(got) + Contiguous(S))
<1> DEFINE g == Len(got)
           Ok(n) == /\ \A i \in 0..(n - 1) : \E s \in S : Covers(s, SeqAdd(rcvNxt, i))
                    /\ ~\E s \in S : Covers(s, SeqAdd(rcvNxt, n))
           Fine(n) == /\ \A i \in 0..(n - 1) : \E s \in S : Holds(s, g + i)
                      /\ ~\E s \in S : Holds(s, g + n)
<1>1. /\ SentBytes \in 0..MaxBytes /\ g \in 0..MaxBytes /\ g <= SentBytes /\ MaxBytes \in Nat
      /\ rcvNxt = SeqAdd(ISN, g) /\ g \in Nat
  BY SentRange, GotRange, RelAssumption DEF RcvOK
<1>2. ASSUME NEW i \in 0..(MaxBytes - g), NEW s \in S
      PROVE  Covers(s, SeqAdd(rcvNxt, i)) <=> Holds(s, g + i)
  <2>1. i \in 0..MaxBytes /\ g + i <= MaxBytes /\ g + i \in 0..MaxBytes
    BY <1>1
  <2>2. SeqAdd(rcvNxt, i) = SeqAdd(ISN, g + i)
    BY <1>1, <2>1, PlusPlus
  <2> QED
    BY <1>1, <2>1, <2>2, CoversIs
<1>3. PICK k \in 0..(MaxBytes - g) : Fine(k)
  BY <1>1, RunEnds
<1>4. Ok(k) /\ k \in 0..MaxBytes
  <2>1. k \in 0..MaxBytes /\ \A i \in 0..(k - 1) : i \in 0..(MaxBytes - g)
    BY <1>1
  <2> QED
    BY <1>2, <1>3, <2>1
<1>5. Ok(Contiguous(S)) /\ Contiguous(S) \in 0..MaxBytes
  BY <1>4 DEF Contiguous
<1> DEFINE n == Contiguous(S)
<1> HIDE DEF n
<1>6. n \in Nat /\ n <= SentBytes - g
  <2> SUFFICES ASSUME n > SentBytes - g PROVE FALSE
    BY <1>1, <1>5 DEF n
  <2>1. SentBytes - g \in 0..(n - 1) /\ SentBytes - g \in 0..(MaxBytes - g) /\ g + (SentBytes - g) = SentBytes
    BY <1>1, <1>5 DEF n
  <2>2. PICK s \in S : Covers(s, SeqAdd(rcvNxt, SentBytes - g))
    BY <1>5, <2>1 DEF n
  <2>3. Holds(s, SentBytes)
    BY <1>2, <2>1, <2>2
  <2>4. SegLast(s) <= SentBytes /\ SegLast(s) \in Nat
    BY <1>1, SegRange
  <2> QED
    BY <1>1, <2>3, <2>4 DEF Holds
<1>7. n \in 0..(MaxBytes - g) /\ \A i \in 0..(n - 1) : i \in 0..(MaxBytes - g)
  BY <1>1, <1>6
<1>8. Fine(n)
  BY <1>2, <1>5, <1>7 DEF n
<1> QED
  BY <1>1, <1>6, <1>8 DEF n

\* A byte that segments hold.
LEMMA ByteAtIs ==
    ASSUME BufOK, RcvOK, NEW S, \A s \in S : IsSeg(s, SentBytes),
           NEW c \in 0..MaxBytes, \E s \in S : Holds(s, c)
    PROVE  ByteAt(S, SeqAdd(ISN, c)) = c + 1
<1> DEFINE x == SeqAdd(ISN, c)
           s == CHOOSE t \in S : Covers(t, x)
<1>1. SentBytes \in 0..MaxBytes /\ MaxBytes \in Nat
  BY SentRange, RelAssumption
<1>2. s \in S /\ Covers(s, x)
  BY <1>1, CoversIs
<1> HIDE DEF s
<1>3. Holds(s, c)
  BY <1>1, <1>2, CoversIs
<1>4. /\ SegOff(s) \in 0..MaxBytes /\ SegLast(s) = SegOff(s) + Len(s.data) /\ Len(s.data) \in 1..MaxBytes
      /\ s.seq = SeqAdd(ISN, SegOff(s)) /\ \A i \in 1..Len(s.data) : s.data[i] = SegOff(s) + i
  BY <1>1, <1>2, SegRange DEF IsSeg
<1>5. (x - s.seq) % M = c - SegOff(s) /\ c - SegOff(s) \in Nat
  BY <1>1, <1>3, <1>4, Distance DEF Holds
<1>6. (c - SegOff(s)) + 1 \in 1..Len(s.data) /\ SegOff(s) + ((c - SegOff(s)) + 1) = c + 1
  BY <1>1, <1>3, <1>4 DEF Holds
<1>7. s.data[((x - s.seq) % M) + 1] = c + 1
  BY <1>4, <1>5, <1>6
<1> QED
  BY <1>7 DEF ByteAt, s

\* Receive keeps the order, and what is held stays held.
LEMMA ReceiveOK ==
    ASSUME BufOK, RcvOK, NEW s, IsSeg(s, SentBytes), Receive(s), UNCHANGED sndBuf
    PROVE  RcvOK' /\ Len(got) <= Len(got') /\ \A b \in Int : Held(b) => Held(b)'
<1> DEFINE g == Len(got)
           t == Trimmed(s)
           S == ooo \cup {t}
           n == Contiguous(S)
           fits == Ahead(t.seq) + Len(t.data) <= RecvBuf - unread
<1>1. /\ SentBytes \in 0..MaxBytes /\ g \in 0..MaxBytes /\ g <= SentBytes /\ MaxBytes \in Nat
      /\ rcvNxt = SeqAdd(ISN, g) /\ g \in Nat /\ SentBytes' = SentBytes
  BY SentRange, GotRange, RelAssumption DEF RcvOK, SentBytes
<1>2. IF ~After(SegEnd(s), rcvNxt) \/ ~fits
      THEN UNCHANGED rcvVars
      ELSE IF t.seq # rcvNxt
      THEN /\ ooo' = IF \E o \in ooo : o.seq = t.seq THEN ooo ELSE S
           /\ UNCHANGED <<rcvNxt, unread, got>>
      ELSE /\ got' = got \o [i \in 1..n |-> ByteAt(S, SeqAdd(rcvNxt, i - 1))]
           /\ rcvNxt' = SeqAdd(rcvNxt, n)
           /\ unread' = unread + n
           /\ ooo' = {o \in ooo : After(o.seq, SeqAdd(rcvNxt, n))}
  BY DEF Receive, Trimmed, Trim
<1>3. CASE UNCHANGED rcvVars
  <2>1. RcvOK'
    BY <1>1, <1>3 DEF RcvOK, rcvVars
  <2> QED
    BY <1>1, <1>3, <2>1 DEF Held, rcvVars
<1>4. CASE After(SegEnd(s), rcvNxt) /\ fits /\ t.seq # rcvNxt
  <2>1. /\ IsSeg(t, SentBytes) /\ SegOff(t) = IF SegOff(s) < g THEN g ELSE SegOff(s)
    BY <1>4, TrimmedIs
  <2>2. t.seq = SeqAdd(ISN, SegOff(t))
    BY <2>1 DEF IsSeg
  <2>3. SegOff(t) > g
    <3>1. SegOff(s) \in Nat
      BY DEF IsSeg
    <3> QED
      BY <1>1, <1>4, <2>1, <2>2, <3>1
  <2>4. ooo \subseteq ooo' /\ ooo' \subseteq S /\ got' = got /\ rcvNxt' = rcvNxt /\ unread' = unread
    BY <1>2, <1>4
  <2> HIDE DEF t
  <2>5. \A o \in S : IsSeg(o, SentBytes) /\ SegOff(o) > g
    BY <2>1, <2>3 DEF RcvOK
  <2>6. RcvOK'
    BY <1>1, <2>4, <2>5 DEF RcvOK
  <2> QED
    BY <1>1, <2>4, <2>6 DEF Held
<1>5. CASE After(SegEnd(s), rcvNxt) /\ fits /\ t.seq = rcvNxt
  <2>1. IsSeg(t, SentBytes)
    BY <1>5, TrimmedIs
  <2>2. /\ got' = got \o [i \in 1..n |-> ByteAt(S, SeqAdd(rcvNxt, i - 1))]
        /\ rcvNxt' = SeqAdd(rcvNxt, n) /\ unread' = unread + n
        /\ ooo' = {o \in ooo : After(o.seq, SeqAdd(rcvNxt, n))}
    BY <1>2, <1>5
  <2> HIDE DEF t, n
  <2>3. \A o \in S : IsSeg(o, SentBytes)
    BY <2>1 DEF RcvOK
  <2>4. /\ n \in 0..(SentBytes - g)
        /\ \A i \in 0..(n - 1) : \E o \in S : Holds(o, g + i)
        /\ ~\E o \in S : Holds(o, g + n)
    BY <2>3, ContiguousIs DEF n
  <2>5. n \in Nat /\ n \in 0..MaxBytes /\ g + n \in 0..MaxBytes /\ g + n <= SentBytes
    BY <1>1, <2>4
  <2>6. SeqAdd(rcvNxt, n) = SeqAdd(ISN, g + n)
    BY <1>1, <2>5, PlusPlus
  <2> DEFINE new == [i \in 1..n |-> ByteAt(S, SeqAdd(rcvNxt, i - 1))]
  <2>7. \A i \in 1..n : new[i] = g + i
    <3> TAKE i \in 1..n
    <3>1. i - 1 \in 0..(n - 1) /\ i - 1 \in 0..MaxBytes /\ g + (i - 1) \in 0..MaxBytes /\ g + (i - 1) <= MaxBytes
          /\ (g + (i - 1)) + 1 = g + i
      BY <1>1, <2>5
    <3>2. SeqAdd(rcvNxt, i - 1) = SeqAdd(ISN, g + (i - 1))
      BY <1>1, <3>1, PlusPlus
    <3>3. \E o \in S : Holds(o, g + (i - 1))
      BY <2>4, <3>1
    <3>4. ByteAt(S, SeqAdd(ISN, g + (i - 1))) = (g + (i - 1)) + 1
      BY <2>3, <3>1, <3>3, ByteAtIs
    <3> QED
      BY <3>1, <3>2, <3>4
  <2>8. new \in Seq(Nat) /\ Len(new) = n
    <3>0. \A u, v \in Nat : \A i \in 1..v : u + i \in Nat
      OBVIOUS
    <3>1. \A i \in 1..n : new[i] \in Nat
      <4> HIDE DEF new
      <4> QED
        BY <1>1, <2>5, <2>7, <3>0
    <3>2. new \in [1..n -> Nat]
      BY <3>1
    <3> HIDE DEF new
    <3> QED
      BY <2>5, <3>2, FunIsSeq
  <2> HIDE DEF new
  <2>9. got \in Seq(Nat) /\ \A i \in 1..g : got[i] = i
    BY DEF RcvOK
  <2>10. /\ got' \in Seq(Nat) /\ Len(got') = g + n
         /\ \A i \in 1..(g + n) : got'[i] = IF i <= g THEN got[i] ELSE new[i - g]
    <3>1. got' = got \o new
      BY <2>2 DEF new
    <3> QED
      BY <2>8, <2>9, <3>1, ConcatIs
  <2>11. \A i \in 1..Len(got') : got'[i] = i
    <3> TAKE i \in 1..Len(got')
    <3>1. CASE i <= g
      <4>1. i \in 1..g /\ i \in 1..(g + n)
        BY <1>1, <2>5, <2>10, <3>1
      <4> QED
        BY <2>9, <2>10, <3>1, <4>1
    <3>2. CASE i > g
      <4>1. i - g \in 1..n /\ i \in 1..(g + n) /\ g + (i - g) = i
        BY <1>1, <2>5, <2>10, <3>2
      <4> QED
        BY <1>1, <2>7, <2>10, <3>2, <4>1
    <3> QED
      BY <1>1, <2>10, <3>1, <3>2
  <2>12. ASSUME NEW o \in ooo
         PROVE  /\ IsSeg(o, SentBytes) /\ (After(o.seq, SeqAdd(ISN, g + n)) <=> SegOff(o) > g + n)
                /\ SegOff(o) > g + n \/ SegLast(o) <= g + n
                /\ SegOff(o) \in Nat /\ SegLast(o) \in Nat
    <3>1. IsSeg(o, SentBytes) /\ o.seq = SeqAdd(ISN, SegOff(o))
      BY DEF RcvOK, IsSeg
    <3>2. SegOff(o) \in 0..MaxBytes /\ SegLast(o) \in 1..MaxBytes
      BY <1>1, <3>1, SegRange
    <3>3. After(o.seq, SeqAdd(ISN, g + n)) <=> SegOff(o) > g + n
      BY <2>5, <3>1, <3>2, AfterIs
    <3>4. ~Holds(o, g + n)
      BY <2>4
    <3> QED
      BY <1>1, <2>5, <3>1, <3>2, <3>3, <3>4 DEF Holds
  <2>13. ooo' = {o \in ooo : SegOff(o) > g + n}
    BY <2>2, <2>6, <2>12
  <2>14. RcvOK'
    <3>1. unread' \in Int
      BY <2>2, <2>5 DEF RcvOK
    <3>2. rcvNxt' = SeqAdd(ISN, Len(got'))
      BY <2>2, <2>6, <2>10
    <3>3. \A o \in ooo' : IsSeg(o, SentBytes') /\ SegOff(o) > Len(got')
      BY <1>1, <2>10, <2>12, <2>13
    <3> QED
      BY <1>1, <2>5, <2>10, <2>11, <3>1, <3>2, <3>3 DEF RcvOK
  <2>15. ASSUME NEW b \in Int, Held(b) PROVE Held(b)'
    <3>1. CASE b <= g
      BY <1>1, <2>5, <2>10, <3>1 DEF Held
    <3>2. CASE b > g
      <4>1. PICK o \in ooo : SegOff(o) < b /\ b <= SegLast(o)
        BY <1>1, <2>15, <3>2 DEF Held
      <4>2. CASE SegOff(o) > g + n
        BY <2>13, <4>1, <4>2 DEF Held
      <4>3. CASE SegLast(o) <= g + n
        BY <1>1, <2>5, <2>10, <2>12, <4>1, <4>3 DEF Held
      <4> QED
        BY <2>12, <4>2, <4>3
    <3> QED
      BY <1>1, <3>1, <3>2
  <2> QED
    BY <1>1, <2>5, <2>10, <2>14, <2>15
<1> QED
  BY <1>2, <1>3, <1>4, <1>5

-----------------------------------------------------------------------------
(* The SACK block, the queue of segments. *)

\* What a segment holds does not depend on its mark.
LEMMA SameSeg ==
    ASSUME NEW n, NEW s, NEW t, IsSeg(s, n), t.seq = s.seq, t.data = s.data
    PROVE  IsSeg(t, n) /\ SegOff(t) = SegOff(s) /\ SegLast(t) = SegLast(s)
  BY DEF IsSeg, SegOff, SegLast

\* A segment of what was sent stays one.
LEMMA MoreSent ==
    ASSUME NEW n \in Int, NEW m \in Int, n <= m, NEW s, IsSeg(s, n)
    PROVE  IsSeg(s, m)
<1>1. SegLast(s) \in Int
  BY DEF IsSeg, SegLast
<1> QED
  BY <1>1 DEF IsSeg

\* The block that the receiver reports is held.
LEMMA SackIs ==
    ASSUME BufOK, RcvOK
    PROVE  /\ SackBlock.off \in Nat /\ SackBlock.len \in Nat
           /\ SackBlock.len > 0 =>
                /\ Len(got) + SackBlock.off + SackBlock.len <= MaxBytes
                /\ \A b \in (Len(got) + SackBlock.off + 1)..(Len(got) + SackBlock.off + SackBlock.len) : Held(b)
<1> DEFINE g == Len(got)
           T == {Ahead(o.seq) : o \in ooo}
           off == Min(T)
           Reach(n) == /\ \A i \in 0..(n - 1) : \E o \in ooo : Covers(o, SeqAdd(rcvNxt, off + i))
                     /\ ~\E o \in ooo : Covers(o, SeqAdd(rcvNxt, off + n))
           len == CHOOSE n \in 1..MaxBytes : Reach(n)
<1>1. /\ SentBytes \in 0..MaxBytes /\ g \in 0..MaxBytes /\ g <= SentBytes /\ MaxBytes \in Nat
      /\ rcvNxt = SeqAdd(ISN, g) /\ g \in Nat
  BY SentRange, GotRange, RelAssumption DEF RcvOK
<1>2. CASE ooo = {}
  BY <1>2 DEF SackBlock
<1>3. CASE ooo # {}
  <2>1. ASSUME NEW o \in ooo
        PROVE  /\ IsSeg(o, SentBytes) /\ SegOff(o) \in 0..MaxBytes /\ SegOff(o) > g
               /\ Ahead(o.seq) = SegOff(o) - g /\ SegOff(o) < SegLast(o) /\ SegLast(o) \in 1..MaxBytes
    <3>1. IsSeg(o, SentBytes) /\ SegOff(o) > g /\ o.seq = SeqAdd(ISN, SegOff(o))
      BY DEF RcvOK, IsSeg
    <3>2. SegOff(o) \in 0..MaxBytes /\ SegOff(o) < SegLast(o) /\ SegLast(o) \in 1..MaxBytes
      BY <1>1, <3>1, SegRange
    <3>3. (SeqAdd(ISN, SegOff(o)) - SeqAdd(ISN, g)) % M = SegOff(o) - g
      BY <1>1, <3>1, <3>2, Distance
    <3> QED
      BY <1>1, <3>1, <3>2, <3>3 DEF Ahead
  <2>2. T # {} /\ T \subseteq Nat
    BY <1>1, <1>3, <2>1
  <2>3. off \in T
    <3> HIDE DEF T
    <3> QED
      BY <2>2, LeastNat DEF Min
  <2>4. PICK o \in ooo : off = Ahead(o.seq)
    BY <2>3
  <2> HIDE DEF off
  <2>5. off \in Nat /\ g + off = SegOff(o) /\ SegOff(o) \in 0..MaxBytes
    BY <1>1, <2>1, <2>4
  <2>6. \A x \in ooo : IsSeg(x, SentBytes)
    BY <2>1
  <2> DEFINE c == g + off
  <2>7. c \in 0..MaxBytes /\ c \in Nat
    BY <2>5
  <2>8. PICK k \in 0..(MaxBytes - c) : /\ \A i \in 0..(k - 1) : \E x \in ooo : Holds(x, c + i)
                                       /\ ~\E x \in ooo : Holds(x, c + k)
    <3> HIDE DEF c
    <3> QED
      BY <1>1, <2>6, <2>7, RunEnds
  <2>9. ASSUME NEW i \in 0..(MaxBytes - c), NEW x \in ooo
        PROVE  Covers(x, SeqAdd(rcvNxt, off + i)) <=> Holds(x, c + i)
    <3>1. off + i \in 0..MaxBytes /\ g + (off + i) <= MaxBytes /\ c + i \in 0..MaxBytes /\ g + (off + i) = c + i
      BY <1>1, <2>5
    <3>2. SeqAdd(rcvNxt, off + i) = SeqAdd(ISN, c + i)
      BY <1>1, <3>1, PlusPlus
    <3> QED
      BY <1>1, <2>6, <3>1, <3>2, CoversIs
  <2>10. Holds(o, c)
    BY <2>1, <2>5 DEF Holds
  <2> HIDE DEF c
  <2>11. k \in Nat /\ k # 0 /\ k \in 1..MaxBytes
    <3>1. c + 0 = c
      BY <2>7
    <3> QED
      BY <1>1, <2>7, <2>8, <2>10, <3>1
  <2>12. Reach(k)
    <3>1. k \in 0..(MaxBytes - c) /\ \A i \in 0..(k - 1) : i \in 0..(MaxBytes - c)
      BY <1>1, <2>7, <2>8
    <3> QED
      BY <2>8, <2>9, <3>1
  <2>13. len \in 1..MaxBytes /\ Reach(len)
    BY <2>11, <2>12
  <2>14. SackBlock.off = off /\ SackBlock.len = len
    BY <1>3 DEF SackBlock, off
  <2> HIDE DEF len, Reach
  <2>15. len <= MaxBytes - c
    <3> SUFFICES ASSUME len > MaxBytes - c PROVE FALSE
      BY <1>1, <2>7, <2>13
    <3>1. MaxBytes - c \in 0..(len - 1) /\ MaxBytes - c \in 0..(MaxBytes - c) /\ c + (MaxBytes - c) = MaxBytes
      BY <1>1, <2>7, <2>13
    <3>2. PICK x \in ooo : Covers(x, SeqAdd(rcvNxt, off + (MaxBytes - c)))
      BY <2>13, <3>1 DEF Reach
    <3>3. Holds(x, MaxBytes)
      BY <2>9, <3>1, <3>2
    <3> QED
      BY <1>1, <2>1, <3>3 DEF Holds
  <2>16. ASSUME NEW b \in (c + 1)..(c + len) PROVE Held(b)
    <3>1. b - c - 1 \in 0..(len - 1) /\ b - c - 1 \in 0..(MaxBytes - c) /\ c + (b - c - 1) = b - 1 /\ b \in Int
      BY <1>1, <2>7, <2>13, <2>15
    <3>2. PICK x \in ooo : Covers(x, SeqAdd(rcvNxt, off + (b - c - 1)))
      BY <2>13, <3>1 DEF Reach
    <3>3. Holds(x, b - 1)
      BY <2>9, <3>1, <3>2
    <3>4. SegOff(x) < b /\ b <= SegLast(x)
      BY <2>1, <3>1, <3>3 DEF Holds
    <3> QED
      BY <3>4 DEF Held
  <2>17. c + len <= MaxBytes
    BY <1>1, <2>7, <2>13, <2>15
  <2> QED
    BY <2>5, <2>13, <2>14, <2>16, <2>17 DEF c
<1> QED
  BY <1>2, <1>3

KeepStep(q, a, f, i) ==
    IF i = 0 THEN <<>>
    ELSE IF After(SegEnd(q[i]), a) THEN Append(f[i - 1], q[i]) ELSE f[i - 1]
KeepsAre(q, a, n, f) == f = [i \in 0..n |-> KeepStep(q, a, f, i)]

\* The loop that keeps the unacknowledged segments is defined for every queue.
LEMMA KeepsExists ==
    ASSUME NEW q, NEW a, NEW m \in Nat
    PROVE  \E f : KeepsAre(q, a, m, f)
<1> DEFINE Bad == {n \in Nat : ~\E f : KeepsAre(q, a, n, f)}
<1> SUFFICES ASSUME Bad # {} PROVE FALSE
  OBVIOUS
<1>1. PICK n \in Bad : \A y \in Bad : n <= y
  BY LeastNat
<1>2. CASE n = 0
  <2> DEFINE f == [i \in 0..0 |-> <<>>]
  <2>1. \A i \in 0..0 : KeepStep(q, a, f, i) = <<>>
    BY DEF KeepStep
  <2>2. KeepsAre(q, a, 0, f)
    BY <2>1 DEF KeepsAre
  <2> QED
    BY <1>1, <1>2, <2>2
<1>3. CASE n # 0
  <2>1. n \in Nat /\ n - 1 \in Nat /\ ~(n <= n - 1)
    BY <1>1, <1>3
  <2>2. PICK g : KeepsAre(q, a, n - 1, g)
    BY <1>1, <2>1
  <2> DEFINE f == [i \in 0..n |-> IF i < n THEN g[i] ELSE KeepStep(q, a, g, n)]
  <2>3. \A i \in 0..n : i # 0 => (i - 1 \in 0..n /\ i - 1 < n /\ f[i - 1] = g[i - 1])
    BY <2>1
  <2>4. ASSUME NEW i \in 0..n PROVE f[i] = KeepStep(q, a, f, i)
    <3>1. KeepStep(q, a, f, i) = KeepStep(q, a, g, i)
      BY <2>3 DEF KeepStep
    <3>2. CASE i < n
      <4>1. i \in 0..(n - 1)
        BY <2>1, <3>2
      <4> QED
        BY <2>2, <3>1, <3>2, <4>1 DEF KeepsAre
    <3>3. CASE i = n
      BY <2>1, <3>1, <3>3
    <3> QED
      BY <2>1, <3>2, <3>3
  <2>5. f = [i \in 0..n |-> KeepStep(q, a, f, i)]
    <3>1. DOMAIN f = 0..n /\ f = [i \in 0..n |-> f[i]]
      OBVIOUS
    <3> HIDE DEF f
    <3> QED
      BY <2>4, <3>1, Zenon
  <2> HIDE DEF f
  <2>6. KeepsAre(q, a, n, f)
    BY <2>5 DEF KeepsAre
  <2> QED
    BY <1>1, <2>6
<1> QED
  BY <1>2, <1>3

\* What is kept of a queue are segments of the queue.
LEMMA KeptIs ==
    ASSUME NEW R, NEW q \in Seq(R), NEW a
    PROVE  /\ Kept(q, a) \in Seq(R)
           /\ \A j \in 1..Len(Kept(q, a)) : \E k \in 1..Len(q) : Kept(q, a)[j] = q[k]
<1> DEFINE m == Len(q)
           f == CHOOSE f : KeepsAre(q, a, m, f)
           Good(r) == r \in Seq(R) /\ \A j \in 1..Len(r) : \E k \in 1..m : r[j] = q[k]
           Bad == {i \in 0..m : ~Good(f[i])}
<1>0. m \in Nat
  OBVIOUS
<1>1. KeepsAre(q, a, m, f)
  BY <1>0, KeepsExists
<1>2. Kept(q, a) = f[m]
  BY DEF Kept, KeepsAre, KeepStep
<1> HIDE DEF f
<1>3. \A i \in 0..m : f[i] = KeepStep(q, a, f, i)
  BY <1>1 DEF KeepsAre
<1>4. ASSUME Bad # {} PROVE FALSE
  <2>1. PICK i \in Bad : \A y \in Bad : i <= y
    <3>1. Bad \subseteq Nat
      BY <1>0
    <3> HIDE DEF Bad
    <3> QED
      BY <1>4, <3>1, LeastNat
  <2>2. i \in 0..m /\ ~Good(f[i])
    BY <2>1
  <2>3. i # 0
    <3> SUFFICES ASSUME i = 0 PROVE FALSE
      OBVIOUS
    <3>1. f[i] = <<>>
      BY <1>0, <1>3, <2>2 DEF KeepStep
    <3> QED
      BY <2>2, <3>1
  <2>4. i - 1 \in 0..m /\ i \in 1..m /\ ~(i <= i - 1)
    BY <1>0, <2>2, <2>3
  <2>5. Good(f[i - 1])
    <3> HIDE DEF Good
    <3> QED
      BY <2>1, <2>4
  <2>6. f[i] = Append(f[i - 1], q[i]) \/ f[i] = f[i - 1]
    BY <1>3, <2>2, <2>3 DEF KeepStep
  <2>7. q[i] \in R
    BY <2>4
  <2> DEFINE r == f[i - 1]
  <2> HIDE DEF r
  <2>8. r \in Seq(R) /\ \A j \in 1..Len(r) : \E k \in 1..m : r[j] = q[k]
    BY <2>5 DEF r
  <2>9. Append(r, q[i]) \in Seq(R) /\ Len(Append(r, q[i])) = Len(r) + 1 /\ Append(r, q[i])[Len(r) + 1] = q[i]
        /\ \A j \in 1..Len(r) : Append(r, q[i])[j] = r[j]
    BY <2>7, <2>8
  <2>10. ASSUME NEW j \in 1..(Len(r) + 1) PROVE \E k \in 1..m : Append(r, q[i])[j] = q[k]
    <3>1. CASE j = Len(r) + 1
      BY <2>4, <2>9, <3>1
    <3>2. CASE j # Len(r) + 1
      <4>1. j \in 1..Len(r)
        BY <2>8, <3>2
      <4> QED
        BY <2>8, <2>9, <4>1
    <3> QED
      BY <3>1, <3>2
  <2>11. Good(Append(r, q[i]))
    BY <2>9, <2>10
  <2> HIDE DEF Good
  <2> QED
    BY <2>2, <2>5, <2>6, <2>11 DEF r
<1>5. m \in 0..m
  BY <1>0
<1>6. Good(f[m])
  <2> HIDE DEF Good
  <2> QED
    BY <1>4, <1>5
<1> QED
  BY <1>2, <1>6

Segs == [seq : Nat, data : Seq(Nat), sacked : BOOLEAN]

In(x, q) == \E j \in 1..Len(q) : x = q[j]

\* The elements of a concatenation come from its parts.
LEMMA ConcatFrom ==
    ASSUME NEW R, NEW q \in Seq(R), NEW r \in Seq(R)
    PROVE  \A i \in 1..Len(q \o r) : \/ In((q \o r)[i], q)
                                     \/ In((q \o r)[i], r)
<1> TAKE i \in 1..Len(q \o r)
<1>1. Len(q) \in Nat /\ Len(r) \in Nat /\ i \in 1..(Len(q) + Len(r))
  BY ConcatIs
<1>2. (q \o r)[i] = IF i <= Len(q) THEN q[i] ELSE r[i - Len(q)]
  BY <1>1, ConcatIs
<1>3. CASE i <= Len(q)
  <2>1. i \in 1..Len(q)
    BY <1>1, <1>3
  <2> QED
    BY <1>2, <1>3, <2>1 DEF In
<1>4. CASE ~(i <= Len(q))
  <2>1. i - Len(q) \in 1..Len(r)
    BY <1>1, <1>4
  <2> QED
    BY <1>2, <1>4, <2>1 DEF In
<1> QED
  BY <1>3, <1>4

Joining(l, u, v, e) == l \o <<u, v>> \o e

\* A queue that is put together again holds the parts it was made of.
LEMMA Joined ==
    ASSUME NEW R, NEW l \in Seq(R), NEW u \in R, NEW v \in R, NEW e \in Seq(R),
           NEW r, r = Joining(l, u, v, e)
    PROVE  /\ r \in Seq(R) /\ Len(l) + 1 \in 1..Len(r) /\ r[Len(l) + 1] = u
           /\ \A i \in 1..Len(r) : \/ r[i] = u \/ r[i] = v
                                   \/ In(r[i], l)
                                   \/ In(r[i], e)
<1> DEFINE m == <<u, v>>
           h == l \o m
<1>1. m \in Seq(R) /\ Len(m) = 2 /\ m[1] = u /\ m[2] = v /\ \A j \in 1..Len(m) : m[j] = u \/ m[j] = v
  OBVIOUS
<1>2. r = h \o e
  BY DEF Joining
<1> HIDE DEF m
<1>3. h \in Seq(R) /\ Len(h) = Len(l) + 2 /\ h[Len(l) + 1] = u
  <2>1. /\ h \in Seq(R) /\ Len(h) = Len(l) + 2
        /\ \A i \in 1..(Len(l) + 2) : h[i] = IF i <= Len(l) THEN l[i] ELSE m[i - Len(l)]
    <3>1. /\ l \o m \in Seq(R) /\ Len(l \o m) = Len(l) + Len(m)
          /\ \A i \in 1..(Len(l) + Len(m)) : (l \o m)[i] = IF i <= Len(l) THEN l[i] ELSE m[i - Len(l)]
      BY <1>1, ConcatIs, Zenon
    <3> QED
      BY <1>1, <3>1, Zenon
  <2>2. \A n \in Nat : n + 1 \in 1..(n + 2) /\ ~(n + 1 <= n) /\ (n + 1) - n = 1
    OBVIOUS
  <2>3. Len(l) \in Nat
    OBVIOUS
  <2> HIDE DEF h
  <2> QED
    BY <1>1, <2>1, <2>2, <2>3
<1>4. \A i \in 1..Len(h) : h[i] = u \/ h[i] = v \/ In(h[i], l)
  <2>1. \A i \in 1..Len(l \o m) : \/ In((l \o m)[i], l)
                                    \/ In((l \o m)[i], m)
    BY <1>1, ConcatFrom, Zenon
  <2>2. ASSUME NEW x, In(x, m) PROVE x = u \/ x = v
    BY <1>1, <2>2, Zenon DEF In
  <2> QED
    BY <2>1, <2>2, Zenon
<1> HIDE DEF h
<1>5. r \in Seq(R) /\ Len(r) = Len(h) + Len(e) /\ \A i \in 1..(Len(h) + Len(e)) : r[i] = IF i <= Len(h) THEN h[i] ELSE e[i - Len(h)]
  <2>1. h \in Seq(R) /\ e \in Seq(R)
    BY <1>3
  <2> QED
    BY <1>2, <2>1, ConcatIs, Zenon
<1>6. Len(l) + 1 \in 1..Len(r) /\ r[Len(l) + 1] = u
  <2>1. \A a, b \in Nat : a + 1 \in 1..((a + 2) + b) /\ a + 1 <= a + 2
    OBVIOUS
  <2>2. Len(l) \in Nat /\ Len(e) \in Nat
    OBVIOUS
  <2> QED
    BY <1>3, <1>5, <2>1, <2>2
<1>7. \A i \in 1..Len(r) : \/ In(r[i], h)
                           \/ In(r[i], e)
  <2>1. \A i \in 1..Len(h \o e) : \/ In((h \o e)[i], h)
                                    \/ In((h \o e)[i], e)
    BY <1>3, ConcatFrom, Zenon
  <2> QED
    BY <1>2, <2>1, Zenon
<1>8. ASSUME NEW x, In(x, h) PROVE x = u \/ x = v \/ In(x, l)
  BY <1>4, <1>8, Zenon DEF In
<1> QED
  BY <1>5, <1>6, <1>7, <1>8, Zenon

Splice(q, k, u, v) == Joining(SubSeq(q, 1, k - 1), u, v, SubSeq(q, k + 1, Len(q)))

\* The elements of a queue in which one element is replaced by two.
LEMMA Spliced ==
    ASSUME NEW R, NEW q \in Seq(R), NEW k \in 1..Len(q), NEW u \in R, NEW v \in R,
           NEW r, r = Splice(q, k, u, v)
    PROVE  /\ r \in Seq(R) /\ k \in 1..Len(r) /\ r[k] = u
           /\ \A i \in 1..Len(r) : r[i] = u \/ r[i] = v \/ In(r[i], q)
<1> DEFINE l == SubSeq(q, 1, k - 1)
           e == SubSeq(q, k + 1, Len(q))
<1>1. Len(q) \in Nat /\ k \in Nat
  OBVIOUS
<1>2. l \in Seq(R) /\ Len(l) = k - 1 /\ \A i \in 1..(k - 1) : l[i] = q[i]
  BY <1>1
<1>3. e \in Seq(R) /\ Len(e) = Len(q) - k /\ \A i \in 1..(Len(q) - k) : e[i] = q[k + i]
  <2>1. CASE k = Len(q)
    BY <1>1, <2>1
  <2>2. CASE k < Len(q)
    BY <1>1, <2>2
  <2> QED
    BY <1>1, <2>1, <2>2
<1>4. r = Joining(l, u, v, e)
  BY DEF Splice
<1> HIDE DEF l, e
<1>5. (k - 1) + 1 = k /\ (\A j \in 1..(k - 1) : j \in 1..Len(q)) /\ \A j \in 1..(Len(q) - k) : k + j \in 1..Len(q)
  BY <1>1
<1>6. /\ r \in Seq(R) /\ k \in 1..Len(r) /\ r[k] = u
      /\ \A i \in 1..Len(r) : \/ r[i] = u \/ r[i] = v
                              \/ In(r[i], l) \/ In(r[i], e)
  <2>1. /\ r \in Seq(R) /\ Len(l) + 1 \in 1..Len(r) /\ r[Len(l) + 1] = u
        /\ \A i \in 1..Len(r) : \/ r[i] = u \/ r[i] = v
                                \/ In(r[i], l)
                                \/ In(r[i], e)
    <3>1. l \in Seq(R) /\ e \in Seq(R)
      BY <1>2, <1>3, Zenon
    <3> QED
      BY <1>4, <3>1, Joined
  <2>2. Len(l) + 1 = k
    BY <1>2, <1>5, Zenon
  <2> QED
    BY <2>1, <2>2, Zenon
<1>7. ASSUME NEW x, In(x, l) PROVE In(x, q)
  BY <1>2, <1>5, <1>7 DEF In
<1>8. ASSUME NEW x, In(x, e) PROVE In(x, q)
  BY <1>3, <1>5, <1>8 DEF In
<1> QED
  BY <1>6, <1>7, <1>8, Zenon

\* A split queue holds segments, none of them newly marked.
LEMMA SplitIs ==
    ASSUME BufOK, SndOK, NEW k \in 1..Len(inflight), ~inflight[k].sacked
    PROVE  /\ Split(k) \in Seq(Segs) /\ k \in 1..Len(Split(k))
           /\ \A i \in 1..Len(Split(k)) :
                /\ IsSeg(Split(k)[i], SentBytes)
                /\ Split(k)[i].sacked => \E j \in 1..Len(inflight) : Split(k)[i] = inflight[j]
<1> DEFINE s == inflight[k]
           u == [s EXCEPT !.data = SubSeq(s.data, 1, mss)]
           v == [seq |-> SeqAdd(s.seq, mss), data |-> SubSeq(s.data, mss + 1, Len(s.data)), sacked |-> FALSE]
<1>1. SentBytes \in 0..MaxBytes
  BY SentRange
<1>2. /\ inflight \in Seq(Segs) /\ \A i \in 1..Len(inflight) : IsSeg(inflight[i], SentBytes)
      /\ mss \in Nat /\ mss > 0
  BY RelAssumption DEF SndOK, Segs
<1>3. CASE Len(s.data) <= mss
  BY <1>2, <1>3 DEF Split
<1>4. CASE ~(Len(s.data) <= mss)
  <2>1. IsSeg(s, SentBytes) /\ s \in Segs /\ ~s.sacked
    BY <1>2
  <2>2. Len(s.data) \in Nat /\ s.data \in Seq(Nat)
    BY <2>1 DEF IsSeg
  <2>3. u.seq = s.seq /\ u.data = SubSeq(s.data, 1, mss) /\ ~u.sacked /\ u \in Segs
    <3>1. SubSeq(s.data, 1, mss) \in Seq(Nat)
      BY <1>2, <1>4, <2>2
    <3> QED
      BY <2>1, <3>1 DEF Segs
  <2>4. v.seq = SeqAdd(s.seq, mss) /\ v.data = SubSeq(s.data, mss + 1, Len(s.data)) /\ ~v.sacked
    OBVIOUS
  <2>5. Split(k) = Splice(inflight, k, u, v)
    BY <1>4 DEF Split, Joining, Splice
  <2> HIDE DEF s, u, v
  <2>6. IsSeg(u, SentBytes)
    <3>1. mss \in 1..Len(s.data)
      BY <1>2, <1>4, <2>2
    <3> QED
      BY <1>1, <2>1, <2>3, <3>1, CutHead
  <2>7. IsSeg(v, SentBytes)
    <3>1. mss < Len(s.data)
      BY <1>2, <1>4, <2>2
    <3> QED
      BY <1>1, <1>2, <2>1, <2>4, <3>1, CutTail
  <2>8. v \in Segs
    <3>1. v.seq \in Nat
      <4>1. SegOff(v) \in 0..MaxBytes /\ v.seq = SeqAdd(ISN, SegOff(v))
        BY <1>1, <2>7, SegRange DEF IsSeg
      <4>2. M \in Nat /\ ISN \in 0..(M - 1)
        BY RelAssumption
      <4> QED
        BY <4>1, <4>2, PlusIs
    <3>2. v.data \in Seq(Nat)
      BY <2>7 DEF IsSeg
    <3> QED
      BY <3>1, <3>2 DEF v, Segs
  <2>9. /\ Split(k) \in Seq(Segs) /\ k \in 1..Len(Split(k))
        /\ \A i \in 1..Len(Split(k)) :
              Split(k)[i] = u \/ Split(k)[i] = v \/ In(Split(k)[i], inflight)
    <3>1. inflight \in Seq(Segs) /\ u \in Segs /\ v \in Segs
      BY <1>2, <2>3, <2>8, Zenon
    <3> QED
      BY <2>5, <3>1, Spliced
  <2> QED
    BY <1>2, <2>3, <2>4, <2>6, <2>7, <2>9 DEF In
<1> QED
  BY <1>3, <1>4

\* Marking changes nothing but marks, and marks only what the block covers.
LEMMA ApplySackIs ==
    ASSUME BufOK, RcvOK, NEW p, AckOK(p),
           NEW q \in Seq(Segs), \A i \in 1..Len(q) : IsSeg(q[i], SentBytes)
    PROVE  /\ ApplySack(p, q) \in Seq(Segs) /\ Len(ApplySack(p, q)) = Len(q)
           /\ \A i \in 1..Len(q) :
                /\ IsSeg(ApplySack(p, q)[i], SentBytes)
                /\ SegOff(ApplySack(p, q)[i]) = SegOff(q[i]) /\ SegLast(ApplySack(p, q)[i]) = SegLast(q[i])
                /\ ApplySack(p, q)[i].sacked =>
                      q[i].sacked \/ \A b \in (SegOff(q[i]) + 1)..SegLast(q[i]) : Held(b)
<1>1. SentBytes \in 0..MaxBytes /\ MaxBytes \in Nat /\ Len(got) \in 0..MaxBytes
  BY SentRange, GotRange, RelAssumption
<1>2. CASE p.len = 0
  BY <1>2 DEF ApplySack
<1>3. CASE p.len # 0
  <2> DEFINE Hit(s) == /\ ~After(Block(p).from, s.seq)
                       /\ ~After(SegEnd(s), Block(p).to)
             r == [i \in 1..Len(q) |-> [q[i] EXCEPT !.sacked = @ \/ Hit(q[i])]]
  <2>1. ApplySack(p, q) = r
    BY <1>3 DEF ApplySack
  <2>2. PICK a \in 0..Len(got) :
              /\ p.ack = SeqAdd(ISN, a) /\ a + p.off + p.len <= MaxBytes
              /\ \A b \in (a + p.off + 1)..(a + p.off + p.len) : Held(b)
    BY <1>3 DEF AckOK
  <2>3. p.off \in Nat /\ p.len \in Nat /\ a \in 0..MaxBytes
    BY <1>1 DEF AckOK
  <2>4. Block(p).from = SeqAdd(ISN, a + p.off) /\ Block(p).to = SeqAdd(ISN, a + p.off + p.len)
    <3>1. p.off \in 0..MaxBytes /\ a + p.off <= MaxBytes /\ a + p.off \in 0..MaxBytes /\ p.len \in 0..MaxBytes
      BY <1>1, <2>2, <2>3
    <3>2. SeqAdd(p.ack, p.off) = SeqAdd(ISN, a + p.off)
      BY <2>2, <2>3, <3>1, PlusPlus
    <3>3. SeqAdd(SeqAdd(ISN, a + p.off), p.len) = SeqAdd(ISN, a + p.off + p.len)
      BY <2>2, <3>1, PlusPlus
    <3> QED
      BY <3>2, <3>3 DEF Block
  <2> HIDE DEF Hit
  <2>5. ASSUME NEW i \in 1..Len(q)
        PROVE  /\ r[i] \in Segs /\ r[i].seq = q[i].seq /\ r[i].data = q[i].data
               /\ r[i].sacked => q[i].sacked \/ Hit(q[i])
    <3>1. q[i] \in Segs /\ Hit(q[i]) \in BOOLEAN
      BY DEF Hit
    <3> DEFINE s == q[i]
    <3>2. r[i] = [s EXCEPT !.sacked = s.sacked \/ Hit(s)]
      OBVIOUS
    <3> HIDE DEF s, r
    <3> QED
      BY <3>1, <3>2 DEF Segs, s
  <2>6. r \in Seq(Segs) /\ Len(r) = Len(q)
    <3>1. r \in [1..Len(q) -> Segs] /\ Len(q) \in Nat
      BY <2>5
    <3> HIDE DEF r
    <3> QED
      BY <3>1, FunIsSeq
  <2> HIDE DEF r
  <2>7. ASSUME NEW i \in 1..Len(q), Hit(q[i]), NEW b \in (SegOff(q[i]) + 1)..SegLast(q[i]) PROVE Held(b)
    <3>1. /\ SegOff(q[i]) \in 0..MaxBytes /\ SegLast(q[i]) \in 1..MaxBytes
          /\ SegEnd(q[i]) = SeqAdd(ISN, SegLast(q[i])) /\ q[i].seq = SeqAdd(ISN, SegOff(q[i]))
      BY <1>1, SegRange DEF IsSeg
    <3>2. a + p.off \in 0..MaxBytes /\ a + p.off + p.len \in 0..MaxBytes /\ SegLast(q[i]) \in 0..MaxBytes
      <4>1. a + p.off \in 0..MaxBytes /\ a + p.off + p.len \in 0..MaxBytes
        BY <1>1, <2>2, <2>3
      <4>2. SegLast(q[i]) \in 0..MaxBytes
        BY <3>1
      <4> QED
        BY <4>1, <4>2
    <3>3. ~(a + p.off > SegOff(q[i]))
      BY <2>4, <2>7, <3>1, <3>2, AfterIs DEF Hit
    <3>4. ~(SegLast(q[i]) > a + p.off + p.len)
      BY <2>4, <2>7, <3>1, <3>2, AfterIs DEF Hit
    <3>5. b \in (a + p.off + 1)..(a + p.off + p.len)
      BY <2>3, <3>1, <3>2, <3>3, <3>4
    <3> QED
      BY <2>2, <3>5
  <2>8. ASSUME NEW i \in 1..Len(q)
        PROVE  IsSeg(r[i], SentBytes) /\ SegOff(r[i]) = SegOff(q[i]) /\ SegLast(r[i]) = SegLast(q[i])
    BY <2>5, SameSeg
  <2> QED
    BY <2>1, <2>5, <2>6, <2>7, <2>8
<1> QED
  BY <1>2, <1>3

-----------------------------------------------------------------------------
(* The steps. *)

\* Acknowledgements in transit stay true while more is received.
LEMMA AckKept ==
    ASSUME NEW p, AckOK(p), Len(got) \in Nat, Len(got') \in Nat, Len(got) <= Len(got'),
           \A b \in Int : Held(b) => Held(b)'
    PROVE  AckOK(p)'
<1>1. PICK a \in 0..Len(got) :
         /\ p.ack = SeqAdd(ISN, a)
         /\ p.len > 0 => /\ a + p.off + p.len <= MaxBytes
                         /\ \A b \in (a + p.off + 1)..(a + p.off + p.len) : Held(b)
  BY DEF AckOK
<1>2. a \in 0..Len(got')
  OBVIOUS
<1>3. p.wnd \in Int /\ p.off \in Nat /\ p.len \in Nat
  BY DEF AckOK
<1>4. \A b \in (a + p.off + 1)..(a + p.off + p.len) : b \in Int
  BY <1>1, <1>3
<1>5. p.len > 0 => \A b \in (a + p.off + 1)..(a + p.off + p.len) : Held(b)'
  BY <1>1, <1>4
<1> QED
  BY <1>1, <1>2, <1>3, <1>5 DEF AckOK

\* A step that leaves the receiver alone keeps what is held.
LEMMA HeldKept ==
    ASSUME UNCHANGED <<got, ooo>>, NEW b
    PROVE  Held(b)' = Held(b)
  BY DEF Held

\* The invariant holds in the beginning,
LEMMA InitOK == RelInit => RelInv
<1> SUFFICES ASSUME RelInit PROVE RelInv
  OBVIOUS
<1>1. MaxBytes \in Nat /\ M \in Nat /\ ISN \in 0..(M - 1) /\ Sizes \subseteq Nat
  BY RelAssumption
<1>2. sndBuf \in Seq(Nat) /\ Len(sndBuf) = MaxBytes /\ \A i \in 1..MaxBytes : sndBuf[i] = i
  <2>1. sndBuf = [i \in 1..MaxBytes |-> i]
    BY DEF RelInit
  <2>2. sndBuf \in [1..MaxBytes -> Nat]
    BY <1>1, <2>1
  <2> QED
    BY <1>1, <2>1, <2>2, FunIsSeq
<1>3. SentBytes = 0
  BY <1>1, <1>2 DEF SentBytes
<1>4. SeqAdd(ISN, 0) = ISN
  <2>1. 0 \in 0..MaxBytes
    BY <1>1
  <2> QED
    BY <1>1, <2>1, PlusIs
<1>5. BufOK
  BY <1>1, <1>2, <1>3, <1>4 DEF BufOK, RelInit
<1>6. RcvOK
  BY <1>3, <1>4 DEF RcvOK, RelInit
<1>7. SndOK
  BY <1>1, <1>4 DEF SndOK, RelInit
<1>8. NetOK /\ SackOK
  BY DEF NetOK, SackOK, RelInit
<1> QED
  BY <1>5, <1>6, <1>7, <1>8 DEF RelInv

\* and setMSS keeps it, as do:
LEMMA SetMSSOK ==
    ASSUME RelInv, NEW n \in Sizes, SetMSS(n)
    PROVE  RelInv'
<1>1. UNCHANGED <<sndBuf, sndUna, sndNxt, inflight, peerWnd, rcvVars, data, acks>> /\ mss' \in Sizes
  BY DEF SetMSS
<1> QED
  BY <1>1 DEF RelInv, BufOK, RcvOK, SndOK, NetOK, SackOK, AckOK, Held, SentBytes, rcvVars

\* What is in flight is a number of bytes.
LEMMA InflightInt ==
    ASSUME SndOK
    PROVE  InflightBytes \in Int
<1> DEFINE S == 1..Len(inflight)
           f == [i \in S |-> Len(inflight[i].data)]
<1>1. Len(inflight) \in Nat
  BY DEF SndOK
<1>2. IsFiniteSet(S)
  BY <1>1, FS_Interval
<1>3. \A i \in S : f[i] \in Int
  BY DEF SndOK
<1>4. DOMAIN f = S
  OBVIOUS
<1>5. InflightBytes = SumFunctionOnSet(f, S)
  BY <1>4 DEF InflightBytes, SumFunction, FoldFunction, SumFunctionOnSet
<1> HIDE DEF f, S
<1> QED
  BY <1>2, <1>3, <1>5, SumInt

\* next, when it cuts a new segment,
LEMMA NextNewOK ==
    ASSUME RelInv, NextNew
    PROVE  RelInv'
<1> DEFINE room == Least(peerWnd, MaxInflight) - InflightBytes
           n == Least(Least(Len(sndBuf), mss), room)
           d == SubSeq(sndBuf, 1, n)
           s == [seq |-> sndNxt, data |-> d, sacked |-> FALSE]
<1>1. /\ SentBytes \in 0..MaxBytes /\ Len(got) \in 0..MaxBytes /\ Len(sndBuf) \in Nat /\ MaxBytes \in Nat
      /\ M \in Nat /\ ISN \in 0..(M - 1) /\ Len(got) \in Nat
  BY SentRange, GotRange, RelAssumption DEF RelInv
<1>2. /\ room > 0 /\ sndBuf # <<>>
      /\ inflight' = Append(inflight, s) /\ sndBuf' = SubSeq(sndBuf, n + 1, Len(sndBuf))
      /\ sndNxt' = SeqAdd(sndNxt, n) /\ data' = data \cup {Segment(sndNxt, d)}
      /\ UNCHANGED <<mss, sndUna, peerWnd, rcvNxt, unread, ooo, got, acks>>
  BY DEF NextNew, rcvVars
<1>3. n \in 1..Len(sndBuf)
  <2>1. Len(sndBuf) > 0
    BY <1>1, <1>2 DEF RelInv, BufOK
  <2>2. mss \in Nat /\ mss > 0 /\ room \in Int
    BY InflightInt, RelAssumption DEF RelInv, SndOK, Least
  <2> HIDE DEF room
  <2> QED
    BY <1>1, <1>2, <2>1, <2>2 DEF Least
<1> HIDE DEF n
<1>4. n \in Nat /\ n > 0 /\ n <= Len(sndBuf)
  BY <1>1, <1>3
<1>5. sndBuf \in Seq(Nat) /\ sndNxt = SeqAdd(ISN, SentBytes) /\ \A i \in 1..Len(sndBuf) : sndBuf[i] = SentBytes + i
  BY DEF RelInv, BufOK
<1>6. d \in Seq(Nat) /\ Len(d) = n /\ \A i \in 1..n : d[i] = sndBuf[i]
  BY <1>3, <1>5, HeadIs
<1>7. /\ sndBuf' \in Seq(Nat) /\ Len(sndBuf') = Len(sndBuf) - n
      /\ \A i \in 1..(Len(sndBuf) - n) : sndBuf'[i] = sndBuf[n + i]
  <2>1. CASE n < Len(sndBuf)
    BY <1>2, <1>4, <1>5, <2>1, TailIs
  <2>2. CASE n = Len(sndBuf)
    BY <1>1, <1>2, <1>4, <1>5, <2>2
  <2> QED
    BY <1>1, <1>4, <2>1, <2>2
<1> HIDE DEF d
<1>8. SentBytes' = SentBytes + n /\ SentBytes' \in 0..MaxBytes /\ SentBytes <= SentBytes' /\ SentBytes \in Nat
  BY <1>1, <1>4, <1>7 DEF SentBytes
<1>9. ASSUME NEW t, t.seq = sndNxt, t.data = d PROVE IsSeg(t, SentBytes')
  <2>1. \A i \in 1..n : d[i] = SentBytes + i
    <3>1. \A i \in 1..n : i \in 1..Len(sndBuf)
      BY <1>1, <1>4
    <3> QED
      BY <1>5, <1>6, <3>1
  <2>2. SegOff(t) = SentBytes
    <3>1. 1 \in 1..n
      BY <1>4
    <3>2. t.data[1] = SentBytes + 1
      BY <1>9, <2>1, <3>1
    <3>3. SegOff(t) = t.data[1] - 1 /\ \A x \in Nat : (x + 1) - 1 = x
      BY DEF SegOff
    <3> QED
      BY <1>8, <3>2, <3>3, Zenon
  <2>3. SegLast(t) = SentBytes'
    BY <1>6, <1>8, <1>9, <2>2 DEF SegLast
  <2> QED
    BY <1>4, <1>5, <1>6, <1>8, <1>9, <2>1, <2>2, <2>3 DEF IsSeg
<1>10. \A t : IsSeg(t, SentBytes) => IsSeg(t, SentBytes')
  BY <1>1, <1>8, MoreSent
<1>11. BufOK'
  <2>1. \A i \in 1..Len(sndBuf') : sndBuf'[i] = SentBytes' + i
    <3> TAKE i \in 1..Len(sndBuf')
    <3>1. i \in 1..(Len(sndBuf) - n) /\ n + i \in 1..Len(sndBuf) /\ SentBytes + (n + i) = (SentBytes + n) + i
      BY <1>1, <1>4, <1>7
    <3> QED
      BY <1>5, <1>7, <1>8, <3>1
  <2>2. Len(sndBuf') <= MaxBytes
    BY <1>1, <1>4, <1>7 DEF RelInv, BufOK
  <2>3. sndNxt' = SeqAdd(ISN, SentBytes')
    <3>1. n \in 0..MaxBytes /\ SentBytes + n <= MaxBytes
      BY <1>1, <1>4, <1>8
    <3> QED
      BY <1>1, <1>2, <1>5, <1>8, <3>1, PlusPlus
  <2> QED
    BY <1>7, <2>1, <2>2, <2>3 DEF BufOK
<1>12. RcvOK'
  BY <1>1, <1>2, <1>8, <1>10 DEF RelInv, RcvOK
<1>13. s \in Segs /\ s.seq = sndNxt /\ s.data = d /\ ~s.sacked
  <2>1. sndNxt \in Nat
    BY <1>1, <1>5, PlusIs
  <2> QED
    BY <1>6, <2>1 DEF Segs
<1> HIDE DEF s
<1>14. /\ inflight \in Seq(Segs) /\ inflight' \in Seq(Segs)
       /\ \A k \in 1..Len(inflight') : inflight'[k] = s \/ (k \in 1..Len(inflight) /\ inflight'[k] = inflight[k])
  <2>1. inflight \in Seq(Segs)
    BY DEF RelInv, SndOK, Segs
  <2> QED
    BY <1>2, <1>13, <2>1
<1>15. SndOK'
  <2>1. \A k \in 1..Len(inflight') : IsSeg(inflight'[k], SentBytes')
    BY <1>9, <1>10, <1>13, <1>14 DEF RelInv, SndOK
  <2> QED
    BY <1>2, <1>14, <2>1 DEF RelInv, SndOK, Segs
<1>16. NetOK'
  <2>1. IsSeg(Segment(sndNxt, d), SentBytes')
    BY <1>9 DEF Segment
  <2>2. \A p \in acks : AckOK(p)'
    BY <1>2 DEF RelInv, NetOK, AckOK, Held
  <2> QED
    BY <1>2, <1>10, <2>1, <2>2 DEF RelInv, NetOK
<1>17. SackOK'
  BY <1>2, <1>13, <1>14 DEF RelInv, SackOK, Held
<1> QED
  BY <1>11, <1>12, <1>15, <1>16, <1>17 DEF RelInv

\* next, when it sends one again,
LEMMA NextResendOK ==
    ASSUME RelInv, NEW k \in 1..Len(inflight), NextResend(k)
    PROVE  RelInv'
<1>1. /\ ~inflight[k].sacked /\ inflight' = Split(k)
      /\ data' = data \cup {Segment(inflight'[k].seq, inflight'[k].data)}
      /\ UNCHANGED <<mss, sndBuf, sndUna, sndNxt, peerWnd, rcvNxt, unread, ooo, got, acks>>
  BY DEF NextResend, rcvVars
<1>2. /\ inflight' \in Seq(Segs) /\ k \in 1..Len(inflight')
      /\ \A i \in 1..Len(inflight') :
            /\ IsSeg(inflight'[i], SentBytes)
            /\ inflight'[i].sacked => \E j \in 1..Len(inflight) : inflight'[i] = inflight[j]
  BY <1>1, SplitIs DEF RelInv
<1>3. SentBytes' = SentBytes
  BY <1>1 DEF SentBytes
<1>4. BufOK' /\ RcvOK'
  BY <1>1, <1>3 DEF RelInv, BufOK, RcvOK
<1>5. SndOK'
  BY <1>1, <1>2, <1>3 DEF RelInv, SndOK, Segs
<1>6. NetOK'
  <2>1. IsSeg(Segment(inflight'[k].seq, inflight'[k].data), SentBytes)
    BY <1>2, SameSeg DEF Segment
  <2>2. \A p \in acks : AckOK(p)'
    BY <1>1 DEF RelInv, NetOK, AckOK, Held
  <2> QED
    BY <1>1, <1>3, <2>1, <2>2 DEF RelInv, NetOK
<1>7. SackOK'
  <2> SUFFICES ASSUME NEW i \in 1..Len(inflight'), inflight'[i].sacked
               PROVE  \A b \in (SegOff(inflight'[i]) + 1)..SegLast(inflight'[i]) : Held(b)'
    BY DEF SackOK
  <2>1. PICK j \in 1..Len(inflight) : inflight'[i] = inflight[j]
    BY <1>2
  <2> QED
    BY <1>1, <2>1, HeldKept DEF RelInv, SackOK
<1> QED
  BY <1>4, <1>5, <1>6, <1>7 DEF RelInv

\* recvAck,
LEMMA RecvAckOK ==
    ASSUME RelInv, NEW p \in acks, RecvAck(p)
    PROVE  RelInv'
<1>1. /\ acks' = acks \ {p} /\ peerWnd' = p.wnd
      /\ UNCHANGED <<mss, sndBuf, sndNxt, rcvNxt, unread, ooo, got, data>>
  BY DEF RecvAck, rcvVars, Window
<1>2. AckOK(p) /\ BufOK /\ RcvOK
  BY DEF RelInv, NetOK
<1>3. SentBytes' = SentBytes
  BY <1>1 DEF SentBytes
<1>4. /\ inflight \in Seq(Segs) /\ \A i \in 1..Len(inflight) : IsSeg(inflight[i], SentBytes)
  BY DEF RelInv, SndOK, Segs
<1>5. PICK q \in Seq(Segs) :
         /\ inflight' = ApplySack(p, q)
         /\ \A i \in 1..Len(q) : \E j \in 1..Len(inflight) : q[i] = inflight[j]
  <2>1. CASE inflight' = ApplySack(p, inflight)
    BY <1>4, <2>1
  <2>2. CASE inflight' = ApplySack(p, Kept(inflight, p.ack))
    <3>1. /\ Kept(inflight, p.ack) \in Seq(Segs)
          /\ \A j \in 1..Len(Kept(inflight, p.ack)) : \E k \in 1..Len(inflight) : Kept(inflight, p.ack)[j] = inflight[k]
      BY <1>4, KeptIs
    <3> QED
      BY <2>2, <3>1
  <2> QED
    BY <2>1, <2>2 DEF RecvAck
<1>6. \A i \in 1..Len(q) : IsSeg(q[i], SentBytes)
  BY <1>4, <1>5
<1>7. /\ inflight' \in Seq(Segs) /\ Len(inflight') = Len(q)
      /\ \A i \in 1..Len(q) :
           /\ IsSeg(inflight'[i], SentBytes)
           /\ SegOff(inflight'[i]) = SegOff(q[i]) /\ SegLast(inflight'[i]) = SegLast(q[i])
           /\ inflight'[i].sacked =>
                 q[i].sacked \/ \A b \in (SegOff(q[i]) + 1)..SegLast(q[i]) : Held(b)
  BY <1>2, <1>5, <1>6, ApplySackIs
<1>8. BufOK' /\ RcvOK'
  BY <1>1, <1>3 DEF RelInv, BufOK, RcvOK
<1>9. SndOK'
  <2>1. \E u \in 0..Len(got') : sndUna' = SeqAdd(ISN, u)
    <3>1. sndUna' = p.ack \/ sndUna' = sndUna
      BY DEF RecvAck
    <3>2. \E u \in 0..Len(got) : p.ack = SeqAdd(ISN, u)
      BY <1>2 DEF AckOK
    <3>3. \E u \in 0..Len(got) : sndUna = SeqAdd(ISN, u)
      BY DEF RelInv, SndOK
    <3> QED
      BY <1>1, <3>1, <3>2, <3>3
  <2>2. \A k \in 1..Len(inflight') : IsSeg(inflight'[k], SentBytes')
    BY <1>3, <1>7
  <2>3. mss' \in Sizes /\ peerWnd' \in Int
    BY <1>1, <1>2 DEF RelInv, SndOK, AckOK
  <2> QED
    BY <1>7, <2>1, <2>2, <2>3 DEF SndOK, Segs
<1>10. NetOK'
  <2>1. \A a \in acks : AckOK(a)'
    BY <1>1 DEF RelInv, NetOK, AckOK, Held
  <2> QED
    BY <1>1, <1>3, <2>1 DEF RelInv, NetOK
<1>11. SackOK'
  <2> SUFFICES ASSUME NEW i \in 1..Len(inflight'), inflight'[i].sacked
               PROVE  \A b \in (SegOff(inflight'[i]) + 1)..SegLast(inflight'[i]) : Held(b)
    BY <1>1, HeldKept DEF SackOK
  <2>1. PICK j \in 1..Len(inflight) : q[i] = inflight[j]
    BY <1>5, <1>7
  <2>2. inflight[j].sacked => \A b \in (SegOff(inflight[j]) + 1)..SegLast(inflight[j]) : Held(b)
    BY DEF RelInv, SackOK
  <2> QED
    BY <1>7, <2>1, <2>2
<1> QED
  BY <1>8, <1>9, <1>10, <1>11 DEF RelInv

\* What the receiver takes, once or again.
LEMMA ArrivesOK ==
    ASSUME RelInv, NEW s \in data, Receive(s), UNCHANGED <<sndVars, acks>>, data' \subseteq data
    PROVE  RelInv'
<1>1. UNCHANGED <<mss, sndBuf, sndUna, sndNxt, inflight, peerWnd>> /\ SentBytes' = SentBytes
  BY DEF sndVars, SentBytes
<1>2. RcvOK' /\ Len(got) <= Len(got') /\ \A b \in Int : Held(b) => Held(b)'
  <2>1. BufOK /\ RcvOK /\ IsSeg(s, SentBytes)
    BY DEF RelInv, NetOK
  <2> QED
    BY <1>1, <2>1, ReceiveOK
<1>3. Len(got) \in Nat /\ Len(got') \in Nat
  BY <1>2 DEF RelInv, RcvOK
<1>4. BufOK'
  BY <1>1 DEF RelInv, BufOK, SentBytes
<1>5. SndOK'
  <2>1. \E u \in 0..Len(got') : sndUna = SeqAdd(ISN, u)
    BY <1>2, <1>3 DEF RelInv, SndOK
  <2> QED
    BY <1>1, <2>1 DEF RelInv, SndOK
<1>6. NetOK'
  <2>1. \A p \in acks : AckOK(p)'
    BY <1>2, <1>3, AckKept DEF RelInv, NetOK
  <2> QED
    BY <1>1, <2>1 DEF RelInv, NetOK
<1>7. SackOK'
  <2> SUFFICES ASSUME NEW k \in 1..Len(inflight), inflight[k].sacked,
                      NEW b \in (SegOff(inflight[k]) + 1)..SegLast(inflight[k])
               PROVE  Held(b)'
    BY <1>1 DEF SackOK
  <2>1. b \in Int
    BY DEF RelInv, SndOK, IsSeg, SegLast
  <2> QED
    BY <1>2, <2>1 DEF RelInv, SackOK
<1> QED
  BY <1>2, <1>4, <1>5, <1>6, <1>7 DEF RelInv

\* Read,
LEMMA ReadOK ==
    ASSUME RelInv, Read
    PROVE  RelInv'
<1>1. UNCHANGED <<mss, sndBuf, sndUna, sndNxt, inflight, peerWnd, rcvNxt, ooo, got, data, acks>> /\ unread' \in Int
  BY DEF Read, sndVars, RelInv, RcvOK
<1> QED
  BY <1>1 DEF RelInv, BufOK, RcvOK, SndOK, NetOK, SackOK, AckOK, Held, SentBytes

\* the acknowledgement that goes out,
LEMMA NextAckOK ==
    ASSUME RelInv, NextAck
    PROVE  RelInv'
<1> DEFINE p == [ack |-> rcvNxt, wnd |-> RecvBuf - unread, off |-> SackBlock.off, len |-> SackBlock.len]
<1>1. /\ UNCHANGED <<mss, sndBuf, sndUna, sndNxt, inflight, peerWnd, rcvNxt, unread, ooo, got, data>>
      /\ acks' = acks \cup {p}
  BY DEF NextAck, sndVars, rcvVars
<1>2. AckOK(p)
  <2>1. BufOK /\ RcvOK
    BY DEF RelInv
  <2>2. RecvBuf - unread \in Int /\ rcvNxt = SeqAdd(ISN, Len(got)) /\ Len(got) \in 0..Len(got)
    BY <2>1, RelAssumption DEF RcvOK
  <2>3. p.ack = rcvNxt /\ p.wnd = RecvBuf - unread /\ p.off = SackBlock.off /\ p.len = SackBlock.len
    OBVIOUS
  <2> HIDE DEF p
  <2> QED
    BY <2>1, <2>2, <2>3, SackIs DEF AckOK
<1> HIDE DEF p
<1>3. \A a \in acks' : AckOK(a)'
  BY <1>1, <1>2 DEF RelInv, NetOK, AckOK, Held
<1> QED
  BY <1>1, <1>3 DEF RelInv, BufOK, RcvOK, SndOK, NetOK, SackOK, Held, SentBytes

\* a datagram that is lost,
LEMMA LoseOK ==
    ASSUME RelInv, Lose
    PROVE  RelInv'
<1>1. /\ UNCHANGED <<mss, sndBuf, sndUna, sndNxt, inflight, peerWnd, rcvNxt, unread, ooo, got>>
      /\ data' \subseteq data /\ acks' \subseteq acks
  BY DEF Lose, sndVars, rcvVars
<1> QED
  BY <1>1 DEF RelInv, BufOK, RcvOK, SndOK, NetOK, SackOK, AckOK, Held, SentBytes

\* a step of somebody else,
LEMMA StutterOK ==
    ASSUME RelInv, UNCHANGED relVars
    PROVE  RelInv'
  BY DEF RelInv, BufOK, RcvOK, SndOK, NetOK, SackOK, AckOK, Held, SentBytes, relVars, sndVars, rcvVars

\* and so every step.
LEMMA StepOK == RelInv /\ [RelNext]_relVars => RelInv'
<1> SUFFICES ASSUME RelInv, [RelNext]_relVars PROVE RelInv'
  OBVIOUS
<1>1. ASSUME NEW n \in Sizes, SetMSS(n) PROVE RelInv'
  BY <1>1, SetMSSOK
<1>2. ASSUME NextNew PROVE RelInv'
  BY <1>2, NextNewOK
<1>3. ASSUME NEW k \in 1..Len(inflight), NextResend(k) PROVE RelInv'
  BY <1>3, NextResendOK
<1>4. ASSUME NEW p \in acks, RecvAck(p) PROVE RelInv'
  BY <1>4, RecvAckOK
<1>5. ASSUME NEW s \in data, RecvData(s) PROVE RelInv'
  BY <1>5, ArrivesOK DEF RecvData
<1>6. ASSUME NEW s \in data, Repeat(s) PROVE RelInv'
  BY <1>6, ArrivesOK DEF Repeat
<1>7. ASSUME Read PROVE RelInv'
  BY <1>7, ReadOK
<1>8. ASSUME NextAck PROVE RelInv'
  BY <1>8, NextAckOK
<1>9. ASSUME Lose PROVE RelInv'
  BY <1>9, LoseOK
<1>10. ASSUME UNCHANGED relVars PROVE RelInv'
  BY <1>10, StutterOK
<1> QED
  BY <1>1, <1>2, <1>3, <1>4, <1>5, <1>6, <1>7, <1>8, <1>9, <1>10 DEF RelNext

\* The reliable stream delivers what was written, in order, each byte once.
THEOREM StreamInOrder == RelSpec => []InOrder
<1>1. RelInv => InOrder
  BY InvImplies
<1> QED
  BY <1>1, InitOK, StepOK, PTL DEF RelSpec

\* A segment that is marked as held by the peer is held.
THEOREM SackedSegmentsHeld == RelSpec => []SackedIsHeld
<1>1. RelInv => SackedIsHeld
  BY InvImplies
<1> QED
  BY <1>1, InitOK, StepOK, PTL DEF RelSpec
===============================================================================
