-------------------------- MODULE RingBufferProofs --------------------------
(* What one call of RingBuffer<T>::Add does to a ring and to its window, and   *)
(* what Avg adds up, for every capacity and every set of samples.              *)
EXTENDS RingBuffer, Sequences, Folds, FiniteSetTheorems, WellFoundedInduction, TLAPS

-----------------------------------------------------------------------------
(* Sums.  SumFunctionOnSet takes the elements of a set one by one, by a        *)
(* recursive function; what it computes is shown by way of a smallest set for  *)
(* which it would not.                                                         *)

\* A non-empty set of finite sets has a smallest one.
LEMMA SmallestSet ==
  ASSUME NEW S, IsFiniteSet(S), NEW F \in SUBSET (SUBSET S), F # {}
  PROVE  \E T \in F : \A U \in F : U \subseteq T => U = T
<1>1. IsWellFoundedOn(StrictSubsetOrdering(S), SUBSET S)
  BY FS_StrictSubsetOrderingWellFounded, FS_FiniteSubsetsOfFinite
<1>2. PICK T \in F : \A U \in F : <<U, T>> \notin StrictSubsetOrdering(S)
  BY <1>1, WFMin
<1> QED
  BY <1>2 DEF StrictSubsetOrdering

\* The same for a set of natural numbers.
LEMMA SmallestNumber ==
  ASSUME NEW F \in SUBSET Nat, F # {}
  PROVE  \E m \in F : \A n \in F : m <= n
<1>1. PICK m \in F : \A n \in F : <<n, m>> \notin OpToRel(<, Nat)
  BY NatLessThanWellFounded, WFMin
<1>2. \A n \in F : ~(n < m)
  BY <1>1 DEF OpToRel
<1> QED
  BY <1>2

Any(s) == CHOOSE x \in s : TRUE

\* g holds the sums of f over the subsets of S.
Sums(f, S, g) == g = [s \in SUBSET S |-> IF s = {} THEN 0 ELSE f[Any(s)] + g[s \ {Any(s)}]]
SumsOf(f, S) == CHOOSE g : Sums(f, S, g)

\* This is how SumFunctionOnSet is defined.
LEMMA SumIsChosen ==
  ASSUME NEW f, NEW S
  PROVE  SumFunctionOnSet(f, S) = SumsOf(f, S)[S]
BY Zenon DEF SumFunctionOnSet, FoldFunctionOnSet, MapThenFoldSet, SumsOf, Sums, Any

\* The value of such sums at one set.
LEMMA SumsValue ==
  ASSUME NEW f, NEW S, NEW g, Sums(f, S, g), NEW T \in SUBSET S
  PROVE  /\ T = {} => g[T] = 0
         /\ T # {} => /\ Any(T) \in T
                      /\ g[T] = f[Any(T)] + g[T \ {Any(T)}]
<1>1. g[T] = IF T = {} THEN 0 ELSE f[Any(T)] + g[T \ {Any(T)}]
  BY Zenon DEF Sums
<1>2. T # {} => Any(T) \in T
  BY DEF Any
<1> QED
  BY <1>1, <1>2

\* The sums over the subsets of two sets agree where both have one.
LEMMA SumsAgree ==
  ASSUME NEW f, NEW S, NEW T, IsFiniteSet(S), NEW g, Sums(f, S, g), NEW h, Sums(f, T, h),
         NEW U \in SUBSET (S \cap T)
  PROVE  g[U] = h[U]
<1>1. \A V \in SUBSET S : /\ V = {} => g[V] = 0
                          /\ V # {} => Any(V) \in V /\ g[V] = f[Any(V)] + g[V \ {Any(V)}]
  BY SumsValue
<1>2. \A V \in SUBSET T : /\ V = {} => h[V] = 0
                          /\ V # {} => Any(V) \in V /\ h[V] = f[Any(V)] + h[V \ {Any(V)}]
  BY SumsValue
<1> DEFINE F == {V \in SUBSET (S \cap T) : g[V] # h[V]}
<1> SUFFICES ASSUME F # {} PROVE FALSE
  OBVIOUS
<1>3. PICK V \in F : \A W \in F : W \subseteq V => W = V
  <2>1. F \in SUBSET (SUBSET S)
    OBVIOUS
  <2> HIDE DEF F
  <2> QED
    BY <2>1, SmallestSet
<1>4. V \in SUBSET S /\ V \in SUBSET T /\ g[V] # h[V]
  OBVIOUS
<1>5. V # {} /\ Any(V) \in V
  BY <1>1, <1>2, <1>4, Zenon
<1>6. g[V \ {Any(V)}] = h[V \ {Any(V)}]
  BY <1>3, <1>5
<1> QED
  BY <1>1, <1>2, <1>4, <1>5, <1>6, Zenon

\* A finite set has sums.
LEMMA SumsExist ==
  ASSUME NEW f, NEW S, IsFiniteSet(S)
  PROVE  Sums(f, S, SumsOf(f, S))
<1> DEFINE F == {T \in SUBSET S : ~ \E g : Sums(f, T, g)}
<1>1. SUFFICES F = {}
  <2>1. \E g : Sums(f, S, g)
    BY <1>1
  <2> QED
    BY <2>1, Zenon DEF SumsOf
<1> SUFFICES ASSUME F # {} PROVE FALSE
  OBVIOUS
<1>2. PICK T \in F : \A U \in F : U \subseteq T => U = T
  <2>1. F \in SUBSET (SUBSET S)
    OBVIOUS
  <2> HIDE DEF F
  <2> QED
    BY <2>1, SmallestSet
<1>3. \A U \in SUBSET T : U # T => Sums(f, U, SumsOf(f, U))
  <2> SUFFICES ASSUME NEW U \in SUBSET T, U # T PROVE Sums(f, U, SumsOf(f, U))
    OBVIOUS
  <2>1. U \notin F /\ U \in SUBSET S
    BY <1>2
  <2>2. \E g : Sums(f, U, g)
    BY <2>1
  <2> QED
    BY <2>2, Zenon DEF SumsOf
<1> DEFINE rest(s) == s \ {Any(s)}
           value(s) == IF s = {} THEN 0 ELSE f[Any(s)] + SumsOf(f, rest(s))[rest(s)]
           g == [s \in SUBSET T |-> value(s)]
<1>4. \A u \in SUBSET T : u # T => SumsOf(f, u)[u] = g[u]
  <2> SUFFICES ASSUME NEW u \in SUBSET T, u # T PROVE SumsOf(f, u)[u] = g[u]
    OBVIOUS
  <2>1. IsFiniteSet(u) /\ Sums(f, u, SumsOf(f, u)) /\ u \in SUBSET u
    BY <1>3, FS_Subset
  <2>2. /\ u = {} => SumsOf(f, u)[u] = 0
        /\ u # {} => Any(u) \in u /\ SumsOf(f, u)[u] = f[Any(u)] + SumsOf(f, u)[rest(u)]
    BY <2>1, SumsValue
  <2>3. g[u] = value(u)
    OBVIOUS
  <2>4. u # {} => SumsOf(f, u)[rest(u)] = SumsOf(f, rest(u))[rest(u)]
    <3> SUFFICES ASSUME u # {} PROVE SumsOf(f, u)[rest(u)] = SumsOf(f, rest(u))[rest(u)]
      OBVIOUS
    <3>1. rest(u) \in SUBSET T /\ rest(u) # T /\ rest(u) \in SUBSET (u \cap rest(u))
      BY <2>2
    <3>2. Sums(f, rest(u), SumsOf(f, rest(u)))
      BY <1>3, <3>1
    <3> HIDE DEF rest
    <3> QED
      BY <2>1, <3>1, <3>2, SumsAgree
  <2> HIDE DEF rest, g
  <2> QED
    BY <2>2, <2>3, <2>4, Zenon
<1>5. Sums(f, T, g)
  <2>1. \A s \in SUBSET T : value(s) = IF s = {} THEN 0 ELSE f[Any(s)] + g[s \ {Any(s)}]
    <3> SUFFICES ASSUME NEW s \in SUBSET T, s # {}
                 PROVE  SumsOf(f, rest(s))[rest(s)] = g[rest(s)]
      BY Zenon
    <3>1. rest(s) \in SUBSET T /\ rest(s) # T
      BY DEF Any
    <3> HIDE DEF rest, g
    <3> QED
      BY <1>4, <3>1
  <2> HIDE DEF value
  <2>2. g = [s \in SUBSET T |-> IF s = {} THEN 0 ELSE f[Any(s)] + g[s \ {Any(s)}]]
    BY <2>1, Zenon
  <2> QED
    BY <2>2 DEF Sums
<1> QED
  BY <1>2, <1>5

\* No elements, no sum.
LEMMA SumEmpty == ASSUME NEW f PROVE SumFunctionOnSet(f, {}) = 0
<1>1. Sums(f, {}, SumsOf(f, {})) /\ {} \in SUBSET {}
  BY SumsExist, FS_EmptySet
<1>2. SumsOf(f, {})[{}] = 0
  BY <1>1, SumsValue
<1> QED
  BY <1>2, SumIsChosen

\* One element more.
LEMMA SumOfChosen ==
  ASSUME NEW f, NEW S, IsFiniteSet(S), S # {}
  PROVE  /\ Any(S) \in S
         /\ SumFunctionOnSet(f, S) = f[Any(S)] + SumFunctionOnSet(f, S \ {Any(S)})
<1> DEFINE R == S \ {Any(S)}
<1>1. Sums(f, S, SumsOf(f, S)) /\ S \in SUBSET S
  BY SumsExist
<1>2. Any(S) \in S /\ SumsOf(f, S)[S] = f[Any(S)] + SumsOf(f, S)[R]
  BY <1>1, SumsValue
<1>3. Sums(f, R, SumsOf(f, R)) /\ R \in SUBSET (S \cap R)
  BY SumsExist, FS_RemoveElement
<1> HIDE DEF R
<1>4. SumsOf(f, S)[R] = SumsOf(f, R)[R]
  BY <1>1, <1>3, SumsAgree
<1> QED
  BY <1>2, <1>4, SumIsChosen, Zenon DEF R

\* Equal values have equal sums.
LEMMA SumOfEqual ==
  ASSUME NEW f, NEW h, NEW S, IsFiniteSet(S), \A x \in S : f[x] = h[x]
  PROVE  SumFunctionOnSet(f, S) = SumFunctionOnSet(h, S)
<1> DEFINE F == {T \in SUBSET S : SumFunctionOnSet(f, T) # SumFunctionOnSet(h, T)}
<1>1. F \in SUBSET (SUBSET S)
  OBVIOUS
<1>2. \A T \in F : \E U \in F : U \subseteq T /\ U # T
  <2> SUFFICES ASSUME NEW T \in F PROVE \E U \in F : U \subseteq T /\ U # T
    OBVIOUS
  <2> DEFINE U == T \ {Any(T)}
  <2>1. T \in SUBSET S /\ IsFiniteSet(T) /\ SumFunctionOnSet(f, T) # SumFunctionOnSet(h, T)
    BY FS_Subset
  <2>2. T # {}
    BY <2>1, SumEmpty
  <2>3. /\ Any(T) \in T
        /\ SumFunctionOnSet(f, T) = f[Any(T)] + SumFunctionOnSet(f, U)
        /\ SumFunctionOnSet(h, T) = h[Any(T)] + SumFunctionOnSet(h, U)
    BY <2>1, <2>2, SumOfChosen
  <2>4. f[Any(T)] = h[Any(T)]
    BY <2>1, <2>3
  <2>5. SumFunctionOnSet(f, U) # SumFunctionOnSet(h, U)
    BY <2>1, <2>3, <2>4, Zenon
  <2> QED
    BY <2>1, <2>3, <2>5
<1> HIDE DEF F
<1>3. F = {}
  BY <1>1, <1>2, SmallestSet
<1> QED
  BY <1>3 DEF F

\* A sum of values of a set that is closed under addition is in that set.
LEMMA SumStaysIn ==
  ASSUME NEW f, NEW S, IsFiniteSet(S),
         NEW N, 0 \in N, \A a, b \in N : a + b \in N, \A x \in S : f[x] \in N
  PROVE  SumFunctionOnSet(f, S) \in N
<1> DEFINE F == {T \in SUBSET S : SumFunctionOnSet(f, T) \notin N}
<1>1. F \in SUBSET (SUBSET S)
  OBVIOUS
<1>2. \A T \in F : \E U \in F : U \subseteq T /\ U # T
  <2> SUFFICES ASSUME NEW T \in F PROVE \E U \in F : U \subseteq T /\ U # T
    OBVIOUS
  <2> DEFINE U == T \ {Any(T)}
  <2>1. T \in SUBSET S /\ IsFiniteSet(T) /\ SumFunctionOnSet(f, T) \notin N
    BY FS_Subset
  <2>2. T # {}
    BY <2>1, SumEmpty
  <2>3. Any(T) \in T /\ SumFunctionOnSet(f, T) = f[Any(T)] + SumFunctionOnSet(f, U)
    BY <2>1, <2>2, SumOfChosen
  <2>4. f[Any(T)] \in N
    BY <2>1, <2>3
  <2>5. SumFunctionOnSet(f, U) \notin N
    BY <2>1, <2>3, <2>4
  <2> QED
    BY <2>1, <2>3, <2>5
<1> HIDE DEF F
<1>3. F = {}
  BY <1>1, <1>2, SmallestSet
<1> QED
  BY <1>3 DEF F

\* A sum of integers is an integer.
LEMMA SumType ==
  ASSUME NEW f, NEW S, IsFiniteSet(S), \A x \in S : f[x] \in Int
  PROVE  SumFunctionOnSet(f, S) \in Int
<1>1. 0 \in Int /\ \A a, b \in Int : a + b \in Int
  OBVIOUS
<1> QED
  BY <1>1, SumStaysIn

\* A sum of natural numbers is a natural number.
LEMMA SumOfNaturals ==
  ASSUME NEW f, NEW S, IsFiniteSet(S), \A x \in S : f[x] \in Nat
  PROVE  SumFunctionOnSet(f, S) \in Nat
<1>1. 0 \in Nat /\ \A a, b \in Nat : a + b \in Nat
  OBVIOUS
<1> QED
  BY <1>1, SumStaysIn

\* The order does not matter: any element may be taken first.
LEMMA SumRemove ==
  ASSUME NEW f, NEW S, IsFiniteSet(S), \A x \in S : f[x] \in Int, NEW x \in S
  PROVE  SumFunctionOnSet(f, S) = f[x] + SumFunctionOnSet(f, S \ {x})
<1> DEFINE F == {T \in SUBSET S : \E y \in T :
                   SumFunctionOnSet(f, T) # f[y] + SumFunctionOnSet(f, T \ {y})}
<1>1. F \in SUBSET (SUBSET S)
  OBVIOUS
<1>2. \A T \in F : \E U \in F : U \subseteq T /\ U # T
  <2> SUFFICES ASSUME NEW T \in F, \A U \in F : U \subseteq T => U = T PROVE FALSE
    OBVIOUS
  <2>1. T \in SUBSET S /\ IsFiniteSet(T)
    BY FS_Subset
  <2>2. PICK y \in T : SumFunctionOnSet(f, T) # f[y] + SumFunctionOnSet(f, T \ {y})
    OBVIOUS
  <2> DEFINE a == Any(T)
             Y == T \ {y}
             A == T \ {a}
             B == A \ {y}
  <2>3. a \in T /\ SumFunctionOnSet(f, T) = f[a] + SumFunctionOnSet(f, A)
    BY <2>1, <2>2, SumOfChosen
  <2>4. a # y
    BY <2>2, <2>3
  <2>5. A \notin F /\ Y \notin F
    BY <2>2, <2>3
  <2>6. SumFunctionOnSet(f, A) = f[y] + SumFunctionOnSet(f, A \ {y})
    BY <2>1, <2>2, <2>4, <2>5
  <2>7. SumFunctionOnSet(f, Y) = f[a] + SumFunctionOnSet(f, Y \ {a})
    BY <2>1, <2>3, <2>4, <2>5
  <2>8. Y \ {a} = A \ {y} /\ IsFiniteSet(A \ {y})
    BY <2>1, FS_RemoveElement
  <2>9. SumFunctionOnSet(f, A \ {y}) \in Int /\ f[a] \in Int /\ f[y] \in Int
    <3>1. f[a] \in Int /\ f[y] \in Int /\ \A z \in A \ {y} : f[z] \in Int
      BY <2>1, <2>3
    <3> QED
      BY <2>8, <3>1, SumType
  <2>10. SumFunctionOnSet(f, Y) = f[a] + SumFunctionOnSet(f, A \ {y})
    BY <2>7, <2>8, Zenon
  <2>11. SumFunctionOnSet(f, T) # f[y] + SumFunctionOnSet(f, Y)
    BY <2>2
  <2> HIDE DEF A, Y, a, F
  <2> QED
    BY <2>3, <2>6, <2>9, <2>10, <2>11
<1> HIDE DEF F
<1>3. F = {}
  BY <1>1, <1>2, SmallestSet
<1> QED
  BY <1>3 DEF F

\* The sum over two sets that have nothing in common.
LEMMA SumUnion ==
  ASSUME NEW f, NEW S, NEW T, IsFiniteSet(S), IsFiniteSet(T), S \cap T = {},
         \A x \in S \cup T : f[x] \in Int
  PROVE  SumFunctionOnSet(f, S \cup T) = SumFunctionOnSet(f, S) + SumFunctionOnSet(f, T)
<1> DEFINE F == {U \in SUBSET T :
                   SumFunctionOnSet(f, S \cup U) # SumFunctionOnSet(f, S) + SumFunctionOnSet(f, U)}
<1>1. F \in SUBSET (SUBSET T)
  OBVIOUS
<1>2. \A U \in F : \E V \in F : V \subseteq U /\ V # U
  <2> SUFFICES ASSUME NEW U \in F PROVE \E V \in F : V \subseteq U /\ V # U
    OBVIOUS
  <2>1. /\ U \in SUBSET T /\ IsFiniteSet(U) /\ IsFiniteSet(S \cup U)
        /\ SumFunctionOnSet(f, S \cup U) # SumFunctionOnSet(f, S) + SumFunctionOnSet(f, U)
    BY FS_Subset, FS_Union
  <2>2. SumFunctionOnSet(f, S) \in Int
    BY SumType
  <2>3. U # {}
    <3> SUFFICES ASSUME U = {} PROVE FALSE
      OBVIOUS
    <3>1. S \cup U = S /\ SumFunctionOnSet(f, U) = 0
      BY SumEmpty
    <3> QED
      BY <2>1, <2>2, <3>1
  <2> PICK y \in U : TRUE
    BY <2>3
  <2> DEFINE V == U \ {y}
  <2>4. IsFiniteSet(V) /\ IsFiniteSet(S \cup V) /\ (S \cup U) \ {y} = S \cup V /\ f[y] \in Int
    <3>1. IsFiniteSet(V)
      BY <2>1, FS_RemoveElement
    <3>2. IsFiniteSet(S \cup V)
      BY <3>1, FS_Union
    <3> QED
      BY <2>1, <3>1, <3>2
  <2>5. SumFunctionOnSet(f, U) = f[y] + SumFunctionOnSet(f, V)
    <3>1. \A z \in U : f[z] \in Int
      BY <2>1
    <3> QED
      BY <2>1, <3>1, SumRemove
  <2>6. SumFunctionOnSet(f, S \cup U) = f[y] + SumFunctionOnSet(f, S \cup V)
    <3>1. (\A z \in S \cup U : f[z] \in Int) /\ y \in S \cup U
      BY <2>1
    <3>2. SumFunctionOnSet(f, S \cup U) = f[y] + SumFunctionOnSet(f, (S \cup U) \ {y})
      BY <2>1, <3>1, SumRemove
    <3> QED
      BY <2>4, <3>2, Zenon
  <2>7. SumFunctionOnSet(f, V) \in Int /\ SumFunctionOnSet(f, S \cup V) \in Int
    <3>1. (\A z \in V : f[z] \in Int) /\ (\A z \in S \cup V : f[z] \in Int)
      BY <2>1
    <3> QED
      BY <2>4, <3>1, SumType
  <2>8. V \in SUBSET T /\ V \subseteq U /\ V # U
    BY <2>1
  <2>9. SumFunctionOnSet(f, S \cup V) # SumFunctionOnSet(f, S) + SumFunctionOnSet(f, V)
    <3> HIDE DEF V
    <3> QED
      BY <2>1, <2>2, <2>4, <2>5, <2>6, <2>7
  <2> QED
    BY <2>8, <2>9
<1> HIDE DEF F
<1>3. F = {}
  BY <1>1, <1>2, SmallestSet
<1> QED
  BY <1>3 DEF F

\* The sum over an interval grows by its last element.
LEMMA SumOfLast ==
  ASSUME NEW f, NEW a \in Int, NEW b \in Int, a <= b, \A k \in a .. b : f[k] \in Int
  PROVE  SumFunctionOnSet(f, a .. b) = f[b] + SumFunctionOnSet(f, a .. b - 1)
<1>1. IsFiniteSet(a .. b) /\ b \in a .. b /\ (a .. b) \ {b} = a .. b - 1
  BY FS_Interval
<1>2. SumFunctionOnSet(f, a .. b) = f[b] + SumFunctionOnSet(f, (a .. b) \ {b})
  BY <1>1, SumRemove
<1> QED
  BY <1>1, <1>2, Zenon

\* h has the values of f between a and b, e places further on.
Moved(f, a, b, e, h) == \A k \in a .. b : f[k] \in Int /\ h[k + e] = f[k]

\* The same values, stored further on, have the same sum.
LEMMA SumOfMoved ==
  ASSUME NEW f, NEW h, NEW a \in Int, NEW b \in Int, NEW e \in Int, NEW c \in Int, NEW d \in Int,
         a <= b + 1, c = a + e, d = b + e,
         Moved(f, a, b, e, h)
  PROVE  SumFunctionOnSet(f, a .. b) = SumFunctionOnSet(h, c .. d)
<1> USE DEF Moved
<1> DEFINE n == b - a + 1
           Equal(m) == SumFunctionOnSet(f, a .. a + m - 1) = SumFunctionOnSet(h, c .. c + m - 1)
           F == {m \in 0 .. n : ~Equal(m)}
<1>n. n \in Nat /\ a + n - 1 = b /\ c + n - 1 = d
  OBVIOUS
<1> HIDE DEF Equal, n
<1>0. SUFFICES ASSUME F # {} PROVE FALSE
  <2>1. n \in 0 .. n /\ n \notin F
    BY <1>0, <1>n
  <2>2. Equal(n)
    BY <2>1
  <2> QED
    BY <1>n, <2>2, Zenon DEF Equal
<1>1. PICK m \in F : \A k \in F : m <= k
  <2>1. F \in SUBSET Nat
    BY <1>n
  <2> HIDE DEF F
  <2> QED
    BY <1>0, <2>1, SmallestNumber
<1>2. Equal(0)
  <2>1. a .. a + 0 - 1 = {} /\ c .. c + 0 - 1 = {}
    OBVIOUS
  <2> QED
    BY <2>1, SumEmpty, Zenon DEF Equal
<1>3. m \in 1 .. n /\ m - 1 \in 0 .. n /\ ~Equal(m)
  <2>1. m \in 0 .. n /\ ~Equal(m)
    OBVIOUS
  <2>2. m # 0
    BY <1>2, <2>1
  <2> QED
    BY <1>n, <2>1, <2>2
<1>4. Equal(m - 1)
  <2>1. m - 1 \notin F
    BY <1>1, <1>3, <1>n
  <2> QED
    BY <1>3, <2>1
<1> HIDE DEF F
<1>5. SumFunctionOnSet(f, a .. a + m - 1) = f[a + m - 1] + SumFunctionOnSet(f, a .. a + (m - 1) - 1)
  <2> DEFINE last == a + m - 1
  <2>1. last \in Int /\ a <= last /\ last - 1 = a + (m - 1) - 1
    BY <1>3, <1>n
  <2>2. \A k \in a .. last : f[k] \in Int
    BY <1>3, <1>n
  <2> HIDE DEF last
  <2>3. SumFunctionOnSet(f, a .. last) = f[last] + SumFunctionOnSet(f, a .. last - 1)
    BY <2>1, <2>2, SumOfLast
  <2> QED
    BY <2>1, <2>3, Zenon DEF last
<1>6. SumFunctionOnSet(h, c .. c + m - 1) = h[c + m - 1] + SumFunctionOnSet(h, c .. c + (m - 1) - 1)
  <2> DEFINE last == c + m - 1
  <2>1. last \in Int /\ c <= last /\ last - 1 = c + (m - 1) - 1
    BY <1>3, <1>n
  <2>2. \A k \in c .. last : h[k] \in Int
    <3> SUFFICES ASSUME NEW k \in c .. last PROVE h[k] \in Int
      OBVIOUS
    <3>1. k - e \in a .. b /\ (k - e) + e = k
      BY <1>3, <1>n
    <3>2. f[k - e] \in Int /\ h[(k - e) + e] = f[k - e]
      BY <3>1
    <3> QED
      BY <3>1, <3>2
  <2> HIDE DEF last
  <2>3. SumFunctionOnSet(h, c .. last) = h[last] + SumFunctionOnSet(h, c .. last - 1)
    BY <2>1, <2>2, SumOfLast
  <2> QED
    BY <2>1, <2>3, Zenon DEF last
<1>7. h[c + m - 1] = f[a + m - 1]
  <2>1. a + m - 1 \in a .. b /\ (a + m - 1) + e = c + m - 1
    BY <1>3, <1>n
  <2>2. h[(a + m - 1) + e] = f[a + m - 1]
    BY <2>1
  <2> QED
    BY <2>1, <2>2
<1> QED
  BY <1>3, <1>4, <1>5, <1>6, <1>7, Zenon DEF Equal

\* The differences of successive numbers sum to the difference of the last and the
\* first.
LEMMA SumTelescopes ==
  ASSUME NEW n \in Nat, NEW a, \A k \in 1 .. n + 1 : a[k] \in Int,
         NEW f, \A k \in 1 .. n : f[k] = a[k + 1] - a[k]
  PROVE  SumFunctionOnSet(f, 1 .. n) = a[n + 1] - a[1]
<1> DEFINE Holds(m) == SumFunctionOnSet(f, 1 .. m) = a[m + 1] - a[1]
           F == {m \in 0 .. n : ~Holds(m)}
<1> HIDE DEF Holds
<1>0. SUFFICES ASSUME F # {} PROVE FALSE
  <2>1. n \in 0 .. n /\ n \notin F
    BY <1>0
  <2> QED
    BY <2>1 DEF Holds
<1>1. PICK m \in F : \A k \in F : m <= k
  <2>1. F \in SUBSET Nat
    OBVIOUS
  <2> HIDE DEF F
  <2> QED
    BY <1>0, <2>1, SmallestNumber
<1>2. Holds(0)
  <2>1. 1 .. 0 = {} /\ a[0 + 1] - a[1] = 0
    OBVIOUS
  <2> QED
    BY <2>1, SumEmpty, Zenon DEF Holds
<1>3. m \in 1 .. n /\ ~Holds(m)
  <2>1. m \in 0 .. n /\ ~Holds(m)
    OBVIOUS
  <2> QED
    BY <1>2, <2>1
<1>4. Holds(m - 1)
  <2>1. m - 1 \notin F /\ m - 1 \in 0 .. n
    BY <1>1, <1>3
  <2> QED
    BY <2>1
<1> HIDE DEF F
<1>5. SumFunctionOnSet(f, 1 .. m) = f[m] + SumFunctionOnSet(f, 1 .. m - 1)
  <2>1. m \in Int /\ 1 <= m /\ \A k \in 1 .. m : f[k] \in Int
    BY <1>3
  <2> QED
    BY <2>1, SumOfLast
<1>6. /\ f[m] = a[m + 1] - a[m] /\ a[m + 1] \in Int /\ a[m] \in Int /\ a[1] \in Int
      /\ (m - 1) + 1 = m
  BY <1>3
<1>7. SumFunctionOnSet(f, 1 .. m - 1) = a[m] - a[1]
  BY <1>4, <1>6 DEF Holds
<1>8. SumFunctionOnSet(f, 1 .. m) = a[m + 1] - a[1]
  BY <1>5, <1>6, <1>7
<1> QED
  BY <1>3, <1>8 DEF Holds

\* A sum is not larger than its greatest value as often as there are values.
LEMMA SumBounded ==
  ASSUME NEW n \in Nat, NEW M \in Int, NEW f, \A k \in 1 .. n : f[k] \in Int /\ f[k] <= M
  PROVE  SumFunctionOnSet(f, 1 .. n) <= n * M
<1> DEFINE Holds(m) == SumFunctionOnSet(f, 1 .. m) <= m * M
           F == {m \in 0 .. n : ~Holds(m)}
<1> HIDE DEF Holds
<1>0. SUFFICES ASSUME F # {} PROVE FALSE
  <2>1. n \in 0 .. n /\ n \notin F
    BY <1>0
  <2> QED
    BY <2>1 DEF Holds
<1>1. PICK m \in F : \A k \in F : m <= k
  <2>1. F \in SUBSET Nat
    OBVIOUS
  <2> HIDE DEF F
  <2> QED
    BY <1>0, <2>1, SmallestNumber
<1>2. Holds(0)
  <2>1. 1 .. 0 = {} /\ 0 <= 0 * M
    OBVIOUS
  <2>2. SumFunctionOnSet(f, 1 .. 0) = 0
    BY <2>1, SumEmpty, Zenon
  <2> QED
    BY <2>1, <2>2, Zenon DEF Holds
<1>3. m \in 1 .. n /\ ~Holds(m)
  <2>1. m \in 0 .. n /\ ~Holds(m)
    OBVIOUS
  <2> QED
    BY <1>2, <2>1
<1>4. Holds(m - 1)
  <2>1. m - 1 \notin F /\ m - 1 \in 0 .. n
    BY <1>1, <1>3
  <2> QED
    BY <2>1
<1> HIDE DEF F
<1>5. SumFunctionOnSet(f, 1 .. m) = f[m] + SumFunctionOnSet(f, 1 .. m - 1)
  <2>1. m \in Int /\ 1 <= m /\ \A k \in 1 .. m : f[k] \in Int
    BY <1>3
  <2> QED
    BY <2>1, SumOfLast
<1>6. SumFunctionOnSet(f, 1 .. m - 1) \in Int
  <2>1. IsFiniteSet(1 .. m - 1)
    BY <1>3, FS_Interval
  <2>2. \A k \in 1 .. m - 1 : f[k] \in Int
    BY <1>3
  <2> QED
    BY <2>1, <2>2, SumType
<1>7. SumFunctionOnSet(f, 1 .. m - 1) <= (m - 1) * M
  BY <1>4 DEF Holds
<1>8. m * M = (m - 1) * M + M /\ (m - 1) * M \in Int /\ f[m] \in Int /\ f[m] <= M
  BY <1>3
<1>9. SumFunctionOnSet(f, 1 .. m) <= m * M
  BY <1>5, <1>6, <1>7, <1>8
<1> QED
  BY <1>3, <1>9 DEF Holds

\* An interval is summed in two parts.
LEMMA SumOfParts ==
  ASSUME NEW f, NEW a \in Int, NEW m \in Int, NEW b \in Int, a <= m + 1, m <= b,
         \A k \in a .. b : f[k] \in Int
  PROVE  SumFunctionOnSet(f, a .. b) = SumFunctionOnSet(f, a .. m) + SumFunctionOnSet(f, m + 1 .. b)
<1> DEFINE S == a .. m
           T == m + 1 .. b
<1>1. IsFiniteSet(S) /\ IsFiniteSet(T)
  BY FS_Interval
<1>2. S \cap T = {} /\ a .. b = S \cup T
  OBVIOUS
<1>3. \A k \in S \cup T : f[k] \in Int
  BY <1>2
<1> HIDE DEF S, T
<1>4. SumFunctionOnSet(f, S \cup T) = SumFunctionOnSet(f, S) + SumFunctionOnSet(f, T)
  BY <1>1, <1>2, <1>3, SumUnion
<1> QED
  BY <1>2, <1>4, Zenon DEF S, T

\* A window that starts in the middle of the buffer has the sum of the buffer.
LEMMA SumOfRotated ==
  ASSUME NEW w, NEW b, NEW i \in Nat, NEW n \in Nat, i <= n,
         \A k \in 1 .. n : w[k] \in Int,
         \A k \in 1 .. n - i : w[k] = b[k + (i - 1)],
         \A k \in n - i + 1 .. n : w[k] = b[k + (i - n - 1)]
  PROVE  SumFunctionOnSet(b, 0 .. n - 1) = SumFunctionOnSet(w, 1 .. n)
<1>1. SumFunctionOnSet(w, 1 .. n - i) = SumFunctionOnSet(b, i .. n - 1)
  <2> DEFINE m == n - i
             e == i - 1
             last == n - 1
  <2>1. Moved(w, 1, m, e, b)
    BY DEF Moved
  <2>2. /\ 1 \in Int /\ m \in Int /\ e \in Int /\ i \in Int /\ last \in Int
        /\ 1 <= m + 1 /\ i = 1 + e /\ last = m + e
    OBVIOUS
  <2> HIDE DEF m, e, last
  <2>3. SumFunctionOnSet(w, 1 .. m) = SumFunctionOnSet(b, i .. last)
    BY <2>1, <2>2, SumOfMoved
  <2> QED
    BY <2>3 DEF m, last
<1>2. SumFunctionOnSet(w, n - i + 1 .. n) = SumFunctionOnSet(b, 0 .. i - 1)
  <2> DEFINE m == n - i + 1
             e == i - n - 1
             last == i - 1
  <2>1. Moved(w, m, n, e, b)
    BY DEF Moved
  <2>2. /\ m \in Int /\ n \in Int /\ e \in Int /\ 0 \in Int /\ last \in Int
        /\ m <= n + 1 /\ 0 = m + e /\ last = n + e
    OBVIOUS
  <2> HIDE DEF m, e, last
  <2>3. SumFunctionOnSet(w, m .. n) = SumFunctionOnSet(b, 0 .. last)
    BY <2>1, <2>2, SumOfMoved
  <2> QED
    BY <2>3 DEF m, last
<1>3. SumFunctionOnSet(w, 1 .. n) =
        SumFunctionOnSet(w, 1 .. n - i) + SumFunctionOnSet(w, n - i + 1 .. n)
  <2>1. 1 \in Int /\ n - i \in Int /\ n \in Int /\ 1 <= n - i + 1 /\ n - i <= n
    OBVIOUS
  <2> QED
    BY <2>1, SumOfParts
<1>4. SumFunctionOnSet(b, 0 .. n - 1) =
        SumFunctionOnSet(b, 0 .. i - 1) + SumFunctionOnSet(b, i .. n - 1)
  <2>1. /\ 0 \in Int /\ i - 1 \in Int /\ n - 1 \in Int /\ 0 <= (i - 1) + 1 /\ i - 1 <= n - 1
        /\ (i - 1) + 1 = i
    OBVIOUS
  <2>2. \A k \in 0 .. n - 1 : b[k] \in Int
    <3> SUFFICES ASSUME NEW k \in 0 .. n - 1 PROVE b[k] \in Int
      OBVIOUS
    <3>1. CASE k < i
      <4>1. k + (n - i + 1) \in n - i + 1 .. n /\ (k + (n - i + 1)) + (i - n - 1) = k
        BY <3>1
      <4>2. w[k + (n - i + 1)] = b[(k + (n - i + 1)) + (i - n - 1)] /\ w[k + (n - i + 1)] \in Int
        BY <4>1
      <4> QED
        BY <4>1, <4>2
    <3>2. CASE k >= i
      <4>1. k - (i - 1) \in 1 .. n - i /\ (k - (i - 1)) + (i - 1) = k
        BY <3>2
      <4>2. w[k - (i - 1)] = b[(k - (i - 1)) + (i - 1)] /\ w[k - (i - 1)] \in Int
        BY <4>1
      <4> QED
        BY <4>1, <4>2
    <3> QED
      BY <3>1, <3>2
  <2>3. SumFunctionOnSet(b, 0 .. n - 1) =
          SumFunctionOnSet(b, 0 .. i - 1) + SumFunctionOnSet(b, (i - 1) + 1 .. n - 1)
    BY <2>1, <2>2, SumOfParts
  <2> QED
    BY <2>1, <2>3, Zenon
<1>5. SumFunctionOnSet(w, 1 .. n - i) \in Int /\ SumFunctionOnSet(w, n - i + 1 .. n) \in Int
  <2>1. /\ IsFiniteSet(1 .. n - i) /\ IsFiniteSet(n - i + 1 .. n)
        /\ (\A k \in 1 .. n - i : w[k] \in Int) /\ (\A k \in n - i + 1 .. n : w[k] \in Int)
    BY FS_Interval
  <2> QED
    BY <2>1, SumType
<1> QED
  BY <1>1, <1>2, <1>3, <1>4, <1>5

-----------------------------------------------------------------------------
(* The ring. *)

\* One call of Add keeps the shape of the ring: the index stays inside the
\* buffer and a ring that is filling fills from slot 0 on.
LEMMA AddKeepsRing ==
  ASSUME NEW S, NEW r \in Rings(S), NEW v \in S,
         r.size < Capacity => r.index = r.size
  PROVE  /\ Add(r, v) \in Rings(S)
         /\ Add(r, v).size < Capacity => Add(r, v).index = Add(r, v).size
BY RingAssumption DEF Rings, Slots, Add

\* The window of a ring is a sequence of samples as long as the ring is filled.
LEMMA WindowIsSequence ==
  ASSUME NEW S, NEW r \in Rings(S), r.size < Capacity => r.index = r.size
  PROVE  /\ Window(r) \in Seq(S \cup {0})
         /\ Len(Window(r)) = r.size
<1>1. \A k \in 1 .. r.size : Slot(r, k) \in Slots
  BY RingAssumption DEF Slot, Slots, Rings
<1>2. Window(r) \in [1 .. r.size -> S \cup {0}]
  BY <1>1 DEF Window, Rings
<1> QED
  BY <1>2, RingAssumption DEF Rings, Window

\* One call of Add slides the window by one sample: the new sample comes last,
\* and the oldest goes only when the ring was full.
LEMMA AddSlidesWindow ==
  ASSUME NEW S, NEW r \in Rings(S), NEW v \in S,
         r.size < Capacity => r.index = r.size
  PROVE  Window(Add(r, v)) = Slide(Window(r), v)
<1> DEFINE q == Add(r, v)
           w == Window(r)
<1>1. q \in Rings(S) /\ (q.size < Capacity => q.index = q.size)
  BY AddKeepsRing
<1>2. w \in Seq(S \cup {0}) /\ Len(w) = r.size
  BY WindowIsSequence
<1>3. Window(q) \in Seq(S \cup {0}) /\ Len(Window(q)) = q.size
  BY <1>1, WindowIsSequence
<1>4. CASE r.size < Capacity
  <2>1. q.size = r.size + 1
    BY <1>4 DEF Add
  <2>2. \A k \in 1 .. r.size : Window(q)[k] = w[k]
    <3> SUFFICES ASSUME NEW k \in 1 .. r.size PROVE Window(q)[k] = w[k]
      OBVIOUS
    <3>1. Slot(q, k) = k - 1 /\ Slot(r, k) = k - 1
      BY <1>4, <2>1, RingAssumption DEF Slot, Add, Rings, Slots
    <3>2. q.buffer[k - 1] = r.buffer[k - 1]
      BY <1>4, RingAssumption DEF Add, Rings, Slots
    <3> QED
      BY <2>1, <3>1, <3>2, RingAssumption DEF Window, Rings
  <2>3. Window(q)[r.size + 1] = v
    <3>1. Slot(q, r.size + 1) = r.index
      BY <1>4, <2>1, RingAssumption DEF Slot, Add, Rings, Slots
    <3>2. q.buffer[r.index] = v
      BY DEF Add, Rings
    <3> QED
      BY <2>1, <3>1, <3>2, RingAssumption DEF Window, Rings
  <2>4. Append(w, v) \in Seq(S \cup {0}) /\ Len(Append(w, v)) = r.size + 1
        /\ Append(w, v)[r.size + 1] = v
        /\ \A k \in 1 .. r.size : Append(w, v)[k] = w[k]
    BY <1>2
  <2>5. Window(q) = Append(w, v)
    BY <1>3, <2>1, <2>2, <2>3, <2>4, RingAssumption DEF Rings
  <2> QED
    BY <1>2, <1>4, <2>5 DEF Slide
<1>5. CASE r.size = Capacity
  <2>1. q.size = Capacity /\ w # << >>
    BY <1>2, <1>5, RingAssumption DEF Add
  <2>2. \A k \in 1 .. Capacity - 1 : Window(q)[k] = w[k + 1]
    <3> SUFFICES ASSUME NEW k \in 1 .. Capacity - 1 PROVE Window(q)[k] = w[k + 1]
      OBVIOUS
    <3>1. Slot(q, k) = Slot(r, k + 1) /\ Slot(q, k) \in Slots /\ Slot(q, k) # r.index
      BY <1>5, <2>1, RingAssumption DEF Slot, Add, Rings, Slots
    <3>2. q.buffer[Slot(q, k)] = r.buffer[Slot(q, k)]
      BY <3>1 DEF Add, Rings
    <3> QED
      BY <1>5, <2>1, <3>1, <3>2, RingAssumption DEF Window, Rings
  <2>3. Window(q)[Capacity] = v
    <3>1. Slot(q, Capacity) = r.index
      BY <1>5, <2>1, RingAssumption DEF Slot, Add, Rings, Slots
    <3>2. q.buffer[r.index] = v
      BY DEF Add, Rings
    <3> QED
      BY <2>1, <3>1, <3>2, RingAssumption DEF Window, Rings
  <2>4. Tail(w) \in Seq(S \cup {0}) /\ Len(Tail(w)) = Capacity - 1
        /\ \A k \in 1 .. Capacity - 1 : Tail(w)[k] = w[k + 1]
    BY <1>2, <1>5, <2>1, RingAssumption
  <2>5. Append(Tail(w), v) \in Seq(S \cup {0})
        /\ Len(Append(Tail(w), v)) = Capacity
        /\ Append(Tail(w), v)[Capacity] = v
        /\ \A k \in 1 .. Capacity - 1 : Append(Tail(w), v)[k] = w[k + 1]
    BY <2>4, RingAssumption
  <2>6. Window(q) = Append(Tail(w), v)
    BY <1>3, <2>1, <2>2, <2>3, <2>5, RingAssumption
  <2> QED
    BY <1>2, <1>5, <2>6, RingAssumption DEF Slide
<1> QED
  BY <1>4, <1>5, RingAssumption DEF Rings

\* Avg sums the slots in the order in which they are stored, and gets the sum of
\* the window, in which the oldest sample comes first.
LEMMA AccumulateIsWindowSum ==
  ASSUME NEW S \in SUBSET Int, NEW r \in Rings(S), r.size < Capacity => r.index = r.size
  PROVE  Accumulate(r) = SumFunction(Window(r)) /\ Accumulate(r) \in Int
<1> DEFINE w == Window(r)
           n == r.size
           i == IF n < Capacity THEN 0 ELSE r.index
<1>1. Capacity \in Nat /\ n \in Nat /\ i \in Nat /\ i <= n /\ n <= Capacity
  BY RingAssumption DEF Rings, Slots
<1>2. DOMAIN w = 1 .. n /\ w \in Seq(S \cup {0}) /\ Len(w) = n
  BY WindowIsSequence DEF Window
<1>3. \A k \in 1 .. n : w[k] \in Int
  <2> SUFFICES ASSUME NEW k \in 1 .. n PROVE w[k] \in Int
    OBVIOUS
  <2>1. Slot(r, k) \in Slots
    BY RingAssumption DEF Slot, Slots, Rings
  <2>2. r.buffer[Slot(r, k)] \in S \cup {0}
    BY <2>1 DEF Rings
  <2>3. \A v \in S \cup {0} : v \in Int
    OBVIOUS
  <2>4. w[k] = r.buffer[Slot(r, k)]
    BY DEF Window
  <2> HIDE DEF w
  <2> QED
    BY <2>2, <2>3, <2>4
<1>4. /\ \A k \in 1 .. n - i : Slot(r, k) = k + (i - 1)
      /\ \A k \in n - i + 1 .. n : Slot(r, k) = k + (i - n - 1)
  BY RingAssumption DEF Slot, Rings, Slots
<1>5. \A k \in 1 .. n : w[k] = r.buffer[Slot(r, k)]
  BY DEF Window
<1>6. /\ \A k \in 1 .. n - i : w[k] = r.buffer[k + (i - 1)]
      /\ \A k \in n - i + 1 .. n : w[k] = r.buffer[k + (i - n - 1)]
  <2> HIDE DEF w, n, i
  <2> QED
    BY <1>1, <1>4, <1>5
<1>7. SumFunctionOnSet(r.buffer, 0 .. n - 1) = SumFunctionOnSet(w, 1 .. n)
  <2> HIDE DEF w, n, i
  <2> QED
    BY <1>1, <1>3, <1>6, SumOfRotated
<1>8. SumFunctionOnSet(w, 1 .. n) \in Int
  <2>1. IsFiniteSet(1 .. n)
    BY <1>1, FS_Interval
  <2> QED
    BY <1>3, <2>1, SumType
<1> HIDE DEF w, n, i
<1> QED
  BY <1>2, <1>7, <1>8, Zenon DEF Accumulate, SumFunction, w, n

\* A power of two counts the subsets of a set, so it is positive and grows.
LEMMA PowersGrow ==
  ASSUME NEW n \in Nat
  PROVE  2 ^ n \in Nat \ {0} /\ 2 ^ (n + 1) \in Nat /\ 2 ^ n <= 2 ^ (n + 1)
<1> DEFINE S == 1 .. n
           T == 1 .. n + 1
<1>1. IsFiniteSet(S) /\ Cardinality(S) = n /\ IsFiniteSet(T) /\ Cardinality(T) = n + 1
  BY FS_Interval
<1>2. SUBSET S \in SUBSET (SUBSET T) /\ {} \in SUBSET S
  <2>1. S \subseteq T
    OBVIOUS
  <2> QED
    BY <2>1, Zenon
<1> HIDE DEF S, T
<1>3. /\ IsFiniteSet(SUBSET S) /\ Cardinality(SUBSET S) = 2 ^ n
      /\ IsFiniteSet(SUBSET T) /\ Cardinality(SUBSET T) = 2 ^ (n + 1)
  BY <1>1, FS_SUBSET
<1>4. Cardinality(SUBSET S) \in Nat /\ Cardinality(SUBSET T) \in Nat
  BY <1>3, FS_CardinalityType
<1>5. Cardinality(SUBSET S) # 0
  BY <1>2, <1>3, FS_EmptySet
<1>6. Cardinality(SUBSET S) <= Cardinality(SUBSET T)
  BY <1>2, <1>3, FS_Subset
<1> QED
  BY <1>3, <1>4, <1>5, <1>6

\* A quotient is not larger than what was divided.
LEMMA QuotientBounded ==
  ASSUME NEW a \in Nat, NEW s \in Nat \ {0}
  PROVE  a \div s \in Nat /\ a \div s <= a
<1> DEFINE q == a \div s
<1>1. q \in Int /\ q * s <= a /\ 0 <= q
  OBVIOUS
<1> HIDE DEF q
<1>2. q <= q * s
  BY <1>1
<1> QED
  BY <1>1, <1>2 DEF q

\* Avg turns the sum into an unsigned number and the quotient back into a signed
\* one, which changes neither as long as a LONGLONG holds the sum and the sum is not
\* negative.
LEMMA AvgIsQuotient ==
  ASSUME NEW r, r.size \in Nat \ {0}, Accumulate(r) \in Nat, Accumulate(r) < 2 ^ (Width - 1)
  PROVE  AvgLongLong(r) = Accumulate(r) \div r.size
<1> DEFINE a == Accumulate(r)
           half == 2 ^ (Width - 1)
           full == 2 ^ Width
<1>1. half \in Nat \ {0} /\ full \in Nat /\ half <= full
  <2> DEFINE n == Width - 1
  <2>1. n \in Nat /\ n + 1 = Width
    BY RingAssumption
  <2> HIDE DEF n
  <2>2. 2 ^ n \in Nat \ {0} /\ 2 ^ (n + 1) \in Nat /\ 2 ^ n <= 2 ^ (n + 1)
    BY <2>1, PowersGrow
  <2> QED
    BY <2>1, <2>2, Zenon DEF n
<1> HIDE DEF a, half, full
<1>2. a \in Nat /\ a < half
  BY DEF a, half
<1>3. a % full = a
  BY <1>1, <1>2
<1>4. a \div r.size \in Nat /\ a \div r.size <= a
  BY <1>2, QuotientBounded
<1>5. ~(a \div r.size >= half)
  BY <1>1, <1>2, <1>4
<1> QED
  BY <1>3, <1>5, Zenon DEF AvgLongLong, ToSigned, a, half, full

\* As many samples as there are slots, none larger than M.
LEMMA WindowSumBounded ==
  ASSUME NEW S \in SUBSET Int, NEW r \in Rings(S), r.size < Capacity => r.index = r.size,
         NEW M \in Nat, \A v \in S : v <= M
  PROVE  Accumulate(r) <= Capacity * M
<1> DEFINE w == Window(r)
           n == r.size
<1>1. n \in Nat /\ n <= Capacity /\ Capacity \in Nat
  BY RingAssumption DEF Rings
<1>2. w \in Seq(S \cup {0}) /\ Len(w) = n /\ DOMAIN w = 1 .. n
  BY WindowIsSequence DEF Window
<1>3. \A v \in S \cup {0} : v \in Int /\ v <= M
  OBVIOUS
<1>4. Accumulate(r) = SumFunctionOnSet(w, 1 .. n) /\ Accumulate(r) \in Int
  BY <1>2, AccumulateIsWindowSum DEF SumFunction
<1> HIDE DEF w, n
<1>5. \A k \in 1 .. n : w[k] \in Int /\ w[k] <= M
  <2> SUFFICES ASSUME NEW k \in 1 .. n PROVE w[k] \in Int /\ w[k] <= M
    OBVIOUS
  <2>1. w[k] \in S \cup {0}
    BY <1>2
  <2> QED
    BY <1>3, <2>1
<1>6. SumFunctionOnSet(w, 1 .. n) <= n * M
  BY <1>1, <1>5, SumBounded
<1>7. n * M <= Capacity * M
  BY <1>1
<1>8. n * M \in Int /\ Capacity * M \in Int
  BY <1>1
<1> QED
  BY <1>4, <1>6, <1>7, <1>8

\* A mean of values up to M is not larger than M.
LEMMA MeanBounded ==
  ASSUME NEW a \in Nat, NEW s \in Nat \ {0}, NEW M \in Nat, a <= s * M
  PROVE  a \div s \in 0 .. M
<1> DEFINE q == a \div s
<1>1. q \in Nat /\ q * s <= a
  BY QuotientBounded
<1> HIDE DEF q
<1>2. SUFFICES ASSUME M + 1 <= q PROVE FALSE
  BY <1>1 DEF q
<1>3. (M + 1) * s <= q * s
  BY <1>1, <1>2
<1>4. (M + 1) * s = s * M + s /\ s * M \in Nat /\ q * s \in Nat
  BY <1>1
<1> QED
  BY <1>1, <1>3, <1>4

\* The mean of a ring of RingBuffer<double> lies between zero and the largest sample.
LEMMA AvgDoubleBounded ==
  ASSUME NEW S \in SUBSET Nat, NEW r \in Rings(S), r.size < Capacity => r.index = r.size,
         NEW M \in Nat, \A v \in S : v <= M
  PROVE  AvgDouble(r) \in 0 .. M
<1> DEFINE w == Window(r)
           n == r.size
<1>1. n \in Nat
  BY RingAssumption DEF Rings
<1>2. CASE n = 0
  BY <1>2 DEF AvgDouble
<1>3. CASE n # 0
  <2>1. w \in Seq(S \cup {0}) /\ Len(w) = n /\ DOMAIN w = 1 .. n
    BY WindowIsSequence DEF Window
  <2>2. S \in SUBSET Int
    OBVIOUS
  <2>3. Accumulate(r) = SumFunctionOnSet(w, 1 .. n)
    BY <2>1, <2>2, AccumulateIsWindowSum DEF SumFunction
  <2> HIDE DEF w, n
  <2>4. \A k \in 1 .. n : w[k] \in Nat /\ w[k] <= M
    <3>1. \A v \in S \cup {0} : v \in Nat /\ v <= M
      OBVIOUS
    <3> SUFFICES ASSUME NEW k \in 1 .. n PROVE w[k] \in Nat /\ w[k] <= M
      OBVIOUS
    <3>2. w[k] \in S \cup {0}
      BY <2>1
    <3> QED
      BY <3>1, <3>2
  <2>5. SumFunctionOnSet(w, 1 .. n) <= n * M
    <3>1. \A k \in 1 .. n : w[k] \in Int /\ w[k] <= M
      BY <2>4
    <3> QED
      BY <1>1, <3>1, SumBounded
  <2>6. SumFunctionOnSet(w, 1 .. n) \in Nat
    <3>1. IsFiniteSet(1 .. n)
      BY <1>1, FS_Interval
    <3> QED
      BY <2>4, <3>1, SumOfNaturals
  <2>7. Accumulate(r) \div n \in 0 .. M
    BY <1>1, <1>3, <2>3, <2>5, <2>6, MeanBounded
  <2> QED
    BY <1>3, <2>7 DEF AvgDouble, n
<1> QED
  BY <1>2, <1>3
=============================================================================
