---------------------------- MODULE SumTheorems ----------------------------
(***************************************************************************)
(* Facts about finite sums, SumFunctionOnSet of the community modules: how *)
(* a sum changes when an element or a value does.  A sum is a fold over a  *)
(* set, a function defined by recursion on finite sets; the facts are      *)
(* proved from a smallest counterexample.                                  *)
(***************************************************************************)
EXTENDS Functions, FiniteSets, FiniteSetTheorems, TLAPS

\* Among sets of subsets of a finite set there is a smallest one.
LEMMA SmallestSubset ==
  ASSUME NEW S, IsFiniteSet(S), NEW B \in SUBSET SUBSET S, B # {}
  PROVE  \E T \in B : \A U \in B : U \subseteq T => U = T
<1>1. IsWellFoundedOn(StrictSubsetOrdering(S), SUBSET S)
  BY FS_StrictSubsetOrderingWellFounded, FS_FiniteSubsetsOfFinite
<1>2. \E T \in B : \A U \in B : <<U, T>> \notin StrictSubsetOrdering(S)
  BY <1>1, WFMin
<1>3. \A U, T \in B : U \subseteq T /\ U # T => <<U, T>> \in StrictSubsetOrdering(S)
  BY DEF StrictSubsetOrdering
<1>. QED
  BY <1>2, <1>3

-----------------------------------------------------------------------------
(***************************************************************************)
(* The recursion behind a sum.                                             *)
(***************************************************************************)
Pick(s) == CHOOSE x \in s : TRUE

Sums(f, S, g) ==
  g = [s \in SUBSET S |-> IF s = {} THEN 0 ELSE f[Pick(s)] + g[s \ {Pick(s)}]]

\* Two functions that satisfy it agree where both are defined.
LEMMA SumsUnique ==
  ASSUME NEW f, NEW S, NEW T, IsFiniteSet(S), IsFiniteSet(T), NEW g, NEW h,
         Sums(f, S, g), Sums(f, T, h), NEW U, U \subseteq S, U \subseteq T
  PROVE  g[U] = h[U]
<1>. DEFINE B == {V \in SUBSET U : g[V] # h[V]}
<1>1. SUFFICES B = {}
  OBVIOUS
<1>2. SUFFICES ASSUME B # {} PROVE FALSE
  OBVIOUS
<1>3. IsFiniteSet(U)
  BY FS_Subset
<1>4. PICK V \in B : \A W \in B : W \subseteq V => W = V
  <2>1. B \in SUBSET SUBSET U
    OBVIOUS
  <2>. HIDE DEF B
  <2>. QED
    BY <1>2, <1>3, <2>1, SmallestSubset
<1>5. CASE V = {}
  <2>1. g[V] = 0 /\ h[V] = 0
    BY <1>5 DEF Sums
  <2>. QED
    BY <1>4, <2>1
<1>6. CASE V # {}
  <2>1. Pick(V) \in V
    BY <1>6 DEF Pick
  <2>2. g[V \ {Pick(V)}] = h[V \ {Pick(V)}]
    BY <1>4, <2>1
  <2>3. g[V] = f[Pick(V)] + g[V \ {Pick(V)}]
    BY <1>4, <1>6 DEF Sums
  <2>4. h[V] = f[Pick(V)] + h[V \ {Pick(V)}]
    BY <1>4, <1>6 DEF Sums
  <2>. QED
    BY <1>4, <2>2, <2>3, <2>4
<1>. QED
  BY <1>5, <1>6

\* There is a function that satisfies it.
LEMMA SumsExist ==
  ASSUME NEW f, NEW S, IsFiniteSet(S)
  PROVE  \E g : Sums(f, S, g)
<1>. DEFINE B == {T \in SUBSET S : ~ \E g : Sums(f, T, g)}
<1>1. SUFFICES ASSUME B # {} PROVE FALSE
  OBVIOUS
<1>2. PICK T \in B : \A U \in B : U \subseteq T => U = T
  <2>1. B \in SUBSET SUBSET S
    OBVIOUS
  <2>. HIDE DEF B
  <2>. QED
    BY <1>1, <2>1, SmallestSubset
<1>3. IsFiniteSet(T)
  BY FS_Subset
<1>. DEFINE Of(U) == CHOOSE g : Sums(f, U, g)
            Rest(s) == s \ {Pick(s)}
            g == [s \in SUBSET T |->
                    IF s = {} THEN 0 ELSE f[Pick(s)] + Of(Rest(s))[Rest(s)]]
<1>4. ASSUME NEW U \in SUBSET T, U # T
      PROVE  Sums(f, U, Of(U)) /\ IsFiniteSet(U)
  <2>1. \E g1 : Sums(f, U, g1)
    BY <1>2, <1>4
  <2>. QED
    BY <1>3, <2>1, FS_Subset
<1>5. ASSUME NEW s \in SUBSET T, s # {}
      PROVE  g[Rest(s)] = Of(Rest(s))[Rest(s)]
  <2>1. Pick(s) \in s
    BY <1>5 DEF Pick
  <2>2. Rest(s) \in SUBSET T /\ Rest(s) # T
    BY <2>1
  <2>3. Sums(f, Rest(s), Of(Rest(s))) /\ IsFiniteSet(Rest(s))
    BY <1>4, <2>2
  <2>. DEFINE R == Rest(s)
  <2>. HIDE DEF R, Of
  <2>4. Of(R)[R] = IF R = {} THEN 0 ELSE f[Pick(R)] + Of(R)[R \ {Pick(R)}]
    BY <2>3 DEF Sums, R
  <2>5. CASE R = {}
    BY <2>2, <2>4, <2>5 DEF R
  <2>6. CASE R # {}
    <3>1. Pick(R) \in R
      BY <2>6 DEF Pick
    <3>2. R \ {Pick(R)} \in SUBSET T /\ R \ {Pick(R)} # T
      BY <2>2, <3>1 DEF R
    <3>3. Sums(f, R \ {Pick(R)}, Of(R \ {Pick(R)})) /\ IsFiniteSet(R \ {Pick(R)})
      BY <1>4, <3>2
    <3>4. Of(R)[R \ {Pick(R)}] = Of(R \ {Pick(R)})[R \ {Pick(R)}]
      BY <2>3, <3>3, SumsUnique DEF R
    <3>5. g[R] = f[Pick(R)] + Of(R \ {Pick(R)})[R \ {Pick(R)}]
      BY <2>2, <2>6 DEF R
    <3>. QED
      BY <2>4, <2>6, <3>4, <3>5 DEF R
  <2>. QED
    BY <2>5, <2>6 DEF R
<1>6. g = [s \in SUBSET T |-> IF s = {} THEN 0 ELSE f[Pick(s)] + g[s \ {Pick(s)}]]
  <2>. HIDE DEF Of
  <2>. QED
    BY <1>5
<1>7. Sums(f, T, g)
  <2>. HIDE DEF g
  <2>. QED
    BY <1>6 DEF Sums
<1>. QED
  BY <1>2, <1>7

\* A sum is computed by it.
LEMMA SumIsSums ==
  ASSUME NEW f, NEW S, IsFiniteSet(S)
  PROVE  \E g : Sums(f, S, g) /\ SumFunctionOnSet(f, S) = g[S]
<1>. DEFINE g == CHOOSE h : Sums(f, S, h)
<1>1. Sums(f, S, g)
  BY SumsExist
<1>2. SumFunctionOnSet(f, S) = g[S]
  BY DEF SumFunctionOnSet, FoldFunctionOnSet, MapThenFoldSet, Sums, Pick
<1>. HIDE DEF g
<1>. QED
  BY <1>1, <1>2

-----------------------------------------------------------------------------
(***************************************************************************)
(* What is summed up.                                                      *)
(***************************************************************************)

\* Nothing adds up to 0.
LEMMA SumEmpty == ASSUME NEW f PROVE SumFunctionOnSet(f, {}) = 0
<1>1. IsFiniteSet({})
  BY FS_EmptySet
<1>2. PICK g : Sums(f, {}, g) /\ SumFunctionOnSet(f, {}) = g[{}]
  BY <1>1, SumIsSums
<1>. QED
  BY <1>2 DEF Sums

\* A sum is one of its values and the sum of the others.
LEMMA SumPick ==
  ASSUME NEW f, NEW S, IsFiniteSet(S), S # {}
  PROVE  /\ Pick(S) \in S
         /\ IsFiniteSet(S \ {Pick(S)})
         /\ SumFunctionOnSet(f, S) = f[Pick(S)] + SumFunctionOnSet(f, S \ {Pick(S)})
<1>. DEFINE R == S \ {Pick(S)}
<1>1. Pick(S) \in S
  BY DEF Pick
<1>2. IsFiniteSet(R)
  BY FS_Subset
<1>3. PICK g : Sums(f, S, g) /\ SumFunctionOnSet(f, S) = g[S]
  BY SumIsSums
<1>4. PICK h : Sums(f, R, h) /\ SumFunctionOnSet(f, R) = h[R]
  BY <1>2, SumIsSums
<1>5. g[R] = h[R]
  BY <1>2, <1>3, <1>4, SumsUnique
<1>6. g[S] = f[Pick(S)] + g[R]
  BY <1>3 DEF Sums
<1>. QED
  BY <1>1, <1>2, <1>3, <1>4, <1>5, <1>6

\* Equal values have equal sums.
LEMMA SumEqual ==
  ASSUME NEW f, NEW g, NEW S, IsFiniteSet(S), \A x \in S : f[x] = g[x]
  PROVE  SumFunctionOnSet(f, S) = SumFunctionOnSet(g, S)
<1>. DEFINE B == {T \in SUBSET S : SumFunctionOnSet(f, T) # SumFunctionOnSet(g, T)}
<1>1. SUFFICES ASSUME B # {} PROVE FALSE
  OBVIOUS
<1>2. PICK T \in B : \A U \in B : U \subseteq T => U = T
  <2>1. B \in SUBSET SUBSET S
    OBVIOUS
  <2>. HIDE DEF B
  <2>. QED
    BY <1>1, <2>1, SmallestSubset
<1>3. IsFiniteSet(T)
  BY FS_Subset
<1>4. T # {}
  BY <1>2, SumEmpty
<1>5. SumFunctionOnSet(f, T \ {Pick(T)}) = SumFunctionOnSet(g, T \ {Pick(T)})
  BY <1>2, <1>3, <1>4, SumPick
<1>6. f[Pick(T)] = g[Pick(T)]
  BY <1>3, <1>4, SumPick
<1>7. SumFunctionOnSet(f, T) = SumFunctionOnSet(g, T)
  BY <1>3, <1>4, <1>5, <1>6, SumPick
<1>. QED
  BY <1>2, <1>7

\* A sum of integers is one, and of naturals a natural.
LEMMA SumInt ==
  ASSUME NEW f, NEW S, IsFiniteSet(S), \A x \in S : f[x] \in Int
  PROVE  /\ SumFunctionOnSet(f, S) \in Int
         /\ (\A x \in S : f[x] \in Nat) => SumFunctionOnSet(f, S) \in Nat
<1>. DEFINE Bad(T) == \/ SumFunctionOnSet(f, T) \notin Int
                      \/ /\ \A x \in T : f[x] \in Nat
                         /\ SumFunctionOnSet(f, T) \notin Nat
            B == {T \in SUBSET S : Bad(T)}
<1>1. SUFFICES ASSUME B # {} PROVE FALSE
  OBVIOUS
<1>2. PICK T \in B : \A U \in B : U \subseteq T => U = T
  <2>1. B \in SUBSET SUBSET S
    OBVIOUS
  <2>. HIDE DEF B
  <2>. QED
    BY <1>1, <2>1, SmallestSubset
<1>3. IsFiniteSet(T)
  BY FS_Subset
<1>4. T # {}
  <2>1. SumFunctionOnSet(f, {}) = 0
    BY SumEmpty
  <2>2. ~ Bad({})
    BY <2>1
  <2>. HIDE DEF Bad
  <2>. QED
    BY <1>2, <2>2
<1>. DEFINE p == Pick(T)
<1>5. /\ p \in T
      /\ SumFunctionOnSet(f, T) = f[p] + SumFunctionOnSet(f, T \ {p})
  BY <1>3, <1>4, SumPick
<1>6. ~ Bad(T \ {p})
  BY <1>2, <1>5
<1>. HIDE DEF p
<1>. QED
  BY <1>2, <1>5, <1>6

\* Any of the values can be taken out of a sum.
LEMMA SumRemove ==
  ASSUME NEW f, NEW S, IsFiniteSet(S), \A x \in S : f[x] \in Int, NEW a \in S
  PROVE  SumFunctionOnSet(f, S) = f[a] + SumFunctionOnSet(f, S \ {a})
<1>. DEFINE Bad(T) == \E x \in T : SumFunctionOnSet(f, T)
                                     # f[x] + SumFunctionOnSet(f, T \ {x})
            B == {T \in SUBSET S : Bad(T)}
<1>1. SUFFICES ASSUME B # {} PROVE FALSE
  OBVIOUS
<1>2. PICK T \in B : \A U \in B : U \subseteq T => U = T
  <2>1. B \in SUBSET SUBSET S
    OBVIOUS
  <2>. HIDE DEF B
  <2>. QED
    BY <1>1, <2>1, SmallestSubset
<1>3. PICK x \in T : SumFunctionOnSet(f, T) # f[x] + SumFunctionOnSet(f, T \ {x})
  BY <1>2
<1>4. IsFiniteSet(T) /\ T # {}
  BY <1>3, FS_Subset
<1>. DEFINE p == Pick(T)
<1>5. /\ p \in T
      /\ SumFunctionOnSet(f, T) = f[p] + SumFunctionOnSet(f, T \ {p})
  BY <1>4, SumPick
<1>. HIDE DEF p
<1>6. p # x
  BY <1>3, <1>5
<1>7. ~ Bad(T \ {p}) /\ ~ Bad(T \ {x})
  <2>1. T \subseteq S
    BY <1>2
  <2>2. \A U \in SUBSET S : Bad(U) => U \in B
    OBVIOUS
  <2>. HIDE DEF Bad, B
  <2>3. ASSUME NEW y \in T PROVE ~ Bad(T \ {y})
    BY <1>2, <2>1, <2>2
  <2>. QED
    BY <1>3, <1>5, <2>3
<1>8. SumFunctionOnSet(f, T \ {p}) = f[x] + SumFunctionOnSet(f, (T \ {p}) \ {x})
  BY <1>3, <1>6, <1>7
<1>9. SumFunctionOnSet(f, T \ {x}) = f[p] + SumFunctionOnSet(f, (T \ {x}) \ {p})
  BY <1>5, <1>6, <1>7
<1>10. (T \ {x}) \ {p} = (T \ {p}) \ {x}
  OBVIOUS
<1>11. SumFunctionOnSet(f, (T \ {p}) \ {x}) \in Int
  <2>1. IsFiniteSet((T \ {p}) \ {x})
    BY <1>4, FS_Subset
  <2>. QED
    BY <2>1, SumInt
<1>12. f[p] \in Int /\ f[x] \in Int
  BY <1>3, <1>5
<1>. QED
  BY <1>3, <1>5, <1>8, <1>9, <1>10, <1>11, <1>12

\* A new element adds its value.
LEMMA SumAdd ==
  ASSUME NEW f, NEW S, IsFiniteSet(S), NEW a, a \notin S, \A x \in S \cup {a} : f[x] \in Int
  PROVE  /\ IsFiniteSet(S \cup {a})
         /\ SumFunctionOnSet(f, S \cup {a}) = SumFunctionOnSet(f, S) + f[a]
<1>. DEFINE T == S \cup {a}
<1>1. IsFiniteSet(T) /\ a \in T /\ T \ {a} = S /\ \A x \in T : f[x] \in Int
  BY FS_AddElement
<1>. HIDE DEF T
<1>2. SumFunctionOnSet(f, T) = f[a] + SumFunctionOnSet(f, T \ {a})
  BY <1>1, SumRemove
<1>3. SumFunctionOnSet(f, S) \in Int /\ f[a] \in Int
  BY <1>1, SumInt
<1>4. SumFunctionOnSet(f, T \ {a}) = SumFunctionOnSet(f, S)
  BY <1>1
<1>5. SumFunctionOnSet(f, T) = SumFunctionOnSet(f, S) + f[a]
  BY <1>2, <1>3, <1>4
<1>. QED
  BY <1>1, <1>5 DEF T

\* One value is another: the sum changes by the difference.
LEMMA SumUpdate ==
  ASSUME NEW f, NEW g, NEW S, IsFiniteSet(S), NEW a \in S,
         \A x \in S : f[x] \in Int /\ g[x] \in Int,
         \A x \in S \ {a} : g[x] = f[x]
  PROVE  SumFunctionOnSet(g, S) = SumFunctionOnSet(f, S) + (g[a] - f[a])
<1>1. IsFiniteSet(S \ {a})
  BY FS_Subset
<1>2. SumFunctionOnSet(g, S \ {a}) = SumFunctionOnSet(f, S \ {a})
  BY <1>1, SumEqual
<1>3. /\ SumFunctionOnSet(f, S) = f[a] + SumFunctionOnSet(f, S \ {a})
      /\ SumFunctionOnSet(g, S) = g[a] + SumFunctionOnSet(g, S \ {a})
  BY SumRemove
<1>4. SumFunctionOnSet(f, S \ {a}) \in Int
  BY <1>1, SumInt
<1>. QED
  BY <1>2, <1>3, <1>4

\* Zeros add up to 0.
LEMMA SumZero ==
  ASSUME NEW f, NEW S, IsFiniteSet(S), \A x \in S : f[x] = 0
  PROVE  SumFunctionOnSet(f, S) = 0
<1>. DEFINE B == {T \in SUBSET S : SumFunctionOnSet(f, T) # 0}
<1>1. SUFFICES ASSUME B # {} PROVE FALSE
  OBVIOUS
<1>2. PICK T \in B : \A U \in B : U \subseteq T => U = T
  <2>1. B \in SUBSET SUBSET S
    OBVIOUS
  <2>. HIDE DEF B
  <2>. QED
    BY <1>1, <2>1, SmallestSubset
<1>3. IsFiniteSet(T) /\ T # {}
  BY <1>2, FS_Subset, SumEmpty
<1>4. Pick(T) \in T /\ SumFunctionOnSet(f, T \ {Pick(T)}) = 0
  BY <1>2, <1>3, SumPick
<1>5. SumFunctionOnSet(f, T) = 0
  BY <1>3, <1>4, SumPick
<1>. QED
  BY <1>2, <1>5

\* The sum of two functions is the sum of their sums.
LEMMA SumPlus ==
  ASSUME NEW f, NEW g, NEW h, NEW S, IsFiniteSet(S),
         \A x \in S : f[x] \in Int /\ g[x] \in Int /\ h[x] = f[x] + g[x]
  PROVE  SumFunctionOnSet(h, S) = SumFunctionOnSet(f, S) + SumFunctionOnSet(g, S)
<1>. DEFINE B == {T \in SUBSET S : SumFunctionOnSet(h, T)
                        # SumFunctionOnSet(f, T) + SumFunctionOnSet(g, T)}
<1>1. SUFFICES ASSUME B # {} PROVE FALSE
  OBVIOUS
<1>2. PICK T \in B : \A U \in B : U \subseteq T => U = T
  <2>1. B \in SUBSET SUBSET S
    OBVIOUS
  <2>. HIDE DEF B
  <2>. QED
    BY <1>1, <2>1, SmallestSubset
<1>3. IsFiniteSet(T)
  BY FS_Subset
<1>4. T # {}
  <2>1. /\ SumFunctionOnSet(f, {}) = 0 /\ SumFunctionOnSet(g, {}) = 0
        /\ SumFunctionOnSet(h, {}) = 0
    BY SumEmpty
  <2>2. {} \notin B
    BY <2>1
  <2>. QED
    BY <1>2, <2>2
<1>. DEFINE p == Pick(T)
            R == T \ {p}
<1>5. /\ p \in T /\ IsFiniteSet(R)
      /\ SumFunctionOnSet(f, T) = f[p] + SumFunctionOnSet(f, R)
      /\ SumFunctionOnSet(g, T) = g[p] + SumFunctionOnSet(g, R)
      /\ SumFunctionOnSet(h, T) = h[p] + SumFunctionOnSet(h, R)
  BY <1>3, <1>4, SumPick
<1>6. SumFunctionOnSet(h, R) = SumFunctionOnSet(f, R) + SumFunctionOnSet(g, R)
  BY <1>2, <1>5
<1>7. /\ SumFunctionOnSet(f, R) \in Int /\ SumFunctionOnSet(g, R) \in Int
      /\ f[p] \in Int /\ g[p] \in Int /\ h[p] = f[p] + g[p]
  BY <1>5, SumInt
<1>. HIDE DEF p, R
<1>. QED
  BY <1>2, <1>5, <1>6, <1>7

\* More elements and greater values have a greater sum.
LEMMA SumMonotone ==
  ASSUME NEW f, NEW g, NEW S, IsFiniteSet(S), NEW T \in SUBSET S,
         \A x \in S : g[x] \in Nat, \A x \in T : f[x] \in Nat /\ f[x] <= g[x]
  PROVE  SumFunctionOnSet(f, T) <= SumFunctionOnSet(g, S)
<1>. DEFINE B == {U \in SUBSET S : ~ (SumFunctionOnSet(f, U \cap T) <= SumFunctionOnSet(g, U))}
<1>1. S \cap T = T
  OBVIOUS
<1>2. SUFFICES ASSUME B # {} PROVE FALSE
  BY <1>1
<1>3. PICK U \in B : \A V \in B : V \subseteq U => V = U
  <2>1. B \in SUBSET SUBSET S
    OBVIOUS
  <2>. HIDE DEF B
  <2>. QED
    BY <1>2, <2>1, SmallestSubset
<1>4. IsFiniteSet(U) /\ IsFiniteSet(U \cap T)
  BY FS_Subset
<1>5. U # {}
  <2>1. {} \cap T = {}
    OBVIOUS
  <2>2. SumFunctionOnSet(f, {}) = 0 /\ SumFunctionOnSet(g, {}) = 0
    BY SumEmpty
  <2>3. {} \notin B
    BY <2>1, <2>2
  <2>. QED
    BY <1>3, <2>3
<1>. DEFINE p == Pick(U)
            R == U \ {p}
<1>6. /\ p \in U /\ IsFiniteSet(R) /\ IsFiniteSet(R \cap T)
      /\ SumFunctionOnSet(g, U) = g[p] + SumFunctionOnSet(g, R)
  BY <1>4, <1>5, SumPick, FS_Subset
<1>7. SumFunctionOnSet(f, R \cap T) <= SumFunctionOnSet(g, R)
  BY <1>3, <1>6
<1>8. /\ SumFunctionOnSet(f, R \cap T) \in Nat /\ SumFunctionOnSet(g, R) \in Nat
      /\ g[p] \in Nat
      /\ p \in T => f[p] \in Nat /\ f[p] <= g[p]
  BY <1>6, SumInt
<1>9. CASE p \in T
  <2>1. (U \cap T) \ {p} = R \cap T
    OBVIOUS
  <2>2. SumFunctionOnSet(f, U \cap T) = f[p] + SumFunctionOnSet(f, R \cap T)
    BY <1>4, <1>6, <1>9, <2>1, SumRemove
  <2>. HIDE DEF p, R
  <2>. QED
    BY <1>3, <1>6, <1>7, <1>8, <1>9, <2>2
<1>10. CASE p \notin T
  <2>1. U \cap T = R \cap T
    BY <1>10
  <2>2. ~ (SumFunctionOnSet(f, U \cap T) <= SumFunctionOnSet(g, U))
    BY <1>3
  <2>3. SumFunctionOnSet(f, U \cap T) = SumFunctionOnSet(f, R \cap T)
    BY <2>1
  <2>. HIDE DEF p, R, B
  <2>. QED
    BY <1>6, <1>7, <1>8, <2>2, <2>3
<1>. QED
  BY <1>9, <1>10

\* A sum of natural numbers is no less than one of them.
LEMMA SumMember ==
  ASSUME NEW f, NEW S, IsFiniteSet(S), \A x \in S : f[x] \in Nat, NEW a \in S
  PROVE  f[a] <= SumFunctionOnSet(f, S)
<1>1. PICK T : T = S \ {a}
  OBVIOUS
<1>2. IsFiniteSet(T) /\ (\A x \in T : f[x] \in Nat) /\ \A x \in S : f[x] \in Int
  BY <1>1, FS_Subset
<1>3. SumFunctionOnSet(f, T) \in Nat
  BY <1>2, SumInt
<1>4. SumFunctionOnSet(f, S) = f[a] + SumFunctionOnSet(f, T)
  BY <1>1, <1>2, SumRemove
<1>. QED
  BY <1>3, <1>4

\* b renames the elements of S, no two of them to the same, and g has the values
\* of f.
Renames(b, S, f, g) ==
    /\ \A x \in S : f[x] \in Int /\ g[b[x]] = f[x]
    /\ \A x, y \in S : b[x] = b[y] => x = y

\* A sum does not change when its elements are renamed.
LEMMA SumRename ==
  ASSUME NEW f, NEW g, NEW b, NEW S, IsFiniteSet(S), Renames(b, S, f, g)
  PROVE  SumFunctionOnSet(g, {b[x] : x \in S}) = SumFunctionOnSet(f, S)
<1>. DEFINE Named(U) == {b[x] : x \in U}
            Good(U) == /\ IsFiniteSet(Named(U))
                       /\ SumFunctionOnSet(g, Named(U)) = SumFunctionOnSet(f, U)
            B == {U \in SUBSET S : ~ Good(U)}
<1>1. SUFFICES ASSUME B # {} PROVE FALSE
  OBVIOUS
<1>2. PICK U \in B : \A V \in B : V \subseteq U => V = U
  <2>1. B \in SUBSET SUBSET S
    OBVIOUS
  <2>. HIDE DEF B
  <2>. QED
    BY <1>1, <2>1, SmallestSubset
<1>3. IsFiniteSet(U) /\ U \subseteq S /\ ~ Good(U)
  BY <1>2, FS_Subset
<1>4. U # {}
  <2>1. Named({}) = {}
    OBVIOUS
  <2>2. SumFunctionOnSet(f, {}) = 0 /\ SumFunctionOnSet(g, {}) = 0 /\ IsFiniteSet({})
    BY SumEmpty, FS_EmptySet
  <2>3. Good({})
    BY <2>1, <2>2
  <2>. QED
    BY <1>3, <2>3
<1>. DEFINE p == Pick(U)
            R == U \ {p}
<1>a. /\ \A x \in S : f[x] \in Int /\ g[b[x]] = f[x]
      /\ \A x, y \in S : b[x] = b[y] => x = y
  BY DEF Renames
<1>5. /\ p \in U /\ IsFiniteSet(R)
      /\ SumFunctionOnSet(f, U) = f[p] + SumFunctionOnSet(f, R)
  BY <1>3, <1>4, SumPick
<1>6. Good(R)
  <2>1. R \in SUBSET S /\ R \subseteq U /\ R # U
    BY <1>3, <1>5
  <2>. HIDE DEF R, Good
  <2>. QED
    BY <1>2, <2>1
<1>7. /\ Named(U) = Named(R) \cup {b[p]}
      /\ b[p] \notin Named(R)
      /\ \A y \in Named(R) \cup {b[p]} : g[y] \in Int
      /\ f[p] \in Int /\ g[b[p]] = f[p] /\ \A x \in R : f[x] \in Int
  BY <1>3, <1>5, <1>a
<1>8. /\ IsFiniteSet(Named(R) \cup {b[p]})
      /\ SumFunctionOnSet(g, Named(R) \cup {b[p]}) = SumFunctionOnSet(g, Named(R)) + g[b[p]]
  <2>. HIDE DEF p, R, Named
  <2>. QED
    BY <1>6, <1>7, SumAdd
<1>9. SumFunctionOnSet(f, R) \in Int
  BY <1>5, <1>7, SumInt
<1>10. /\ IsFiniteSet(Named(U))
       /\ SumFunctionOnSet(g, Named(U)) = SumFunctionOnSet(g, Named(R)) + g[b[p]]
  <2>. HIDE DEF p, R, Named
  <2>. QED
    BY <1>7, <1>8
<1>11. SumFunctionOnSet(g, Named(R)) = SumFunctionOnSet(f, R)
  BY <1>6
<1>12. SumFunctionOnSet(g, Named(U)) = SumFunctionOnSet(f, U)
  <2>. HIDE DEF p, R, Named
  <2>. QED
    BY <1>5, <1>7, <1>9, <1>10, <1>11
<1>. QED
  BY <1>3, <1>10, <1>12

\* The sum over a set and another one apart from it.
LEMMA SumUnion ==
  ASSUME NEW f, NEW S, NEW T, IsFiniteSet(S), IsFiniteSet(T), S \cap T = {},
         \A x \in S \cup T : f[x] \in Int
  PROVE  /\ IsFiniteSet(S \cup T)
         /\ SumFunctionOnSet(f, S \cup T) = SumFunctionOnSet(f, S) + SumFunctionOnSet(f, T)
<1>. DEFINE Good(U) == SumFunctionOnSet(f, S \cup U)
                         = SumFunctionOnSet(f, S) + SumFunctionOnSet(f, U)
            B == {U \in SUBSET T : ~ Good(U)}
<1>0. IsFiniteSet(S \cup T)
  BY FS_Union
<1>1. SUFFICES ASSUME B # {} PROVE FALSE
  BY <1>0
<1>2. PICK U \in B : \A V \in B : V \subseteq U => V = U
  <2>1. B \in SUBSET SUBSET T
    OBVIOUS
  <2>. HIDE DEF B
  <2>. QED
    BY <1>1, <2>1, SmallestSubset
<1>3. IsFiniteSet(U) /\ U \subseteq T /\ ~ Good(U)
  BY <1>2, FS_Subset
<1>4. U # {}
  <2>1. SumFunctionOnSet(f, S) \in Int /\ SumFunctionOnSet(f, {}) = 0 /\ S \cup {} = S
    BY SumInt, SumEmpty
  <2>2. Good({})
    BY <2>1
  <2>. QED
    BY <1>3, <2>2
<1>. DEFINE p == Pick(U)
            R == U \ {p}
<1>5. /\ p \in U /\ IsFiniteSet(R)
      /\ SumFunctionOnSet(f, U) = f[p] + SumFunctionOnSet(f, R)
  BY <1>3, <1>4, SumPick
<1>6. Good(R)
  <2>1. R \in SUBSET T /\ R \subseteq U /\ R # U
    BY <1>3, <1>5
  <2>. HIDE DEF R, Good
  <2>. QED
    BY <1>2, <2>1
<1>7. /\ S \cup U = (S \cup R) \cup {p} /\ p \notin S \cup R
      /\ S \cup R \subseteq S \cup T /\ IsFiniteSet(S \cup R)
      /\ f[p] \in Int /\ \A x \in (S \cup R) \cup {p} : f[x] \in Int
  BY <1>0, <1>3, <1>5, FS_Subset
<1>8. SumFunctionOnSet(f, S \cup U) = SumFunctionOnSet(f, S \cup R) + f[p]
  <2>. DEFINE Q == S \cup R
  <2>1. SumFunctionOnSet(f, Q \cup {p}) = SumFunctionOnSet(f, Q) + f[p]
    <3>. HIDE DEF Q, p
    <3>. QED
      BY <1>7, SumAdd DEF Q
  <2>. QED
    BY <1>7, <2>1
<1>9. SumFunctionOnSet(f, S) \in Int /\ SumFunctionOnSet(f, R) \in Int
  <2>1. (\A x \in S : f[x] \in Int) /\ (\A x \in R : f[x] \in Int)
    BY <1>3
  <2>. HIDE DEF R
  <2>. QED
    BY <1>5, <2>1, SumInt
<1>10. SumFunctionOnSet(f, S \cup R) = SumFunctionOnSet(f, S) + SumFunctionOnSet(f, R)
  BY <1>6
<1>11. Good(U)
  <2>. HIDE DEF p, R
  <2>. QED
    BY <1>5, <1>7, <1>8, <1>9, <1>10
<1>. QED
  BY <1>3, <1>11

\* h says which element of A each element of S belongs to, and g adds up the
\* values of f that belong to the same one.
Groups(f, g, h, S, A) ==
    /\ \A x \in S : f[x] \in Int /\ h[x] \in A
    /\ \A a \in A : g[a] = SumFunctionOnSet(f, {x \in S : h[x] = a})

\* A sum is the sum of the sums of its groups.
LEMMA SumGroups ==
  ASSUME NEW f, NEW g, NEW h, NEW S, NEW A, IsFiniteSet(S), IsFiniteSet(A),
         Groups(f, g, h, S, A)
  PROVE  SumFunctionOnSet(f, S) = SumFunctionOnSet(g, A)
<1>. USE DEF Groups
<1>. DEFINE In(U) == {x \in S : h[x] \in U}
            Good(U) == SumFunctionOnSet(f, In(U)) = SumFunctionOnSet(g, U)
            B == {U \in SUBSET A : ~ Good(U)}
<1>0. \A a \in A : g[a] \in Int
  <2>. SUFFICES ASSUME NEW a \in A PROVE g[a] \in Int
    OBVIOUS
  <2>1. IsFiniteSet({x \in S : h[x] = a}) /\ \A x \in {x \in S : h[x] = a} : f[x] \in Int
    BY FS_Subset
  <2>. QED
    BY <2>1, SumInt
<1>1. ASSUME B # {} PROVE FALSE
  <2>2. PICK U \in B : \A V \in B : V \subseteq U => V = U
    <3>1. B \in SUBSET SUBSET A
      OBVIOUS
    <3>. HIDE DEF B
    <3>. QED
      BY <1>1, <3>1, SmallestSubset
  <2>3. IsFiniteSet(U) /\ U \subseteq A /\ ~ Good(U)
    BY <2>2, FS_Subset
  <2>4. U # {}
    <3>1. In({}) = {}
      OBVIOUS
    <3>2. SumFunctionOnSet(f, {}) = 0 /\ SumFunctionOnSet(g, {}) = 0
      BY SumEmpty
    <3>3. Good({})
      BY <3>1, <3>2
    <3>. QED
      BY <2>3, <3>3
  <2>. DEFINE a == Pick(U)
              R == U \ {a}
              G == {x \in S : h[x] = a}
  <2>5. /\ a \in U /\ IsFiniteSet(R)
        /\ SumFunctionOnSet(g, U) = g[a] + SumFunctionOnSet(g, R)
    BY <2>3, <2>4, SumPick
  <2>6. Good(R)
    <3>1. R \in SUBSET A /\ R \subseteq U /\ R # U
      BY <2>3, <2>5
    <3>. HIDE DEF R, Good
    <3>. QED
      BY <2>2, <3>1
  <2>7. /\ In(U) = In(R) \cup G /\ In(R) \cap G = {}
        /\ IsFiniteSet(In(R)) /\ IsFiniteSet(G)
        /\ \A x \in In(R) \cup G : f[x] \in Int
    <3>1. IsFiniteSet(In(R)) /\ IsFiniteSet(G)
      BY FS_Subset
    <3>. QED
      BY <2>5, <3>1
  <2>8. SumFunctionOnSet(f, In(U)) = SumFunctionOnSet(f, In(R)) + SumFunctionOnSet(f, G)
    <3>1. SumFunctionOnSet(f, In(R) \cup G) = SumFunctionOnSet(f, In(R)) + SumFunctionOnSet(f, G)
      <4>. HIDE DEF In, G
      <4>. QED
        BY <2>7, SumUnion
    <3>. QED
      BY <2>7, <3>1
  <2>9. g[a] = SumFunctionOnSet(f, G) /\ g[a] \in Int /\ SumFunctionOnSet(g, R) \in Int
    <3>1. a \in A /\ \A x \in R : g[x] \in Int
      BY <1>0, <2>3, <2>5
    <3>2. SumFunctionOnSet(g, R) \in Int
      <4>. HIDE DEF R
      <4>. QED
        BY <2>5, <3>1, SumInt
    <3>. QED
      BY <1>0, <3>1, <3>2
  <2>10. Good(U)
    <3>1. SumFunctionOnSet(f, In(R)) = SumFunctionOnSet(g, R)
      BY <2>6
    <3>. HIDE DEF a, R, G, In
    <3>. QED
      BY <2>5, <2>8, <2>9, <3>1
  <2>. QED
    BY <2>3, <2>10
<1>2. Good(A)
  BY <1>1
<1>3. In(A) = S
  OBVIOUS
<1>. QED
  BY <1>2, <1>3

\* Induction up to a number, for a set of numbers.
LEMMA UpTo ==
  ASSUME NEW N \in Nat, NEW G, 0 \in G, \A n \in 1..N : n - 1 \in G => n \in G
  PROVE  N \in G
<1>. DEFINE B == {1..n : n \in {m \in 0..N : m \notin G}}
<1>1. SUFFICES ASSUME N \notin G PROVE FALSE
  OBVIOUS
<1>2. PICK S : S = 1..N
  OBVIOUS
<1>b. IsFiniteSet(S) /\ B \in SUBSET SUBSET S /\ B # {}
  <2>1. IsFiniteSet(S)
    BY <1>2, FS_Interval
  <2>2. \A n \in 0..N : 1..n \subseteq 1..N
    OBVIOUS
  <2>. QED
    BY <1>1, <1>2, <2>1, <2>2
<1>3. PICK U \in B : \A V \in B : V \subseteq U => V = U
  <2>. HIDE DEF B
  <2>. QED
    BY <1>b, SmallestSubset
<1>4. PICK n \in 0..N : n \notin G /\ U = 1..n
  BY <1>3
<1>5. n \in 1..N
  BY <1>4
<1>6. n - 1 \in G
  <2>1. SUFFICES ASSUME n - 1 \notin G PROVE FALSE
    OBVIOUS
  <2>2. 1..(n - 1) \in B
    BY <1>5, <2>1
  <2>3. 1..(n - 1) \subseteq U /\ n \in U /\ n \notin 1..(n - 1)
    BY <1>4, <1>5
  <2>. QED
    BY <1>3, <2>2, <2>3
<1>. QED
  BY <1>4, <1>5, <1>6
=============================================================================
