----------------------------- MODULE FiniteSums -----------------------------
(***************************************************************************)
(* Sums over finite sets, SumFunction and SumFunctionOnSet of the community*)
(* modules: what the predictor adds up over calls and the report over      *)
(* files. The library's induction rules are not used: a sum is shown to be *)
(* the value of an iteration that takes out one element after the other,   *)
(* and facts about it by looking at a smallest set for which they fail.    *)
(***************************************************************************)
EXTENDS Integers, FiniteSets, Functions, FiniteSetTheorems, TLAPS

(* A non-empty family of subsets of a finite set has a smallest member,    *)
(* one that includes no other. It takes the place of induction: the        *)
(* smallest set for which a claim fails is a contradiction.                *)
LEMMA SmallestSubset ==
  ASSUME NEW S, IsFiniteSet(S), NEW F, F \subseteq SUBSET S, F # {}
  PROVE  \E T \in F : \A U \in F : U \subseteq T => U = T
<1>1. F \subseteq FiniteSubsetsOf(S)
  BY FS_FiniteSubsetsOfFinite
<1>2. PICK T \in F : \A U \in F : ~ (<<U, T>> \in StrictSubsetOrdering(S))
  BY <1>1, WFMin, FS_StrictSubsetOrderingWellFounded
<1> QED
  BY <1>2 DEF StrictSubsetOrdering

(* A family with the empty set that is closed under adding an element has  *)
(* all of a finite set: induction over its size.                           *)
LEMMA Growing ==
  ASSUME NEW S, IsFiniteSet(S), NEW F, {} \in F,
         \A U \in SUBSET S : \A x \in S \ U : U \in F => U \cup {x} \in F
  PROVE S \in F
<1> SUFFICES ASSUME S \notin F PROVE FALSE
  OBVIOUS
<1> DEFINE B == (SUBSET S) \ F
<1>1. B \subseteq SUBSET S /\ B # {}
  OBVIOUS
<1>2. PICK T \in B : \A U \in B : U \subseteq T => U = T
  <2> HIDE DEF B
  <2> QED BY <1>1, SmallestSubset
<1>3. PICK x \in T : TRUE
  OBVIOUS
<1>4. T \ {x} \in B
  <2>1. (T \ {x}) \cup {x} = T
    BY <1>3
  <2> QED BY <2>1, <1>3
<1> QED  BY <1>2, <1>4, <1>3

(* A finite set that a relation orders has a first element.                *)
LEMMA FirstOfSet ==
  ASSUME NEW S, IsFiniteSet(S), S # {}, NEW R,
         \A x, y \in S : x # y => <<x, y>> \in R \/ <<y, x>> \in R,
         \A x, y, z \in S : <<x, y>> \in R /\ <<y, z>> \in R => <<x, z>> \in R
  PROVE  \E c \in S : \A d \in S \ {c} : <<c, d>> \in R
<1> DEFINE Has(T) == T = {} \/ \E c \in T : \A d \in T \ {c} : <<c, d>> \in R
           F == {T \in SUBSET S : Has(T)}
<1>1. {} \in F
  OBVIOUS
<1>2. ASSUME NEW U \in SUBSET S, NEW x \in S \ U, U \in F PROVE U \cup {x} \in F
  <2>1. CASE U = {}
    <3>1. \A d \in (U \cup {x}) \ {x} : <<x, d>> \in R
      BY <2>1
    <3> QED
      BY <3>1
  <2>2. CASE U # {}
    <3>1. PICK c \in U : \A d \in U \ {c} : <<c, d>> \in R
      BY <1>2, <2>2
    <3>2. CASE <<c, x>> \in R
      BY <3>1, <3>2
    <3>3. CASE <<x, c>> \in R
      <4>1. \A d \in (U \cup {x}) \ {x} : <<x, d>> \in R
        BY <3>1, <3>3
      <4> QED
        BY <4>1
    <3> QED
      BY <3>2, <3>3
  <2> QED
    BY <2>1, <2>2
<1>3. S \in F
  <2> HIDE DEF F
  <2> QED
    BY <1>1, <1>2, Growing
<1> QED
  BY <1>3

first(S) == CHOOSE x \in S : TRUE

Adds(sum, w, T) ==
    sum = [s \in SUBSET T |-> IF s = {} THEN 0 ELSE w[first(s)] + sum[s \ {first(s)}]]

(* Two functions that add up the same weights agree where both are         *)
(* defined.                                                                *)
LEMMA OneIteration ==
  ASSUME NEW w, NEW S, IsFiniteSet(S), NEW T, NEW g, NEW h, Adds(g, w, S), Adds(h, w, T)
  PROVE  \A s \in SUBSET (S \cap T) : g[s] = h[s]
<1> DEFINE F == {s \in SUBSET (S \cap T) : g[s] # h[s]}
<1> SUFFICES ASSUME F # {} PROVE FALSE
  OBVIOUS
<1>1. PICK s \in F : \A u \in F : u \subseteq s => u = s
  <2>1. F \subseteq SUBSET S
    OBVIOUS
  <2> HIDE DEF F
  <2> QED BY <2>1, SmallestSubset
<1> DEFINE u == s \ {first(s)}
<1>2. s # {}
  BY DEF Adds
<1>3. first(s) \in s
  BY <1>2 DEF first
<1>4. g[u] = h[u]
  BY <1>1, <1>3
<1>5. g[s] = w[first(s)] + g[u] /\ h[s] = w[first(s)] + h[u]
  <2>1. s \in SUBSET S /\ s \in SUBSET T
    OBVIOUS
  <2> QED BY <2>1, <1>2 DEF Adds
<1> QED
  BY <1>4, <1>5

(* There is such a function for every finite set.                          *)
LEMMA IterationExists ==
  ASSUME NEW w, NEW S, IsFiniteSet(S)
  PROVE  \E g : Adds(g, w, S)
<1> DEFINE F == {T \in SUBSET S : \A g : ~ Adds(g, w, T)}
<1> SUFFICES ASSUME F # {} PROVE FALSE
  OBVIOUS
<1>1. PICK T \in F : \A U \in F : U \subseteq T => U = T
  <2>1. F \subseteq SUBSET S
    OBVIOUS
  <2> HIDE DEF F
  <2> QED BY <2>1, SmallestSubset
<1> DEFINE it(U) == CHOOSE g : Adds(g, w, U)
           sum == [s \in SUBSET T |->
                     IF s = {} THEN 0
                     ELSE w[first(s)] + it(s \ {first(s)})[s \ {first(s)}]]
<1>2. ASSUME NEW U \in SUBSET T, U # T PROVE Adds(it(U), w, U)
  BY <1>1, <1>2
<1>3. ASSUME NEW s \in SUBSET T, s # {}
      PROVE  sum[s] = w[first(s)] + sum[s \ {first(s)}]
  <2> DEFINE u == s \ {first(s)}
  <2>1. first(s) \in s
    BY <1>3 DEF first
  <2>2. Adds(it(u), w, u)
    BY <1>2, <2>1
  <2>3. sum[u] = it(u)[u]
    <3>1. CASE u = {}
      <4>1. sum[u] = 0
        BY <3>1
      <4>2. it(u)[u] = 0
        <5> HIDE DEF it, u
        <5> QED BY <3>1, <2>2 DEF Adds
      <4> QED BY <4>1, <4>2
    <3>2. CASE u # {}
      <4> DEFINE v == u \ {first(u)}
      <4>1. first(u) \in u
        BY <3>2 DEF first
      <4>2. Adds(it(v), w, v)
        BY <1>2, <4>1
      <4>3. IsFiniteSet(v)
        BY FS_Subset
      <4>4. it(v)[v] = it(u)[v]
        <5>1. v \in SUBSET (v \cap u)
          OBVIOUS
        <5> HIDE DEF it, u, v
        <5> QED BY <5>1, <2>2, <4>2, <4>3, OneIteration
      <4>5. it(u)[u] = w[first(u)] + it(u)[v]
        <5> HIDE DEF it
        <5> QED BY <2>2, <3>2 DEF Adds
      <4>6. sum[u] = w[first(u)] + it(v)[v]
        BY <3>2, <4>1
      <4> QED BY <4>4, <4>5, <4>6
    <3> QED BY <3>1, <3>2
  <2> QED BY <2>3, <1>3
<1>4. sum[{}] = 0
  OBVIOUS
<1>5. Adds(sum, w, T)
  <2>1. \A s \in SUBSET T : sum[s] = IF s = {} THEN 0 ELSE w[first(s)] + sum[s \ {first(s)}]
    <3> HIDE DEF sum
    <3> QED BY <1>3, <1>4
  <2>2. sum = [s \in SUBSET T |-> sum[s]]
    OBVIOUS
  <2> HIDE DEF sum
  <2> QED BY <2>1, <2>2 DEF Adds
<1> QED BY <1>5


(* The sum of the community modules is the value of that function.         *)
LEMMA SumIsIteration ==
  ASSUME NEW w, NEW S, IsFiniteSet(S)
  PROVE  \E sum : /\ Adds(sum, w, S)
                  /\ SumFunctionOnSet(w, S) = sum[S]
<1> DEFINE sum == CHOOSE it : Adds(it, w, S)
<1>1. SumFunctionOnSet(w, S) = sum[S]
  BY DEF SumFunctionOnSet, FoldFunctionOnSet, MapThenFoldSet, Adds, first
<1>2. Adds(sum, w, S)
  BY IterationExists
<1> QED BY <1>1, <1>2

(* The sum over no element is zero.                                        *)
LEMMA SumEmpty ==
  ASSUME NEW w
  PROVE  SumFunctionOnSet(w, {}) = 0
<1>1. PICK sum : Adds(sum, w, {}) /\ SumFunctionOnSet(w, {}) = sum[{}]
  BY SumIsIteration, FS_EmptySet
<1> QED BY <1>1 DEF Adds

(* A sum is the weight of the element chosen first and the sum of the      *)
(* rest.                                                                   *)
LEMMA SumFirst ==
  ASSUME NEW w, NEW S, IsFiniteSet(S), S # {}
  PROVE  /\ first(S) \in S
         /\ SumFunctionOnSet(w, S) = w[first(S)] + SumFunctionOnSet(w, S \ {first(S)})
<1> DEFINE u == S \ {first(S)}
<1>1. first(S) \in S
  BY DEF first
<1>2. IsFiniteSet(u)
  BY FS_Subset
<1>3. PICK g : Adds(g, w, S) /\ SumFunctionOnSet(w, S) = g[S]
  BY SumIsIteration
<1>4. PICK h : Adds(h, w, u) /\ SumFunctionOnSet(w, u) = h[u]
  BY <1>2, SumIsIteration
<1>5. g[u] = h[u]
  <2>1. u \in SUBSET (S \cap u)
    OBVIOUS
  <2> HIDE DEF u
  <2> QED BY <2>1, <1>3, <1>4, OneIteration
<1>6. g[S] = w[first(S)] + g[u]
  <2>1. S \in SUBSET S
    OBVIOUS
  <2> QED BY <2>1, <1>3 DEF Adds
<1> QED BY <1>1, <1>3, <1>4, <1>5, <1>6

(* A sum of integers is an integer.                                        *)
LEMMA SumInt ==
  ASSUME NEW S, IsFiniteSet(S), NEW w, \A x \in S : w[x] \in Int
  PROVE  SumFunctionOnSet(w, S) \in Int
<1> DEFINE F == {T \in SUBSET S : SumFunctionOnSet(w, T) \notin Int}
<1> SUFFICES ASSUME F # {} PROVE FALSE
  OBVIOUS
<1>1. PICK T \in F : \A U \in F : U \subseteq T => U = T
  <2>1. F \subseteq SUBSET S
    OBVIOUS
  <2> HIDE DEF F
  <2> QED BY <2>1, SmallestSubset
<1>2. IsFiniteSet(T)
  BY FS_Subset
<1>3. T # {}
  BY SumEmpty
<1>4. /\ first(T) \in T
      /\ SumFunctionOnSet(w, T) = w[first(T)] + SumFunctionOnSet(w, T \ {first(T)})
  BY <1>2, <1>3, SumFirst
<1>5. SumFunctionOnSet(w, T \ {first(T)}) \in Int
  BY <1>1, <1>4
<1> QED BY <1>4, <1>5

(* Any element, not only the one chosen, can be taken out of a sum.        *)
LEMMA SumRemove ==
  ASSUME NEW S, IsFiniteSet(S), NEW w, \A x \in S : w[x] \in Int, NEW a \in S
  PROVE  SumFunctionOnSet(w, S) = w[a] + SumFunctionOnSet(w, S \ {a})
<1> DEFINE F == {T \in SUBSET S :
                   \E x \in T : SumFunctionOnSet(w, T) # w[x] + SumFunctionOnSet(w, T \ {x})}
<1> SUFFICES ASSUME F # {} PROVE FALSE
  OBVIOUS
<1>1. PICK T \in F : \A U \in F : U \subseteq T => U = T
  <2>1. F \subseteq SUBSET S
    OBVIOUS
  <2> HIDE DEF F
  <2> QED BY <2>1, SmallestSubset
<1>2. PICK x \in T : SumFunctionOnSet(w, T) # w[x] + SumFunctionOnSet(w, T \ {x})
  OBVIOUS
<1> DEFINE c == first(T)
           U == T \ {x, c}
<1>3. IsFiniteSet(T) /\ IsFiniteSet(T \ {x}) /\ IsFiniteSet(T \ {c}) /\ IsFiniteSet(U)
  BY FS_Subset
<1>4. c \in T /\ SumFunctionOnSet(w, T) = w[c] + SumFunctionOnSet(w, T \ {c})
  BY <1>3, SumFirst
<1>5. x # c
  BY <1>2, <1>4
<1>6. SumFunctionOnSet(w, T \ {c}) = w[x] + SumFunctionOnSet(w, U)
  <2>1. T \ {c} \notin F
    BY <1>1, <1>4
  <2>2. x \in T \ {c} /\ (T \ {c}) \ {x} = U /\ T \ {c} \in SUBSET S
    BY <1>5
  <2> QED BY <2>1, <2>2
<1>7. SumFunctionOnSet(w, T \ {x}) = w[c] + SumFunctionOnSet(w, U)
  <2>1. T \ {x} \notin F
    BY <1>1
  <2>2. c \in T \ {x} /\ (T \ {x}) \ {c} = U /\ T \ {x} \in SUBSET S
    BY <1>5, <1>4
  <2> QED BY <2>1, <2>2
<1>8. SumFunctionOnSet(w, U) \in Int
  BY <1>3, SumInt
<1>9. w[x] \in Int /\ w[c] \in Int
  BY <1>4
<1> HIDE DEF c, U
<1> QED BY <1>2, <1>4, <1>6, <1>7, <1>8, <1>9

(* A new element adds its weight.                                          *)
LEMMA SumAdd ==
  ASSUME NEW S, IsFiniteSet(S), NEW a, a \notin S, NEW w, \A x \in S \cup {a} : w[x] \in Int
  PROVE  /\ SumFunctionOnSet(w, S) \in Int
         /\ SumFunctionOnSet(w, S \cup {a}) = SumFunctionOnSet(w, S) + w[a]
<1>1. IsFiniteSet(S \cup {a})
  BY FS_AddElement
<1>2. SumFunctionOnSet(w, S) \in Int
  BY SumInt
<1>3. (S \cup {a}) \ {a} = S
  OBVIOUS
<1>4. SumFunctionOnSet(w, S \cup {a}) = w[a] + SumFunctionOnSet(w, S)
  BY <1>1, <1>3, SumRemove
<1> QED BY <1>2, <1>4

(* Equal weights have equal sums.                                          *)
LEMMA SumSame ==
  ASSUME NEW S, IsFiniteSet(S), NEW w, NEW v, \A x \in S : w[x] = v[x]
  PROVE  SumFunctionOnSet(w, S) = SumFunctionOnSet(v, S)
<1> DEFINE F == {T \in SUBSET S : SumFunctionOnSet(w, T) # SumFunctionOnSet(v, T)}
<1> SUFFICES ASSUME F # {} PROVE FALSE
  OBVIOUS
<1>1. PICK T \in F : \A U \in F : U \subseteq T => U = T
  <2>1. F \subseteq SUBSET S
    OBVIOUS
  <2> HIDE DEF F
  <2> QED BY <2>1, SmallestSubset
<1>2. IsFiniteSet(T)
  BY FS_Subset
<1>3. T # {}
  BY SumEmpty
<1>4. /\ first(T) \in T
      /\ SumFunctionOnSet(w, T) = w[first(T)] + SumFunctionOnSet(w, T \ {first(T)})
      /\ SumFunctionOnSet(v, T) = v[first(T)] + SumFunctionOnSet(v, T \ {first(T)})
  BY <1>2, <1>3, SumFirst
<1>5. SumFunctionOnSet(w, T \ {first(T)}) = SumFunctionOnSet(v, T \ {first(T)})
  BY <1>1, <1>4
<1> QED BY <1>4, <1>5

(* When one weight changes the sum changes by as much.                     *)
LEMMA SumChange ==
  ASSUME NEW S, IsFiniteSet(S), NEW a \in S, NEW w, NEW v,
         \A x \in S : w[x] \in Int, \A x \in S : v[x] \in Int,
         \A x \in S \ {a} : v[x] = w[x]
  PROVE  SumFunctionOnSet(v, S) = SumFunctionOnSet(w, S) + v[a] - w[a]
<1>1. IsFiniteSet(S \ {a})
  BY FS_Subset
<1>2. SumFunctionOnSet(w, S \ {a}) = SumFunctionOnSet(v, S \ {a})
  BY <1>1, SumSame
<1>3. /\ SumFunctionOnSet(w, S) = w[a] + SumFunctionOnSet(w, S \ {a})
      /\ SumFunctionOnSet(v, S) = v[a] + SumFunctionOnSet(v, S \ {a})
  BY SumRemove
<1>4. SumFunctionOnSet(w, S \ {a}) \in Int /\ w[a] \in Int /\ v[a] \in Int
  BY <1>1, SumInt
<1> QED BY <1>2, <1>3, <1>4

(* A sum of zeros is zero.                                                 *)
LEMMA SumZero ==
  ASSUME NEW S, IsFiniteSet(S), NEW w, \A x \in S : w[x] = 0
  PROVE  SumFunctionOnSet(w, S) = 0
<1> DEFINE F == {T \in SUBSET S : SumFunctionOnSet(w, T) = 0}
<1>1. {} \in F
  BY SumEmpty
<1>2. ASSUME NEW U \in SUBSET S, NEW x \in S \ U, U \in F PROVE U \cup {x} \in F
  <2>1. IsFiniteSet(U)
    BY FS_Subset
  <2>2. \A y \in U \cup {x} : w[y] \in Int
    OBVIOUS
  <2>3. SumFunctionOnSet(w, U \cup {x}) = SumFunctionOnSet(w, U) + w[x]
    BY <2>1, <2>2, SumAdd
  <2> QED BY <2>3, <1>2
<1>3. S \in F
  <2> HIDE DEF F
  <2> QED BY <1>1, <1>2, Growing
<1> QED BY <1>3

(* The sum over two disjoint sets is the sum of their sums.                *)
LEMMA SumUnion ==
  ASSUME NEW S, IsFiniteSet(S), NEW T, IsFiniteSet(T), S \cap T = {},
         NEW w, \A x \in S \cup T : w[x] \in Int
  PROVE  SumFunctionOnSet(w, S \cup T) = SumFunctionOnSet(w, S) + SumFunctionOnSet(w, T)
<1> DEFINE F == {U \in SUBSET T : SumFunctionOnSet(w, S \cup U)
                                   = SumFunctionOnSet(w, S) + SumFunctionOnSet(w, U)}
<1>1. {} \in F
  <2>1. SumFunctionOnSet(w, {}) = 0 /\ SumFunctionOnSet(w, S) \in Int
    BY SumEmpty, SumInt
  <2>2. S \cup {} = S
    OBVIOUS
  <2> QED BY <2>1, <2>2
<1>2. ASSUME NEW U \in SUBSET T, NEW x \in T \ U, U \in F PROVE U \cup {x} \in F
  <2>1. IsFiniteSet(U) /\ IsFiniteSet(S \cup U)
    BY FS_Subset, FS_Union
  <2>2. /\ SumFunctionOnSet(w, U) \in Int
        /\ SumFunctionOnSet(w, U \cup {x}) = SumFunctionOnSet(w, U) + w[x]
    BY <2>1, SumAdd
  <2>3. x \notin S \cup U /\ \A y \in (S \cup U) \cup {x} : w[y] \in Int
    OBVIOUS
  <2>4. SumFunctionOnSet(w, (S \cup U) \cup {x}) = SumFunctionOnSet(w, S \cup U) + w[x]
    BY <2>1, <2>3, SumAdd
  <2>5. (S \cup U) \cup {x} = S \cup (U \cup {x})
    OBVIOUS
  <2>6. SumFunctionOnSet(w, S) \in Int /\ w[x] \in Int
    BY SumInt
  <2>7. SumFunctionOnSet(w, S \cup U) = SumFunctionOnSet(w, S) + SumFunctionOnSet(w, U)
    BY <1>2
  <2>8. SumFunctionOnSet(w, S \cup (U \cup {x}))
          = SumFunctionOnSet(w, S) + SumFunctionOnSet(w, U \cup {x})
    <3>1. SumFunctionOnSet(w, S \cup (U \cup {x})) = SumFunctionOnSet(w, S \cup U) + w[x]
      BY <2>4, <2>5, Zenon
    <3> HIDE DEF F
    <3> QED BY <2>2, <3>1, <2>6, <2>7
  <2> QED BY <2>8
<1>3. T \in F
  <2> HIDE DEF F
  <2> QED BY <1>1, <1>2, Growing
<1> QED BY <1>3

(* A sum up to n + 1 is one up to n and the last weight.                   *)
LEMMA SumInterval ==
  ASSUME NEW n \in Nat, NEW w, \A k \in 1..(n + 1) : w[k] \in Int
  PROVE  /\ SumFunctionOnSet(w, 1..n) \in Int
         /\ SumFunctionOnSet(w, 1..(n + 1)) = SumFunctionOnSet(w, 1..n) + w[n + 1]
<1> DEFINE S == 1..n
           a == n + 1
<1>1. IsFiniteSet(S)
  BY FS_Interval
<1>2. 1..(n + 1) = S \cup {a} /\ a \notin S
  OBVIOUS
<1>3. \A k \in S \cup {a} : w[k] \in Int
  OBVIOUS
<1> HIDE DEF S, a
<1>4. /\ SumFunctionOnSet(w, S) \in Int
      /\ SumFunctionOnSet(w, S \cup {a}) = SumFunctionOnSet(w, S) + w[a]
  BY <1>1, <1>2, <1>3, SumAdd
<1> QED
  BY <1>2, <1>4 DEF S, a

(* No element belongs to the sets of two elements of S.                   *)
Apart(K, S) == \A x, y \in S : x # y => K[x] \cap K[y] = {}

(* What is left of the weights of S when every element gives those of its  *)
(* own set away, and no two sets share an element.                         *)
LEMMA SumOfRests ==
  ASSUME NEW N, IsFiniteSet(N), NEW w, \A x \in N : w[x] \in Int,
         NEW S \in SUBSET N, NEW K, \A x \in S : K[x] \subseteq N, Apart(K, S),
         NEW v, \A x \in S : v[x] = w[x] - SumFunctionOnSet(w, K[x])
  PROVE  SumFunctionOnSet(v, S) =
             SumFunctionOnSet(w, S) - SumFunctionOnSet(w, UNION {K[x] : x \in S})
<1> DEFINE U(T) == UNION {K[x] : x \in T}
           F == {T \in SUBSET S : SumFunctionOnSet(v, T)
                                   = SumFunctionOnSet(w, T) - SumFunctionOnSet(w, U(T))}
<1>0. IsFiniteSet(S) /\ \A T \in SUBSET N : IsFiniteSet(T) /\ SumFunctionOnSet(w, T) \in Int
  <2>1. IsFiniteSet(S) /\ \A T \in SUBSET N : IsFiniteSet(T)
    BY FS_Subset
  <2>2. ASSUME NEW T \in SUBSET N PROVE SumFunctionOnSet(w, T) \in Int
    BY <2>1, SumInt
  <2> QED BY <2>1, <2>2
<1>1. {} \in F
  <2>1. U({}) = {}
    OBVIOUS
  <2> HIDE DEF U
  <2>2. SumFunctionOnSet(v, {}) = 0 /\ SumFunctionOnSet(w, {}) = 0
    BY SumEmpty
  <2>3. SumFunctionOnSet(v, {}) = SumFunctionOnSet(w, {}) - SumFunctionOnSet(w, U({}))
    BY <2>1, <2>2
  <2> QED BY <2>3
<1>2. ASSUME NEW T \in SUBSET S, NEW x \in S \ T, T \in F PROVE T \cup {x} \in F
  <2>1. U(T) \subseteq N /\ K[x] \subseteq N /\ T \subseteq N /\ x \in N
    OBVIOUS
  <2>2. U(T \cup {x}) = U(T) \cup K[x]
    OBVIOUS
  <2>3. U(T) \cap K[x] = {}
    BY DEF Apart
  <2>4. SumFunctionOnSet(v, T) = SumFunctionOnSet(w, T) - SumFunctionOnSet(w, U(T))
    BY <1>2
  <2> DEFINE R == U(T)
             G == K[x]
  <2> HIDE DEF R, G
  <2>5. SumFunctionOnSet(w, R \cup G) = SumFunctionOnSet(w, R) + SumFunctionOnSet(w, G)
    <3>1. IsFiniteSet(R) /\ IsFiniteSet(G) /\ R \cap G = {} /\ \A y \in R \cup G : w[y] \in Int
      BY <1>0, <2>1, <2>3 DEF R, G
    <3> QED BY <3>1, SumUnion
  <2>6. SumFunctionOnSet(w, T \cup {x}) = SumFunctionOnSet(w, T) + w[x]
    <3>1. IsFiniteSet(T) /\ x \notin T /\ \A y \in T \cup {x} : w[y] \in Int
      BY <1>0, <2>1
    <3> QED BY <3>1, SumAdd
  <2>7. SumFunctionOnSet(v, T \cup {x}) = SumFunctionOnSet(v, T) + v[x]
    <3>1. \A y \in S : v[y] \in Int
      BY <1>0
    <3>2. IsFiniteSet(T) /\ x \notin T /\ \A y \in T \cup {x} : v[y] \in Int
      BY <1>0, <2>1, <3>1
    <3> QED BY <3>2, SumAdd
  <2>8. /\ SumFunctionOnSet(w, R) \in Int /\ SumFunctionOnSet(w, G) \in Int
        /\ SumFunctionOnSet(w, T) \in Int /\ w[x] \in Int
    BY <1>0, <2>1 DEF R, G
  <2>9. v[x] = w[x] - SumFunctionOnSet(w, G)
    BY DEF G
  <2>10. SumFunctionOnSet(v, T) = SumFunctionOnSet(w, T) - SumFunctionOnSet(w, R)
    BY <2>4 DEF R
  <2>11. SumFunctionOnSet(v, T \cup {x}) =
            SumFunctionOnSet(w, T \cup {x}) - SumFunctionOnSet(w, R \cup G)
    BY <2>5, <2>6, <2>7, <2>8, <2>9, <2>10
  <2>12. U(T \cup {x}) = R \cup G
    BY <2>2 DEF R, G
  <2> HIDE DEF U
  <2>13. SumFunctionOnSet(v, T \cup {x}) =
            SumFunctionOnSet(w, T \cup {x}) - SumFunctionOnSet(w, U(T \cup {x}))
    BY <2>11, <2>12
  <2> QED BY <2>13
<1>3. S \in F
  <2> HIDE DEF F
  <2> QED BY <1>0, <1>1, <1>2, Growing
<1> QED BY <1>3

(* A part of a sum of numbers none of which is negative.                   *)
LEMMA SumOfPart ==
  ASSUME NEW S, IsFiniteSet(S), NEW w, \A x \in S : w[x] \in Int /\ w[x] >= 0,
         NEW T \in SUBSET S
  PROVE  /\ SumFunctionOnSet(w, T) \in Int /\ SumFunctionOnSet(w, S) \in Int
         /\ SumFunctionOnSet(w, T) <= SumFunctionOnSet(w, S)
<1> DEFINE F == {U \in SUBSET (S \ T) : SumFunctionOnSet(w, U) >= 0}
<1>1. IsFiniteSet(S \ T) /\ IsFiniteSet(T)
  BY FS_Subset
<1>2. {} \in F
  BY SumEmpty
<1>3. ASSUME NEW U \in SUBSET (S \ T), NEW x \in (S \ T) \ U, U \in F
      PROVE  U \cup {x} \in F
  <2>1. IsFiniteSet(U) /\ \A y \in U \cup {x} : w[y] \in Int
    BY <1>1, FS_Subset
  <2>2. /\ SumFunctionOnSet(w, U) \in Int
        /\ SumFunctionOnSet(w, U \cup {x}) = SumFunctionOnSet(w, U) + w[x]
    BY <1>3, <2>1, SumAdd
  <2> QED
    BY <2>2, <1>3
<1> HIDE DEF F
<1>4. S \ T \in F
  BY <1>1, <1>2, <1>3, Growing
<1>5. SumFunctionOnSet(w, T) \in Int /\ SumFunctionOnSet(w, S \ T) \in Int
  BY <1>1, SumInt
<1>6. T \cup (S \ T) = S /\ T \cap (S \ T) = {} /\ \A x \in T \cup (S \ T) : w[x] \in Int
  OBVIOUS
<1> DEFINE R == S \ T
<1>7. SumFunctionOnSet(w, R) >= 0
  BY <1>4 DEF F
<1>8. SumFunctionOnSet(w, T \cup R) = SumFunctionOnSet(w, T) + SumFunctionOnSet(w, R)
  <2>1. IsFiniteSet(R) /\ T \cap R = {} /\ \A x \in T \cup R : w[x] \in Int
    BY <1>1
  <2> HIDE DEF R
  <2> QED
    BY <1>1, <2>1, SumUnion
<1>9. T \cup R = S /\ SumFunctionOnSet(w, R) \in Int
  BY <1>5, <1>6
<1> HIDE DEF R
<1>10. SumFunctionOnSet(w, S) = SumFunctionOnSet(w, T) + SumFunctionOnSet(w, R)
  BY <1>8, <1>9
<1> QED
  BY <1>5, <1>7, <1>9, <1>10
=============================================================================
