----------------------------- MODULE FiniteSums -----------------------------
(***************************************************************************)
(* Sums of integers over finite sets, as the community modules define them *)
(* by recursion over an element that CHOOSE picks: a sum is an integer and *)
(* does not depend on the order.  Money in accounts, the lines of a        *)
(* journal and the postings of an entry are summed so.                     *)
(***************************************************************************)
EXTENDS Integers, Functions, FiniteSetTheorems, TLAPS

Pick(s) == CHOOSE x \in s : TRUE

(* h is the function by which SumFunctionOnSet sums g over the subsets    *)
(* of S.                                                                   *)
Sums(h, g, S) ==
  h = [s \in SUBSET S |-> IF s = {} THEN 0 ELSE g[Pick(s)] + h[s \ {Pick(s)}]]

(* Induction over the naturals, for a set of numbers. *)
LEMMA SetInduction ==
  ASSUME NEW T, 0 \in T, \A n \in Nat : n \in T => n + 1 \in T
  PROVE  Nat \subseteq T
  <1> DEFINE Bad == Nat \ T
             Less == OpToRel(<, Nat)
  <1> SUFFICES ASSUME Bad # {} PROVE FALSE
    OBVIOUS
  <1>1. IsWellFoundedOn(Less, Nat)
    BY NatLessThanWellFounded
  <1> HIDE DEF Less
  <1>2. PICK m \in Bad : \A y \in Bad : <<y, m>> \notin Less
    <2> HIDE DEF Bad
    <2>1. Bad \subseteq Nat
      BY DEF Bad
    <2> QED BY <1>1, <2>1, WFMin
  <1>3. m - 1 \in Bad
    BY <1>2
  <1>4. <<m - 1, m>> \in Less
    BY <1>2, <1>3 DEF Less, OpToRel
  <1> QED BY <1>2, <1>3, <1>4

(* A set that is not empty has the element that is picked.                 *)
LEMMA Picked == ASSUME NEW s, s # {} PROVE Pick(s) \in s
  BY DEF Pick

(* Without one of its elements a finite set is smaller.                    *)
LEMMA Smaller ==
  ASSUME NEW s, IsFiniteSet(s), NEW x \in s, NEW n \in Int, Cardinality(s) <= n + 1
  PROVE  Cardinality(s \ {x}) <= n
  <1>1. Cardinality(s) \in Nat /\ Cardinality(s \ {x}) = Cardinality(s) - 1
    BY FS_CardinalityType, FS_RemoveElement
  <1> QED BY <1>1

(* There is a function that sums over every subset: by induction over the  *)
(* size of the subset,                                                     *)
LEMMA SumsExists ==
  ASSUME NEW S, IsFiniteSet(S), NEW g, \A x \in S : g[x] \in Int
  PROVE  \E h : Sums(h, g, S)
  <1> DEFINE Upto(n) == {s \in SUBSET S : Cardinality(s) <= n}
             Fits(h, s) == h[s] = IF s = {} THEN 0 ELSE g[Pick(s)] + h[s \ {Pick(s)}]
             Good == {n \in Nat : \E h \in [SUBSET S -> Int] : \A s \in Upto(n) : Fits(h, s)}
  <1>0. \A s \in SUBSET S : IsFiniteSet(s) /\ Cardinality(s) \in Nat
    BY FS_Subset, FS_CardinalityType
  <1>1. 0 \in Good
    <2> DEFINE zero == [s \in SUBSET S |-> 0]
    <2>1. \A s \in Upto(0) : s = {}
      BY <1>0, FS_EmptySet
    <2>2. zero \in [SUBSET S -> Int] /\ \A s \in Upto(0) : Fits(zero, s)
      BY <2>1
    <2> QED BY <2>2
  <1>2. \A n \in Nat : n \in Good => n + 1 \in Good
    <2> SUFFICES ASSUME NEW n \in Nat, n \in Good PROVE n + 1 \in Good
      OBVIOUS
    <2>1. PICK h \in [SUBSET S -> Int] : \A s \in Upto(n) : Fits(h, s)
      OBVIOUS
    <2> DEFINE k == [s \in SUBSET S |->
                       IF s = {} THEN 0 ELSE g[Pick(s)] + h[s \ {Pick(s)}]]
    <2>2. k \in [SUBSET S -> Int]
      BY Picked
    <2>3. ASSUME NEW s \in Upto(n + 1) PROVE Fits(k, s)
      <3>1. CASE s = {}
        BY <3>1
      <3>2. CASE s # {}
        <4>1. PICK r : r = s \ {Pick(s)}
          OBVIOUS
        <4>2. r \in Upto(n)
          BY <1>0, <3>2, <4>1, Picked, FS_RemoveElement
        <4>3. k[r] = h[r]
          BY <2>1, <4>2
        <4> QED BY <3>2, <4>1, <4>3
      <3> QED BY <3>1, <3>2
    <2> HIDE DEF k
    <2> QED BY <2>2, <2>3
  <1>3. Cardinality(S) \in Good
    <2> HIDE DEF Good
    <2> QED BY <1>1, <1>2, SetInduction, FS_CardinalityType
  <1>4. PICK h \in [SUBSET S -> Int] : \A s \in Upto(Cardinality(S)) : Fits(h, s)
    BY <1>3
  <1>5. \A s \in SUBSET S : Fits(h, s)
    BY <1>4, FS_Subset
  <1>6. Sums(h, g, S)
    BY <1>5 DEF Sums
  <1> QED BY <1>6

(* and the sum of the community modules is its value.                      *)
LEMMA SumIsReached ==
  ASSUME NEW S, IsFiniteSet(S), NEW g, \A x \in S : g[x] \in Int
  PROVE  \E h : Sums(h, g, S) /\ SumFunctionOnSet(g, S) = h[S]
  <1>1. \E h : Sums(h, g, S)
    BY SumsExists
  <1> QED BY <1>1 DEF SumFunctionOnSet, FoldFunctionOnSet, MapThenFoldSet, Sums, Pick

(* Two such functions agree where their summands do. *)
LEMMA SumsAgree ==
  ASSUME NEW S, IsFiniteSet(S),
         NEW A, NEW B, S \subseteq A, S \subseteq B,
         NEW g1, NEW g2, \A x \in S : g1[x] \in Int /\ g2[x] = g1[x],
         NEW h1, NEW h2, Sums(h1, g1, A), Sums(h2, g2, B)
  PROVE  h1[S] \in Int /\ h2[S] = h1[S]
  <1> DEFINE Upto(n) == {s \in SUBSET S : Cardinality(s) <= n}
             Good == {n \in Nat : \A s \in Upto(n) : h1[s] \in Int /\ h2[s] = h1[s]}
  <1>0. \A s \in SUBSET S : IsFiniteSet(s) /\ Cardinality(s) \in Nat
    BY FS_Subset, FS_CardinalityType
  <1>a. \A s \in SUBSET S :
          /\ h1[s] = IF s = {} THEN 0 ELSE g1[Pick(s)] + h1[s \ {Pick(s)}]
          /\ h2[s] = IF s = {} THEN 0 ELSE g2[Pick(s)] + h2[s \ {Pick(s)}]
    <2> SUFFICES ASSUME NEW s \in SUBSET S
                 PROVE  /\ h1[s] = IF s = {} THEN 0 ELSE g1[Pick(s)] + h1[s \ {Pick(s)}]
                        /\ h2[s] = IF s = {} THEN 0 ELSE g2[Pick(s)] + h2[s \ {Pick(s)}]
      OBVIOUS
    <2>1. s \in SUBSET A /\ s \in SUBSET B
      OBVIOUS
    <2> QED BY <2>1 DEF Sums
  <1>b. h1[{}] = 0 /\ h2[{}] = 0
    <2>1. {} \in SUBSET S
      OBVIOUS
    <2> QED BY <1>a, <2>1
  <1>1. 0 \in Good
    <2>1. \A s \in Upto(0) : s = {}
      BY <1>0, FS_EmptySet
    <2> QED BY <1>b, <2>1
  <1>2. \A n \in Nat : n \in Good => n + 1 \in Good
    <2> SUFFICES ASSUME NEW n \in Nat, n \in Good, NEW s \in Upto(n + 1)
                 PROVE  h1[s] \in Int /\ h2[s] = h1[s]
      OBVIOUS
    <2>1. CASE s = {}
      BY <1>b, <2>1
    <2>2. CASE s # {}
      <3>1. PICK r : r = s \ {Pick(s)}
        OBVIOUS
      <3>2. r \in Upto(n)
        BY <1>0, <2>2, <3>1, Picked, FS_RemoveElement
      <3>3. h1[r] \in Int /\ h2[r] = h1[r]
        BY <3>2
      <3>4. Pick(s) \in S
        BY <2>2, Picked
      <3> QED BY <1>a, <2>2, <3>1, <3>3, <3>4
    <2> QED BY <2>1, <2>2
  <1>3. Cardinality(S) \in Good
    <2> HIDE DEF Good
    <2> QED BY <1>1, <1>2, SetInduction, FS_CardinalityType
  <1> QED BY <1>3, FS_CardinalityType

(* What SumFunctionOnSet computes: a sum of integers, whatever the order. *)
LEMMA SumEmpty == ASSUME NEW g PROVE SumFunctionOnSet(g, {}) = 0
  <1>1. PICK h : Sums(h, g, {}) /\ SumFunctionOnSet(g, {}) = h[{}]
    BY SumIsReached, FS_EmptySet
  <1> QED BY <1>1 DEF Sums

(* A sum of integers is an integer,                                        *)
LEMMA SumType ==
  ASSUME NEW S, IsFiniteSet(S), NEW g, \A x \in S : g[x] \in Int
  PROVE  SumFunctionOnSet(g, S) \in Int
  <1>1. PICK h : Sums(h, g, S) /\ SumFunctionOnSet(g, S) = h[S]
    BY SumIsReached
  <1> QED BY <1>1, SumsAgree

(* depends on the summands alone,                                          *)
LEMMA SumCongruent ==
  ASSUME NEW S, IsFiniteSet(S), NEW g, NEW k,
         \A x \in S : g[x] \in Int /\ k[x] = g[x]
  PROVE  SumFunctionOnSet(k, S) = SumFunctionOnSet(g, S)
  <1>1. PICK h : Sums(h, g, S) /\ SumFunctionOnSet(g, S) = h[S]
    BY SumIsReached
  <1>2. PICK l : Sums(l, k, S) /\ SumFunctionOnSet(k, S) = l[S]
    BY SumIsReached
  <1> QED BY <1>1, <1>2, SumsAgree

(* and is the summand picked first and the rest.                           *)
LEMMA SumPick ==
  ASSUME NEW S, IsFiniteSet(S), S # {}, NEW g, \A x \in S : g[x] \in Int
  PROVE  SumFunctionOnSet(g, S) = g[Pick(S)] + SumFunctionOnSet(g, S \ {Pick(S)})
  <1>0. PICK R : R = S \ {Pick(S)}
    OBVIOUS
  <1>1. IsFiniteSet(R) /\ R \subseteq S
    BY <1>0, FS_Subset
  <1>2. PICK h : Sums(h, g, S) /\ SumFunctionOnSet(g, S) = h[S]
    BY SumIsReached
  <1>3. PICK l : Sums(l, g, R) /\ SumFunctionOnSet(g, R) = l[R]
    BY <1>1, SumIsReached
  <1>4. h[R] = l[R]
    BY <1>1, <1>2, <1>3, SumsAgree
  <1>5. h[S] = g[Pick(S)] + h[R]
    BY <1>0, <1>2 DEF Sums
  <1> QED BY <1>0, <1>2, <1>3, <1>4, <1>5

(* Any summand may be taken out first: the order does not count.           *)
LEMMA SumRemove ==
  ASSUME NEW S, IsFiniteSet(S), NEW g, \A x \in S : g[x] \in Int, NEW e \in S
  PROVE  SumFunctionOnSet(g, S) = g[e] + SumFunctionOnSet(g, S \ {e})
  <1> DEFINE Upto(n) == {s \in SUBSET S : Cardinality(s) <= n}
             Good == {n \in Nat : \A s \in Upto(n) : \A x \in s :
                                   SumFunctionOnSet(g, s) = g[x] + SumFunctionOnSet(g, s \ {x})}
  <1>0. \A s \in SUBSET S : IsFiniteSet(s) /\ Cardinality(s) \in Nat
    BY FS_Subset, FS_CardinalityType
  <1>1. 0 \in Good
    <2>1. \A s \in Upto(0) : s = {}
      BY <1>0, FS_EmptySet
    <2> QED BY <2>1
  <1>2. \A n \in Nat : n \in Good => n + 1 \in Good
    <2> SUFFICES ASSUME NEW n \in Nat, n \in Good, NEW s \in Upto(n + 1), NEW x \in s
                 PROVE  SumFunctionOnSet(g, s) = g[x] + SumFunctionOnSet(g, s \ {x})
      OBVIOUS
    <2>0. PICK y : y = Pick(s)
      OBVIOUS
    <2>1. y \in s
      BY <2>0, Picked
    <2>2. SumFunctionOnSet(g, s) = g[y] + SumFunctionOnSet(g, s \ {y})
      BY <1>0, <2>0, SumPick
    <2>3. CASE x = y
      BY <2>2, <2>3
    <2>4. CASE x # y
      <3>0. PICK sx, sy, r : sx = s \ {x} /\ sy = s \ {y} /\ r = sx \ {y}
        OBVIOUS
      <3>1. sx \in Upto(n) /\ sy \in Upto(n) /\ r \in SUBSET S
        <4>1. Cardinality(sx) <= n /\ Cardinality(sy) <= n
          BY <1>0, <2>1, <3>0, Smaller
        <4> QED BY <3>0, <4>1
      <3>2. y \in sx /\ x \in sy /\ r = sy \ {x}
        BY <2>1, <2>4, <3>0
      <3>3. SumFunctionOnSet(g, sx) = g[y] + SumFunctionOnSet(g, r)
        BY <3>0, <3>1, <3>2
      <3>4. SumFunctionOnSet(g, sy) = g[x] + SumFunctionOnSet(g, r)
        BY <3>1, <3>2
      <3>5. SumFunctionOnSet(g, r) \in Int /\ g[x] \in Int /\ g[y] \in Int
        BY <1>0, <2>1, <3>1, SumType
      <3> HIDE DEF Upto, Good
      <3> QED BY <2>2, <3>0, <3>3, <3>4, <3>5
    <2> QED BY <2>3, <2>4
  <1>3. Cardinality(S) \in Good
    <2> HIDE DEF Good
    <2> QED BY <1>1, <1>2, SetInduction, FS_CardinalityType
  <1> QED BY <1>3, FS_CardinalityType

(* One more element adds its summand.                                      *)
LEMMA SumAdd ==
  ASSUME NEW S, IsFiniteSet(S), NEW g, \A x \in S : g[x] \in Int,
         NEW e, e \notin S, g[e] \in Int
  PROVE  SumFunctionOnSet(g, S \cup {e}) = g[e] + SumFunctionOnSet(g, S)
  <1>1. PICK T : T = S \cup {e}
    OBVIOUS
  <1>2. IsFiniteSet(T) /\ e \in T /\ T \ {e} = S /\ \A x \in T : g[x] \in Int
    BY <1>1, FS_AddElement
  <1> QED BY <1>1, <1>2, SumRemove

(* Moving an amount from one summand to another keeps the sum.             *)
LEMMA SumMove ==
  ASSUME NEW S, IsFiniteSet(S), NEW g, NEW k, NEW a \in S, NEW b \in S, a # b,
         \A x \in S : g[x] \in Int /\ k[x] \in Int,
         \A x \in S \ {a, b} : k[x] = g[x],
         k[a] + k[b] = g[a] + g[b]
  PROVE  SumFunctionOnSet(k, S) = SumFunctionOnSet(g, S)
  <1>1. PICK T, R : T = S \ {a} /\ R = T \ {b}
    OBVIOUS
  <1>2. IsFiniteSet(T) /\ IsFiniteSet(R) /\ b \in T /\ T \subseteq S /\ R \subseteq S
    BY <1>1, FS_Subset
  <1>3. \A x \in R : k[x] = g[x]
    BY <1>1
  <1>4. SumFunctionOnSet(k, R) = SumFunctionOnSet(g, R) /\ SumFunctionOnSet(g, R) \in Int
    BY <1>2, <1>3, SumCongruent, SumType
  <1>5. /\ SumFunctionOnSet(k, S) = k[a] + SumFunctionOnSet(k, T)
        /\ SumFunctionOnSet(g, S) = g[a] + SumFunctionOnSet(g, T)
    BY <1>1, SumRemove
  <1>6. /\ SumFunctionOnSet(k, T) = k[b] + SumFunctionOnSet(k, R)
        /\ SumFunctionOnSet(g, T) = g[b] + SumFunctionOnSet(g, R)
    BY <1>1, <1>2, SumRemove
  <1> QED BY <1>2, <1>4, <1>5, <1>6

(* Induction over the subsets of a finite set, for a set of subsets. *)
LEMMA SubsetInduction ==
  ASSUME NEW S, IsFiniteSet(S), NEW G, {} \in G,
         \A T \in SUBSET S : \A x \in S \ T : T \in G => T \cup {x} \in G
  PROVE  S \in G
  <1> DEFINE Good == {n \in Nat : \A T \in SUBSET S : Cardinality(T) <= n => T \in G}
  <1>0. \A T \in SUBSET S : IsFiniteSet(T) /\ Cardinality(T) \in Nat
    BY FS_Subset, FS_CardinalityType
  <1>1. 0 \in Good
    <2>1. \A T \in SUBSET S : Cardinality(T) <= 0 => T = {}
      BY <1>0, FS_EmptySet
    <2> QED BY <2>1
  <1>2. \A n \in Nat : n \in Good => n + 1 \in Good
    <2> SUFFICES ASSUME NEW n \in Nat, n \in Good,
                        NEW T \in SUBSET S, Cardinality(T) <= n + 1
                 PROVE  T \in G
      OBVIOUS
    <2>1. CASE T = {}
      BY <2>1
    <2>2. CASE T # {}
      <3>1. PICK x : x \in T
        BY <2>2
      <3>2. PICK U : U = T \ {x}
        OBVIOUS
      <3>3. Cardinality(U) <= n
        BY <1>0, <3>1, <3>2, Smaller
      <3>4. U \in SUBSET S /\ U \in G
        BY <3>2, <3>3
      <3>5. x \in S \ U /\ U \cup {x} = T
        BY <3>1, <3>2
      <3> QED BY <3>4, <3>5
    <2> QED BY <2>1, <2>2
  <1>3. Cardinality(S) \in Good
    <2> HIDE DEF Good
    <2> QED BY <1>1, <1>2, SetInduction, FS_CardinalityType
  <1> QED BY <1>0, <1>3

(* Two disjoint sets are summed one after the other. *)
LEMMA SumUnion ==
  ASSUME NEW A, IsFiniteSet(A), NEW B, IsFiniteSet(B), A \cap B = {},
         NEW g, \A x \in A \cup B : g[x] \in Int
  PROVE  SumFunctionOnSet(g, A \cup B) = SumFunctionOnSet(g, A) + SumFunctionOnSet(g, B)
  <1> DEFINE Splits(T) == SumFunctionOnSet(g, A \cup T)
                            = SumFunctionOnSet(g, A) + SumFunctionOnSet(g, T)
             G == {T \in SUBSET B : Splits(T)}
  <1>0. \A T \in SUBSET B : /\ IsFiniteSet(T) /\ IsFiniteSet(A \cup T)
                            /\ SumFunctionOnSet(g, T) \in Int
                            /\ SumFunctionOnSet(g, A \cup T) \in Int
    <2> TAKE T \in SUBSET B
    <2>1. IsFiniteSet(T) /\ IsFiniteSet(A \cup T)
      BY FS_Subset, FS_Union
    <2>2. \A x \in A \cup T : g[x] \in Int
      OBVIOUS
    <2> QED BY <2>1, <2>2, SumType
  <1>a. SumFunctionOnSet(g, A) \in Int
    BY SumType
  <1>1. {} \in G
    <2>1. A \cup {} = A
      OBVIOUS
    <2> QED BY <1>a, <2>1, SumEmpty
  <1>2. \A T \in SUBSET B : \A x \in B \ T : T \in G => T \cup {x} \in G
    <2> SUFFICES ASSUME NEW T \in SUBSET B, NEW x \in B \ T, T \in G PROVE T \cup {x} \in G
      OBVIOUS
    <2>1. PICK U : U = A \cup T
      OBVIOUS
    <2>2. x \notin U /\ A \cup (T \cup {x}) = U \cup {x} /\ IsFiniteSet(U)
          /\ \A y \in U : g[y] \in Int
      BY <1>0, <2>1
    <2>3. g[x] \in Int /\ x \notin T /\ IsFiniteSet(T) /\ \A y \in T : g[y] \in Int
      BY <1>0
    <2>4. SumFunctionOnSet(g, U \cup {x}) = g[x] + SumFunctionOnSet(g, U)
      BY <2>2, <2>3, SumAdd
    <2>5. SumFunctionOnSet(g, T \cup {x}) = g[x] + SumFunctionOnSet(g, T)
      BY <2>3, SumAdd
    <2>6. SumFunctionOnSet(g, U) = SumFunctionOnSet(g, A) + SumFunctionOnSet(g, T)
      BY <2>1
    <2>7. SumFunctionOnSet(g, T) \in Int
      BY <1>0
    <2>8. SumFunctionOnSet(g, A \cup (T \cup {x})) = SumFunctionOnSet(g, U \cup {x})
      BY <2>2, Zenon
    <2>9. Splits(T \cup {x})
      <3> HIDE DEF G
      <3> QED BY <1>a, <2>3, <2>4, <2>5, <2>6, <2>7, <2>8
    <2> QED BY <2>9
  <1>3. B \in G
    <2> HIDE DEF G
    <2> QED BY <1>1, <1>2, SubsetInduction
  <1> QED BY <1>3

(* The elements may be renamed. *)
LEMMA SumReindex ==
  ASSUME NEW S, IsFiniteSet(S), NEW f, \A x, y \in S : f[x] = f[y] => x = y,
         NEW g, NEW k, \A x \in S : k[x] \in Int /\ g[f[x]] = k[x]
  PROVE  SumFunctionOnSet(g, {f[x] : x \in S}) = SumFunctionOnSet(k, S)
  <1> DEFINE Image(T) == {f[x] : x \in T}
             G == {T \in SUBSET S : /\ IsFiniteSet(Image(T))
                                    /\ SumFunctionOnSet(g, Image(T)) = SumFunctionOnSet(k, T)}
  <1>1. {} \in G
    <2>1. Image({}) = {}
      OBVIOUS
    <2> QED BY <2>1, SumEmpty, FS_EmptySet
  <1>2. \A T \in SUBSET S : \A x \in S \ T : T \in G => T \cup {x} \in G
    <2> SUFFICES ASSUME NEW T \in SUBSET S, NEW x \in S \ T, T \in G PROVE T \cup {x} \in G
      OBVIOUS
    <2>1. Image(T \cup {x}) = Image(T) \cup {f[x]} /\ f[x] \notin Image(T)
      OBVIOUS
    <2>2. g[f[x]] = k[x] /\ k[x] \in Int /\ \A y \in Image(T) : g[y] \in Int
      OBVIOUS
    <2>3. IsFiniteSet(T) /\ \A y \in T : k[y] \in Int
      BY FS_Subset
    <2>4. IsFiniteSet(Image(T)) /\ SumFunctionOnSet(g, Image(T)) = SumFunctionOnSet(k, T)
      OBVIOUS
    <2> HIDE DEF Image, G
    <2>5. /\ IsFiniteSet(Image(T) \cup {f[x]})
          /\ SumFunctionOnSet(g, Image(T) \cup {f[x]}) = g[f[x]] + SumFunctionOnSet(g, Image(T))
      BY <2>1, <2>2, <2>4, SumAdd, FS_AddElement
    <2>6. SumFunctionOnSet(k, T \cup {x}) = k[x] + SumFunctionOnSet(k, T)
      BY <2>2, <2>3, SumAdd
    <2>7. /\ IsFiniteSet(Image(T \cup {x}))
          /\ SumFunctionOnSet(g, Image(T \cup {x})) = SumFunctionOnSet(k, T \cup {x})
      BY <2>1, <2>2, <2>4, <2>5, <2>6
    <2> QED BY <2>7 DEF G
  <1>3. S \in G
    <2> HIDE DEF G
    <2> QED BY <1>1, <1>2, SubsetInduction
  <1> QED BY <1>3

(* A sum of smaller summands is smaller. *)
LEMMA SumMonotone ==
  ASSUME NEW S, IsFiniteSet(S), NEW g, NEW k,
         \A x \in S : g[x] \in Int /\ k[x] \in Int /\ g[x] <= k[x]
  PROVE  SumFunctionOnSet(g, S) <= SumFunctionOnSet(k, S)
  <1> DEFINE Below(T) == SumFunctionOnSet(g, T) <= SumFunctionOnSet(k, T)
             G == {T \in SUBSET S : Below(T)}
  <1>1. {} \in G
    BY SumEmpty
  <1>2. \A T \in SUBSET S : \A x \in S \ T : T \in G => T \cup {x} \in G
    <2> SUFFICES ASSUME NEW T \in SUBSET S, NEW x \in S \ T, T \in G PROVE T \cup {x} \in G
      OBVIOUS
    <2>1. IsFiniteSet(T) /\ \A y \in T : g[y] \in Int /\ k[y] \in Int
      BY FS_Subset
    <2>2. g[x] \in Int /\ k[x] \in Int /\ g[x] <= k[x] /\ Below(T)
      OBVIOUS
    <2>3. SumFunctionOnSet(g, T) \in Int /\ SumFunctionOnSet(k, T) \in Int
      BY <2>1, SumType
    <2>4. SumFunctionOnSet(g, T \cup {x}) = g[x] + SumFunctionOnSet(g, T)
      BY <2>1, <2>2, SumAdd
    <2>5. SumFunctionOnSet(k, T \cup {x}) = k[x] + SumFunctionOnSet(k, T)
      BY <2>1, <2>2, SumAdd
    <2>6. Below(T \cup {x})
      <3> HIDE DEF G
      <3> QED BY <2>2, <2>3, <2>4, <2>5
    <2> QED BY <2>6
  <1>3. S \in G
    <2> HIDE DEF G
    <2> QED BY <1>1, <1>2, SubsetInduction
  <1> QED BY <1>3

(* What contributes nothing may be left out. *)
LEMMA SumSupport ==
  ASSUME NEW S, IsFiniteSet(S), NEW A \in SUBSET S, NEW g,
         \A x \in S : g[x] \in Int, \A x \in S \ A : g[x] = 0
  PROVE  SumFunctionOnSet(g, S) = SumFunctionOnSet(g, A)
  <1> DEFINE G == {T \in SUBSET (S \ A) : SumFunctionOnSet(g, T) = 0}
  <1>0. PICK B : B = S \ A
    OBVIOUS
  <1>1. IsFiniteSet(A) /\ IsFiniteSet(B) /\ A \cap B = {} /\ A \cup B = S
    BY <1>0, FS_Subset
  <1>2. {} \in G
    BY SumEmpty
  <1>3. \A T \in SUBSET B : \A x \in B \ T : T \in G => T \cup {x} \in G
    <2> SUFFICES ASSUME NEW T \in SUBSET B, NEW x \in B \ T, T \in G PROVE T \cup {x} \in G
      OBVIOUS
    <2>1. IsFiniteSet(T) /\ \A y \in T : g[y] \in Int
      BY <1>0, <1>1, FS_Subset
    <2>2. g[x] = 0 /\ SumFunctionOnSet(g, T) = 0 /\ x \notin T
      BY <1>0
    <2>3. SumFunctionOnSet(g, T \cup {x}) = g[x] + SumFunctionOnSet(g, T)
      BY <2>1, <2>2, SumAdd
    <2>4. SumFunctionOnSet(g, T \cup {x}) = 0
      BY <2>2, <2>3
    <2> QED BY <1>0, <2>4
  <1>4. B \in G
    <2> HIDE DEF G
    <2> QED BY <1>1, <1>2, <1>3, SubsetInduction
  <1>5. SumFunctionOnSet(g, A) \in Int
    BY <1>1, SumType
  <1>6. SumFunctionOnSet(g, A \cup B) = SumFunctionOnSet(g, A) + SumFunctionOnSet(g, B)
    BY <1>1, SumUnion
  <1>7. SumFunctionOnSet(g, A \cup B) = SumFunctionOnSet(g, S)
    BY <1>1, Zenon
  <1> QED BY <1>4, <1>5, <1>6, <1>7

(* The elements of the parts of the indices S. *)
AllOf(part, S) == UNION {part[n] : n \in S}

(* A sum over the union of disjoint parts is the sum of the parts' sums. *)
LEMMA SumPartition ==
  ASSUME NEW S, IsFiniteSet(S), NEW part, \A n \in S : IsFiniteSet(part[n]),
         \A m, n \in S : m # n => part[m] \cap part[n] = {},
         NEW g, \A n \in S : \A x \in part[n] : g[x] \in Int,
         NEW k, \A n \in S : k[n] = SumFunctionOnSet(g, part[n])
  PROVE  /\ IsFiniteSet(AllOf(part, S))
         /\ SumFunctionOnSet(g, AllOf(part, S)) = SumFunctionOnSet(k, S)
  <1> DEFINE All(T) == AllOf(part, T)
             G == {T \in SUBSET S : /\ IsFiniteSet(All(T))
                                    /\ SumFunctionOnSet(g, All(T)) = SumFunctionOnSet(k, T)}
  <1>0. \A n \in S : k[n] \in Int
    BY SumType
  <1>1. {} \in G
    <2>1. All({}) = {}
      BY DEF AllOf
    <2> QED BY <2>1, SumEmpty, FS_EmptySet
  <1>2. \A T \in SUBSET S : \A x \in S \ T : T \in G => T \cup {x} \in G
    <2> SUFFICES ASSUME NEW T \in SUBSET S, NEW x \in S \ T, T \in G PROVE T \cup {x} \in G
      OBVIOUS
    <2>1. All(T \cup {x}) = All(T) \cup part[x]
      BY DEF AllOf
    <2>2. All(T) \cap part[x] = {}
      BY DEF AllOf
    <2>3. \A y \in All(T) \cup part[x] : g[y] \in Int
      BY DEF AllOf
    <2>4. IsFiniteSet(T) /\ (\A y \in T : k[y] \in Int) /\ k[x] \in Int
      BY <1>0, FS_Subset
    <2>5. /\ IsFiniteSet(All(T)) /\ SumFunctionOnSet(g, All(T)) = SumFunctionOnSet(k, T)
          /\ IsFiniteSet(part[x]) /\ k[x] = SumFunctionOnSet(g, part[x])
      OBVIOUS
    <2> HIDE DEF All, G
    <2>6. /\ IsFiniteSet(All(T) \cup part[x])
          /\ SumFunctionOnSet(g, All(T) \cup part[x])
               = SumFunctionOnSet(g, All(T)) + SumFunctionOnSet(g, part[x])
      <3>1. PICK L, P : L = All(T) /\ P = part[x]
        OBVIOUS
      <3>2. IsFiniteSet(L) /\ IsFiniteSet(P) /\ L \cap P = {} /\ \A y \in L \cup P : g[y] \in Int
        BY <2>2, <2>3, <2>5, <3>1
      <3>3. SumFunctionOnSet(g, L \cup P) = SumFunctionOnSet(g, L) + SumFunctionOnSet(g, P)
        BY <3>2, SumUnion
      <3>4. IsFiniteSet(L \cup P)
        BY <3>2, FS_Union
      <3> QED BY <3>1, <3>3, <3>4, Zenon
    <2>7. SumFunctionOnSet(k, T \cup {x}) = k[x] + SumFunctionOnSet(k, T)
      BY <2>4, SumAdd
    <2>8. SumFunctionOnSet(k, T) \in Int
      BY <2>4, SumType
    <2>9. /\ IsFiniteSet(All(T \cup {x}))
          /\ SumFunctionOnSet(g, All(T \cup {x})) = SumFunctionOnSet(g, All(T) \cup part[x])
      BY <2>1, <2>6, Zenon
    <2>10. SumFunctionOnSet(g, All(T \cup {x})) = SumFunctionOnSet(k, T \cup {x})
      BY <2>4, <2>5, <2>6, <2>7, <2>8, <2>9
    <2> QED BY <2>9, <2>10 DEF G
  <1>3. S \in G
    <2> HIDE DEF G
    <2> QED BY <1>1, <1>2, SubsetInduction
  <1> QED BY <1>3

=============================================================================
